---------------------------- MODULE CommandHandler ----------------------------
(***************************************************************************)
(* The text commands of ResourceManager (src/bbque/resource_manager.cc:    *)
(* the registrations in the constructor and CommandsCb).  A command name   *)
(* is abstracted to the character CommandsCb switches on (the one after    *)
(* "bq.rm.") and the suffix it compares with strcmp.  A status dump only   *)
(* prints, so its effect is its kind; the one command that changes state   *)
(* calls NotifyEvent(BBQ_OPTS), which ResourceManager runs as a notifier.  *)
(***************************************************************************)
EXTENDS ControlEvents, Integers

Cmd(suffix, letter) == [suffix |-> suffix, letter |-> letter]

\* CMD_STATUS_EXC ... CMD_OPT_FORCE, registered with the CommandManager.
RegisteredCommands ==
  { Cmd(".exc_status", "e"), Cmd(".que_status", "q"), Cmd(".res_status", "r"),
    Cmd(".syn_status", "s"), Cmd(".opt_force", "o") }

\* What a command did: the status it dumped, the events it notified, and
\* its return value.
Outcome(dump, notify, ret) == [dump |-> dump, notify |-> notify, ret |-> ret]

\* The cases that dump a status: the letter selects the case, and a suffix
\* other than the one registered for it sets exit_cmd_not_found.
DumpOf == [e |-> "EXCs", q |-> "Queues", r |-> "Resources", s |-> "Sync"]
ExpectedSuffix ==
  [e |-> ".exc_status", q |-> ".que_status", r |-> ".res_status",
   s |-> ".syn_status"]

\* CommandsCb: the 'o' case notifies without comparing the name; a letter
\* with no case falls out of the switch with exit_cmd_not_found false.
CommandsCb(cmd) ==
  CASE cmd.letter \in DOMAIN DumpOf ->
         IF cmd.suffix = ExpectedSuffix[cmd.letter]
           THEN Outcome(DumpOf[cmd.letter], {}, 0)
           ELSE Outcome("none", {}, -1)
    [] cmd.letter = "o" -> Outcome("none", {BBQ_OPTS}, 0)
    [] OTHER -> Outcome("none", {}, 0)
=============================================================================
