---------------------------- MODULE EventArchive ----------------------------
(***************************************************************************)
(* The event archive of EventManager (src/bbque/em/event_manager.cc): a   *)
(* text file holding one serialized EventWrapper.  Push reads the whole    *)
(* archive back (Deserialize), adds one event, and writes the whole        *)
(* archive again (Serialize); nothing serializes callers.  The archive is  *)
(* abstracted to the set of events it holds.  Opening the std::ofstream    *)
(* truncates the file before the text archive is written, so a reader in   *)
(* between sees an empty file, which boost's text_iarchive cannot parse.   *)
(* Serialize may fail to open the file (nothing is written) or throw while *)
(* writing after the truncation (the file is left unreadable); both are   *)
(* caught and only logged, and Push returns as usual.                      *)
(***************************************************************************)
EXTENDS FiniteSets

CONSTANTS
  Pushers,       \* threads that call EventManager::Push
  EventIds,      \* the events they push, each at most once
  StartEvent,    \* the event written by InitializeArchive
  ReadMayFail,   \* Deserialize may fail on a non-empty archive (I/O error)
  WriteMayFail   \* Serialize may fail to open or to write (I/O error)

ASSUME StartEvent \notin EventIds

VARIABLES
  archive,       \* events in the archive file
  initialized,   \* InitializeArchive has run (ResourceManager's constructor)
  push_pc,       \* where each pusher is in Push
  push_evt,      \* the event it pushes
  ew,            \* its local EventWrapper
  \* history variable, used only by the properties
  pushed,        \* events whose Push returned with no error logged
  failed         \* events whose Push logged an error on writing

ea_vars == <<archive, initialized, push_pc, push_evt, ew, pushed, failed>>

NoEvent == StartEvent

EAInit ==
  /\ archive = {}
  /\ initialized = FALSE
  /\ push_pc = [p \in Pushers |-> "idle"]
  /\ push_evt = [p \in Pushers |-> NoEvent]
  /\ ew = [p \in Pushers |-> {}]
  /\ pushed = {}
  /\ failed = {}

\* The archive as Deserialize returns it: an empty or unreadable file makes
\* text_iarchive throw, which is caught and yields an empty EventWrapper.
DeserializeResults ==
  IF archive = {} THEN {{}}
  ELSE IF ReadMayFail THEN {archive, {}} ELSE {archive}

\* The constructor creates the empty file and InitializeArchive serializes
\* a wrapper holding the start event; Push callers come later.
InitializeArchive ==
  /\ ~initialized
  /\ archive' = {StartEvent}
  /\ initialized' = TRUE
  /\ UNCHANGED <<push_pc, push_evt, ew, pushed, failed>>

\* Push: timestamp the event and Deserialize the archive.
PushDeserialize(p, e) ==
  /\ initialized
  /\ push_pc[p] = "idle"
  /\ e \notin pushed \cup failed \cup {push_evt[q] : q \in Pushers}
  /\ \E r \in DeserializeResults : ew' = [ew EXCEPT ![p] = r]
  /\ push_evt' = [push_evt EXCEPT ![p] = e]
  /\ push_pc' = [push_pc EXCEPT ![p] = "open"]
  /\ UNCHANGED <<archive, initialized, pushed, failed>>

\* Push returns; its event counts as stored only if no error was logged.
PushReturn(p, ok) ==
  /\ pushed' = IF ok THEN pushed \cup {push_evt[p]} ELSE pushed
  /\ failed' = IF ok THEN failed ELSE failed \cup {push_evt[p]}
  /\ push_pc' = [push_pc EXCEPT ![p] = "idle"]
  /\ push_evt' = [push_evt EXCEPT ![p] = NoEvent]
  /\ ew' = [ew EXCEPT ![p] = {}]

\* ew.AddEvent(event), then Serialize opens the std::ofstream, truncating
\* the file; if ofs is not good, "Cannot open archive for writing" is
\* logged and Push returns with the file untouched.
SerializeOpen(p) ==
  /\ push_pc[p] = "open"
  /\ \/ /\ archive' = {}
        /\ ew' = [ew EXCEPT ![p] = ew[p] \cup {push_evt[p]}]
        /\ push_pc' = [push_pc EXCEPT ![p] = "write"]
        /\ UNCHANGED <<push_evt, pushed, failed>>
     \/ /\ WriteMayFail
        /\ PushReturn(p, FALSE)
        /\ UNCHANGED archive
  /\ UNCHANGED initialized

\* oa << ew writes the wrapper, and Push returns; a throw is caught with
\* "Cannot write the archive", leaving the truncated file unreadable.
SerializeWrite(p) ==
  /\ push_pc[p] = "write"
  /\ \/ /\ archive' = ew[p]
        /\ PushReturn(p, TRUE)
     \/ /\ WriteMayFail
        /\ archive' = {}
        /\ PushReturn(p, FALSE)
  /\ UNCHANGED initialized

\* Every event has been pushed.
AllPushed ==
  /\ pushed \cup failed = EventIds
  /\ \A p \in Pushers : push_pc[p] = "idle"
  /\ UNCHANGED ea_vars

EANext ==
  \/ InitializeArchive
  \/ \E p \in Pushers, e \in EventIds : PushDeserialize(p, e)
  \/ \E p \in Pushers : SerializeOpen(p) \/ SerializeWrite(p)
  \/ AllPushed

EASpec == EAInit /\ [][EANext]_ea_vars

-----------------------------------------------------------------------------
(* Properties.                                                             *)

\* Whenever no Push is writing, the archive holds the start event and every
\* event whose Push returned without logging an error: a failure in one
\* Push (its read, its open or its write) costs at most that Push's own
\* event, never what earlier calls stored.
ArchiveKeepsPushed ==
  (initialized /\ \A p \in Pushers : push_pc[p] # "write")
     => pushed \cup {StartEvent} \subseteq archive
=============================================================================
