---------------------------- MODULE ControlEvents ----------------------------
(***************************************************************************)
(* ResourceManager::controlEvent_t (src/include/bbque/resource_manager.h,  *)
(* lines 88-101).  The ordinal of an event kind is its priority: the       *)
(* control loop scans from BBQ_ABORT down to EXC_START.                    *)
(***************************************************************************)
EXTENDS Naturals

EXC_START == 0
EXC_STOP  == 1
BBQ_PLAT  == 2
BBQ_OPTS  == 3
BBQ_USR1  == 4
BBQ_USR2  == 5
BBQ_EXIT  == 6
BBQ_ABORT == 7
EVENTS_COUNT == 8

Events == 0 .. EVENTS_COUNT - 1
=============================================================================
