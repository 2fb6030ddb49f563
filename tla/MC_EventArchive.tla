-------------------------- MODULE MC_EventArchive --------------------------
(* Model-checking instance of EventArchive: pushers and events are model    *)
(* values.                                                                 *)
EXTENDS EventArchive, TLC

CONSTANTS p1, e1, e2, e3, e0

OnePusher  == {p1}
ThreeEvents == {e1, e2, e3}
=============================================================================
