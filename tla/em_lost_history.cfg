\* One thread pushing three events, reads succeeding, and writes that may fail as Serialize's catch and its ofs.good() test allow.
CONSTANTS
  p1 = p1
  e1 = e1
  e2 = e2
  e3 = e3
  e0 = e0
  Pushers <- OnePusher
  EventIds <- ThreeEvents
  StartEvent = e0
  ReadMayFail = FALSE
  WriteMayFail = TRUE
SPECIFICATION EASpec
INVARIANT ArchiveKeepsPushed
