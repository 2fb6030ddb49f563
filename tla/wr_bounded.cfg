\* TerminateWorkers returns with a hung worker and late registrations.
CONSTANTS
  k1 = k1
  k2 = k2
  k3 = k3
  Workers <- ThreeWorkers
  Unresponsive <- OneHung
SPECIFICATION WRSpec
INVARIANT WRTypeOK
PROPERTY TerminationBounded
