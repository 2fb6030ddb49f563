\* A worker that registers during the last wait is never asked to terminate.
CONSTANTS
  k1 = k1
  k2 = k2
  k3 = k3
  Workers <- ThreeWorkers
  Unresponsive <- OneHung
SPECIFICATION WRSpec
PROPERTY WorkersAskedToTerminate
