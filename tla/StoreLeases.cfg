CONSTANTS
  Clients = {c1, c2}
  Nodes = {n1}
  Keys = {k1, k2, k3, k4}
  RunTargets = {}
  NodeTargets = {}
  Ttls = {1, 2}
  Classes = {}
  Reasons = {"none"}
  MaxTime = 2
  RetryLeases = FALSE
  Failures = {"crash", "open"}
  None = None
SPECIFICATION Spec
SYMMETRY Symmetric
INVARIANTS LeaseMutex AckedReadable
PROPERTIES LeaseStable
CHECK_DEADLOCK FALSE
