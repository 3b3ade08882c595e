CONSTANTS
  Clients = {c1, c2}
  Nodes = {n1}
  Keys = {k1, k2, k3, k4}
  RunTargets = {"running", "awaiting_approval", "completed", "cancelled"}
  NodeTargets = {"running", "succeeded", "cancelled"}
  Ttls = {}
  Classes = {"transient"}
  Reasons = {"none"}
  MaxTime = 0
  RetryLeases = TRUE
  Failures = {"crash", "open", "torn", "unterminated"}
  None = None
SPECIFICATION Spec
SYMMETRY Symmetric
INVARIANTS TypeOK KeyOnce CheckpointCurrent ReplayAccepts CancelSettles
PROPERTIES TerminalFinal ImplementsLedger
CHECK_DEADLOCK FALSE
