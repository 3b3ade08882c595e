CONSTANTS
  Clients = {p1, p2}
  Nodes = {"claim", "execute", "verify", "learn"}
  Keys <- HarnessKeys
  RunTargets = {"running", "paused", "awaiting_approval", "completed", "failed", "cancelled"}
  NodeTargets = {"running", "succeeded", "failed"}
  Ttls = {}
  Classes = {}
  Reasons = {"none", "proof", "policy", "error", "budget", "noop"}
  MaxTime = 0
  None = None
  PreNodes <- OnePre
  PostNodes <- TwoPost
  StopReasons = {"budget", "noop"}
  Invocations = {"fresh"}
  OperatorMoves = {}
  MaxMoves = 0
  MaxAttempts = 1
  MaxCrashes = 0
SPECIFICATION Spec
SYMMETRY Symmetric
INVARIANTS SingleExecution
