CONSTANTS
  Clients = {p1}
  Nodes = {"claim", "execute", "verify", "learn"}
  Keys <- HarnessKeys
  RunTargets = {"running", "paused", "awaiting_approval", "completed", "failed", "cancelled"}
  NodeTargets = {"running", "succeeded", "failed"}
  Ttls = {}
  Classes = {}
  Reasons = {"none", "proof", "policy", "error", "budget", "noop"}
  MaxTime = 0
  None = None
  PreNodes <- OnePre
  PostNodes <- TwoPost
  StopReasons = {"budget", "noop"}
  Invocations = {"fresh", "resume"}
  OperatorMoves = {"paused", "awaiting_approval"}
  MaxMoves = 1
  MaxAttempts = 2
  MaxCrashes = 1
SPECIFICATION FairSpec
INVARIANTS TypeOK ReportHonest
PROPERTIES AttemptPreserved RunSettles
