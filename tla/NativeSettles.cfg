SPECIFICATION FairSpec
CONSTANTS
  Clients = {"native"}
  Nodes = {"a", "b"}
  Keys <- NativeKeys
  RunTargets = {"running", "paused", "awaiting_approval", "completed", "failed", "cancelled"}
  NodeTargets = {"running", "awaiting_approval", "succeeded", "failed", "cancelled"}
  Ttls = {1}
  Classes = {"transient"}
  Reasons = {"a", "b", "none", "torn", "deps", "contract", "lease", "conflict", "refused"}
  MaxTime = 0
  None = None
  Procs = {p1}
  Order <- ChainOrder
  Deps <- ChainDeps
  NeedApproval = {"b"}
  Parallel = FALSE
  Outcomes = {"succeeded", "skipped", "failed", "contract"}
  MaxTries = 2
  LeaseTtl = 1
  OperatorMoves = {"approve"}
  MaxMoves = 2
  MaxLeases = 2
  MaxCrashes = 1
PROPERTY RunSettles
CHECK_DEADLOCK FALSE
