SPECIFICATION Spec
CONSTANTS
  Clients = {"native"}
  Nodes = {"a", "b", "c"}
  Keys <- NativeKeys
  RunTargets = {"running", "paused", "awaiting_approval", "completed", "failed", "cancelled"}
  NodeTargets = {"running", "awaiting_approval", "succeeded", "failed", "cancelled"}
  Ttls = {1}
  Classes = {"transient"}
  Reasons = {"a", "b", "c", "none", "torn", "deps", "contract", "lease", "conflict", "refused"}
  MaxTime = 1
  None = None
  Procs = {p1}
  Order <- ForkOrder
  Deps <- ForkDeps
  NeedApproval = {"c"}
  Parallel = TRUE
  Outcomes = {"succeeded", "skipped", "failed", "contract"}
  MaxTries = 2
  LeaseTtl = 1
  OperatorMoves = {"approve"}
  MaxMoves = 2
  MaxLeases = 2
  MaxCrashes = 2
INVARIANTS
  TypeOK
  CompletedSound
  FailureOutranks
  RetriesBounded
PROPERTIES
  DependenciesFirst
  ApprovedFirst
  NeverRerun
CHECK_DEADLOCK FALSE
