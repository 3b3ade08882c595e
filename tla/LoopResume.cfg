CONSTANTS
  Files = {"a"}
  Versions = {0}
  Tracked = {"a"}
  Ignored = {}
  Protected = {}
  Allowed = {}
  Touches = {"t1"}
  Heads = {"e1", "e2"}
  Costs = {0, 1}
  Budget = 2
  MaxIterations = 3
  NoChangeLimit = 2
  DuplicateLimit = 0
  ErrorLimit = 2
  NoProgressWindow = 3
  EscalationThreshold = 2
  Isolate = FALSE
  Probes = {TRUE}
  Interrupts = {"wall-time"}
  AgentErrors = {"agent-unavailable"}
  Saves = {TRUE}
  Resumes = {TRUE, FALSE}
  MaxCrashes = 1
  MaxInvocations = 3
  Absent = Absent
  None = None
SPECIFICATION Spec
INVARIANTS SpendBounded ErrorsBounded StopMatchesCheckpoint
CHECK_DEADLOCK FALSE
