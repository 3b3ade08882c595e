CONSTANTS
  Files = {"a", "b", "c"}
  Versions = {0}
  Tracked = {"b"}
  Ignored = {"c"}
  Protected = {"b"}
  Allowed = {}
  Touches = {"t1"}
  Heads = {"e1"}
  Costs = {1}
  Budget = 3
  MaxIterations = 2
  NoChangeLimit = 2
  DuplicateLimit = 0
  ErrorLimit = 3
  NoProgressWindow = 3
  EscalationThreshold = 2
  Isolate = FALSE
  Probes = {TRUE}
  Interrupts = {"aborted"}
  AgentErrors = {"agent-error"}
  Saves = {TRUE, FALSE}
  Resumes = {FALSE}
  MaxCrashes = 0
  MaxInvocations = 1
  Absent = Absent
  None = None
SPECIFICATION Spec
INVARIANTS TypeOK NoVacuousWin NoopsBounded 
CHECK_DEADLOCK FALSE
