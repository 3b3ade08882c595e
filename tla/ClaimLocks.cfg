SPECIFICATION FairSpec
CONSTANTS
  Procs = {p1, p2}
  Owners = {o1, o2}
  Paths = {"a"}
  Ttls = {2}
  Ops = {"acquire", "release", "status", "check"}
  StaleAfter = 1
  MaxTime = 4
  MaxRequests = 3
  MaxCrashes = 1
  None = None
INVARIANTS
  TypeOK
  ExclusiveUnlessBroken
  GrantsKeptUnlessBroken
  OneInsideUnlessBroken
PROPERTIES
  ActsAsRegister
  EveryoneServed
CHECK_DEADLOCK FALSE
