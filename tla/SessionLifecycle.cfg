CONSTANTS
  o1 = o1
  Stoppers = {o1}
  MaxLogins = 3
  MaxFailures = 1
SPECIFICATION FairSpec
CHECK_DEADLOCK FALSE
INVARIANTS
  OneSession
  OneLateLogin
PROPERTIES
  KeepsPromise
  StopLetsGo
  LossIsRepaired
