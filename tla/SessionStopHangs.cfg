CONSTANTS
  o1 = o1
  Stoppers = {o1}
  MaxLogins = 1
  MaxFailures = 0
SPECIFICATION FairSpec
CHECK_DEADLOCK FALSE
PROPERTIES
  StopCompletes
