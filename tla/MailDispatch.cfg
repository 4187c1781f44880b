CONSTANTS
  r1 = r1
  r2 = r2
  p1 = p1
  Runs = {r1, r2}
  Processors = {p1}
  MaxAttempts = 2
  MaxFaults = 1
  MaxDeliveries = 2
SPECIFICATION FairSpec
CHECK_DEADLOCK FALSE
INVARIANTS
  OneMailPerRun
  StatusIsTrue
PROPERTIES
  EveryRunEnds
