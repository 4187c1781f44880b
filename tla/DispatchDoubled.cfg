CONSTANTS
  r1 = r1
  p1 = p1
  p2 = p2
  Runs = {r1}
  Processors = {p1, p2}
  MaxAttempts = 1
  MaxFaults = 0
  MaxDeliveries = 2
SPECIFICATION Spec
CHECK_DEADLOCK FALSE
INVARIANTS
  OneMailPerRun
