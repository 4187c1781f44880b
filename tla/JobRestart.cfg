CONSTANTS
  eod = eod
  repair = repair
  radar = radar
  w1 = w1
  w2 = w2
  c1 = c1
  c2 = c2
  control = control
  NoJob = NoJob
  Jobs = {repair, radar}
  Eod = {}
  Repairs = {repair}
  Yielding = {radar}
  Periods = 2
  Workers = {w1}
  Clients = {c1}
  Control = control
  MaxPauses = 1
  MaxRestarts = 1
  MaxRearms = 1
  MaxFaults = 1
SPECIFICATION Spec
CHECK_DEADLOCK FALSE
INVARIANTS
  TypeOK
  PreparedIsQuiet
  OneFuture
  NoPeriodRepeated
  PreparedLosesNothing
