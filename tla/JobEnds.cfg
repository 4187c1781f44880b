CONSTANTS
  eod = eod
  repair = repair
  radar = radar
  w1 = w1
  w2 = w2
  c1 = c1
  c2 = c2
  control = control
  NoJob = NoJob
  Jobs = {eod, repair, radar}
  Eod = {eod}
  Repairs = {repair}
  Yielding = {radar}
  Periods = 2
  Workers = {w1}
  Clients = {c1, c2}
  Control = control
  MaxPauses = 0
  MaxRestarts = 0
  MaxRearms = 0
  MaxFaults = 0
SPECIFICATION FairSpec
CHECK_DEADLOCK FALSE
PROPERTIES
  EveryJobEnds
