CONSTANTS
  s1 = s1
  NoTarget = NoTarget
  Strategies = {s1}
  Quantity = 2
  MaxRequests = 2
  MaxExits = 3
  MaxFailures = 1
  MaxCrashes = 1
SPECIFICATION Spec
INVARIANTS
  TypeOK
  KeepsTarget
  ReplaysCleanly
  ClaimIsOwned
PROPERTIES
  ExitIsPursued
  EntryIsCancelled
