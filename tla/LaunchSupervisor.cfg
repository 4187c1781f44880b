CONSTANTS
  MaxCrashes = 1
  MaxLaunches = 2
SPECIFICATION FairSpec
CHECK_DEADLOCK FALSE
INVARIANTS
  StoppedMeansReleased
PROPERTIES
  EndIsFinal
  SpawnsAlone
  StopEndsSupervision
