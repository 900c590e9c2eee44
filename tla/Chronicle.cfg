CONSTANTS
  camera = camera
  lidar = lidar
  Producers <- MCProducers
  RollRecords = 2
  TimelineCapacity = 4
  MayCrash = TRUE
  MaxRecords = 3
SPECIFICATION Spec
INVARIANTS CausalOrder NothingLost CrashKeepsPrefix
PROPERTIES KeepsLog ReplayEnds
CHECK_DEADLOCK FALSE
