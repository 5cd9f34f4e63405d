SPECIFICATION Spec
CONSTANTS
  Hosts <- AllHosts
  RevCMeshes <- AllMeshes
  TrayDevices = TRUE
  MeshDevices = TRUE
  MaxCountersPerSet = 32
  MaxSetsPerDevice = 2
  MaxDevices = 128
  MaxDevicesWithCounters = 64
  MaxSetsPerSlice = 8
  MaxUpdates = 1
INVARIANTS
  TypeOK
  EveryAsicOnce
  CountersDeclareOverlap
  CountersAreWellFormed
  TraysAreKept
  SlicesFit
  MeshesAreCabled
  MeshesAreRectangles
CHECK_DEADLOCK FALSE
