SPECIFICATION Spec
CONSTANTS
  Topologies = {t1, t2, t3}
  Unusable = Unusable
  ResourcesOf <- MCResourcesOf
  FirstSnapshotTimeout = TRUE
  ReconnectInitial = 1
  ReconnectMax = 3
  MaxWire = 2
  Limit <- LateTimer
  None = None
  t1 = t1
  t2 = t2
  t3 = t3
  r1 = r1
  r2 = r2
INVARIANTS
  StopsOnlyForGood
CHECK_DEADLOCK FALSE
