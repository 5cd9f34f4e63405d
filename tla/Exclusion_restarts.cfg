SPECIFICATION FairSpec
CONSTANTS
  HealthcheckPort = TRUE
  InitialDevicesTimeout = 2
  FailureThreshold = 2
  FlagSettings <- AllOrNothing
  MaxTroubles = 2
  Claims = {c1, c2}
  Devices <- MCDevices
  Nodes <- MCNodes
  Counters <- MCCounters
  Hosts <- EitherHost
  PublicationOf <- MCPublicationOf
  None = None
INVARIANTS
  TypeOK
  PoolIsDeclared
  Exclusive
PROPERTIES
  ShutdownIsRestart
  EventuallyRuns
