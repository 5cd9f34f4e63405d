SPECIFICATION Spec
CONSTANTS
  HealthcheckPort = TRUE
  InitialDevicesTimeout = 2
  FailureThreshold = 2
  FlagSettings <- Everything
  MaxTroubles = 2
  Claims = {c1, c2}
  Devices <- MCDevices
  Nodes <- MCNodes
  Counters <- MCCounters
  Hosts <- OneHost
  PublicationOf <- MCPublicationOf
  None = None
INVARIANTS
  AlwaysExclusive
