SPECIFICATION LifecycleSpec
CONSTANTS
  HealthcheckPort = TRUE
  InitialDevicesTimeout = 30
  FailureThreshold = 3
  FlagSettings <- Options
  MaxTroubles = 0
PROPERTIES
  PatientStart
