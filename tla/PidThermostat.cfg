\* A thermostat through sensors, users, tests, hand-overs, tuning and restarts.
SPECIFICATION FairSpec
CONSTANTS
  NaN = NaN
  Temperatures = {19, 23}
  Humidities = {60}
  DewPoint <- MCDewPoint
  Targets = {20, 22}
  Config <- MCConfig
  Writes <- MCWrites
  MinPeriod = 2
  LegacyTolerance = 1
  NewTolerance = 2
  Scenarios <- MCScenarios
  Delays = {1}
  MaxAge = 3
PROPERTIES
  ManualMeansHandsOff
  TuningRestored
  SafetyOutputReached
