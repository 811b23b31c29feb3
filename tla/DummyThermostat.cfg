\* The valve, temperature and humidity cascades and the user, with a millis() that wraps.
SPECIFICATION Spec
CONSTANTS
  NaN = NoValue
  NoValue = NoValue
  Temperatures <- MCTemperatures
  Humidities <- MCHumidities
  Modes <- MCModes
  Targets <- MCTargets
  Deadband = 1
  Overrun = 1
  W = 5
  Installations <- MCInstallations
PROPERTIES
  CommandOutlastsLoop
  LocalTakesOverOrStalls
  DeadSensorsAreNoticed
