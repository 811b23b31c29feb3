\* A device and a network that fail and recover in every order.
SPECIFICATION FairSpec
CONSTANTS
  CounterSize = 3
  Outputs = 2
INVARIANTS
  ActivationWritesAll
PROPERTIES
  DeadDeviceEndsInSafeMode
  HealthyDeviceIsTrusted
