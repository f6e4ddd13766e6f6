CONSTANTS
  NbStates = 5
  NbEvents = 3
  Config <- MixedConfig
  Callback <- MixedCallback
  ExternalLoop = FALSE
  LateActivation = FALSE
  MaxStarts = 1
  MaxBacklog = 2
SPECIFICATION Spec
INVARIANT
  TimeoutAssertionHolds
CHECK_DEADLOCK FALSE
