CONSTANTS
  NbStates = 5
  NbEvents = 3
  Config <- MixedConfig
  Callback <- MixedCallback
  ExternalLoop = FALSE
  LateActivation = FALSE
  MaxStarts = 1
  MaxBacklog = 1
  MaxLogged = 4
SPECIFICATION LogSpec
INVARIANTS
  LogTypeOK
  CountersBalance
  CurrentStateCounted
  LogReplays
  TimeoutLostOnlyBare
PROPERTY
  AfterThrowOnlyEvents
CHECK_DEADLOCK FALSE
