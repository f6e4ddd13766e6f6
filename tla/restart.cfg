CONSTANTS
  NbStates = 5
  NbEvents = 3
  Config <- TimedConfig
  Callback <- RaisingCallback
  ExternalLoop = FALSE
  LateActivation = TRUE
  MaxStarts = 2
  MaxBacklog = 2
SPECIFICATION Spec
INVARIANTS
  TypeOK
  PassStateSignalled
  TimeoutNotLost
PROPERTIES
  RestartedMovesByEvents
  ImplementsGraph
CHECK_DEADLOCK FALSE
