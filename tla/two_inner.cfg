CONSTANTS
  NbStates = 3
  NbEvents = 3
  Config <- TwoInnerConfig
  Callback <- TwoInnerCallback
  ExternalLoop = FALSE
  LateActivation = FALSE
  MaxStarts = 1
  MaxBacklog = 2
SPECIFICATION Spec
PROPERTY
  PreviousIsPredecessor
CHECK_DEADLOCK FALSE
