CONSTANTS
  NbStates = 5
  NbEvents = 3
  Config <- MixedConfig
  Callback <- MixedCallback
  ExternalLoop = FALSE
  LateActivation = FALSE
  MaxStarts = 1
  MaxBacklog = 2
SPECIFICATION FairSpec
INVARIANTS
  PassStateSignalled
  TimeoutNotLost
  InnerEventSignalled
  NoHandlerAfterStop
  NeverKilled
  UnreachableNeverEntered
PROPERTIES
  DeadEndNeverLeft
  PreviousIsPredecessor
  ImplementsGraph
  PassStateLeft
  TimedStateLeft
  InnerEventTaken
CHECK_DEADLOCK FALSE
