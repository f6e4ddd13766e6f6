CONSTANTS
  NbStates = 4
  NbEvents = 0
  ConfigA <- Sample2A
  CallbackA <- PrintingCallback
  ConfigB <- Sample2B
  CallbackB <- PrintingCallback
  MaxBacklog = 2
SPECIFICATION FairSpec
PROPERTY
  PassStatesLeft
CHECK_DEADLOCK FALSE
