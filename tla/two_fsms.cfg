CONSTANTS
  NbStates = 6
  NbEvents = 1
  ConfigA <- TrafficLights1c
  CallbackA <- TrafficLights1cCallback
  ConfigB <- RingB
  CallbackB <- PrintingCallback
  MaxBacklog = 1
SPECIFICATION FairSpec
INVARIANTS
  SignalsKept
  TimeoutsKept
PROPERTIES
  BothImplementGraph
  TimedStatesLeft
  OwnPassStatesLeft
CHECK_DEADLOCK FALSE
