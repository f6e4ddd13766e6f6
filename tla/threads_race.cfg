CONSTANTS
  NbStates = 6
  NbEvents = 3
  Config <- TrafficLights
  Keys <- TrafficLightsKeys
  Messages <- TrafficLightsMessages
SPECIFICATION Spec
PROPERTY
  MovesAlongGraph
CHECK_DEADLOCK FALSE
