CONSTANTS
  NbStates = 2
  NbEvents = 2
  InnerNames = {1}
  Durations = {2}
  MaxCalls = 5
SPECIFICATION Spec
INVARIANT
  CopiedEventsRegistered
CHECK_DEADLOCK FALSE
