CONSTANTS
  NbStates = 2
  NbEvents = 2
  InnerNames = {1}
  Durations = {2}
  MaxCalls = 4
SPECIFICATION Spec
INVARIANTS
  TypeOK
  ReachableWarningRight
  DeadEndWarningRight
  InnerMarksBacked
  PassStateMovesOn
  ConfiguredEventsRegistered
  OnlyEventsOfPassStatesUndrawn
  DrawnEdgesEndOnNodes
CHECK_DEADLOCK FALSE
