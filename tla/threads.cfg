CONSTANTS
  NbStates = 3
  NbEvents = 3
  Config <- Turnstyle2
  Keys <- TurnstyleKeys
  Messages <- ResetMessages
SPECIFICATION FairSpec
INVARIANTS
  TypeOK
  QuietStateHasTimer
PROPERTIES
  AloneMovesAlongGraph
  QuitEnds
CHECK_DEADLOCK FALSE
