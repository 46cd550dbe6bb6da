SPECIFICATION FairSpec
CONSTANTS
  Scripts <- OrdinaryScripts
  QueueRoom = 2
  Sent <- TwoSignals
  ForkMayFail = TRUE
  MaxStarts = 2
  MaxTyped = 1
INVARIANT TypeOK
INVARIANT OneTarget
INVARIANT SessionSurvives
INVARIANT LinesOnce
PROPERTY StopStops
PROPERTY QuitEndsAll
PROPERTY ScriptFinishes
CHECK_DEADLOCK FALSE
