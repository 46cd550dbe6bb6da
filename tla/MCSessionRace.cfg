SPECIFICATION Spec
CONSTANTS
  Scripts <- StopAtOnce
  QueueRoom = 2
  Sent <- TwoSignals
  ForkMayFail = FALSE
  MaxStarts = 1
  MaxTyped = 0
INVARIANT SurvivesCommands
CHECK_DEADLOCK FALSE
