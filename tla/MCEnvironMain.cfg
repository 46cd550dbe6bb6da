SPECIFICATION Spec
CONSTANTS
  Names <- SomeNames
  BeginsWith <- SomeBeginnings
  Values = {"queue", "other"}
  NoValue = "none"
  HTH_MSQ = "HTH_MSQ"
  Queue = "queue"
  Environments <- SomeEnvironments
  Inherited = "other"
  MaxEnvs = 3
INVARIANT TypeOK
INVARIANT NoDuplicates
INVARIANT LastWins
PROPERTY ImplementsMap
CHECK_DEADLOCK FALSE
