CONSTANTS
  Absolute <- Roots
  Malformed = {"bad"}
  NotUtf8 = "odd"
  Expansion <- Homes
  Files <- HandOrInit
  EnvSets <- SomeEnv
  FlagSets <- SomeFlags
SPECIFICATION Spec
INVARIANTS
  SourceOrder
  RefusedForCause
CHECK_DEADLOCK FALSE
