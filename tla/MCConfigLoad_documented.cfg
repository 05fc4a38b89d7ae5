CONSTANTS
  Absolute <- Roots
  Malformed = {"bad"}
  NotUtf8 = "odd"
  Expansion <- Homes
  Files <- NoFile
  EnvSets <- ImageEnv
  FlagSets <- NoFlags
SPECIFICATION Spec
INVARIANTS
  Precedence
CHECK_DEADLOCK FALSE
