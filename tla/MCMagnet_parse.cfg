CONSTANTS
  Param <- Pairs
  MaxParams = 4
SPECIFICATION Spec
INVARIANTS
  ParsedAsSpecified
  RereadSame
CHECK_DEADLOCK FALSE
