CONSTANTS
  Kind <- Kinds
  FirstVersion <- Initial
  BreakingAsMajor = FALSE
  MaxPushes = 2
  MaxFaults = 2
  MaxDay = 3
SPECIFICATION Spec
INVARIANTS
  TypeOK
  VersionSaysChanges
  TagIsPrepared
PROPERTIES
  DueIsTagged
