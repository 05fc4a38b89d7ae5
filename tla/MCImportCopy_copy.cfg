CONSTANTS
  DownloadDir <- Downloads
  ContentName = "T"
  Starts <- Elsewhere
  MaxPath = 6
  MaxRestarts = 1
  Vanishing = TRUE
SPECIFICATION Spec
INVARIANTS
  TypeOK
  Complete
  SourceKept
  OthersKept
PROPERTIES
  ImportEnds
  ImplementsImportTask
CHECK_DEADLOCK FALSE
