CONSTANTS
  DownloadDir <- Downloads
  ContentName = "T"
  Starts <- Same
  MaxPath = 6
  MaxRestarts = 2
  Vanishing = FALSE
SPECIFICATION Spec
INVARIANTS
  Complete
CHECK_DEADLOCK FALSE
