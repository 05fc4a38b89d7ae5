CONSTANTS
  InfoHash = {1, 2, 3}
  Time = {0, 1}
  First <- Sizes
  Statuses <- Asked
  MaxPageSize = 2
SPECIFICATION Spec
INVARIANTS
  TypeOK
  NoneMissed
PROPERTIES
  PagesInOrder
