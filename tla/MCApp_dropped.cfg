CONSTANTS
  r1 = r1
  r2 = r2
  h1 = h1
  empty = empty
  Request = {r1}
  InfoHash = {h1}
  ClientStates <- SeedStates
  NoMetadata <- MetaStates
  Matched <- Hashes
  Disturbances <- Dropping
  MaxDisturbances = 1
SPECIFICATION FairSpec
PROPERTIES
  QueuedResolves
