CONSTANTS
  r1 = r1
  r2 = r2
  h1 = h1
  empty = empty
  Request = {r1, r2}
  InfoHash = {h1}
  ClientStates <- ErrStates
  NoMetadata <- MetaStates
  Matched <- Hashes
  Disturbances <- SlowClient
  MaxDisturbances = 2
SPECIFICATION FairSpec
INVARIANTS
  RequestCopiesFresh
  OneSubmitter
PROPERTIES
  FollowsLifecycle
  SeedingIsImported
  StopsOnCancel
  HeldResolves
