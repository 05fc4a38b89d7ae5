CONSTANTS
  r1 = r1
  r2 = r2
  h1 = h1
  empty = empty
  Request = {r1}
  InfoHash = {h1, empty}
  ClientStates <- OddStates
  NoMetadata <- MetaStates
  Matched <- Hashes
  Disturbances <- Prompt
  MaxDisturbances = 2
SPECIFICATION Spec
INVARIANTS
  TypeOK
  LoopCopiesFresh
  ImportedIsCopied
  ImportsOwnContent
  NoOrphanTorrent
