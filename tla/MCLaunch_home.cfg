CONSTANTS
  i = i
  s = s
  t = t
  u = u
  c = c
  Process <- Processes
  Command <- Commands
  UserFile <- ClientOnly
  Bindable <- Hosts
  MaxFaults = 2
  Absolute <- Roots
  Malformed = {"bad"}
  NotUtf8 = "odd"
  Expansion <- NoHome
SPECIFICATION FairSpec
INVARIANTS
  TypeOK
  OnePoller
PROPERTIES
  UserFileKept
  SomeoneServes
