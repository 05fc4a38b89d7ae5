CONSTANTS
  c1 = c1
  c2 = c2
  c3 = c3
  Caller <- Callers
  MaxExpiries = 1
  MaxHollow = 1
SPECIFICATION FairSpec
INVARIANTS
  TypeOK
  ServedOnce
  RenewedOncePerExpiry
PROPERTIES
  RetriedWithNewer
  ImplementsClientCall
  CallsEnd
