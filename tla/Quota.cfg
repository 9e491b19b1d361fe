SPECIFICATION Spec
CONSTANTS
  Clients = {c1, c2}
  Categories = {dm, view}
  FaultOn = TRUE
  MaxDay = 1
  MaxSent = 4
  Cap <- MCCap
INVARIANTS TypeOK OvershootBounded
PROPERTY ImplementsQuota
