SPECIFICATION FairSpec
CONSTANTS
  Prospects = {p1, p2}
  MaxDelay = 2
  Nobody = Nobody
  SyncOn = TRUE
  DeskOn = FALSE
  RunSaves = {"ended"}
  Accepting = {p1}
  CrashOn = FALSE
INVARIANT TypeOK
PROPERTIES PlanKeepsStatus AcceptedEventuallyNoticed
