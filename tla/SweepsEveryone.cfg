SPECIFICATION Spec
CONSTANTS
  Prospects = {p1}
  MaxDelay = 1
  Nobody = Nobody
  SyncOn = TRUE
  DeskOn = TRUE
  RunSaves = {"pending", "connected", "ended"}
  Accepting = {}
  CrashOn = TRUE
INVARIANTS ConnectedOnlyIfAnswered PlannedOnlyIfAnswered
PROPERTY NoRowVanishes
