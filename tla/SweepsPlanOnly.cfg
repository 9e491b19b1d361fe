SPECIFICATION Spec
CONSTANTS
  Prospects = {p1, p2}
  MaxDelay = 2
  Nobody = Nobody
  SyncOn = FALSE
  DeskOn = FALSE
  RunSaves = {"pending", "connected", "ended"}
  Accepting = {}
  CrashOn = FALSE
PROPERTY BackoffHonoured
