SPECIFICATION Spec
CONSTANTS
  Prospects = {p1, p2}
  MaxDelay = 1
  Nobody = Nobody
  SyncOn = TRUE
  DeskOn = FALSE
  RunSaves = {"ended"}
  Accepting = {}
  CrashOn = FALSE
PROPERTY TerminalSticks
