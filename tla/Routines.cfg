SPECIFICATION Spec
CONSTANTS
  reply = reply
  Routines = {reply}
  None = None
  Interval = 1
  MaxNow = 2
  MaxEdits = 1
  MaxKills = 1
INVARIANTS TypeOK RowsAsAsked StampTrue
PROPERTIES SavesWhole NotTooOften Recovers
CHECK_DEADLOCK FALSE
