SPECIFICATION FairSpec
CONSTANTS
  Stoppers = {t1, t2}
  MaxRuns = 3
INVARIANTS TypeOK SoundUntilStopped RunningIsWatched
PROPERTY StopFreesSlot
CHECK_DEADLOCK FALSE
