SPECIFICATION Spec
CONSTANTS
  request = request
  scrape = scrape
  ann = ann
  NoJob = NoJob
  Jobs = {request, scrape}
  First = {request}
  Workers = {w1, w2}
  People = {ann}
  Sessions = {s1, s2}
  Contents = {"open", "ended", "blank"}
  Rank <- MCRank
  PersonOf <- MCPersonOf
  KindOf <- MCKindOf
  MaxStarts = 3
  MaxEdits = 1
  MaxCalls = 2
CONSTRAINT Bounded
SYMMETRY Symmetry
INVARIANTS TypeOK JobsAccounted DoneOnce EndIsComplete ToldOnce
PROPERTIES ImplementsJobLife ImplementsEndLife
CHECK_DEADLOCK FALSE
