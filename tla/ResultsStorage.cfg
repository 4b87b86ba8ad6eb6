SPECIFICATION FairSpec
CONSTANTS
  Writers = {w1, w2}
  Readers = {r1}
  Free = Free
  Orphan = Orphan
  WorkersMayDie = TRUE
  CallsMayFail = TRUE
INVARIANTS
  FinishedIsWhole
  HistoryHasResults
  NothingLost
PROPERTIES
  AbstractSpec
  ReadersAnswered
