SPECIFICATION FairSpec
CONSTANTS
  e1 = e1
  e2 = e2
  Subs = {e1, e2}
  Compositions <- MCCompositions
  NoIndex = NoIndex
  Nothing = Nothing
  MaxCalls = 2
  CallsMayFail = TRUE
  Interruptions = TRUE
INVARIANTS
  RunIsFinished
  ToldIsSettled
  OutputIsHonest
  HarvestStopsNothing
PROPERTIES
  OutputDelivered
  ClientEnds
CHECK_DEADLOCK FALSE
