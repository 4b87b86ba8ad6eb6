SPECIFICATION FairSpec
CONSTANTS
  Requests <- MCRequests
  Plain = Plain
  Whole = Whole
  MaxReports = 2
  Providers = {"aws", "localhost"}
  CallsMayFail = TRUE
  ServerMayDie = TRUE
  Unset = Unset
  Atomic = Atomic
INVARIANTS
  SplitIsExact
  OkMeansComplete
  ViewIsRight
PROPERTIES
  AbstractSpec
  RequestEnds
CHECK_DEADLOCK FALSE
