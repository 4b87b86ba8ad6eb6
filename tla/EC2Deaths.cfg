SPECIFICATION Spec
CONSTANTS
  Instances = {i1, i2}
  Executions = {e1, e2}
  NoExec = NoExec
  NoInst = NoInst
  MaxTries = 1
  Deletable = {e1, e2}
  WorkersMayDie = TRUE
  CallsMayFail = FALSE
  Interruptions = TRUE
  KillRequests = FALSE
SYMMETRY MCSymmetry
INVARIANTS
  InsidersOwn
  TaggedUnlessDeleted
PROPERTIES
  BuriedIfRecorded
