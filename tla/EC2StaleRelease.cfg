SPECIFICATION Spec
CONSTANTS
  Instances = {i1, i2}
  Executions = {e1, e2}
  NoExec = NoExec
  NoInst = NoInst
  MaxTries = 2
  Deletable = {e1, e2}
  WorkersMayDie = FALSE
  CallsMayFail = FALSE
  Interruptions = FALSE
  KillRequests = FALSE
SYMMETRY MCSymmetry
INVARIANTS
  RunningIsTagged
