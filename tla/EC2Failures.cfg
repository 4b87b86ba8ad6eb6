SPECIFICATION Spec
CONSTANTS
  Instances = {i1, i2}
  Executions = {e1, e2}
  NoExec = NoExec
  NoInst = NoInst
  MaxTries = 2
  Deletable = {}
  WorkersMayDie = FALSE
  CallsMayFail = TRUE
  Interruptions = FALSE
  KillRequests = FALSE
SYMMETRY MCSymmetry
INVARIANTS
  OneInstancePerExecution
  LaunchKeepsInstance
PROPERTIES
  EarmarksRespected
  AbstractSpec
