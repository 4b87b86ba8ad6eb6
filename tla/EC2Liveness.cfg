SPECIFICATION FairSpec
CONSTANTS
  Instances = {i1}
  Executions = {e1, e2}
  NoExec = NoExec
  NoInst = NoInst
  MaxTries = 2
  Deletable = {}
  WorkersMayDie = FALSE
  CallsMayFail = FALSE
  Interruptions = FALSE
  KillRequests = TRUE
PROPERTIES
  RunnerEnds
  StartedIsSettled
