SPECIFICATION FairSpec
CONSTANTS
  e1 = e1
  e2 = e2
  u1 = u1
  u2 = u2
  k1 = k1
  Executions <- MCExecutions
  Users <- MCUsers
  Owner <- MCOwner
  Killers = {k1}
  Asks <- MCAsks
  NoExec = NoExec
  Deletable = {e1}
  MaxFaults = 1
CHECK_DEADLOCK FALSE
PROPERTIES
  AbstractSpec
  LocksAreLeases
  OnlyTheKilledAreLost
  KillIsDone
  ExitedIsHarvested
