SPECIFICATION FairSpec
CONSTANTS
  r1 = r1
  r2 = r2
  Runs = {r1, r2}
  Retries = 2
  MaxTime = 1
  MaxFaults = 1
CHECK_DEADLOCK FALSE
PROPERTIES
  DirectoryIsKept
  RunsWhatWasCaptured
  SnapshotEnds
