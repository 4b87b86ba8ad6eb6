SPECIFICATION FairSpec
CONSTANTS
  Workers = {w1, w2}
  Harvester = Harvester
  Free = Free
  Orphan = Orphan
  MaxDepth = 1
  LockTimeout = 2
  WorkerTimeout = 2
INVARIANTS
  StampCoversHolder
PROPERTIES
  LockIsLease
  LiveHolderNotCondemned
  OrphanLeadsToKill
