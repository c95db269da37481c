\* QUERY is answered, SHARE and UNSHARE replies may be lost, the host never
\* answers -EUCLEAN; fair behaviours.
SPECIFICATION FairSpec
CONSTANTS
  Bo = {b1, b2}
  Worker = Worker
  Fini = Fini
  Nobody = Nobody
  Size = 6
  Pow2 <- Powers
  Prealloc = 2
  Step = 2
  MaxNents = 2
  Requests = {1, 3}
  QueueDepth = 3
  LossyOps = {"SHARE", "UNSHARE"}
  RefusedOps = {"SHARE"}
  HostErrors = {"EBUSY", "EIO"}
INVARIANTS
  TypeOK
  BoPagesShared
  BoundaryHonest
  GateHolds
  BoundaryOnGrid
  NoOrphanGrant
  SuffixNotForgotten
PROPERTY
  PoolShrinksBack
