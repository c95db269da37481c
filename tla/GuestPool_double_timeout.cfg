\* Both UNSHARE and the QUERY that should reconcile it may expire.
SPECIFICATION Spec
CONSTANTS
  Bo = {b1, b2}
  Worker = Worker
  Fini = Fini
  Nobody = Nobody
  Size = 6
  Pow2 <- Powers
  Prealloc = 2
  Step = 2
  MaxNents = 2
  Requests = {1, 3}
  QueueDepth = 3
  LossyOps = {"UNSHARE", "QUERY"}
  RefusedOps = {}
  HostErrors = {}
INVARIANT
  BoundaryHonest
