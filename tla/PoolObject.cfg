\* Both values of virglhack; the host may refuse a create and fail to drop a resource.
SPECIFICATION Spec
CONSTANTS
  Bo = {b1, b2, b3}
  Block = {k1, k2, k3}
  Ids = {i1, i2, i3}
  NoId = NoId
SYMMETRY ObjectSymmetry
INVARIANTS
  NoAliasedBlocks
  LeakOnlyAttached
  IdFresh
