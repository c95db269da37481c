\* The interrupt may arrive while a descriptor is being added.
SPECIFICATION Spec
CONSTANTS
  Caller = {c1, c2}
  Nobody = Nobody
  Ctx = {x1, x2, x3}
  NoCtx = NoCtx
  Slots = {d1, d2}
  NoSlot = NoSlot
  Overlap = TRUE
SYMMETRY Symmetry
INVARIANT
  VerdictIsHosts
