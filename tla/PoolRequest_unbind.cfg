\* The device is unbound while a caller may be inside.
SPECIFICATION Spec
CONSTANTS
  Caller = {c1, c2}
  Nobody = Nobody
  Ctx = {x1, x2, x3}
  NoCtx = NoCtx
  Slots = {d1, d2}
  NoSlot = NoSlot
  Overlap = FALSE
SYMMETRY Symmetry
INVARIANT
  NoUseAfterFree
