\* Two callers, timeouts, late answers, a full queue, memory running out; an
\* unbind with callers inside; the interrupt does not overlap an add.
SPECIFICATION Spec
CONSTANTS
  Caller = {c1, c2}
  Nobody = Nobody
  Ctx = {x1, x2, x3}
  NoCtx = NoCtx
  Slots = {d1, d2}
  NoSlot = NoSlot
  Overlap = FALSE
SYMMETRY Symmetry
INVARIANTS
  DeviceOwnsMemory
  NewCallsFindNoDevice
PROPERTY
  ImplementsCall
