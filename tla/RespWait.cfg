\* Two threads, two objects for one range of the BAR, a capset whose id may be
\* valid, invalid or missing, a display that changes.
SPECIFICATION Spec
CONSTANTS
  Thread = {t1, t2}
  Obj = {o1, o2}
  NoObj = NoObj
  BarRange = {r1}
  NoRange = NoRange
  NumCapsets = 1
  HostId = {1, 64}
  MaxId = 63
  MaxCalls = 3
CHECK_DEADLOCK FALSE
INVARIANTS
  EntryPending
  MappedIsBacked
  DisplayAnswered
PROPERTY
  WaitsEnd
