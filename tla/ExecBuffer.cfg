\* Two threads and two files share an object; two fenced commands at most.
SPECIFICATION Spec
CONSTANTS
  t1 = t1
  t2 = t2
  b1 = b1
  Thread = {t1, t2}
  Nobody = Nobody
  File = {f1, f2}
  NoFile = NoFile
  Bo = {b1}
  CtxId = {1, 2}
  Request <- MCRequest
  NoRequest = NoRequest
  Fd = {0, 1}
  MaxJobs = 2
  MaxCalls = 4
CHECK_DEADLOCK FALSE
SYMMETRY ExecSymmetry
INVARIANTS
  ContextKnown
  UnrefLast
  BusyVisible
  InFenceHonoured
  FdOwned
  LocksReleased
