\* Two submitters, the release work and the dequeue work on a ring of three.
\* Everything is sent once, so a run ends; that it does not end too early is
\* what the temporal properties say.
SPECIFICATION FairSpec
CONSTANTS
  t1 = t1
  t2 = t2
  fw = fw
  submit = submit
  flush = flush
  create = create
  unref = unref
  X = X
  Y = Y
  Thread = {t1, t2, fw}
  FreeWork = fw
  Cmd = {submit, flush, create, unref}
  NoCmd = NoCmd
  Script <- MCScript
  Elems <- MCElems
  Timeline <- MCTimeline
  NoFence = NoFence
  Drops <- MCDrops
  Pooled = {create}
  Data = {submit}
  Unref = {unref}
  RingSize = 3
  Nobody = Nobody
CHECK_DEADLOCK FALSE
INVARIANTS
  FenceTruthful
  NoneStranded
PROPERTIES
  RingDrains
  SubmittersReturn
