\* Calls to the Resource Manager may time out, late replies and notifications pile up;
\* two parcels for one address; fair behaviours.
SPECIFICATION FairSpec
CONSTANTS
  Work = Work
  Remove = Remove
  Client = {Work, Remove}
  Nobody = Nobody
  h1 = h1
  h2 = h2
  g1 = g1
  Handle = {h1, h2}
  Home <- HomeOf
  Gpa = {g1}
  None = None
  SeqMod = 2
  Depth = 1
  NumBufs = 1
  CompDepth = 1
  MaxEntries = 2
INVARIANTS
  HostToldTruth
  TableExact
  BuffersConserved
  VerdictOwn
PROPERTY
  RequestAnswered
