\* One imported and one dumb object, three commits; the exporter moves its pages once.
SPECIFICATION Spec
CONSTANTS
  Imported = {i1}
  Dumb = {d1}
  None = None
  MaxCommits = 3
  MaxMoves = 1
CHECK_DEADLOCK FALSE
INVARIANTS
  NoStalePages
  
  ScanoutFollows
  CursorUploaded
