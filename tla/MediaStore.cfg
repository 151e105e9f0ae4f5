SPECIFICATION MediaSpec
CONSTANTS
  Profiles = {p1, p2}
  Digests = {d1}
  RowIds = {r1, r2, r3, r4}
  Posts = {x1, x2}
  Handlers = {h1, h2}
  None = None
  FirstStates = {"ready", "review"}
  MaxItems = 2
  MaxAttachments = 2
  MaxRequests = 6
SYMMETRY Symmetry
INVARIANT RowsAreSound
INVARIANT FilesMatchRows
INVARIANT KeepsItsMedia
CHECK_DEADLOCK FALSE
