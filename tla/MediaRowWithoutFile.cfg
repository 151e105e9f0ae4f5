SPECIFICATION MediaSpec
CONSTANTS
  Profiles = {p1, p2}
  Digests = {d1}
  RowIds = {r1, r2, r3}
  Posts = {x1, x2}
  Handlers = {h1, h2}
  None = None
  FirstStates = {"ready", "review"}
  MaxItems = 2
  MaxAttachments = 2
  MaxRequests = 6
SYMMETRY Symmetry
CHECK_DEADLOCK FALSE
INVARIANT RowsPointAtFiles
