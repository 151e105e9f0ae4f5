SPECIFICATION Spec
CONSTANTS
  Profiles = {p1}
  Keys = {k1}
  NoKey = NoKey
  RowIds = {1, 2, 3, 4}
  NoPost = NoPost
  NoRow = NoRow
  Handlers = {h1, h2}
  MaxRequests = 3
INVARIANT NoLostUpdate
CHECK_DEADLOCK FALSE
