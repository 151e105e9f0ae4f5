SPECIFICATION Spec
CONSTANTS
  Profiles = {a, b}
  Handlers = {h1, h2}
  None = None
  MaxRequests = 5
SYMMETRY Symmetry
CHECK_DEADLOCK FALSE
INVARIANT NoFollowAcrossBlock
