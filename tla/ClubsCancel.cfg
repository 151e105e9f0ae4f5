SPECIFICATION Spec
CONSTANTS
  Profiles = {p1, p2}
  ClubIds = {c1}
  InviteIds = {i1, i2}
  Posts = {x1}
  Keys = {k1}
  Handlers = {h1, h2}
  None = None
  Down = Down
  MaxMembers = 2
  MaxPending = 1
  MaxPins = 1
  MaxRequests = 4
SYMMETRY Symmetry
CHECK_DEADLOCK FALSE
PROPERTY CancelsPendingOnly
