SPECIFICATION InboxSpec
CONSTANTS
  Actors = {a, b}
  Kinds = {k}
  Handlers = {h1, h2}
  None = None
  Window = 1
  PageSize = 1
  MaxBlocked = 1
  MaxClock = 2
  MaxRequests = 3
SYMMETRY Symmetry
CHECK_DEADLOCK FALSE
INVARIANT BadgeIsReachable
