SPECIFICATION Spec
CONSTANTS
  Profiles = {p1, p2}
  InviteIds = {i1, i2}
  Keys = {k1}
  Events = {e1, e2}
  Metrics = {1, 2}
  Types = {"personalBest", "club"}
  Handlers = {h1, h2}
  None = None
  StartsAt = 1
  EndsAt = 3
  Windows = {1, 9}
  MaxClock = 3
  MaxRequests = 4
SYMMETRY Symmetry
INVARIANT Sound
INVARIANT JoinedByAccepting
PROPERTY RecordIsKept
CHECK_DEADLOCK FALSE
