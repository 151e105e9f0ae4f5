SPECIFICATION Spec
CONSTANTS
  Profiles = {p1, p2, p3}
  ClubIds = {c1, c2}
  InviteIds = {i1, i2}
  Posts = {x1}
  Keys = {k1}
  Handlers = {h1, h2}
  None = None
  Down = Down
  MaxMembers = 2
  MaxPending = 1
  MaxPins = 1
  MaxRequests = 5
SYMMETRY Symmetry
INVARIANT Sound
INVARIANT StableOwner
INVARIANT AdmittedByInvite
INVARIANT OverrunBounded
PROPERTY OwnerMovesToAMember
CHECK_DEADLOCK FALSE
