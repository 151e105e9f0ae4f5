SPECIFICATION Spec
CONSTANTS
  Profiles = {a, b}
  Handlers = {h1, h2}
  None = None
  MaxRequests = 5
SYMMETRY Symmetry
INVARIANT Sound
INVARIANT AcceptedHasEdge
INVARIANT BlockSevers
CHECK_DEADLOCK FALSE
