SPECIFICATION Spec
CONSTANTS
  Owners = {live, tuner}
  Leases = {l1, l2}
  MaxStops = 2
  None = None
INVARIANT RevokedLeaseHasNoStream
CHECK_DEADLOCK FALSE
