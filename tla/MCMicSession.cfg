SPECIFICATION Spec
CONSTANTS
  Owners = {live, tuner}
  Leases = {l1, l2, l3}
  MaxStops = 2
  None = None
INVARIANT Consistent
INVARIANT MicrophoneIsSafe
PROPERTY BackgroundFreesMicrophone
PROPERTY StopTakesEffect
CHECK_DEADLOCK FALSE
