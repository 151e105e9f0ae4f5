SPECIFICATION UploadSpec
CONSTANTS
  Uploads = {i1, i2, i3}
  Declared = {i1, i2}
  Handlers = {h1, h2}
  None = None
  MaxLive = 1
  MaxRequests = 6
SYMMETRY Symmetry
CHECK_DEADLOCK FALSE
INVARIANT SweptIsFreed
