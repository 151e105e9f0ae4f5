SPECIFICATION Spec
CONSTANTS
  Tokens = {t1, t2}
  None = None
  MaxOperations = 4
INVARIANT LastWordWins
INVARIANT StoreFollowsSession
INVARIANT ExpiredWasRefused
PROPERTY OperationsEnd
CHECK_DEADLOCK FALSE
