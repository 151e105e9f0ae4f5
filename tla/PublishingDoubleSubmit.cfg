SPECIFICATION Spec
CONSTANTS
  Texts = {t1, t2}
  Keys = {k1}
  None = None
  Author = me
  NoKey = NoKey
  RowIds = {1, 2}
  NoPost = NoPost
  MaxAttempts = 1
INVARIANT NoDoubleSubmit
CHECK_DEADLOCK FALSE
