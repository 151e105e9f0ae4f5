SPECIFICATION Spec
CONSTANTS
  Texts = {t1}
  Keys = {k1, k2}
  None = None
  Author = me
  NoKey = NoKey
  RowIds = {1, 2}
  NoPost = NoPost
  MaxAttempts = 1
INVARIANT QueueIsSound
INVARIANT Truthful
INVARIANT DraftSurvives
PROPERTY StaysQueuedUntilPublished
PROPERTY SubmitEnds
CHECK_DEADLOCK FALSE
