SPECIFICATION Spec
CONSTANTS
  Targets = {t1}
  CaseIds = {c1, c2}
  Moderators = {m1}
  Author = a1
  Handlers = {h1, h2}
  None = None
  MaxRequests = 6
SYMMETRY Symmetry
CHECK_DEADLOCK FALSE
INVARIANT OneAppealPerCase
