SPECIFICATION Spec
CONSTANTS
  Items = {i1, i2, i3}
  Kind <- Mixed
  Slots = {s1, s2}
  MaxRequests = 4
  MaxCrashes = 1
  TasksFail = TRUE
  IsolatedItems = {i1, i2}
CHECK_DEADLOCK FALSE
INVARIANT NothingLost AnswersErased
PROPERTY ImplementsPublication
