SPECIFICATION Spec
CONSTANTS
  Items = {i1}
  Kind <- AnArticle
  Slots = {s1, s2}
  MaxRequests = 3
  MaxCrashes = 0
  TasksFail = FALSE
  IsolatedItems = {}
CHECK_DEADLOCK FALSE
INVARIANT AnnouncedAtMostOnce
