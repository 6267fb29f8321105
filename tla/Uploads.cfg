SPECIFICATION ImagesSpec
CONSTANTS
  alice = alice
  bob = bob
  p1 = p1
  p2 = p2
  p3 = p3
  k1 = k1
  k2 = k2
  s1 = s1
  s2 = s2
  s3 = s3
  Free = Free
  Users = {alice, bob}
  Pictures = {p1, p2, p3}
  Keys = {k1, k2}
  Key <- Colliding
  InitCoins <- FewCoins
  Balances = {0, 2}
  Slots = {s1, s2}
  MaxRequests = 3
  MaxCrashes = 1
  IsolatedUsers = {bob}
  Parts = {"uploads", "usages"}
  Used = {p1, p2}
  Writer = alice
  Bodies <- OneOrBoth
  Works = {"article", "answer", "submission", "user"}
  Visits = {s1, s2}
  MaxWrites = 4
  MaxWatched = 3
  MaxAged = 1
CHECK_DEADLOCK FALSE
INVARIANT PaidByTheFirst RowsHaveObjects UsagesHold
PROPERTY EveryUploadEnds
