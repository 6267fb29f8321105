SPECIFICATION Spec
CONSTANTS
  alice = alice
  bob = bob
  carol = carol
  i1 = i1
  i2 = i2
  i3 = i3
  i4 = i4
  Users = {alice, bob, carol}
  Items = {i1}
  Author <- MCAuthor
  Kind <- OneAnswer
  InitKarma <- MCInitKarma
  SiteCost <- MCSiteCost
  InitCoins <- MCInitCoins
  Slots = {s1, s2}
  MaxRequests = 4
  IsolatedItems = {}
CHECK_DEADLOCK FALSE
INVARIANT AssertNeverFails
