SPECIFICATION Spec
CONSTANTS
  alice = alice
  bob = bob
  carol = carol
  i1 = i1
  i2 = i2
  i3 = i3
  i4 = i4
  Users = {alice, bob, carol}
  Items = {i1, i2, i3, i4}
  Author <- MCAuthor
  Kind <- AllCosts
  InitKarma <- MCInitKarma
  SiteCost <- MCSiteCost
  InitCoins <- MCInitCoins
  Slots = {s1}
  MaxRequests = 5
  IsolatedItems = {i1, i2, i3, i4}
CHECK_DEADLOCK FALSE
INVARIANT KarmaAgrees
PROPERTY ImplementsBook
