SPECIFICATION Spec
CONSTANTS
  Users = {alice, bob}
  Rewards = {r1}
  Amounts = {2}
  InitCoins <- FewCoins
  Slots = {s1}
  MaxRequests = 3
  IsolatedUsers = {}
CHECK_DEADLOCK FALSE
INVARIANT PaidOutOnce
