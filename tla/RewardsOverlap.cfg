SPECIFICATION Spec
CONSTANTS
  Users = {alice, bob}
  Rewards = {r1, r2}
  Amounts = {2}
  InitCoins <- FewCoins
  Slots = {s1, s2}
  MaxRequests = 4
  IsolatedUsers = {bob}
CHECK_DEADLOCK FALSE
INVARIANT ClaimsAreEarned BalanceExact
