SPECIFICATION FairSpec
CONSTANTS
  Users = {alice, bob}
  Codes = {c1}
  Owner <- OfOrdered
  Slots = {s1, s2}
  MaxRequests = 4
  OrderedUsers = {bob}
CHECK_DEADLOCK FALSE
INVARIANT StaleOnlyInWindow SingleUse RevocationIsSeen
PROPERTY CopyConverges
