SPECIFICATION FairBothSpec
CONSTANTS
  i1 = i1
  i2 = i2
  s1 = s1
  ann = ann
  bob = bob
  x1 = x1
  x2 = x2
  Items = {i1, i2}
  Kind <- AnArticle
  Slots = {s1}
  MaxRequests = 2
  MaxCrashes = 1
  TasksFail = TRUE
  IsolatedItems = {i1, i2}
  Readers = {ann, bob}
  Subjects = {ann}
  Insiders = {}
  Holder <- AnnIsEachOfThem
  Fans <- BobFollows
  Emits <- Articles
  MaxMoves = 0
  RedisFails = FALSE
  MaxRestarts = 1
  Sockets = {x1, x2}
  SocketOf <- BobsSockets
CHECK_DEADLOCK FALSE
INVARIANT PublicationServed
PROPERTY PublicationHeard
