SPECIFICATION OneSpec
CONSTANTS
  c1 = c1
  c2 = c2
  c3 = c3
  c4 = c4
  ann = ann
  bob = bob
  s1 = s1
  s2 = s2
  w1 = w1
  m1 = m1
  m2 = m2
  Parts = {"suggestions", "delivery", "commenting", "links", "accounts", "views", "timeline", "interests", "channels"}
  Contents = {c1, c2, c3, c4}
  Kind <- ThreeKinds
  Owner <- AnnsOwn
  Users = {ann, bob}
  Slots = {s1, s2}
  MaxRequests = 4
  IsolatedContents = {c1, c2, c4}
  Readers = {ann, bob}
  Subjects = {ann, bob}
  Insiders = {bob}
  Holder <- AnnsAudiences
  Fans <- Groups
  Emits <- AnyVerb
  MaxMoves = 2
  RedisFails = TRUE
  MaxRestarts = 1
  Sockets = {}
  SocketOf <- NoSockets
  Remarks = {m1, m2}
  MaxActs = 3
  MaxOutages = 1
  IsolatedRemarks = {m1}
  Pairs = {"subscription", "bookmark", "follow", "follow twice", "column", "answer", "other answer", "channel", "handle"}
  LinkKind <- EachKind
  Sessions = {w1}
  MaxCalls = 3
  SoloPairs = {"subscription", "follow", "column", "answer", "channel"}
  People = {ann, bob}
  Addresses = {"ann@", "new@"}
  FirstAddress <- AnnHasOne
  MaxCodes = 2
  MaxDemands = 3
  Places = 2
  SoloPeople = {ann}
  Objects = {"question", "article"}
  MaxViews = 3
  MaxActivity = 4
  Limit = 2
  FillBelow = 2
  ScanLimit = 3
  MaxPages = 3
  MaxChanges = 1
  Lists = {"questions", "users"}
  OwnerOf <- AnnsLists
  Asked = {"question"}
  SiteOf <- Site
  OpenSites = {}
  Looks = {1, 2}
  Fresh = 1
  Old = 2
  MaxDays = 2
  MaxTurns = 2
  MaxLooks = 3
  Superuser = bob
  Matters = {"feedback"}
  Feedback = {"feedback"}
  NoMatter = "none"
  Openers = {1, 2}
  SoloMatters = {"feedback"}
  MaxOpenings = 2
  MaxMessages = 2
  ReadPage = 1
CHECK_DEADLOCK FALSE
INVARIANT TextsAccounted EverySinkServed SharedOnce LinksHold AddressesHold ViewsAccounted PagingHolds InterestsAreRecent
PROPERTY ImplementsCourse
