SPECIFICATION PlatformSpec
CONSTANTS
  alice = alice
  bob = bob
  root = root
  visitor = visitor
  a1 = a1
  a2 = a2
  l1 = l1
  l2 = l2
  s1 = s1
  s2 = s2
  c1 = c1
  nowhere = nowhere
  k1 = k1
  q1 = q1
  q2 = q2
  w1 = w1
  x1 = x1
  n1 = n1
  Parts = {"membership", "payments", "search", "reading", "signin", "keywords", "webhooks", "link"}
  Users = {alice, bob}
  Applications = {a1, a2}
  Links = {l1, l2}
  Quota = 2
  InitMembers = {alice}
  Slots = {s1, s2}
  MaxRequests = 4
  IsolatedUsers = {bob}
  IsolatedLinks = {l2}
  People = {alice, bob, root}
  Superuser = root
  Threads = {s1, s2}
  FirstCoins <- Purses
  ArticleCost = 2
  SiteCost = 10
  Subdomains = {"x"}
  Fields = {"many", "one"}
  Worth <- Points
  Options <- AllChoices
  Correct <- RightChoices
  Multiple = {"many"}
  Sheets <- Answered
  MaxPayments = 4
  Careful = {alice}
  Docs = {q1, q2, w1, x1}
  TypeOf <- Indexes
  MaxEdits = 3
  MaxTroubles = 1
  Readers = {alice, bob, visitor}
  Visitor = visitor
  Browsers = {bob}
  Circles = {c1}
  Writings = {q1, w1, x1, n1, k1}
  KindOf <- Kinds
  AuthorOf <- Authors
  CircleOf <- Places
  NoCircle = nowhere
  Parent <- Parents
  FirstWritten = {q1}
  ModeratorOf <- AlicesSite
  Staff = {alice}
  PlacedAtHome = {q1}
  PinnedLife = 1
  PendingLife = 2
  FeedLimit = 1
  MaxChanges = 3
  MaxTicks = 2
  Retired = {root}
  Addresses = {"a", "b", "r"}
  NoAddress = "none"
  FirstAddress <- Mailboxes
  Passwords = {"w1", "w2"}
  Profile = {"name"}
  MaxCalls = 3
  Things = {"question", "article", "column", "site", "user"}
  Kind <- Itself
  Sources <- Holdings
  FirstLive = {"question"}
  Words = {"w1", "w2"}
  Jobs = {1, 2}
  MaxTexts = 2
  Posts = {"answer", "question"}
  PostKind <- OneOfEach
  Hooks = {"hook"}
  HooksOf <- TheHook
  OpenPosts = {"answer", "question"}
  Couriers = {1, 2}
  MaxEditions = 2
  MaxSettings = 2
  Askers = {1, 2}
  KeyLife = 1
  LinkLife = 2
  MaxRows = 3
  MaxDates = 3
CHECK_DEADLOCK FALSE
INVARIANT AllTypesOK LeavingIsFinal PaymentsExact SearchIsHonest OffersHold RoutesAgree ListsHold CredentialsHold KeywordsFollow WebhooksFollow DailyLinkHolds
PROPERTY WritersSee
