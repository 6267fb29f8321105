------------------------------ MODULE Platform ------------------------------
(***************************************************************************)
(* What surrounds the content: membership of sites, what is paid for and   *)
(* paid out, the search indexes, keywords, webhooks and the link of the    *)
(* day, who gets to read what, and who gets to sign in.                    *)
(*                                                                         *)
(* As in Community, the components share no state here, and a behaviour    *)
(* runs one of them.                                                       *)
(***************************************************************************)
EXTENDS Membership, FiniteSets, Sequences

CONSTANTS
  Parts, \* the components that are run
  People, Superuser, Threads, FirstCoins, ArticleCost, SiteCost, Subdomains, \* Payments
  Fields, Worth, Options, Correct, Multiple, Sheets, MaxPayments, Careful,
  Docs, TypeOf, MaxEdits, MaxTroubles,                                      \* Search
  Readers, Visitor, Circles, Writings, KindOf, AuthorOf, CircleOf, NoCircle, Parent, \* Access
  FirstWritten, ModeratorOf, Staff,                                         \* Routes
  Browsers, PlacedAtHome, PinnedLife, PendingLife, FeedLimit, MaxChanges, MaxTicks, \* Reading
  Retired, Addresses, NoAddress, FirstAddress, Passwords, Profile, MaxCalls, \* Signin
  Things, Kind, Sources, FirstLive, Words, Jobs, MaxTexts,                  \* Keywords
  Posts, PostKind, Hooks, HooksOf, OpenPosts, Couriers, MaxEditions,        \* Webhooks
  MaxSettings,
  Askers, KeyLife, LinkLife, MaxRows, MaxDates                              \* DailyLink

VARIABLES
  part, \* the component that is running
  coins, claimed, deposits, sites, order, asked, spent, earned,
  row, disk, index, rebuild, edits, troubles, kept, promised, dropped, outdated,
  open, belongs, moderator, written, published, deleted, hidden, restricted,
  voted, marked, pinned, pending, activities, tasks, changes, ticks, gap, lost,
  account, tokens, letters, keys, trail, call, calls, acts, failed, strays,
  text, live, words, job, sweep, texts, calm, mixed,
  edition, veiled, hook, errand, settings, last, tellings, fresh,
  dated, remaining, drawn, key, asker, date, void, dark

paying == <<coins, claimed, deposits, sites, order, asked, spent, earned>>
searching == <<row, disk, index, rebuild, edits, troubles, kept, promised, dropped, outdated>>
reading == <<open, belongs, moderator, written, published, deleted, hidden, restricted,
             voted, marked, pinned, pending, activities, tasks, changes, ticks, gap, lost>>
signing == <<account, tokens, letters, keys, trail, call, calls, acts, failed, strays>>
keywords == <<text, live, words, job, sweep, texts, calm, mixed>>
hooking == <<edition, veiled, hook, errand, settings, last, tellings, fresh>>
daily == <<dated, remaining, drawn, key, asker, date, void, dark>>

P == INSTANCE Payments
S == INSTANCE Search
A == INSTANCE Access
W == INSTANCE Routes
R == INSTANCE Reading
G == INSTANCE Signin WITH SoloPeople <- Careful
K == INSTANCE Keywords
H == INSTANCE Webhooks
D == INSTANCE DailyLink

-----------------------------------------------------------------------------
\* Sheets hold sequences of choices; scores per choice are not negative.
ASSUME PaymentsBounds ==
  /\ Superuser \in People /\ FirstCoins \in [People -> Nat]
  /\ ArticleCost \in Nat /\ SiteCost \in Nat /\ MaxPayments \in Nat
  /\ IsFiniteSet(Fields) /\ Worth \in [Fields -> Nat] /\ \A f \in Fields : IsFiniteSet(Correct[f])
  /\ \A p \in People : \A sheet \in Sheets[p] : \A f \in Fields :
       /\ Len(sheet[f]) \in Nat
       /\ sheet[f] \in [1..Len(sheet[f]) -> {sheet[f][n] : n \in 1..Len(sheet[f])}]

\* What is written is by accounts: answers in the site of their question, articles in none.
ASSUME ReadingBounds ==
  /\ Visitor \in Readers /\ Browsers \subseteq Readers /\ NoCircle \notin Circles
  /\ KindOf \in [Writings -> {"question", "answer", "article", "submission", "comment"}]
  /\ AuthorOf \in [Writings -> Readers \ {Visitor}] /\ ModeratorOf \in [Circles -> Readers \ {Visitor}]
  /\ \A d \in Writings :
       /\ KindOf[d] = "article" => CircleOf[d] = NoCircle
       /\ KindOf[d] = "answer" =>
            Parent[d] \in Writings /\ KindOf[Parent[d]] = "question" /\ CircleOf[Parent[d]] = CircleOf[d]
  /\ FirstWritten \subseteq Writings /\ IsFiniteSet(FirstWritten)
  /\ PlacedAtHome \subseteq {q \in Writings : KindOf[q] = "question"}
  /\ PinnedLife \in Nat /\ PendingLife \in Nat /\ FeedLimit \in Nat /\ MaxChanges \in Nat /\ MaxTicks \in Nat

ASSUME RoutesBounds == IsFiniteSet(Readers)

ASSUME WebhooksBounds ==
  /\ Posts # {} /\ HooksOf \in [Posts -> SUBSET Hooks] /\ IsFiniteSet(Couriers)
  /\ MaxEditions \in Nat /\ MaxSettings \in Nat

\* Columns have the keywords of articles, sites those of texts, users those of what is no user.
ASSUME KeywordsBounds ==
  /\ Kind \in [Things -> {"answer", "question", "submission", "article", "column", "site", "user"}]
  /\ Sources \in [Things -> SUBSET Things]
  /\ \A x \in Things : \A y \in Sources[x] :
       /\ Kind[x] \in {"column", "site"} => Kind[y] \in {"answer", "question", "submission", "article"}
       /\ Kind[y] # "user"
  /\ FirstLive \subseteq {x \in Things : Kind[x] \in {"answer", "question", "submission", "article"}}
  /\ \E x \in Things : Kind[x] \in {"answer", "question", "submission", "article"}
  /\ Words # {} /\ MaxTexts \in Nat

ASSUME SearchBounds ==
  /\ TypeOf \in [Docs -> {"question", "site", "submission", "answer", "article"}]
  /\ MaxEdits \in Nat /\ MaxTroubles \in Nat

ASSUME SigninBounds ==
  /\ People # {} /\ Passwords # {} /\ NoAddress \notin Addresses
  /\ FirstAddress \in [People -> Addresses \cup {NoAddress}]
  /\ Careful \subseteq People /\ IsFiniteSet(Profile) /\ MaxCalls \in Nat

ASSUME DailyLinkBounds ==
  /\ KeyLife \in Nat \ {0} /\ LinkLife \in Nat /\ KeyLife < LinkLife
  /\ MaxRows \in Nat /\ MaxDates \in Nat

-----------------------------------------------------------------------------
\* What Access starts with is chosen only where it runs.
PlatformInit ==
  /\ part \in Parts /\ Init /\ P!Init /\ S!Init /\ R!Init /\ G!Init /\ K!Init
  /\ H!Init /\ D!Init
  /\ part = "reading" \/ (open = {} /\ written = {})

RunMembership ==
  /\ part = "membership" /\ Next
  /\ UNCHANGED <<paying, searching, reading, signing, keywords, hooking, daily>>
RunPayments ==
  /\ part = "payments" /\ P!Next
  /\ UNCHANGED <<vars, searching, reading, signing, keywords, hooking, daily>>
RunSearch ==
  /\ part = "search" /\ S!Next
  /\ UNCHANGED <<vars, paying, reading, signing, keywords, hooking, daily>>
RunReading ==
  /\ part = "reading" /\ R!Next
  /\ UNCHANGED <<vars, paying, searching, signing, keywords, hooking, daily>>
RunSignin ==
  /\ part = "signin" /\ G!Next
  /\ UNCHANGED <<vars, paying, searching, reading, keywords, hooking, daily>>
RunKeywords ==
  /\ part = "keywords" /\ K!Next
  /\ UNCHANGED <<vars, paying, searching, reading, signing, hooking, daily>>

RunWebhooks ==
  /\ part = "webhooks" /\ H!Next
  /\ UNCHANGED <<vars, paying, searching, reading, signing, keywords, daily>>
RunDailyLink ==
  /\ part = "link" /\ D!Next
  /\ UNCHANGED <<vars, paying, searching, reading, signing, keywords, hooking>>

PlatformNext ==
  /\ \/ RunMembership \/ RunPayments \/ RunSearch \/ RunReading \/ RunSignin
     \/ RunKeywords \/ RunWebhooks \/ RunDailyLink
  /\ UNCHANGED part

platformVars ==
  <<part, vars, paying, searching, reading, signing, keywords, hooking, daily>>

PlatformSpec == PlatformInit /\ [][PlatformNext]_platformVars

-----------------------------------------------------------------------------
\* Every component keeps to its types.
AllTypesOK ==
  /\ part = "membership" => TypeOK
  /\ part = "payments" => P!TypeOK
  /\ part = "search" => S!TypeOK
  /\ part = "reading" => R!TypeOK
  /\ part = "signin" => G!TypeOK
  /\ part = "keywords" => K!TypeOK
  /\ part = "webhooks" => H!TypeOK
  /\ part = "link" => D!TypeOK

\* Payments: the welcome test pays once, and nothing is got for free.
PaymentsExact == part = "payments" => P!PaymentsExact

\* Search: nothing that can be read is missing but by a failed rebuild, nothing else is found.
SearchIsHonest == part = "search" => S!SearchIsHonest

\* Access: whoever writes something can then read it.
WritersSee == [][part = "reading" => A!NobodyWritesBlindly]_platformVars

\* Access and Routes: what is offered can be done, and votes can be taken back.
OffersHold == part = "reading" => A!OffersHold /\ W!VotesRevocable

\* Routes: what belongs together is shown together.
RoutesAgree == part = "reading" => W!RoutesAgree

\* Reading: lists keep to the gates of pages, kept lists to their age, a feed to what it is told.
ListsHold == part = "reading" => R!ListsHold

\* Signin: accounts are entered with what is theirs, and the audit log tells it.
CredentialsHold == part = "signin" => G!CredentialsHold

\* Keywords: they follow the texts, of which one sweep computes them all.
KeywordsFollow == part = "keywords" => K!KeywordsFollow

\* Webhooks: each is told what it asked for, once per text, and the latest text last.
WebhooksFollow == part = "webhooks" => H!WebhooksFollow

\* DailyLink: the link of the day is valid or used up, or is replaced after a day.
DailyLinkHolds == part = "link" => D!DailyLinkHolds
=============================================================================
