----------------------------- MODULE Community ------------------------------
(***************************************************************************)
(* The components around content: suggested edits, delivery of events,     *)
(* comments, links, channels, accounts, view counters, timelines and lists *)
(* of what may interest someone, each with the requests, tasks and         *)
(* failures of its own module.                                             *)
(*                                                                         *)
(* They share no state, so that steps of two of them commute and running   *)
(* them in turn shows nothing new: a behaviour runs one of them, and the   *)
(* others stay as they were initially.  Where components do interact they  *)
(* are composed in Announcing.                                             *)
(***************************************************************************)
EXTENDS Suggestions, Sequences

CONSTANTS
  Parts,   \* the components that are run
  \* Delivery, which shares Sockets and the like with Announcing
  Readers, Subjects, Insiders, Holder, Fans, Emits, MaxMoves, RedisFails, MaxRestarts,
  Sockets, SocketOf,
  Remarks, MaxActs, MaxOutages, IsolatedRemarks,                          \* Commenting
  Pairs, LinkKind, Sessions, MaxCalls, SoloPairs,                         \* Links
  People, Addresses, FirstAddress, MaxCodes, MaxDemands, Places, SoloPeople, \* Accounts
  Objects, MaxViews,                                                      \* Views
  MaxActivity, Limit, FillBelow, ScanLimit, MaxPages, MaxChanges,         \* Timeline
  Lists, OwnerOf, Asked, SiteOf, OpenSites, Looks, Fresh, Old, MaxDays,   \* Interests
  MaxTurns, MaxLooks,
  Superuser, Matters, Feedback, NoMatter, Openers, SoloMatters,           \* Channels
  MaxOpenings, MaxMessages, ReadPage

VARIABLES
  part,   \* the component that is running
  fans, moves, event, steady, queue, heard, lost, table, sock, loop, restarts,
  remark, told, logged, chores, asked, acts, outages, missed, early,
  links, news, joins, sessions, raced, saves, expired, turn, calls,
  login, other, places, mailed, code, used, seen, shown, wanted, demand, demands,
  list, counter, step, batch, views, late, dropped,
  mode, activities, mine, public, readable, page, pages, scrolled, lasting, changes,
  shelf, within, posed, gone, follow, look, days, turns, looks, since, looked, overlooked,
  room, messages, notified, read, filed, opening, got, openings

delivery == <<fans, moves, event, steady, queue, heard, lost, table, sock, loop, restarts>>
commenting == <<remark, told, logged, chores, asked, acts, outages, missed, early>>
linking == <<links, news, joins, sessions, raced, saves, expired, turn, calls>>
accounts == <<login, other, places, mailed, code, used, seen, shown, wanted, demand, demands>>
viewing == <<list, counter, step, batch, views, late, dropped>>
timeline == <<mode, activities, mine, public, readable, page, pages, scrolled, lasting, changes>>
interests == <<shelf, within, posed, gone, follow, look, days, turns, looks, since, looked,
               overlooked>>
channels == <<room, messages, notified, read, filed, opening, got, openings>>

D == INSTANCE Delivery
C == INSTANCE Commenting
L == INSTANCE Links WITH Kind <- LinkKind
A == INSTANCE Accounts
V == INSTANCE Views
T == INSTANCE Timeline
I == INSTANCE Interests WITH Lookers <- People
H == INSTANCE Channels

ASSUME SuggestionsBounds == Contents # {}
ASSUME CommentingBounds == Remarks # {} /\ MaxActs \in Nat /\ MaxOutages \in Nat
ASSUME LinksBounds ==
  /\ Pairs # {} /\ LinkKind \in [Pairs -> L!Kinds] /\ L!NoSession \notin Sessions
  /\ IsFiniteSet(Slots) /\ MaxCalls \in Nat
ASSUME AccountsBounds ==
  /\ People # {} /\ Addresses # {} /\ A!NoAddress \notin Addresses
  /\ FirstAddress \in [People -> Addresses \cup {A!NoAddress}]
  /\ SoloPeople \subseteq People
  /\ MaxCodes \in Nat /\ MaxDemands \in Nat /\ Places \in Nat
ASSUME ViewsBounds == MaxViews \in Nat
ASSUME ChannelsBounds ==
  /\ Superuser \in People /\ IsFiniteSet(Openers) /\ MaxOpenings \in Nat /\ ReadPage \in Nat
ASSUME DeliveryBounds ==
  /\ Readers # {} /\ Subjects \subseteq Readers
  /\ Fans \in [DOMAIN Fans -> SUBSET Readers]
  /\ \A v \in D!Verbs : \A a \in D!Notifies(v) \cup D!FeedAudience(v) :
       a \notin DOMAIN Fans /\ a # "mentioned_users" => Holder[a] \in Readers
  /\ \A n \in D!Events : Emits[n] \subseteq D!Verbs
  /\ SocketOf \in [Sockets -> Readers] /\ D!NoSocket \notin Sockets
  /\ MaxMoves \in Nat /\ MaxRestarts \in Nat
ASSUME TimelineBounds ==
  /\ MaxActivity \in Nat /\ Limit \in Nat /\ FillBelow \in Nat /\ ScanLimit \in Nat
  /\ MaxPages \in Nat \ {0} /\ MaxChanges \in Nat
ASSUME InterestsBounds ==
  /\ Lists # {} /\ Asked \cap People = {} /\ \A l \in Lists : OwnerOf[l].who \in People
  /\ Fresh \in Nat /\ MaxDays \in Nat
\* Who is no user has a name that no user has.
ASSUME PeopleAreUsers == "nobody" \notin People /\ "a guest" \notin People

\* Of the two ways Timeline may start, one when it does not run.
CommunityInit ==
  /\ part \in Parts
  /\ Init /\ D!Init /\ C!Init /\ L!Init /\ A!Init /\ V!Init /\ T!Init /\ I!Init
  /\ H!Init
  /\ part # "timeline" => mode = "feed"

RunSuggestions ==
  /\ part = "suggestions" /\ Next
  /\ UNCHANGED <<delivery, commenting, linking, accounts, viewing, timeline,
                 interests, channels>>
RunDelivery ==
  /\ part = "delivery" /\ D!Next
  /\ UNCHANGED <<vars, commenting, linking, accounts, viewing, timeline,
                 interests, channels>>
RunCommenting ==
  /\ part = "commenting" /\ C!Next
  /\ UNCHANGED <<vars, delivery, linking, accounts, viewing, timeline,
                 interests, channels>>
RunLinks ==
  /\ part = "links" /\ L!Next
  /\ UNCHANGED <<vars, delivery, commenting, accounts, viewing, timeline,
                 interests, channels>>
RunAccounts ==
  /\ part = "accounts" /\ A!Next
  /\ UNCHANGED <<vars, delivery, commenting, linking, viewing, timeline,
                 interests, channels>>
RunViews ==
  /\ part = "views" /\ V!Next
  /\ UNCHANGED <<vars, delivery, commenting, linking, accounts, timeline,
                 interests, channels>>
RunTimeline ==
  /\ part = "timeline" /\ T!Next
  /\ UNCHANGED <<vars, delivery, commenting, linking, accounts, viewing, interests,
                 channels>>
RunInterests ==
  /\ part = "interests" /\ I!Next
  /\ UNCHANGED <<vars, delivery, commenting, linking, accounts, viewing, timeline,
                 channels>>

RunChannels ==
  /\ part = "channels" /\ H!Next
  /\ UNCHANGED <<vars, delivery, commenting, linking, accounts, viewing, timeline,
                 interests>>

CommunityNext ==
  /\ \/ RunSuggestions \/ RunDelivery \/ RunCommenting \/ RunLinks
     \/ RunAccounts \/ RunViews \/ RunTimeline \/ RunInterests \/ RunChannels
  /\ UNCHANGED part

communityVars == <<part, vars, delivery, commenting, linking, accounts, viewing, timeline,
                   interests, channels>>

CommunitySpec == CommunityInit /\ [][CommunityNext]_communityVars

-----------------------------------------------------------------------------
\* Every component keeps to its types.
AllTypesOK ==
  /\ part = "suggestions" => TypeOK
  /\ part = "delivery" => D!TypeOK
  /\ part = "commenting" => C!TypeOK
  /\ part = "links" => L!TypeOK
  /\ part = "accounts" => A!TypeOK
  /\ part = "views" => V!TypeOK
  /\ part = "timeline" => T!TypeOK
  /\ part = "interests" => I!TypeOK
  /\ part = "channels" => H!TypeOK

\* Delivery: an event reaches every sink its policy names.
EverySinkServed == part = "delivery" => D!EverySinkServed

\* Commenting: the author is told once, a shared comment is one Activity.
SharedOnce == part = "commenting" => C!SharedOnce

\* Links: two things are linked once where requests about them do not overlap, and a writing
\* session saves one answer unless requests raced on it. Channels: likewise, two people find
\* each other in one channel; and they hear what they can read.
LinksHold ==
  /\ part = "links" => L!LinksHold
  /\ part = "channels" => H!ChannelsHold

\* Accounts: codes prove the addresses of accounts once, and none gets lost.
AddressesHold == part = "accounts" => A!AddressesHold

\* Views: no view is counted twice, or lost but in the known race.
ViewsAccounted == part = "views" => V!ViewsAccounted

\* Timeline: pages are sound, and paging through a profile misses nothing.
PagingHolds == part = "timeline" => T!PagingHolds

\* Interests: what is of interest is shown at the latest look but one.
InterestsAreRecent == part = "interests" => I!InterestsAreRecent
=============================================================================
