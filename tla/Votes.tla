------------------------------- MODULE Votes -------------------------------
(***************************************************************************)
(* Upvoting content: the vote rows, the cached upvotes_count, the author's *)
(* cached karma and the coins a first upvote moves from voter to author.   *)
(*                                                                         *)
(* Requests run concurrently (synchronous handlers in a thread pool), each *)
(* in one READ COMMITTED transaction.  The ORM loads a row once per        *)
(* request and writes back literals computed from what it loaded, so a     *)
(* request is modelled query by query: every Read* action is one SELECT,   *)
(* Commit* is the flush (which takes the row locks) together with the      *)
(* commit that releases them, Abort is any exception, which rolls back.    *)
(***************************************************************************)
EXTENDS Integers, FiniteSets, FiniteSetsExt

CONSTANTS
  Users,        \* accounts
  Items,        \* published content
  Author,       \* Author[i]: the user who wrote item i
  Kind,         \* Kind[i] \in Kinds
  SiteCost,     \* SiteCost[k]: the site's upvote_<k>_coin_deduction
  InitCoins,    \* InitCoins[u]: coins of u when the behaviour starts
  InitKarma,    \* InitKarma[u]: karma of u when the behaviour starts
  Slots,        \* threads that may be serving a vote request
  MaxRequests,  \* bound on the requests a behaviour contains
  IsolatedItems \* items on which requests happen never to overlap

Kinds == {"answer", "question", "article", "submission", "comment"}

\* rules.py: karma for writing an item, and for each upvote on it.
CreateKarma == [answer |-> 10, question |-> 5, article |-> 5,
                submission |-> 1, comment |-> 2]
UpvoteKarma == [answer |-> 10, question |-> 10, article |-> 10,
                submission |-> 2, comment |-> 0]
UPVOTE_ARTICLE_COST == 2

ASSUME ConstantsAssumption ==
  /\ Author \in [Items -> Users]
  /\ Kind \in [Items -> Kinds]
  /\ SiteCost \in [{"answer", "question", "submission"} -> Nat]
  /\ InitCoins \in [Users -> Nat]
  /\ InitKarma \in [Users -> Int]
  /\ IsFiniteSet(Users) /\ Users # {}
  /\ IsFiniteSet(Items) /\ Items # {}
  /\ MaxRequests \in Nat
  /\ IsolatedItems \subseteq Items

VARIABLES
  row,      \* row[i][u]: the *_upvotes row of (i, u)
  count,    \* count[i]: i.upvotes_count
  deleted,  \* deleted[i]: i.is_deleted
  hidden,   \* hidden[i]: i.is_hidden or i.is_hidden_by_moderator
  coins,    \* coins[u]: u.remaining_coins
  karma,    \* karma[u]: u.karma
  paid,     \* paid[i][u]: CoinPayment rows for u's upvote of i
  req,      \* req[s]: the request thread s is serving, with what it has read
  served    \* requests started so far

store == <<row, count, deleted, hidden, coins, karma, paid>>
vars == <<store, req, served>>

RowStates == {"none", "active", "cancelled"}
Ops == {"upvote", "cancel", "delete", "hide", "unhide"}
Steps == {"idle", "item", "vote", "before", "author", "requery", "commit"}

Request == [pc : Steps, op : Ops, user : Users, item : Items,
            coins : Int,        \* the voter's balance, as loaded
            count : Nat,        \* upvotes_count, as loaded
            live : BOOLEAN,     \* whether the item earned karma, as loaded
            before : BOOLEAN,   \* upvoted_before
            seen : RowStates,   \* the vote row in the identity map
            authorCoins : Int, authorKarma : Int]

Idle == [pc |-> "idle", op |-> "upvote", user |-> CHOOSE u \in Users : TRUE,
         item |-> CHOOSE i \in Items : TRUE, coins |-> 0, count |-> 0,
         live |-> FALSE, before |-> FALSE, seen |-> "none",
         authorCoins |-> 0, authorKarma |-> 0]

Live(i) == ~deleted[i] /\ ~hidden[i]

Voters(i) == {u \in Users : row[i][u] = "active"}

\* Mutant: hidden and deleted items keep their worth.
ContributionAnyway(k, n, live) == CreateKarma[k] + n * UpvoteKarma[k]

\* karma.contribution of an item of kind k with n upvotes.
Contribution(k, n, live) == IF live THEN CreateKarma[k] + n * UpvoteKarma[k] ELSE 0

\* What a first upvote of i costs; comments are free.
Cost(i) == CASE Kind[i] = "comment" -> 0
             [] Kind[i] = "article" -> UPVOTE_ARTICLE_COST
             [] OTHER -> SiteCost[Kind[i]]

\* karma.compute_karma: what u's items are worth, recomputed from the tables.
ComputedKarma(u) ==
  MapThenSumSet(LAMBDA i : Contribution(Kind[i], count[i], Live(i)),
                {i \in Items : Author[i] = u})

Init ==
  /\ row = [i \in Items |-> [u \in Users |-> "none"]]
  /\ count = [i \in Items |-> 0]
  /\ deleted = [i \in Items |-> FALSE]
  /\ hidden = [i \in Items |-> FALSE]
  /\ coins = InitCoins
  /\ karma = InitKarma
  /\ paid = [i \in Items |-> [u \in Users |-> 0]]
  /\ req = [s \in Slots |-> Idle]
  /\ served = 0

-----------------------------------------------------------------------------
(* The queries of a request, in the order the handlers issue them.         *)

\* Who may ask for what; whoever hides or unhides, only the author's row moves.
Permitted(op, u, i) ==
  CASE op = "delete" -> Kind[i] \in {"answer", "article", "comment"} /\ u = Author[i]
    [] op = "hide"   -> Kind[i] \in {"answer", "question", "submission"} /\ u = Author[i]
    [] op = "unhide" -> Kind[i] = "answer" /\ u = Author[i]
    [] OTHER         -> TRUE

At(s, step) == req[s].pc = step

Isolated(i) == \A t \in Slots : req[t].pc = "idle" \/ req[t].item # i

\* The principal is loaded: ctx.get_current_active_user().
Begin(s) ==
  /\ At(s, "idle") /\ served < MaxRequests
  /\ \E u \in Users, i \in Items, op \in Ops :
       /\ Permitted(op, u, i)
       /\ i \in IsolatedItems => Isolated(i)
       /\ req' = [req EXCEPT ![s] = [Idle EXCEPT
            !.pc = "item", !.op = op, !.user = u, !.item = i, !.coins = coins[u]]]
  /\ served' = served + 1
  /\ UNCHANGED store

\* A query changes nothing but what the request knows.
Learn(s, q) == req' = [req EXCEPT ![s] = q] /\ UNCHANGED <<store, served>>

ReadItem(s) ==
  LET q == req[s] IN
  /\ At(s, "item")
  /\ Learn(s, [q EXCEPT !.count = count[q.item], !.live = Live(q.item),
                 !.pc = IF q.op \in {"upvote", "cancel"} THEN "vote" ELSE "author"])

\* The first vote query finds an active row exactly when there is work to do.
HasWork(q) ==
  IF q.op = "cancel"
  THEN row[q.item][q.user] = "active"
  ELSE /\ row[q.item][q.user] # "active"
       /\ q.user # Author[q.item]
       /\ Kind[q.item] # "comment" => q.coins >= Cost(q.item)

\* Cancelling loads the row it found; a comment's vote is neither charged nor
\* tracked, so its author is not loaded.
ReadVote(s) ==
  LET q == req[s] IN
  /\ At(s, "vote") /\ HasWork(q)
  /\ Learn(s, [q EXCEPT !.seen = IF q.op = "cancel" THEN "active" ELSE "none",
                 !.pc = IF Kind[q.item] = "comment" THEN "requery"
                        ELSE IF q.op = "cancel" THEN "author" ELSE "before"])

\* Already voted, nothing to cancel, own item or too few coins: no write.
NoWork(s) ==
  /\ At(s, "vote") /\ ~HasWork(req[s])
  /\ Learn(s, Idle)

\* upvoted_before: any row of this voter, cancelled or not.
UpvotedBefore(i, u) == row[i][u] # "none"

\* A row found stays in the identity map.
ReadBefore(s) ==
  LET q == req[s] IN
  /\ At(s, "before")
  /\ Learn(s, [q EXCEPT !.before = UpvotedBefore(q.item, q.user),
                 !.seen = row[q.item][q.user], !.pc = "author"])

\* karma.tracked loads item.author; make_payment pays the same loaded object.
ReadAuthor(s) ==
  LET q == req[s]
      a == Author[q.item]
  IN
  /\ At(s, "author")
  /\ Learn(s, [q EXCEPT !.authorCoins = coins[a], !.authorKarma = karma[a],
                 !.pc = IF q.op \in {"upvote", "cancel"} THEN "requery" ELSE "commit"])

\* crud.*.upvote queries the row again; a row already loaded is not refreshed.
Requery(s) ==
  LET q == req[s] IN
  /\ At(s, "requery")
  /\ Learn(s, [q EXCEPT !.seen = IF q.seen = "none" THEN row[q.item][q.user] ELSE q.seen,
                 !.pc = "commit"])

-----------------------------------------------------------------------------
(* Flush and commit.                                                       *)

\* Mutant: karma is only ever added.
MoveKarmaUp(q, worth) ==
  LET delta == worth - Contribution(Kind[q.item], q.count, q.live)
  IN karma' = [karma EXCEPT ![Author[q.item]] = q.authorKarma + (IF delta > 0 THEN delta ELSE 0)]

\* tracked(): the author's karma as loaded, moved by the item's change in worth.
MoveKarma(q, worth) ==
  LET delta == worth - Contribution(Kind[q.item], q.count, q.live)
  IN karma' = IF delta = 0 THEN karma
              ELSE [karma EXCEPT ![Author[q.item]] = q.authorKarma + delta]

\* Mutant: the database subtracts from a balance nobody checked.
PayInPlace(q) ==
  /\ paid' = [paid EXCEPT ![q.item][q.user] = @ + 1]
  /\ coins' = [coins EXCEPT ![q.user] = @ - Cost(q.item),
                            ![Author[q.item]] = @ + Cost(q.item)]

\* make_payment: both balances are written from what the request loaded.
Pay(q) ==
  LET c == Cost(q.item) IN
  /\ paid' = [paid EXCEPT ![q.item][q.user] = @ + 1]
  /\ coins' = IF c = 0 THEN coins
              ELSE [coins EXCEPT ![q.user] = q.coins - c,
                                 ![Author[q.item]] = q.authorCoins + c]

Done(s) == req' = [req EXCEPT ![s] = Idle] /\ UNCHANGED served

\* Mutant: reviving a cancelled vote is not counted.
CountedFirst(q) == IF q.seen = "none" THEN q.count + 1 ELSE q.count

\* Votes on the item once q's upvote is in.
Counted(q) == IF q.seen = "active" THEN q.count ELSE q.count + 1

\* A new row must not exist yet (primary key), a cancelled one is revived, an
\* active one is left alone; only a new row's flush is followed by a refresh.
CommitUpvote(s) ==
  LET q == req[s]
      i == q.item
      n == Counted(q)
  IN
  /\ At(s, "commit") /\ q.op = "upvote"
  /\ q.seen = "none" => row[i][q.user] = "none"
  /\ row' = IF q.seen = "active" THEN row ELSE [row EXCEPT ![i][q.user] = "active"]
  /\ count' = IF q.seen = "active" THEN count ELSE [count EXCEPT ![i] = n]
  /\ IF Kind[i] = "comment" THEN UNCHANGED karma
     ELSE MoveKarma(q, Contribution(Kind[i], n, IF q.seen = "none" THEN Live(i) ELSE q.live))
  /\ IF q.before \/ Kind[i] = "comment" THEN UNCHANGED <<paid, coins>> ELSE Pay(q)
  /\ Done(s)
  /\ UNCHANGED <<deleted, hidden>>

\* The assert of crud.*.cancel_upvote: the decremented count is not negative.
CancelAsserts(q) == q.count - 1 >= 0

CancelRow(i, u) == row' = [row EXCEPT ![i][u] = "cancelled"]

CommitCancel(s) ==
  LET q == req[s]
      i == q.item
  IN
  /\ At(s, "commit") /\ q.op = "cancel"
  /\ CancelAsserts(q)
  /\ CancelRow(i, q.user)
  /\ count' = [count EXCEPT ![i] = q.count - 1]
  /\ IF Kind[i] = "comment" THEN UNCHANGED karma
     ELSE MoveKarma(q, Contribution(Kind[i], q.count - 1, Live(i)))
  /\ Done(s)
  /\ UNCHANGED <<deleted, hidden, coins, paid>>

\* delete_forever; no refresh, and a deleted item is worth nothing.
CommitDelete(s) ==
  LET q == req[s] IN
  /\ At(s, "commit") /\ q.op = "delete"
  /\ deleted' = [deleted EXCEPT ![q.item] = TRUE]
  /\ MoveKarma(q, 0)
  /\ Done(s)
  /\ UNCHANGED <<row, count, hidden, coins, paid>>

\* update(is_hidden = b): flush and refresh, so the worth after is the table's.
CommitHide(s) ==
  LET q == req[s]
      i == q.item
  IN
  /\ At(s, "commit") /\ q.op \in {"hide", "unhide"}
  /\ hidden' = [hidden EXCEPT ![i] = (q.op = "hide")]
  /\ MoveKarma(q, IF q.op = "hide" THEN 0
                  ELSE Contribution(Kind[i], count[i], ~deleted[i]))
  /\ Done(s)
  /\ UNCHANGED <<row, count, deleted, coins, paid>>

\* Any exception (a failed assert or unique key, Redis down, not a member).
Abort(s) ==
  /\ ~At(s, "idle")
  /\ Done(s)
  /\ UNCHANGED store

Next == \E s \in Slots :
  \/ Begin(s) \/ ReadItem(s) \/ ReadVote(s) \/ NoWork(s) \/ ReadBefore(s)
  \/ ReadAuthor(s) \/ Requery(s) \/ CommitUpvote(s) \/ CommitCancel(s)
  \/ CommitDelete(s) \/ CommitHide(s) \/ Abort(s)

Spec == Init /\ [][Next]_vars

-----------------------------------------------------------------------------
TypeOK ==
  /\ row \in [Items -> [Users -> RowStates]]
  /\ count \in [Items -> Nat]
  /\ deleted \in [Items -> BOOLEAN]
  /\ hidden \in [Items -> BOOLEAN]
  /\ coins \in [Users -> Int]
  /\ karma \in [Users -> Int]
  /\ paid \in [Items -> [Users -> Nat]]
  /\ req \in [Slots -> Request]
  /\ served \in 0..MaxRequests

(* Under every interleaving.                                               *)

\* Nobody spends coins they do not have: although two requests of one voter
\* may both pass the balance check, each writes the balance it checked.
NoOverdraft == \A u \in Users : coins[u] >= 0

\* A vote on a charged item was paid for at least once, however the requests
\* that created, cancelled and revived it overlapped.
VotesArePaid ==
  \A i \in Items, u \in Users :
    Kind[i] # "comment" /\ row[i][u] # "none" => paid[i][u] >= 1

(* Where requests on one item do not overlap.                              *)

\* The cached counter equals the rows the API counts.
CountAgrees == \A i \in IsolatedItems : count[i] = Cardinality(Voters(i))

\* A first upvote pays once: reviving a cancelled vote is free.
PaidOnce ==
  \A i \in IsolatedItems, u \in Users :
    paid[i][u] = IF Kind[i] = "comment" \/ row[i][u] = "none" THEN 0 ELSE 1

\* crud.*.cancel_upvote's assertion holds whenever it is evaluated.
Asserting(s) == At(s, "commit") /\ req[s].op = "cancel"
AssertHolds ==
  \A s \in Slots : Asserting(s) /\ req[s].item \in IsolatedItems => CancelAsserts(req[s])

(* When requests do not overlap at all (one slot).                         *)

\* The incremental karma equals compute_karma.
KarmaAgrees == \A u \in Users : karma[u] = ComputedKarma(u)

\* The book of votes, at this code's prices.
Book == INSTANCE VoteBook WITH
  Price <- [i \in Items |-> Cost(i)],
  Charged <- {i \in Items : Kind[i] # "comment"},
  Base <- [i \in Items |-> CreateKarma[Kind[i]]],
  PerVote <- [i \in Items |-> UpvoteKarma[Kind[i]]]

\* Served one at a time, vote requests implement the book: cached counters and
\* karma, kept up to date request by request, never differ from the recomputed.
ImplementsBook == Book!Spec

-----------------------------------------------------------------------------
(* The strengthenings that make the invariants above inductive.            *)

Charging(q) == q.op = "upvote" /\ q.pc \in {"before", "author", "requery", "commit"}
Cancelling(q) == q.op = "cancel" /\ q.pc \in {"author", "requery", "commit"}

\* What a request may rely on although the tables have moved since it read them.
Reliable(q) ==
  /\ q.coins >= 0 /\ q.authorCoins >= 0
  /\ Charging(q) => /\ q.user # Author[q.item]
                    /\ Kind[q.item] # "comment" => q.coins >= Cost(q.item)
  /\ q.pc = "vote" => q.op \in {"upvote", "cancel"}
  /\ q.pc = "before" => q.op = "upvote"
  /\ q.pc \in {"item", "vote"} => ~q.before
  /\ q.op = "upvote" /\ q.before => q.seen # "none"
  /\ Cancelling(q) => q.seen = "active"
  /\ q.seen # "none" => row[q.item][q.user] # "none"

RaceInv ==
  /\ TypeOK
  /\ NoOverdraft
  /\ VotesArePaid
  /\ \A s \in Slots : Reliable(req[s])

\* With one request per item at a time, what it read about the item is current.
Current(q) ==
  LET r == row[q.item][q.user] IN
  /\ q.pc \notin {"idle", "item"} => q.count = count[q.item]
  /\ Charging(q) => r # "active"
  /\ Cancelling(q) => r = "active"
  /\ /\ q.op = "upvote" /\ q.pc \in {"author", "requery", "commit"}
     /\ Kind[q.item] # "comment"
     => (q.before <=> r # "none")
  /\ Charging(q) /\ (q.pc = "commit" \/ q.seen # "none") => q.seen = r

OnePerItem ==
  \A s, t \in Slots :
    /\ s # t /\ req[s].pc # "idle" /\ req[t].pc # "idle"
    /\ req[s].item \in IsolatedItems
    => req[s].item # req[t].item

IsolatedInv ==
  /\ TypeOK
  /\ OnePerItem
  /\ \A s \in Slots : req[s].item \in IsolatedItems => Current(req[s])
  /\ CountAgrees
  /\ PaidOnce

-----------------------------------------------------------------------------
(* A statement of the sources that the code does not keep.                 *)

\* The assertion of cancel_upvote, whatever overlaps.
AssertNeverFails == \A s \in Slots : Asserting(s) => CancelAsserts(req[s])
=============================================================================
