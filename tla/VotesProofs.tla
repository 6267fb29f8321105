---------------------------- MODULE VotesProofs ----------------------------
(* Safety of Votes for every number of users, items, threads and requests. *)
EXTENDS Votes, SumTheorems

-----------------------------------------------------------------------------
(* Types.                                                                  *)

LEMMA IdleType == Idle \in Request
<1>1. /\ (CHOOSE u \in Users : TRUE) \in Users
      /\ (CHOOSE i \in Items : TRUE) \in Items
  BY ConstantsAssumption
<1> QED BY <1>1 DEF Idle, Request, Steps, Ops, RowStates

LEMMA CostType == ASSUME NEW i \in Items PROVE Cost(i) \in Nat
BY ConstantsAssumption DEF Cost, Kinds, UPVOTE_ARTICLE_COST

LEMMA ContributionType ==
  ASSUME NEW k \in Kinds, NEW n \in Int, NEW b
  PROVE  Contribution(k, n, b) \in Int
<1>1. CreateKarma[k] \in Int /\ UpvoteKarma[k] \in Int
  BY DEF CreateKarma, UpvoteKarma, Kinds
<1> QED BY <1>1 DEF Contribution

\* The author's new karma is an integer, whatever the request loaded.
LEMMA MoveKarmaType ==
  ASSUME NEW q \in Request, NEW worth \in Int,
         karma \in [Users -> Int], MoveKarma(q, worth)
  PROVE  karma' \in [Users -> Int]
<1> DEFINE d == worth - Contribution(Kind[q.item], q.count, q.live)
<1>1. q.item \in Items /\ q.count \in Int /\ q.live \in BOOLEAN /\ q.authorKarma \in Int
  BY DEF Request
<1>2. Contribution(Kind[q.item], q.count, q.live) \in Int
  BY <1>1, ConstantsAssumption, ContributionType
<1>3. d \in Int /\ q.authorKarma + d \in Int
  BY <1>1, <1>2
<1>4. karma' = IF d = 0 THEN karma
               ELSE [karma EXCEPT ![Author[q.item]] = q.authorKarma + d]
  BY DEF MoveKarma
<1> HIDE DEF d
<1> QED BY <1>3, <1>4

LEMMA LiveType == ASSUME TypeOK, NEW i \in Items PROVE Live(i) \in BOOLEAN
BY DEF Live, TypeOK

\* A query keeps the types if what it learns is a request.
LEMMA LearnType ==
  ASSUME TypeOK, NEW s \in Slots, NEW q \in Request, Learn(s, q)
  PROVE  TypeOK'
BY DEF Learn, TypeOK, store

LEMMA InitType == Init => TypeOK
BY IdleType, ConstantsAssumption DEF Init, TypeOK, RowStates

LEMMA NextType == TypeOK /\ [Next]_vars => TypeOK'
<1> SUFFICES ASSUME TypeOK, [Next]_vars PROVE TypeOK'
  OBVIOUS
<1>1. CASE UNCHANGED vars
  BY <1>1 DEF TypeOK, vars, store
<1>2. ASSUME NEW s \in Slots,
             \/ Begin(s) \/ ReadItem(s) \/ ReadVote(s) \/ NoWork(s) \/ ReadBefore(s)
             \/ ReadAuthor(s) \/ Requery(s) \/ CommitUpvote(s) \/ CommitCancel(s)
             \/ CommitDelete(s) \/ CommitHide(s) \/ Abort(s)
      PROVE  TypeOK'
  <2> DEFINE q == req[s]
             i == req[s].item
             u == req[s].user
  <2>q. /\ q \in Request /\ i \in Items /\ u \in Users
        /\ q.coins \in Int /\ q.count \in Nat /\ q.live \in BOOLEAN
        /\ q.before \in BOOLEAN /\ q.seen \in RowStates
        /\ q.authorCoins \in Int /\ q.authorKarma \in Int
        /\ Author[i] \in Users /\ Cost(i) \in Nat
        /\ Live(i) \in BOOLEAN /\ count[i] \in Nat
        /\ row[i][u] \in RowStates /\ deleted[i] \in BOOLEAN
    BY ConstantsAssumption, CostType, LiveType DEF TypeOK, Request
  <2>k. ASSUME NEW n \in Int, NEW b, MoveKarma(q, Contribution(Kind[i], n, b))
        PROVE  karma' \in [Users -> Int]
    BY <2>k, <2>q, ConstantsAssumption, ContributionType, MoveKarmaType DEF TypeOK
  <2>1. CASE Begin(s)
    <3>1. PICK v \in Users, j \in Items, op \in Ops :
            req' = [req EXCEPT ![s] = [Idle EXCEPT
              !.pc = "item", !.op = op, !.user = v, !.item = j, !.coins = coins[v]]]
      BY <2>1 DEF Begin
    <3>2. req' \in [Slots -> Request]
      BY <3>1, IdleType DEF Request, TypeOK, Steps
    <3>3. served' \in 0..MaxRequests
      BY <2>1, ConstantsAssumption DEF Begin, TypeOK
    <3> QED BY <2>1, <3>2, <3>3 DEF Begin, TypeOK, store
  <2>2. CASE ReadItem(s)
    BY <2>2, <2>q, LearnType DEF ReadItem, Request, Steps
  <2>3. CASE ReadVote(s)
    <3> DEFINE new == [q EXCEPT
          !.seen = IF q.op = "cancel" THEN "active" ELSE "none",
          !.pc = IF Kind[i] = "comment" THEN "requery"
                 ELSE IF q.op = "cancel" THEN "author" ELSE "before"]
    <3>1. new \in Request
      BY <2>q DEF Request, Steps, RowStates
    <3>2. Learn(s, new)
      BY <2>3 DEF ReadVote
    <3> HIDE DEF new
    <3> QED BY <3>1, <3>2, LearnType
  <2>4. CASE NoWork(s)
    BY <2>4, IdleType, LearnType DEF NoWork
  <2>5. CASE ReadBefore(s)
    BY <2>5, <2>q, LearnType DEF ReadBefore, UpvotedBefore, TypeOK, Request, Steps
  <2>6. CASE ReadAuthor(s)
    <3> DEFINE new == [q EXCEPT
          !.authorCoins = coins[Author[i]], !.authorKarma = karma[Author[i]],
          !.pc = IF q.op \in {"upvote", "cancel"} THEN "requery" ELSE "commit"]
    <3>1. new \in Request
      BY <2>q DEF Request, Steps, TypeOK
    <3>2. Learn(s, new)
      BY <2>6 DEF ReadAuthor
    <3> HIDE DEF new
    <3> QED BY <3>1, <3>2, LearnType
  <2>7. CASE Requery(s)
    BY <2>7, <2>q, LearnType DEF Requery, Request, Steps
  <2>8. CASE CommitUpvote(s)
    <3>1. karma' \in [Users -> Int]
      BY <2>8, <2>q, <2>k DEF CommitUpvote, Counted, TypeOK
    <3>2. count' \in [Items -> Nat] /\ row' \in [Items -> [Users -> RowStates]]
      BY <2>8, <2>q DEF CommitUpvote, Counted, RowStates, TypeOK
    <3>3. coins' \in [Users -> Int] /\ paid' \in [Items -> [Users -> Nat]]
      <4>1. CASE q.before \/ Kind[i] = "comment"
        BY <2>8, <4>1 DEF CommitUpvote, Counted, TypeOK
      <4>2. CASE ~(q.before \/ Kind[i] = "comment")
        <5>1. Pay(q)
          BY <2>8, <4>2 DEF CommitUpvote
        <5>2. q.coins - Cost(i) \in Int /\ q.authorCoins + Cost(i) \in Int
          BY <2>q
        <5> QED BY <5>1, <5>2, <2>q DEF Pay, TypeOK
      <4> QED BY <4>1, <4>2
    <3> QED BY <2>8, <2>q, <3>1, <3>2, <3>3, IdleType DEF CommitUpvote, Done, TypeOK
  <2>9. CASE CommitCancel(s)
    <3>1. karma' \in [Users -> Int]
      <4>1. q.count - 1 \in Int
        BY <2>q
      <4>2. karma' = karma \/ MoveKarma(q, Contribution(Kind[i], q.count - 1, Live(i)))
        BY <2>9 DEF CommitCancel
      <4> QED BY <4>1, <4>2, <2>k DEF TypeOK
    <3>2. count' \in [Items -> Nat]
      BY <2>9, <2>q DEF CommitCancel, CancelAsserts, TypeOK
    <3>3. row' \in [Items -> [Users -> RowStates]]
      BY <2>9, <2>q DEF CommitCancel, CancelRow, RowStates, TypeOK
    <3> QED BY <2>9, <2>q, <3>1, <3>2, <3>3, IdleType DEF CommitCancel, Done, TypeOK
  <2>10. CASE CommitDelete(s)
    <3>1. karma' \in [Users -> Int]
      BY <2>10, <2>q, MoveKarmaType DEF CommitDelete, TypeOK
    <3> QED BY <2>10, <2>q, <3>1, IdleType DEF CommitDelete, Done, TypeOK
  <2>11. CASE CommitHide(s)
    <3>1. karma' \in [Users -> Int]
      <4>1. \/ MoveKarma(q, 0)
            \/ MoveKarma(q, Contribution(Kind[i], count[i], ~deleted[i]))
        BY <2>11 DEF CommitHide
      <4> QED BY <4>1, <2>q, <2>k, MoveKarmaType DEF TypeOK
    <3> QED BY <2>11, <2>q, <3>1, IdleType DEF CommitHide, Done, TypeOK
  <2>12. CASE Abort(s)
    BY <2>12, IdleType DEF Abort, Done, TypeOK, store
  <2> QED BY <1>2, <2>1, <2>2, <2>3, <2>4, <2>5, <2>6, <2>7, <2>8, <2>9, <2>10, <2>11, <2>12
<1> QED BY <1>1, <1>2 DEF Next
-----------------------------------------------------------------------------
(* Every interleaving: no overdraft, and every vote was paid for.          *)

\* A query keeps RaceInv if what it learns is safe to rely on.
LEMMA LearnRace ==
  ASSUME RaceInv, TypeOK', NEW s \in Slots, NEW q \in Request,
         req' = [req EXCEPT ![s] = q], UNCHANGED store, Reliable(q)
  PROVE  RaceInv'
<1>1. NoOverdraft' /\ VotesArePaid'
  BY DEF RaceInv, store, NoOverdraft, VotesArePaid
<1>2. ASSUME NEW t \in Slots PROVE Reliable(req[t])'
  <2>1. Reliable(req'[t])
    BY DEF RaceInv, TypeOK
  <2> QED BY <2>1 DEF Reliable, store, Charging, Cancelling, Cost
<1> QED BY <1>1, <1>2 DEF RaceInv

LEMMA IdleReliable == Reliable(Idle)
BY DEF Idle, Reliable, Charging, Cancelling

\* A commit leaves the other requests reliable if it takes no vote row away.
LEMMA CommitRace ==
  ASSUME RaceInv, NEW s \in Slots, Done(s),
         \A i \in Items, u \in Users : row[i][u] # "none" => row'[i][u] # "none",
         NEW t \in Slots
  PROVE  Reliable(req[t])'
<1>1. Reliable(req'[t]) /\ req'[t] \in Request
  BY IdleReliable, IdleType DEF RaceInv, TypeOK, Done
<1> QED BY <1>1 DEF Reliable, Charging, Cancelling, Cost, Request

LEMMA InitRace == Init => RaceInv
<1> SUFFICES ASSUME Init PROVE RaceInv
  OBVIOUS
<1>1. TypeOK
  BY InitType
<1>2. NoOverdraft /\ VotesArePaid
  BY ConstantsAssumption DEF Init, NoOverdraft, VotesArePaid
<1>3. \A s \in Slots : Reliable(req[s])
  BY IdleReliable DEF Init
<1> QED BY <1>1, <1>2, <1>3 DEF RaceInv

LEMMA NextRace == RaceInv /\ [Next]_vars => RaceInv'
<1> SUFFICES ASSUME RaceInv, [Next]_vars PROVE RaceInv'
  OBVIOUS
<1> USE DEF RaceInv
<1>0. TypeOK'
  BY NextType
<1>1. CASE UNCHANGED vars
  BY <1>1 DEF TypeOK, NoOverdraft, VotesArePaid, Reliable, Charging, Cancelling, Cost, vars, store
<1>2. ASSUME NEW s \in Slots,
             \/ Begin(s) \/ ReadItem(s) \/ ReadVote(s) \/ NoWork(s) \/ ReadBefore(s)
             \/ ReadAuthor(s) \/ Requery(s) \/ CommitUpvote(s) \/ CommitCancel(s)
             \/ CommitDelete(s) \/ CommitHide(s) \/ Abort(s)
      PROVE  RaceInv'
  <2> DEFINE q == req[s]
             i == req[s].item
             u == req[s].user
             a == Author[req[s].item]
  <2>q. /\ q \in Request /\ i \in Items /\ u \in Users /\ a \in Users
        /\ q.coins \in Int /\ q.count \in Nat /\ q.live \in BOOLEAN
        /\ q.before \in BOOLEAN /\ q.seen \in RowStates
        /\ q.authorCoins \in Int /\ q.authorKarma \in Int /\ q.op \in Ops
        /\ Cost(i) \in Nat /\ row[i][u] \in RowStates
    BY ConstantsAssumption, CostType DEF TypeOK, Request
  <2>s. Reliable(q)
    OBVIOUS
  <2>1. CASE Begin(s)
    <3>1. PICK v \in Users, j \in Items, op \in Ops :
            req' = [req EXCEPT ![s] = [Idle EXCEPT
              !.pc = "item", !.op = op, !.user = v, !.item = j, !.coins = coins[v]]]
      BY <2>1 DEF Begin
    <3> DEFINE new == [Idle EXCEPT
          !.pc = "item", !.op = op, !.user = v, !.item = j, !.coins = coins[v]]
    <3>2. new \in Request /\ new.coins = coins[v] /\ new.authorCoins = 0
          /\ new.pc = "item" /\ ~new.before /\ new.seen = "none"
      BY IdleType DEF Idle, Request, Steps, TypeOK
    <3>3. coins[v] >= 0
      BY DEF NoOverdraft
    <3>4. req' = [req EXCEPT ![s] = new] /\ UNCHANGED store
      BY <2>1, <3>1 DEF Begin
    <3> HIDE DEF new
    <3>r. Reliable(new)
      BY <3>2, <3>3, <3>4 DEF Reliable, Charging, Cancelling
    <3> QED BY <1>0, <3>2, <3>4, <3>r, LearnRace
  <2>2. CASE ReadItem(s)
    <3> DEFINE new == [q EXCEPT !.count = count[i], !.live = Live(i),
                         !.pc = IF q.op \in {"upvote", "cancel"} THEN "vote" ELSE "author"]
    <3>1. new \in Request /\ new.coins = q.coins /\ new.authorCoins = q.authorCoins
          /\ new.pc = (IF q.op \in {"upvote", "cancel"} THEN "vote" ELSE "author")
          /\ new.op = q.op /\ new.seen = q.seen /\ new.before = q.before
          /\ new.item = i /\ new.user = u
      BY <2>q, LiveType DEF Request, Steps, TypeOK
    <3>2. Learn(s, new) /\ q.pc = "item"
      BY <2>2 DEF ReadItem, At
    <3> HIDE DEF new
    <3>r. Reliable(new)
      BY <3>1, <3>2, <2>s DEF Reliable, Charging, Cancelling
    <3> QED BY <1>0, <3>1, <3>2, <3>r, LearnRace DEF Learn
  <2>3. CASE ReadVote(s)
    <3> DEFINE new == [q EXCEPT
          !.seen = IF q.op = "cancel" THEN "active" ELSE "none",
          !.pc = IF Kind[i] = "comment" THEN "requery"
                 ELSE IF q.op = "cancel" THEN "author" ELSE "before"]
    <3>1. new \in Request /\ new.coins = q.coins /\ new.authorCoins = q.authorCoins
          /\ new.op = q.op /\ new.before = q.before
          /\ new.item = i /\ new.user = u
          /\ new.seen = (IF q.op = "cancel" THEN "active" ELSE "none")
          /\ new.pc \in {"requery", "author", "before"}
          /\ (new.pc = "before" => q.op # "cancel")
      BY <2>q DEF Request, Steps, RowStates
    <3>2. Learn(s, new) /\ q.pc = "vote"
      BY <2>3 DEF ReadVote, At
    <3>3. q.op # "cancel" => u # a /\ (Kind[i] # "comment" => q.coins >= Cost(i))
      BY <2>3 DEF ReadVote, HasWork
    <3>4. q.op = "cancel" => row[i][u] = "active"
      BY <2>3 DEF ReadVote, HasWork
    <3> HIDE DEF new
    <3>r. Reliable(new)
      BY <3>1, <3>2, <3>3, <3>4, <2>s DEF Reliable, Charging, Cancelling
    <3> QED BY <1>0, <3>1, <3>2, <3>4, <3>r, LearnRace DEF Learn
  <2>4. CASE NoWork(s)
    BY <1>0, <2>4, IdleType, IdleReliable, LearnRace DEF NoWork, Learn
  <2>5. CASE ReadBefore(s)
    <3> DEFINE new == [q EXCEPT !.before = (row[i][u] # "none"), !.seen = row[i][u],
                                !.pc = "author"]
    <3>1. new \in Request /\ new.coins = q.coins /\ new.authorCoins = q.authorCoins
          /\ new.op = q.op /\ new.seen = row[i][u]
          /\ (new.before => new.seen # "none")
          /\ new.item = i /\ new.user = u /\ new.pc = "author"
      BY <2>q DEF Request, Steps
    <3>2. Learn(s, new) /\ q.pc = "before"
      BY <2>5 DEF ReadBefore, UpvotedBefore, At
    <3> HIDE DEF new
    <3>r. Reliable(new)
      BY <3>1, <3>2, <2>q, <2>s DEF Reliable, Charging, Cancelling
    <3> QED BY <1>0, <3>1, <3>2, <3>r, LearnRace DEF Learn
  <2>6. CASE ReadAuthor(s)
    <3> DEFINE new == [q EXCEPT
          !.authorCoins = coins[a], !.authorKarma = karma[a],
          !.pc = IF q.op \in {"upvote", "cancel"} THEN "requery" ELSE "commit"]
    <3>1. new \in Request /\ new.coins = q.coins /\ new.authorCoins = coins[a]
          /\ new.op = q.op /\ new.seen = q.seen /\ new.before = q.before
          /\ new.item = i /\ new.user = u /\ new.pc \in {"requery", "commit"}
      BY <2>q DEF Request, Steps, TypeOK
    <3>2. Learn(s, new) /\ q.pc = "author"
      BY <2>6 DEF ReadAuthor, At
    <3>3. coins[a] >= 0
      BY <2>q DEF NoOverdraft
    <3> HIDE DEF new
    <3>r. Reliable(new)
      BY <3>1, <3>2, <3>3, <2>s DEF Reliable, Charging, Cancelling
    <3> QED BY <1>0, <3>1, <3>2, <3>r, LearnRace DEF Learn
  <2>7. CASE Requery(s)
    <3> DEFINE new == [q EXCEPT
          !.seen = IF q.seen = "none" THEN row[i][u] ELSE q.seen, !.pc = "commit"]
    <3>1. new \in Request /\ new.coins = q.coins /\ new.authorCoins = q.authorCoins
          /\ new.op = q.op /\ new.before = q.before
          /\ new.seen = (IF q.seen = "none" THEN row[i][u] ELSE q.seen)
          /\ new.item = i /\ new.user = u /\ new.pc = "commit"
      BY <2>q DEF Request, Steps
    <3>2. Learn(s, new) /\ q.pc = "requery"
      BY <2>7 DEF Requery, At
    <3> HIDE DEF new
    <3>r. Reliable(new)
      BY <3>1, <3>2, <2>s DEF Reliable, Charging, Cancelling
    <3> QED BY <1>0, <3>1, <3>2, <3>r, LearnRace DEF Learn
  <2>8. CASE CommitUpvote(s)
    <3>1. Done(s) /\ q.op = "upvote" /\ q.pc = "commit" /\ u # a
          /\ row' = IF q.seen = "active" THEN row ELSE [row EXCEPT ![i][u] = "active"]
      BY <2>8, <2>s DEF CommitUpvote, At, Reliable, Charging
    <3>2. \A t \in Slots : Reliable(req[t])'
      BY <3>1, <2>q, CommitRace DEF TypeOK
    <3>3. CASE q.before \/ Kind[i] = "comment"
      <4>1. coins' = coins /\ paid' = paid
        BY <2>8, <3>3 DEF CommitUpvote
      <4>2. VotesArePaid'
        BY <3>1, <3>3, <4>1, <2>q, <2>s DEF Reliable, VotesArePaid, TypeOK
      <4> QED BY <1>0, <3>2, <4>1, <4>2 DEF NoOverdraft
    <3>4. CASE ~(q.before \/ Kind[i] = "comment")
      <4>1. Pay(q) /\ q.coins >= Cost(i)
        BY <2>8, <2>s, <3>1, <3>4 DEF CommitUpvote, Reliable, Charging
      <4>2. NoOverdraft'
        <5> DEFINE c == Cost(i)
        <5>1. coins' = IF c = 0 THEN coins
                       ELSE [coins EXCEPT ![u] = q.coins - c, ![a] = q.authorCoins + c]
          BY <4>1 DEF Pay
        <5>2. c \in Nat /\ q.coins - c >= 0 /\ q.authorCoins + c >= 0
          BY <4>1, <2>q, <2>s DEF Reliable
        <5> HIDE DEF c
        <5> QED BY <5>1, <5>2 DEF NoOverdraft, TypeOK
      <4>3. paid' = [paid EXCEPT ![i][u] = @ + 1]
        BY <4>1 DEF Pay
      <4>4. VotesArePaid'
        BY <3>1, <4>3, <2>q DEF VotesArePaid, TypeOK
      <4> QED BY <1>0, <3>2, <4>2, <4>4
    <3> QED BY <3>3, <3>4
  <2>9. CASE CommitCancel(s)
    <3>1. Done(s) /\ coins' = coins /\ paid' = paid
          /\ row' = [row EXCEPT ![i][u] = "cancelled"]
      BY <2>9 DEF CommitCancel, CancelRow
    <3>2. \A t \in Slots : Reliable(req[t])'
      BY <3>1, <2>q, CommitRace DEF TypeOK
    <3>3. Kind[i] # "comment" => paid[i][u] >= 1
      BY <2>9, <2>q, <2>s DEF CommitCancel, At, Reliable, Cancelling, VotesArePaid
    <3>4. VotesArePaid'
      BY <3>1, <3>3, <2>q DEF VotesArePaid, TypeOK
    <3> QED BY <1>0, <3>1, <3>2, <3>4 DEF NoOverdraft
  <2>10. CASE CommitDelete(s) \/ CommitHide(s) \/ Abort(s)
    <3>1. Done(s) /\ row' = row /\ coins' = coins /\ paid' = paid
      BY <2>10 DEF CommitDelete, CommitHide, Abort, store
    <3>2. \A t \in Slots : Reliable(req[t])'
      BY <3>1, CommitRace
    <3> QED BY <1>0, <3>1, <3>2 DEF NoOverdraft, VotesArePaid
  <2> QED BY <1>2, <2>1, <2>2, <2>3, <2>4, <2>5, <2>6, <2>7, <2>8, <2>9, <2>10
<1> QED BY <1>1, <1>2 DEF Next

\* Every reachable state satisfies RaceInv, hence TypeOK.
THEOREM TypeCorrect == Spec => []TypeOK
<1>1. RaceInv => TypeOK
  BY DEF RaceInv
<1> QED BY <1>1, InitRace, NextRace, PTL DEF Spec

\* Overlapping requests may lose or repeat a payment, but never overdraw: each
\* request writes the balance it checked (services upvote_*, coins.deduct_coins).
THEOREM NeverOverdrawn == Spec => []NoOverdraft
<1>1. RaceInv => NoOverdraft
  BY DEF RaceInv
<1> QED BY <1>1, InitRace, NextRace, PTL DEF Spec

\* No interleaving leaves an unpaid vote on a charged item: the request that
\* inserted the row is the one that found none before and paid.
THEOREM EveryVotePaid == Spec => []VotesArePaid
<1>1. RaceInv => VotesArePaid
  BY DEF RaceInv
<1> QED BY <1>1, InitRace, NextRace, PTL DEF Spec
-----------------------------------------------------------------------------
(* One request per item at a time: the counter and the payments are exact.  *)

\* A query keeps IsolatedInv if what it learns is current and s keeps i to itself.
LEMMA LearnIsolated ==
  ASSUME IsolatedInv, TypeOK', NEW s \in Slots, NEW q \in Request,
         req' = [req EXCEPT ![s] = q], UNCHANGED store,
         q.item \in IsolatedItems => Current(q),
         q.pc # "idle" /\ q.item \in IsolatedItems =>
           \A t \in Slots : t # s /\ req[t].pc # "idle" => req[t].item # q.item
  PROVE  IsolatedInv'
<1>1. CountAgrees' /\ PaidOnce'
  BY DEF IsolatedInv, store, CountAgrees, PaidOnce, Voters
<1>2. ASSUME NEW t \in Slots, req'[t].item \in IsolatedItems PROVE Current(req[t])'
  <2>1. Current(req'[t])
    BY <1>2 DEF IsolatedInv, TypeOK
  <2> QED BY <2>1 DEF Current, store, Charging, Cancelling
<1>3. OnePerItem'
  BY DEF OnePerItem, IsolatedInv, TypeOK
<1> QED BY <1>1, <1>2, <1>3 DEF IsolatedInv

LEMMA IdleCurrent == Current(Idle)
BY DEF Idle, Current, Charging, Cancelling

\* A commit that touches only its own item leaves the other requests current.
LEMMA CommitIsolated ==
  ASSUME IsolatedInv, NEW s \in Slots, Done(s), req[s].pc # "idle",
         \A j \in Items : j # req[s].item => row'[j] = row[j] /\ count'[j] = count[j],
         NEW t \in Slots, req'[t].item \in IsolatedItems
  PROVE  Current(req[t])'
<1>1. CASE t = s
  <2>1. req'[t] = Idle
    BY <1>1 DEF Done, IsolatedInv, TypeOK
  <2>2. req'[t].pc = "idle" /\ req'[t].op = "upvote" /\ req'[t].seen = "none"
    BY <2>1 DEF Idle
  <2> QED BY <2>2 DEF Current, Charging, Cancelling
<1>2. CASE t # s
  <2>1. req'[t] = req[t] /\ req[t] \in Request /\ Current(req[t])
        /\ req[t].item \in IsolatedItems
    BY <1>2 DEF Done, IsolatedInv, TypeOK
  <2>2. CASE req[t].pc = "idle"
    BY <2>1, <2>2 DEF Current, Charging, Cancelling
  <2>3. CASE req[t].pc # "idle"
    <3>1. req[t].item # req[s].item /\ req[t].item \in Items
      BY <1>2, <2>1, <2>3 DEF IsolatedInv, OnePerItem, Request
    <3> QED BY <2>1, <3>1 DEF Current, Charging, Cancelling
  <2> QED BY <2>2, <2>3
<1> QED BY <1>1, <1>2

LEMMA DoneOnePerItem ==
  ASSUME IsolatedInv, NEW s \in Slots, Done(s) PROVE OnePerItem'
<1>1. \A t \in Slots : req'[t] = req[t] \/ req'[t].pc = "idle"
  BY DEF Done, IsolatedInv, TypeOK, Idle
<1> QED BY <1>1 DEF IsolatedInv, OnePerItem

LEMMA VotersFinite == ASSUME NEW i \in Items PROVE IsFiniteSet(Voters(i))
BY ConstantsAssumption, FS_Subset DEF Voters

\* One more active row is one more voter.
LEMMA AddVoter ==
  ASSUME TypeOK, NEW i \in Items, NEW u \in Users, row[i][u] # "active",
         row' = [row EXCEPT ![i][u] = "active"]
  PROVE  /\ Cardinality(Voters(i)') = Cardinality(Voters(i)) + 1
         /\ \A j \in Items : j # i => Voters(j)' = Voters(j)
<1>1. Voters(i)' = Voters(i) \cup {u} /\ u \notin Voters(i)
  BY DEF TypeOK, Voters
<1>2. \A j \in Items : j # i => Voters(j)' = Voters(j)
  BY DEF TypeOK, Voters
<1> QED BY <1>1, <1>2, VotersFinite, FS_AddElement

\* One active row fewer is one voter fewer, and there was one to lose.
LEMMA RemoveVoter ==
  ASSUME TypeOK, NEW i \in Items, NEW u \in Users, row[i][u] = "active",
         row' = [row EXCEPT ![i][u] = "cancelled"]
  PROVE  /\ Cardinality(Voters(i)') = Cardinality(Voters(i)) - 1
         /\ \A j \in Items : j # i => Voters(j)' = Voters(j)
<1>1. Voters(i)' = Voters(i) \ {u} /\ u \in Voters(i)
  BY DEF TypeOK, Voters
<1>2. \A j \in Items : j # i => Voters(j)' = Voters(j)
  BY DEF TypeOK, Voters
<1> QED BY <1>1, <1>2, VotersFinite, FS_RemoveElement

LEMMA InitIsolated == Init => IsolatedInv
<1> SUFFICES ASSUME Init PROVE IsolatedInv
  OBVIOUS
<1>1. TypeOK
  BY InitType
<1>2. OnePerItem /\ \A s \in Slots : Current(req[s])
  BY IdleCurrent DEF Init, OnePerItem, Idle
<1>3. ASSUME NEW i \in Items PROVE count[i] = Cardinality(Voters(i))
  <2>1. Voters(i) = {}
    BY DEF Init, Voters
  <2> QED BY <2>1, FS_EmptySet DEF Init
<1>4. PaidOnce
  BY ConstantsAssumption DEF Init, PaidOnce
<1> QED BY <1>1, <1>2, <1>3, <1>4, ConstantsAssumption DEF IsolatedInv, CountAgrees

LEMMA NextIsolated ==
  ASSUME RaceInv, IsolatedInv, TypeOK', [Next]_vars PROVE IsolatedInv'
<1>1. CASE UNCHANGED vars
  BY <1>1 DEF vars, store, IsolatedInv, OnePerItem, Current, Charging, Cancelling,
              CountAgrees, PaidOnce, Voters
<1>2. ASSUME NEW s \in Slots,
             \/ Begin(s) \/ ReadItem(s) \/ ReadVote(s) \/ NoWork(s) \/ ReadBefore(s)
             \/ ReadAuthor(s) \/ Requery(s) \/ CommitUpvote(s) \/ CommitCancel(s)
             \/ CommitDelete(s) \/ CommitHide(s) \/ Abort(s)
      PROVE  IsolatedInv'
  <2> DEFINE q == req[s]
             i == q.item
             u == q.user
             a == Author[i]
  <2>q. /\ TypeOK /\ q \in Request /\ i \in Items /\ u \in Users
        /\ row \in [Items -> [Users -> RowStates]]
    BY DEF IsolatedInv, TypeOK, Request
  <2>s. (i \in IsolatedItems => Current(q)) /\ Reliable(q)
    BY DEF IsolatedInv, RaceInv
  <2>o. q.pc # "idle" /\ i \in IsolatedItems =>
          \A t \in Slots : t # s /\ req[t].pc # "idle" => req[t].item # i
    BY DEF IsolatedInv, OnePerItem
  <2>1. CASE Begin(s)
    <3>1. PICK v \in Users, j \in Items, op \in Ops :
            /\ j \in IsolatedItems => Isolated(j)
            /\ req' = [req EXCEPT ![s] = [Idle EXCEPT
              !.pc = "item", !.op = op, !.user = v, !.item = j, !.coins = coins[v]]]
      BY <2>1 DEF Begin
    <3> DEFINE new == [Idle EXCEPT !.pc = "item", !.op = op, !.user = v, !.item = j,
                                   !.coins = coins[v]]
    <3>2. new \in Request
      BY <2>q, IdleType DEF Request, Steps, TypeOK
    <3>3. new.pc = "item" /\ new.item = j
      BY DEF Idle
    <3>4. UNCHANGED store /\ req' = [req EXCEPT ![s] = new]
      BY <2>1, <3>1 DEF Begin
    <3> HIDE DEF new
    <3>5. Current(new)
      BY <3>3 DEF Current, Charging, Cancelling
    <3> QED BY <3>1, <3>2, <3>3, <3>4, <3>5, LearnIsolated DEF Isolated
  <2>2. CASE ReadItem(s)
    <3> DEFINE new == [q EXCEPT
          !.count = count[i], !.live = Live(i),
          !.pc = IF q.op \in {"upvote", "cancel"} THEN "vote" ELSE "author"]
    <3>0. Live(i) \in BOOLEAN
      BY <2>q, LiveType
    <3>1. new \in Request /\ new.item = i /\ new.op = q.op /\ new.seen = q.seen
          /\ new.count = count[i] /\ new.user = u
          /\ new.pc = (IF q.op \in {"upvote", "cancel"} THEN "vote" ELSE "author")
      BY <2>q, <3>0 DEF Request, Steps, TypeOK
    <3>2. Learn(s, new) /\ q.pc = "item"
      BY <2>2 DEF ReadItem, At
    <3> HIDE DEF new
    <3>3. i \in IsolatedItems => Current(new)
      BY <3>1 DEF Current, Charging, Cancelling
    <3> QED BY <2>o, <3>1, <3>2, <3>3, LearnIsolated DEF Learn
  <2>3. CASE ReadVote(s)
    <3> DEFINE new == [q EXCEPT
          !.seen = IF q.op = "cancel" THEN "active" ELSE "none",
          !.pc = IF Kind[i] = "comment" THEN "requery"
                 ELSE IF q.op = "cancel" THEN "author" ELSE "before"]
    <3>1. new \in Request /\ new.item = i /\ new.op = q.op /\ new.user = u
          /\ new.count = q.count
          /\ new.seen = (IF q.op = "cancel" THEN "active" ELSE "none")
          /\ new.pc = (IF Kind[i] = "comment" THEN "requery"
                       ELSE IF q.op = "cancel" THEN "author" ELSE "before")
      BY <2>q DEF Request, Steps, RowStates
    <3>2. Learn(s, new) /\ q.pc = "vote"
      BY <2>3 DEF ReadVote, At
    <3>3. IF q.op = "cancel" THEN row[i][u] = "active" ELSE row[i][u] # "active"
      BY <2>3 DEF ReadVote, HasWork
    <3> HIDE DEF new
    <3>4. i \in IsolatedItems => Current(new)
      BY <2>s, <3>1, <3>2, <3>3 DEF Current, Charging, Cancelling
    <3> QED BY <2>o, <3>1, <3>2, <3>4, LearnIsolated DEF Learn
  <2>4. CASE NoWork(s)
    <3>1. Idle \in Request /\ Idle.pc = "idle"
      BY IdleType DEF Idle
    <3> QED BY <2>4, <3>1, IdleCurrent, LearnIsolated DEF NoWork, Learn
  <2>5. CASE ReadBefore(s)
    <3> DEFINE new == [q EXCEPT !.before = (row[i][u] # "none"), !.seen = row[i][u],
                                !.pc = "author"]
    <3>1. new \in Request /\ new.item = i /\ new.op = q.op /\ new.user = u
          /\ new.count = q.count /\ new.seen = row[i][u] /\ new.pc = "author"
          /\ (new.before <=> row[i][u] # "none")
      BY <2>q DEF Request, Steps
    <3>2. Learn(s, new) /\ q.pc = "before" /\ q.op = "upvote"
      BY <2>5, <2>s DEF ReadBefore, UpvotedBefore, At, Reliable
    <3> HIDE DEF new
    <3>3. i \in IsolatedItems => Current(new)
      BY <2>s, <3>1, <3>2 DEF Current, Charging, Cancelling
    <3> QED BY <2>o, <3>1, <3>2, <3>3, LearnIsolated DEF Learn
  <2>6. CASE ReadAuthor(s)
    <3> DEFINE new == [q EXCEPT
          !.authorCoins = coins[a], !.authorKarma = karma[a],
          !.pc = IF q.op \in {"upvote", "cancel"} THEN "requery" ELSE "commit"]
    <3>1. new \in Request /\ new.item = i /\ new.op = q.op /\ new.user = u
          /\ new.count = q.count /\ new.seen = q.seen /\ (new.before <=> q.before)
          /\ new.pc = (IF q.op \in {"upvote", "cancel"} THEN "requery" ELSE "commit")
      BY <2>q, ConstantsAssumption DEF Request, Steps, TypeOK
    <3>2. Learn(s, new) /\ q.pc = "author"
      BY <2>6 DEF ReadAuthor, At
    <3> HIDE DEF new
    <3>3. i \in IsolatedItems => Current(new)
      BY <2>s, <3>1, <3>2 DEF Current, Charging, Cancelling
    <3> QED BY <2>o, <3>1, <3>2, <3>3, LearnIsolated DEF Learn
  <2>7. CASE Requery(s)
    <3> DEFINE new == [q EXCEPT
          !.seen = IF q.seen = "none" THEN row[i][u] ELSE q.seen, !.pc = "commit"]
    <3>1. new \in Request /\ new.item = i /\ new.op = q.op /\ new.user = u
          /\ new.count = q.count /\ (new.before <=> q.before) /\ new.pc = "commit"
          /\ new.seen = (IF q.seen = "none" THEN row[i][u] ELSE q.seen)
      BY <2>q DEF Request, Steps
    <3>2. Learn(s, new) /\ q.pc = "requery"
      BY <2>7 DEF Requery, At
    <3> HIDE DEF new
    <3>3. i \in IsolatedItems => Current(new)
      BY <2>s, <3>1, <3>2 DEF Current, Charging, Cancelling
    <3> QED BY <2>o, <3>1, <3>2, <3>3, LearnIsolated DEF Learn
  <2>f. ASSUME Done(s), q.pc # "idle", i \notin IsolatedItems,
               \A j \in Items : j # i =>
                 row'[j] = row[j] /\ count'[j] = count[j] /\ paid'[j] = paid[j]
        PROVE  IsolatedInv'
    <3>1. \A t \in Slots : req'[t].item \in IsolatedItems => Current(req[t])'
      BY <2>f, CommitIsolated
    <3>2. \A j \in IsolatedItems : j \in Items /\ j # i
      BY <2>f, ConstantsAssumption
    <3>3. CountAgrees' /\ PaidOnce'
      BY <2>f, <3>2 DEF CountAgrees, PaidOnce, Voters, IsolatedInv
    <3> QED BY <2>f, <3>1, <3>3, DoneOnePerItem DEF IsolatedInv
  <2>8. CASE CommitUpvote(s) /\ i \in IsolatedItems
    <3>1. /\ Done(s) /\ q.pc = "commit" /\ q.op = "upvote"
          /\ row[i][u] # "active" /\ q.count = count[i] /\ q.seen = row[i][u]
          /\ Kind[i] # "comment" => (q.before <=> row[i][u] # "none")
      BY <2>8, <2>s DEF CommitUpvote, Counted, At, Current, Charging
    <3>2. /\ row' = [row EXCEPT ![i][u] = "active"]
          /\ count' = [count EXCEPT ![i] = count[i] + 1]
      BY <2>8, <3>1 DEF CommitUpvote, Counted
    <3>3. \A t \in Slots : req'[t].item \in IsolatedItems => Current(req[t])'
      BY <2>q, <3>1, <3>2, CommitIsolated DEF TypeOK
    <3>4. CountAgrees'
      <4>1. PICK j \in Items, v \in Users : j = i /\ v = u
        BY <2>q
      <4>2. /\ Cardinality(Voters(j)') = Cardinality(Voters(j)) + 1
            /\ \A k \in Items : k # j => Voters(k)' = Voters(k)
        BY <2>q, <3>1, <3>2, <4>1, AddVoter
      <4> QED BY <2>q, <3>2, <4>1, <4>2, ConstantsAssumption DEF CountAgrees, IsolatedInv, TypeOK
    <3>5. IF q.before \/ Kind[i] = "comment" THEN paid' = paid
          ELSE paid' = [paid EXCEPT ![i][u] = @ + 1]
      BY <2>8 DEF CommitUpvote, Pay
    <3>6. PaidOnce'
      BY ConstantsAssumption, <2>q, <3>1, <3>2, <3>5 DEF PaidOnce, IsolatedInv, TypeOK
    <3> QED BY <3>1, <3>3, <3>4, <3>6, DoneOnePerItem DEF IsolatedInv
  <2>9. CASE CommitCancel(s) /\ i \in IsolatedItems
    <3>1. Done(s) /\ q.pc = "commit" /\ row[i][u] = "active" /\ q.count = count[i]
      BY <2>9, <2>s DEF CommitCancel, At, Current, Cancelling
    <3>2. /\ row' = [row EXCEPT ![i][u] = "cancelled"]
          /\ count' = [count EXCEPT ![i] = count[i] - 1]
          /\ paid' = paid
      BY <2>9, <3>1 DEF CommitCancel, CancelRow
    <3>3. \A t \in Slots : req'[t].item \in IsolatedItems => Current(req[t])'
      BY <2>q, <3>1, <3>2, CommitIsolated DEF TypeOK
    <3>4. CountAgrees'
      <4>1. PICK j \in Items, v \in Users : j = i /\ v = u
        BY <2>q
      <4>2. /\ Cardinality(Voters(j)') = Cardinality(Voters(j)) - 1
            /\ \A k \in Items : k # j => Voters(k)' = Voters(k)
        BY <2>q, <3>1, <3>2, <4>1, RemoveVoter
      <4> QED BY <2>q, <3>2, <4>1, <4>2, ConstantsAssumption DEF CountAgrees, IsolatedInv, TypeOK
    <3>5. PaidOnce'
      BY ConstantsAssumption, <2>q, <3>1, <3>2 DEF PaidOnce, IsolatedInv, TypeOK
    <3> QED BY <3>1, <3>3, <3>4, <3>5, DoneOnePerItem DEF IsolatedInv
  <2>10. CASE CommitDelete(s) \/ CommitHide(s) \/ Abort(s)
    <3>1. Done(s) /\ q.pc # "idle" /\ row' = row /\ count' = count /\ paid' = paid
      BY <2>10 DEF CommitDelete, CommitHide, Abort, store, At
    <3>2. \A t \in Slots : req'[t].item \in IsolatedItems => Current(req[t])'
      BY <3>1, CommitIsolated
    <3>3. CountAgrees' /\ PaidOnce'
      BY <3>1 DEF CountAgrees, PaidOnce, Voters, IsolatedInv
    <3> QED BY <3>1, <3>2, <3>3, DoneOnePerItem DEF IsolatedInv
  <2>11. CASE (CommitUpvote(s) \/ CommitCancel(s)) /\ i \notin IsolatedItems
    <3>1. /\ Done(s) /\ q.pc # "idle"
          /\ \A j \in Items : j # i =>
               row'[j] = row[j] /\ count'[j] = count[j] /\ paid'[j] = paid[j]
      BY <2>11, <2>q DEF CommitUpvote, CommitCancel, CancelRow, Pay, At, TypeOK
    <3> QED BY <2>11, <3>1, <2>f
  <2> QED BY <1>2, <2>1, <2>2, <2>3, <2>4, <2>5, <2>6, <2>7, <2>8, <2>9, <2>10, <2>11
<1> QED BY <1>1, <1>2 DEF Next

\* With one request per item at a time, both invariants hold throughout.
LEMMA IsolatedTogether == Spec => [](RaceInv /\ IsolatedInv)
<1>1. RaceInv /\ IsolatedInv /\ [Next]_vars => (RaceInv /\ IsolatedInv)'
  BY NextRace, NextIsolated DEF RaceInv
<1> QED BY <1>1, InitRace, InitIsolated, PTL DEF Spec

\* The cached upvotes_count is exact as long as requests on one item do not
\* overlap, however requests on other items and of one user interleave.
THEOREM CounterExact == Spec => []CountAgrees
<1>1. IsolatedInv => CountAgrees
  BY DEF IsolatedInv
<1> QED BY <1>1, IsolatedTogether, PTL

\* Under the same assumption a first upvote pays exactly once and a revived one
\* pays nothing (upvoted_before in the services).
THEOREM FirstVotePaysOnce == Spec => []PaidOnce
<1>1. IsolatedInv => PaidOnce
  BY DEF IsolatedInv
<1> QED BY <1>1, IsolatedTogether, PTL

\* Under the same assumption the assertion of crud.*.cancel_upvote never fails.
THEOREM CancelNeverAsserts == Spec => []AssertHolds
<1>1. IsolatedInv => AssertHolds
  <2> SUFFICES ASSUME IsolatedInv, NEW s \in Slots, At(s, "commit"), req[s].op = "cancel",
                      req[s].item \in IsolatedItems
               PROVE  req[s].count - 1 >= 0
    BY DEF AssertHolds, Asserting, CancelAsserts
  <2> DEFINE i == req[s].item
             u == req[s].user
  <2>1. i \in Items /\ u \in Users
    BY DEF IsolatedInv, TypeOK, Request
  <2>2. req[s].count = count[i] /\ row[i][u] = "active"
    BY DEF IsolatedInv, Current, Cancelling, At
  <2>3. u \in Voters(i) /\ count[i] = Cardinality(Voters(i))
    BY <2>1, <2>2 DEF Voters, IsolatedInv, CountAgrees
  <2>4. Cardinality(Voters(i)) \in Nat /\ Cardinality(Voters(i)) # 0
    BY <2>1, <2>3, VotersFinite, FS_CardinalityType, FS_EmptySet
  <2> QED BY <2>2, <2>3, <2>4
<1> QED BY <1>1, IsolatedTogether, PTL
-----------------------------------------------------------------------------
(* The author's karma, as long as requests on one author's items do not    *)
(* overlap.                                                                *)

\* What u's items are worth with counters c, of which d are deleted and h hidden.
WorthOf(c, d, h, u) ==
  MapThenSumSet(LAMBDA i : Contribution(Kind[i], c[i], ~d[i] /\ ~h[i]),
                {i \in Items : Author[i] = u})
Worths(c, d, h) == [i \in Items |-> Contribution(Kind[i], c[i], ~d[i] /\ ~h[i])]
ItemsOf(u) == {i \in Items : Author[i] = u}

LEMMA WorthAdds ==
  ASSUME NEW u \in Users, NEW c, NEW d, NEW h,
         \A i \in Items : Worths(c, d, h)[i] \in Int
  PROVE  /\ IsFiniteSet(ItemsOf(u))
         /\ [i \in ItemsOf(u) |-> Worths(c, d, h)[i]] \in [ItemsOf(u) -> Int]
         /\ \E g : /\ Adds(g, [i \in ItemsOf(u) |-> Worths(c, d, h)[i]], ItemsOf(u))
                   /\ WorthOf(c, d, h, u) = g[ItemsOf(u)]
<1> DEFINE S == {i \in Items : Author[i] = u}
           v == [i \in S |-> Worths(c, d, h)[i]]
<1>1. IsFiniteSet(S) /\ S \subseteq Items
  BY ConstantsAssumption, FS_Subset
<1>2. v \in [S -> Int]
  OBVIOUS
<1>3. PICK g : Adds(g, v, S)
  <2> HIDE DEF S, v
  <2> QED BY <1>1, <1>2, SumExists
<1> DEFINE Step(f) == f = [s \in SUBSET S |->
      IF s = {} THEN 0
      ELSE Contribution(Kind[First(s)], c[First(s)], ~d[First(s)] /\ ~h[First(s)])
           + f[s \ {First(s)}]]
<1>4. ASSUME NEW f PROVE Step(f) <=> Adds(f, v, S)
  <2>1. \A s \in SUBSET S : s # {} =>
          v[First(s)] = Contribution(Kind[First(s)], c[First(s)], ~d[First(s)] /\ ~h[First(s)])
    BY <1>1, FirstIn DEF Worths
  <2> HIDE DEF v, S
  <2> QED BY <2>1 DEF Adds
<1>5. WorthOf(c, d, h, u) = (CHOOSE f : Step(f))[S]
  BY DEF WorthOf, MapThenSumSet, MapThenFoldSet, First
<1>6. Step(CHOOSE f : Step(f))
  <2>1. Step(g)
    BY <1>3, <1>4
  <2> HIDE DEF Step
  <2> QED BY <2>1
<1>7. Adds(CHOOSE f : Step(f), v, S)
  <2> HIDE DEF Step, v, S
  <2> QED BY <1>4, <1>6
<1> QED BY <1>1, <1>2, <1>5, <1>7 DEF ItemsOf

\* Only item i changes: its author's sum changes by as much, the others' do not.
LEMMA WorthMoves ==
  ASSUME NEW u \in Users, NEW i \in Items, NEW c, NEW d, NEW h, NEW c2, NEW d2, NEW h2,
         \A j \in Items : Worths(c, d, h)[j] \in Int /\ Worths(c2, d2, h2)[j] \in Int,
         \A j \in Items : j # i => Worths(c2, d2, h2)[j] = Worths(c, d, h)[j]
  PROVE  /\ WorthOf(c, d, h, u) \in Int
         /\ WorthOf(c2, d2, h2, u)
              = WorthOf(c, d, h, u)
                + (IF Author[i] = u THEN Worths(c2, d2, h2)[i] - Worths(c, d, h)[i] ELSE 0)
<1> DEFINE S == ItemsOf(u)
           v == [j \in S |-> Worths(c, d, h)[j]]
           w == [j \in S |-> Worths(c2, d2, h2)[j]]
<1>1. /\ IsFiniteSet(S) /\ v \in [S -> Int] /\ w \in [S -> Int]
      /\ \E g : Adds(g, v, S) /\ WorthOf(c, d, h, u) = g[S]
      /\ \E g : Adds(g, w, S) /\ WorthOf(c2, d2, h2, u) = g[S]
  BY WorthAdds
<1>2. PICK g : Adds(g, v, S) /\ WorthOf(c, d, h, u) = g[S]
  BY <1>1
<1>3. PICK k : Adds(k, w, S) /\ WorthOf(c2, d2, h2, u) = k[S]
  BY <1>1
<1>4. S \in SUBSET S /\ g[S] \in Int
  <2>1. S \in SUBSET S
    OBVIOUS
  <2> HIDE DEF S, v, w
  <2> QED BY <1>1, <1>2, <2>1, SumTyped
<1>5. \A x \in S : x # i => v[x] = w[x]
  BY DEF ItemsOf
<1>6. CASE Author[i] = u
  <2>1. i \in S /\ v[i] = Worths(c, d, h)[i] /\ w[i] = Worths(c2, d2, h2)[i]
    BY <1>6 DEF ItemsOf
  <2>2. k[S] = g[S] + w[i] - v[i]
    <3> HIDE DEF S, v, w
    <3> QED BY <1>1, <1>2, <1>3, <1>5, <2>1, SumChanges
  <2>3. Worths(c, d, h)[i] \in Int /\ Worths(c2, d2, h2)[i] \in Int
    OBVIOUS
  <2> HIDE DEF S, v, w
  <2> QED BY <1>2, <1>3, <1>4, <1>6, <2>1, <2>2, <2>3
<1>7. CASE Author[i] # u
  <2>1. \A x \in S : v[x] = w[x]
    BY <1>5, <1>7 DEF ItemsOf
  <2>2. k[S] = g[S]
    <3> HIDE DEF S, v, w
    <3> QED BY <1>1, <1>2, <1>3, <1>4, <2>1, SumSame
  <2> HIDE DEF S, v, w
  <2> QED BY <1>2, <1>3, <1>4, <1>7, <2>2
<1> QED BY <1>6, <1>7

\* What the tables say an item is worth.
LEMMA WorthTyped ==
  ASSUME NEW c \in [Items -> Nat], NEW d, NEW h, NEW j \in Items
  PROVE  Worths(c, d, h)[j] = Contribution(Kind[j], c[j], ~d[j] /\ ~h[j])
         /\ Worths(c, d, h)[j] \in Int
<1>1. Kind[j] \in Kinds /\ c[j] \in Int
  BY ConstantsAssumption
<1>2. Contribution(Kind[j], c[j], ~d[j] /\ ~h[j]) \in Int
  BY <1>1, ContributionType
<1> QED BY <1>2 DEF Worths

-----------------------------------------------------------------------------
\* No two requests on items of a are served at a time.
Alone(a) ==
  \A s, t \in Slots :
    /\ s # t /\ req[s].pc # "idle" /\ req[t].pc # "idle"
    => ~(Author[req[s].item] = a /\ Author[req[t].item] = a)

\* Requests are served one at a time.
OneThread == \A s, t \in Slots : s = t

\* What a request that is alone with the author loaded is still so.
Known(q) ==
  /\ q.pc \notin {"idle", "item"} =>
       /\ q.count = count[q.item] /\ q.live = Live(q.item)
  /\ /\ q.pc \in {"requery", "commit"}
     /\ Kind[q.item] # "comment" \/ q.op \notin {"upvote", "cancel"}
     => q.authorKarma = karma[Author[q.item]]

KarmaInv(a) ==
  /\ RaceInv
  /\ karma[a] = ComputedKarma(a)
  /\ \A s \in Slots : req[s].pc # "idle" /\ Author[req[s].item] = a => Known(req[s])

LEMMA ComputedIs ==
  ASSUME NEW a
  PROVE  /\ ComputedKarma(a) = WorthOf(count, deleted, hidden, a)
         /\ ComputedKarma(a)' = WorthOf(count', deleted', hidden', a)
BY DEF ComputedKarma, WorthOf, Live, MapThenSumSet, MapThenFoldSet

\* A query keeps KarmaInv if what it learns is so.
LEMMA LearnKarma ==
  ASSUME NEW a \in Users, KarmaInv(a), RaceInv', NEW s \in Slots, NEW q \in Request,
         req' = [req EXCEPT ![s] = q], UNCHANGED store,
         q.pc # "idle" /\ Author[q.item] = a => Known(q)
  PROVE  KarmaInv(a)'
<1>1. karma'[a] = ComputedKarma(a)'
  BY ComputedIs DEF KarmaInv, store
<1>2. ASSUME NEW t \in Slots, req'[t].pc # "idle", Author[req'[t].item] = a PROVE Known(req[t])'
  <2>1. Known(req'[t])
    BY <1>2 DEF KarmaInv, RaceInv, TypeOK
  <2> QED BY <2>1 DEF Known, store, Live
<1> QED BY <1>1, <1>2 DEF KarmaInv

\* A commit on item i keeps it if the author's karma moves by what i's worth does.
LEMMA CommitKarma ==
  ASSUME NEW a \in Users, KarmaInv(a), RaceInv', Alone(a), NEW s \in Slots,
         req[s].pc # "idle", Done(s), NEW i \in Items, i = req[s].item,
         \A j \in Items : j # i =>
           count'[j] = count[j] /\ deleted'[j] = deleted[j] /\ hidden'[j] = hidden[j],
         \A b \in Users : b # Author[i] => karma'[b] = karma[b],
         Author[i] = a =>
           karma'[a] = karma[a]
             + (Contribution(Kind[i], count'[i], ~deleted'[i] /\ ~hidden'[i])
                - Contribution(Kind[i], count[i], ~deleted[i] /\ ~hidden[i]))
  PROVE  KarmaInv(a)'
<1>1. /\ count \in [Items -> Nat] /\ count' \in [Items -> Nat]
      /\ karma \in [Users -> Int] /\ karma' \in [Users -> Int]
      /\ req \in [Slots -> Request]
  BY DEF KarmaInv, RaceInv, TypeOK
<1>2. /\ ComputedKarma(a) = WorthOf(count, deleted, hidden, a)
      /\ ComputedKarma(a)' = WorthOf(count', deleted', hidden', a)
  BY ComputedIs
<1>3. \A j \in Items :
        /\ Worths(count, deleted, hidden)[j]
             = Contribution(Kind[j], count[j], ~deleted[j] /\ ~hidden[j])
        /\ Worths(count', deleted', hidden')[j]
             = Contribution(Kind[j], count'[j], ~deleted'[j] /\ ~hidden'[j])
        /\ Worths(count, deleted, hidden)[j] \in Int
        /\ Worths(count', deleted', hidden')[j] \in Int
  BY <1>1, WorthTyped
<1>4. \A j \in Items : j # i =>
        Worths(count', deleted', hidden')[j] = Worths(count, deleted, hidden)[j]
  BY <1>3
<1>5. /\ WorthOf(count, deleted, hidden, a) \in Int
      /\ WorthOf(count', deleted', hidden', a)
           = WorthOf(count, deleted, hidden, a)
             + (IF Author[i] = a THEN Worths(count', deleted', hidden')[i]
                                     - Worths(count, deleted, hidden)[i] ELSE 0)
  BY <1>3, <1>4, WorthMoves
<1>6. karma'[a] = ComputedKarma(a)'
  <2>1. karma[a] = WorthOf(count, deleted, hidden, a)
    BY <1>2 DEF KarmaInv
  <2>2. CASE Author[i] = a
    BY <1>2, <1>3, <1>5, <2>1, <2>2
  <2>3. CASE Author[i] # a
    BY <1>2, <1>5, <2>1, <2>3
  <2> QED BY <2>2, <2>3
<1>7. ASSUME NEW t \in Slots, req'[t].pc # "idle", Author[req'[t].item] = a PROVE Known(req[t])'
  <2>1. t # s
    BY <1>1, <1>7 DEF Done, Idle
  <2>2. req'[t] = req[t] /\ req[t].item \in Items
    BY <1>1, <2>1 DEF Done, Request
  <2>3. Known(req[t])
    BY <1>7, <2>2 DEF KarmaInv
  <2>4. Author[i] # a /\ req[t].item # i
    BY <1>7, <2>1, <2>2 DEF Alone
  <2>5. karma'[a] = karma[a]
    BY <2>4
  <2>6. Live(req[t].item)' = Live(req[t].item) /\ count'[req[t].item] = count[req[t].item]
    BY <2>2, <2>4 DEF Live
  <2> QED BY <1>7, <2>2, <2>3, <2>5, <2>6 DEF Known, Live
<1> QED BY <1>6, <1>7 DEF KarmaInv

\* tracked() moves the author's karma, where what it loaded is so.
LEMMA KarmaMoves ==
  ASSUME NEW q \in Request, NEW worth \in Int, MoveKarma(q, worth), karma \in [Users -> Int]
  PROVE  /\ \A b \in Users : b # Author[q.item] => karma'[b] = karma[b]
         /\ q.authorKarma = karma[Author[q.item]] =>
              karma'[Author[q.item]]
                = karma[Author[q.item]] + (worth - Contribution(Kind[q.item], q.count, q.live))
<1> DEFINE d == worth - Contribution(Kind[q.item], q.count, q.live)
           a == Author[q.item]
<1>1. a \in Users /\ q.authorKarma \in Int /\ Contribution(Kind[q.item], q.count, q.live) \in Int
  BY ConstantsAssumption, ContributionType DEF Request
<1>2. d \in Int
  BY <1>1
<1>3. karma' = IF d = 0 THEN karma ELSE [karma EXCEPT ![a] = q.authorKarma + d]
  BY DEF MoveKarma
<1> HIDE DEF d, a
<1>4. karma[a] \in Int
  BY <1>1
<1>5. \A b \in Users : b # a => karma'[b] = karma[b]
  BY <1>1, <1>3
<1>6. q.authorKarma = karma[a] => karma'[a] = karma[a] + d
  BY <1>1, <1>2, <1>3, <1>4
<1> QED BY <1>5, <1>6 DEF d, a

\* The behaviour starts with karma reconciled: nothing was voted on, hidden or deleted.
StartsReconciled(a) ==
  InitKarma[a] = WorthOf([i \in Items |-> 0], [i \in Items |-> FALSE], [i \in Items |-> FALSE], a)

LEMMA InitKarmaHolds ==
  ASSUME NEW a \in Users, StartsReconciled(a), Init PROVE KarmaInv(a)
<1>1. ComputedKarma(a) = WorthOf(count, deleted, hidden, a)
  BY ComputedIs
<1>2. RaceInv
  BY InitRace
<1>3. \A s \in Slots : req[s].pc = "idle"
  BY DEF Init, Idle
<1>4. karma[a] = InitKarma[a]
  BY DEF Init
<1>5. WorthOf(count, deleted, hidden, a) = InitKarma[a]
  BY DEF Init, StartsReconciled
<1> QED BY <1>1, <1>2, <1>3, <1>4, <1>5 DEF KarmaInv

LEMMA NextKarma ==
  ASSUME NEW a \in Users, KarmaInv(a), Alone(a), [Next]_vars PROVE KarmaInv(a)'
<1>0. RaceInv /\ RaceInv'
  BY NextRace DEF KarmaInv
<1>1. CASE UNCHANGED vars
  <2>1. ComputedKarma(a)' = ComputedKarma(a)
    BY <1>1, ComputedIs DEF vars, store
  <2> QED BY <1>0, <1>1, <2>1 DEF vars, store, KarmaInv, Known, Live
<1>2. ASSUME NEW s \in Slots,
             \/ Begin(s) \/ ReadItem(s) \/ ReadVote(s) \/ NoWork(s) \/ ReadBefore(s)
             \/ ReadAuthor(s) \/ Requery(s) \/ CommitUpvote(s) \/ CommitCancel(s)
             \/ CommitDelete(s) \/ CommitHide(s) \/ Abort(s)
      PROVE  KarmaInv(a)'
  <2> DEFINE q == req[s]
             i == req[s].item
             b == Author[req[s].item]
  <2>q. /\ q \in Request /\ i \in Items /\ q.user \in Users /\ b \in Users
        /\ q.count \in Nat /\ q.live \in BOOLEAN /\ q.seen \in RowStates
        /\ req \in [Slots -> Request] /\ Kind[i] \in Kinds
        /\ count \in [Items -> Nat] /\ deleted \in [Items -> BOOLEAN]
        /\ hidden \in [Items -> BOOLEAN] /\ karma \in [Users -> Int]
    BY <1>0, ConstantsAssumption DEF RaceInv, TypeOK, Request
  <2>s. (q.pc # "idle" /\ b = a => Known(q)) /\ Reliable(q)
    BY <1>0 DEF KarmaInv, RaceInv
  <2>l. ASSUME NEW new \in Request, req' = [req EXCEPT ![s] = new], UNCHANGED store,
               new.pc # "idle" /\ Author[new.item] = a => Known(new)
        PROVE  KarmaInv(a)'
    BY <1>0, <2>l, LearnKarma
  <2>i. Idle \in Request /\ Idle.pc = "idle"
    BY IdleType DEF Idle
  <2>1. CASE Begin(s)
    <3>1. PICK v \in Users, j \in Items, op \in Ops :
            req' = [req EXCEPT ![s] = [Idle EXCEPT
              !.pc = "item", !.op = op, !.user = v, !.item = j, !.coins = coins[v]]]
      BY <2>1 DEF Begin
    <3> DEFINE N == [Idle EXCEPT
          !.pc = "item", !.op = op, !.user = v, !.item = j, !.coins = coins[v]]
    <3>2. coins[v] \in Int
      BY <1>0 DEF RaceInv, TypeOK
    <3>3. N \in Request /\ N.pc = "item"
      BY <2>i, <3>2 DEF Idle, Request, Steps
    <3>4. UNCHANGED store
      BY <2>1 DEF Begin
    <3> HIDE DEF N
    <3>5. Known(N)
      BY <3>3 DEF Known
    <3> QED BY <2>l, <3>1, <3>3, <3>4, <3>5 DEF N
  <2>2. CASE ReadItem(s)
    <3> DEFINE N == [q EXCEPT !.count = count[i], !.live = Live(i),
                       !.pc = IF q.op \in {"upvote", "cancel"} THEN "vote" ELSE "author"]
    <3>1. N \in Request /\ N.item = i /\ N.count = count[i] /\ N.live = Live(i)
          /\ N.pc \in {"vote", "author"}
      BY <2>q, LiveType, <1>0 DEF Request, Steps, RaceInv
    <3>2. req' = [req EXCEPT ![s] = N] /\ UNCHANGED store
      BY <2>2 DEF ReadItem, Learn
    <3> HIDE DEF N
    <3>3. Known(N)
      BY <3>1 DEF Known
    <3> QED BY <2>l, <3>1, <3>2, <3>3
  <2>3. CASE ReadVote(s)
    <3> DEFINE N == [q EXCEPT
          !.seen = IF q.op = "cancel" THEN "active" ELSE "none",
          !.pc = IF Kind[i] = "comment" THEN "requery"
                 ELSE IF q.op = "cancel" THEN "author" ELSE "before"]
    <3>1. N \in Request /\ N.item = i /\ N.count = q.count /\ N.live = q.live /\ N.op = q.op
          /\ N.pc \in {"requery", "author", "before"}
          /\ (N.pc = "requery" => Kind[i] = "comment")
      BY <2>q DEF Request, Steps, RowStates
    <3>2. req' = [req EXCEPT ![s] = N] /\ UNCHANGED store /\ q.pc = "vote"
      BY <2>3 DEF ReadVote, Learn, At
    <3>3. q.op \in {"upvote", "cancel"}
      BY <2>s, <3>2 DEF Reliable
    <3> HIDE DEF N
    <3>4. Author[N.item] = a => Known(N)
      BY <2>s, <3>1, <3>2, <3>3 DEF Known
    <3> QED BY <2>l, <3>1, <3>2, <3>4
  <2>4. CASE NoWork(s)
    <3>1. req' = [req EXCEPT ![s] = Idle] /\ UNCHANGED store
      BY <2>4 DEF NoWork, Learn
    <3> QED BY <2>i, <2>l, <3>1
  <2>5. CASE ReadBefore(s)
    <3> DEFINE N == [q EXCEPT !.before = UpvotedBefore(i, q.user), !.seen = row[i][q.user],
                              !.pc = "author"]
    <3>1. N \in Request /\ N.item = i /\ N.count = q.count /\ N.live = q.live /\ N.pc = "author"
      <4>1. row[i][q.user] \in RowStates /\ UpvotedBefore(i, q.user) \in BOOLEAN
        BY <2>q, <1>0 DEF RaceInv, TypeOK, UpvotedBefore
      <4> QED BY <2>q, <4>1 DEF Request, Steps
    <3>2. req' = [req EXCEPT ![s] = N] /\ UNCHANGED store /\ q.pc = "before"
      BY <2>5 DEF ReadBefore, Learn, At
    <3> HIDE DEF N
    <3>3. Author[N.item] = a => Known(N)
      BY <2>s, <3>1, <3>2 DEF Known
    <3> QED BY <2>l, <3>1, <3>2, <3>3
  <2>6. CASE ReadAuthor(s)
    <3> DEFINE N == [q EXCEPT
          !.authorCoins = coins[b], !.authorKarma = karma[b],
          !.pc = IF q.op \in {"upvote", "cancel"} THEN "requery" ELSE "commit"]
    <3>1. N \in Request /\ N.item = i /\ N.count = q.count /\ N.live = q.live
          /\ N.authorKarma = karma[b]
      <4>1. coins[b] \in Int /\ karma[b] \in Int
        BY <2>q, <1>0 DEF RaceInv, TypeOK
      <4> QED BY <2>q, <4>1 DEF Request, Steps
    <3>2. req' = [req EXCEPT ![s] = N] /\ UNCHANGED store /\ q.pc = "author"
      BY <2>6 DEF ReadAuthor, Learn, At
    <3> HIDE DEF N
    <3>3. Author[N.item] = a => Known(N)
      BY <2>s, <3>1, <3>2 DEF Known
    <3> QED BY <2>l, <3>1, <3>2, <3>3
  <2>7. CASE Requery(s)
    <3> DEFINE N == [q EXCEPT !.seen = IF q.seen = "none" THEN row[i][q.user] ELSE q.seen,
                              !.pc = "commit"]
    <3>1. N \in Request /\ N.item = i /\ N.count = q.count /\ N.live = q.live
          /\ N.authorKarma = q.authorKarma /\ N.op = q.op
      <4>1. row[i][q.user] \in RowStates
        BY <2>q, <1>0 DEF RaceInv, TypeOK
      <4> QED BY <2>q, <4>1 DEF Request, Steps
    <3>2. req' = [req EXCEPT ![s] = N] /\ UNCHANGED store /\ q.pc = "requery"
      BY <2>7 DEF Requery, Learn, At
    <3> HIDE DEF N
    <3>3. Author[N.item] = a => Known(N)
      BY <2>s, <3>1, <3>2 DEF Known
    <3> QED BY <2>l, <3>1, <3>2, <3>3
  <2>c. ASSUME At(s, "commit"), Done(s),
               \A j \in Items : j # i =>
                 count'[j] = count[j] /\ deleted'[j] = deleted[j] /\ hidden'[j] = hidden[j],
               \A e \in Users : e # b => karma'[e] = karma[e],
               b = a /\ Known(q) =>
                 karma'[b] = karma[b]
                   + (Contribution(Kind[i], count'[i], ~deleted'[i] /\ ~hidden'[i])
                      - Contribution(Kind[i], count[i], ~deleted[i] /\ ~hidden[i]))
        PROVE  KarmaInv(a)'
    <3>1. q.pc # "idle"
      BY <2>c DEF At
    <3> QED BY <1>0, <2>q, <2>s, <2>c, <3>1, CommitKarma
  <2>8. CASE CommitUpvote(s)
    <3>1. /\ At(s, "commit") /\ Done(s) /\ deleted' = deleted /\ hidden' = hidden /\ q.op = "upvote"
          /\ count' = IF q.seen = "active" THEN count ELSE [count EXCEPT ![i] = Counted(q)]
      BY <2>8 DEF CommitUpvote
    <3>2. Counted(q) \in Nat /\ (q.seen # "active" => count'[i] = Counted(q))
          /\ (q.seen = "active" => Counted(q) = q.count /\ count'[i] = count[i])
          /\ \A j \in Items : j # i => count'[j] = count[j]
      BY <2>q, <3>1 DEF Counted
    <3>3. CASE Kind[i] = "comment"
      <4>1. karma' = karma
        BY <2>8, <3>3 DEF CommitUpvote
      <4>2. \A n \in Nat : n * UpvoteKarma["comment"] = 0
        BY DEF UpvoteKarma
      <4>3. CreateKarma["comment"] = 2
        BY DEF CreateKarma
      <4>4. count[i] \in Nat /\ count'[i] \in Nat
        BY <2>q, <3>2
      <4>5. Contribution(Kind[i], count'[i], ~deleted'[i] /\ ~hidden'[i])
             = Contribution(Kind[i], count[i], ~deleted[i] /\ ~hidden[i])
        BY <3>1, <3>3, <4>2, <4>3, <4>4 DEF Contribution
      <4>6. Contribution(Kind[i], count[i], ~deleted[i] /\ ~hidden[i]) \in Int /\ karma[b] \in Int
        BY <2>q, <4>4, ContributionType
      <4> QED BY <2>c, <3>1, <3>2, <4>1, <4>5, <4>6
    <3>4. CASE Kind[i] # "comment"
      <4> DEFINE live == IF q.seen = "none" THEN Live(i) ELSE q.live
                 worth == Contribution(Kind[i], Counted(q), live)
      <4>1. MoveKarma(q, worth) /\ worth \in Int
        BY <2>8, <2>q, <3>2, <3>4, ContributionType DEF CommitUpvote
      <4>2. /\ \A e \in Users : e # b => karma'[e] = karma[e]
            /\ q.authorKarma = karma[b] =>
                 karma'[b] = karma[b] + (worth - Contribution(Kind[i], q.count, q.live))
        <5> HIDE DEF worth
        <5> QED BY <2>q, <4>1, KarmaMoves
      <4>3. ASSUME Known(q)
            PROVE /\ q.authorKarma = karma[b] /\ q.count = count[i] /\ q.live = Live(i)
                  /\ live = Live(i) /\ Counted(q) = count'[i]
        BY <3>1, <3>2, <3>4, <4>3 DEF Known, At
      <4>4. ASSUME Known(q)
            PROVE /\ worth = Contribution(Kind[i], count'[i], ~deleted'[i] /\ ~hidden'[i])
                  /\ Contribution(Kind[i], q.count, q.live)
                       = Contribution(Kind[i], count[i], ~deleted[i] /\ ~hidden[i])
        BY <3>1, <4>3, <4>4 DEF Live
      <4> HIDE DEF worth
      <4> QED BY <2>c, <3>1, <3>2, <4>2, <4>3, <4>4
    <3> QED BY <3>3, <3>4
  <2>9. CASE CommitCancel(s)
    <3>1. /\ At(s, "commit") /\ Done(s) /\ deleted' = deleted /\ hidden' = hidden /\ q.op = "cancel"
          /\ count' = [count EXCEPT ![i] = q.count - 1] /\ q.count - 1 >= 0
      BY <2>9 DEF CommitCancel, CancelAsserts
    <3>2. count'[i] = q.count - 1 /\ q.count - 1 \in Nat
          /\ \A j \in Items : j # i => count'[j] = count[j]
      BY <2>q, <3>1
    <3>3. CASE Kind[i] = "comment"
      <4>1. karma' = karma
        BY <2>9, <3>3 DEF CommitCancel
      <4>2. \A n \in Nat : n * UpvoteKarma["comment"] = 0
        BY DEF UpvoteKarma
      <4>3. CreateKarma["comment"] = 2
        BY DEF CreateKarma
      <4>4. count[i] \in Nat /\ count'[i] \in Nat
        BY <2>q, <3>2
      <4>5. Contribution(Kind[i], count'[i], ~deleted'[i] /\ ~hidden'[i])
             = Contribution(Kind[i], count[i], ~deleted[i] /\ ~hidden[i])
        BY <3>1, <3>3, <4>2, <4>3, <4>4 DEF Contribution
      <4>6. Contribution(Kind[i], count[i], ~deleted[i] /\ ~hidden[i]) \in Int /\ karma[b] \in Int
        BY <2>q, <4>4, ContributionType
      <4> QED BY <2>c, <3>1, <3>2, <4>1, <4>5, <4>6
    <3>4. CASE Kind[i] # "comment"
      <4> DEFINE worth == Contribution(Kind[i], q.count - 1, Live(i))
      <4>1. MoveKarma(q, worth) /\ worth \in Int
        BY <2>9, <2>q, <3>2, <3>4, ContributionType DEF CommitCancel
      <4>2. /\ \A e \in Users : e # b => karma'[e] = karma[e]
            /\ q.authorKarma = karma[b] =>
                 karma'[b] = karma[b] + (worth - Contribution(Kind[i], q.count, q.live))
        <5> HIDE DEF worth
        <5> QED BY <2>q, <4>1, KarmaMoves
      <4>3. ASSUME Known(q)
            PROVE q.authorKarma = karma[b] /\ q.count = count[i] /\ q.live = Live(i)
        BY <3>1, <3>4, <4>3 DEF Known, At
      <4>4. ASSUME Known(q)
            PROVE /\ worth = Contribution(Kind[i], count'[i], ~deleted'[i] /\ ~hidden'[i])
                  /\ Contribution(Kind[i], q.count, q.live)
                       = Contribution(Kind[i], count[i], ~deleted[i] /\ ~hidden[i])
        BY <3>1, <3>2, <4>3, <4>4 DEF Live
      <4> HIDE DEF worth
      <4> QED BY <2>c, <3>1, <3>2, <4>2, <4>3, <4>4
    <3> QED BY <3>3, <3>4
  <2>10. CASE CommitDelete(s)
    <3>1. /\ At(s, "commit") /\ Done(s) /\ count' = count /\ hidden' = hidden /\ q.op = "delete"
          /\ deleted' = [deleted EXCEPT ![i] = TRUE] /\ MoveKarma(q, 0)
      BY <2>10 DEF CommitDelete
    <3>2. /\ \A e \in Users : e # b => karma'[e] = karma[e]
          /\ q.authorKarma = karma[b] =>
               karma'[b] = karma[b] + (0 - Contribution(Kind[i], q.count, q.live))
      BY <2>q, <3>1, KarmaMoves
    <3>3. ASSUME Known(q)
          PROVE q.authorKarma = karma[b] /\ q.count = count[i] /\ q.live = Live(i)
      BY <3>1, <3>3 DEF Known, At
    <3>4. deleted'[i] = TRUE /\ \A j \in Items : j # i => deleted'[j] = deleted[j]
      BY <2>q, <3>1
    <3>5. Contribution(Kind[i], count'[i], ~deleted'[i] /\ ~hidden'[i]) = 0
      BY <3>4 DEF Contribution
    <3>6. Known(q) => Contribution(Kind[i], q.count, q.live)
                        = Contribution(Kind[i], count[i], ~deleted[i] /\ ~hidden[i])
      BY <3>3 DEF Live
    <3> QED BY <2>c, <3>1, <3>2, <3>3, <3>4, <3>5, <3>6
  <2>11. CASE CommitHide(s)
    <3> DEFINE worth == IF q.op = "hide" THEN 0 ELSE Contribution(Kind[i], count[i], ~deleted[i])
    <3>1. /\ At(s, "commit") /\ Done(s) /\ count' = count /\ deleted' = deleted
          /\ q.op \in {"hide", "unhide"}
          /\ hidden' = [hidden EXCEPT ![i] = (q.op = "hide")] /\ MoveKarma(q, worth)
      BY <2>11 DEF CommitHide
    <3>2. worth \in Int
      BY <2>q, ContributionType
    <3>3. /\ \A e \in Users : e # b => karma'[e] = karma[e]
          /\ q.authorKarma = karma[b] =>
               karma'[b] = karma[b] + (worth - Contribution(Kind[i], q.count, q.live))
      <4> HIDE DEF worth
      <4> QED BY <2>q, <3>1, <3>2, KarmaMoves
    <3>4. ASSUME Known(q)
          PROVE q.authorKarma = karma[b] /\ q.count = count[i] /\ q.live = Live(i)
      BY <3>1, <3>4 DEF Known, At
    <3>5. hidden'[i] = (q.op = "hide") /\ \A j \in Items : j # i => hidden'[j] = hidden[j]
      BY <2>q, <3>1
    <3>6. worth = Contribution(Kind[i], count'[i], ~deleted'[i] /\ ~hidden'[i])
      <4>1. CASE q.op = "hide"
        <5>1. hidden'[i] = TRUE
          BY <3>5, <4>1
        <5> QED BY <4>1, <5>1 DEF Contribution
      <4>2. CASE q.op # "hide"
        <5>1. hidden'[i] = FALSE
          BY <3>5, <4>2
        <5> QED BY <3>1, <4>2, <5>1 DEF Contribution
      <4> QED BY <4>1, <4>2
    <3>7. Known(q) => Contribution(Kind[i], q.count, q.live)
                        = Contribution(Kind[i], count[i], ~deleted[i] /\ ~hidden[i])
      BY <3>4 DEF Live
    <3> HIDE DEF worth
    <3> QED BY <2>c, <3>1, <3>3, <3>4, <3>5, <3>6, <3>7
  <2>12. CASE Abort(s)
    <3>1. req' = [req EXCEPT ![s] = Idle] /\ UNCHANGED store
      BY <2>12 DEF Abort, Done
    <3> QED BY <2>i, <2>l, <3>1
  <2> QED BY <1>2, <2>1, <2>2, <2>3, <2>4, <2>5, <2>6, <2>7, <2>8, <2>9, <2>10, <2>11, <2>12
<1> QED BY <1>1, <1>2 DEF Next

\* A user's cached karma is what compute_karma recomputes from the tables as long as
\* no two requests on the user's items overlap, whatever overlaps elsewhere.
THEOREM KarmaExactPerAuthor ==
  ASSUME NEW a \in Users, StartsReconciled(a)
  PROVE  Spec /\ []Alone(a) => [](karma[a] = ComputedKarma(a))
<1>1. Init => KarmaInv(a)
  BY InitKarmaHolds
<1>2. KarmaInv(a) /\ Alone(a) /\ [Next]_vars => KarmaInv(a)'
  BY NextKarma
<1>3. KarmaInv(a) => karma[a] = ComputedKarma(a)
  BY DEF KarmaInv
<1> QED BY <1>1, <1>2, <1>3, PTL DEF Spec

\* Where requests are served one at a time, everybody's karma is.
THEOREM KarmaAlwaysAgrees ==
  ASSUME OneThread, \A u \in Users : StartsReconciled(u)
  PROVE  Spec => []KarmaAgrees
<1> DEFINE Inv == \A u \in Users : KarmaInv(u)
<1>1. Init => Inv
  BY InitKarmaHolds
<1>2. Inv /\ [Next]_vars => Inv'
  <2>1. \A u \in Users : Alone(u)
    BY DEF Alone, OneThread
  <2> QED BY <2>1, NextKarma
<1>3. Inv => KarmaAgrees
  BY DEF KarmaInv, KarmaAgrees
<1> QED BY <1>1, <1>2, <1>3, PTL DEF Spec

-----------------------------------------------------------------------------
(* One request at a time: the book.                                        *)

\* What the book says u's items are worth with rows r.
BookBase == [i \in Items |-> CreateKarma[Kind[i]]]
BookPerVote == [i \in Items |-> UpvoteKarma[Kind[i]]]
BookOf(base, per, r, d, h, u) ==
  MapThenSumSet(LAMBDA i : base[i] + per[i] * Cardinality({v \in Users : r[i][v] = "active"}),
                {i \in Items : Author[i] = u /\ ~d[i] /\ ~h[i]})

LEMMA BookWorthIs ==
  ASSUME NEW u
  PROVE  /\ Book!Worth(u) = BookOf(BookBase, BookPerVote, row, deleted, hidden, u)
         /\ Book!Worth(u)' = BookOf(BookBase, BookPerVote, row', deleted', hidden', u)
BY DEF Book!Worth, BookOf, BookBase, BookPerVote, MapThenSumSet, MapThenFoldSet,
       Book!MapThenSumSet, Book!MapThenFoldSet, Book!Cardinality, Cardinality

\* The book agrees with the counters where these count the rows.
LEMMA BookAgrees ==
  ASSUME NEW u \in Users, NEW r, NEW c \in [Items -> Nat], NEW d, NEW h,
         \A i \in Items : c[i] = Cardinality({v \in Users : r[i][v] = "active"})
  PROVE  BookOf(BookBase, BookPerVote, r, d, h, u) = WorthOf(c, d, h, u)
<1> DEFINE S == ItemsOf(u)
           v == [i \in S |-> Worths(c, d, h)[i]]
           R == {i \in Items : Author[i] = u /\ ~d[i] /\ ~h[i]}
           w == [i \in R |-> Worths(c, d, h)[i]]
<1>1. \A i \in Items : Worths(c, d, h)[i] = Contribution(Kind[i], c[i], ~d[i] /\ ~h[i])
                      /\ Worths(c, d, h)[i] \in Int
  BY WorthTyped
<1>2. IsFiniteSet(S) /\ v \in [S -> Int] /\ \E g : Adds(g, v, S) /\ WorthOf(c, d, h, u) = g[S]
  BY <1>1, WorthAdds
<1>3. R \in SUBSET S /\ w \in [R -> Int] /\ IsFiniteSet(R)
      /\ (\A x \in R : v[x] = w[x]) /\ (\A x \in S \ R : v[x] = 0)
  <2>1. R \in SUBSET S /\ \A x \in S : x \in Items
    BY DEF ItemsOf
  <2>2. w \in [R -> Int] /\ \A x \in R : v[x] = w[x]
    BY <1>1, <2>1
  <2>3. \A x \in S \ R : d[x] \/ h[x]
    BY DEF ItemsOf
  <2>4. \A x \in S \ R : v[x] = 0
    BY <1>1, <2>1, <2>3 DEF Contribution
  <2>5. IsFiniteSet(R)
    BY <1>2, <2>1, FS_Subset
  <2> QED BY <2>1, <2>2, <2>4, <2>5
<1>4. PICK g : Adds(g, v, S) /\ WorthOf(c, d, h, u) = g[S]
  BY <1>2
<1>5. g[S] = g[R]
  <2> HIDE DEF S, v, R, w
  <2> QED BY <1>2, <1>3, <1>4, SumWithoutZeros
<1>6. PICK k : Adds(k, w, R)
  <2> HIDE DEF S, v, R, w
  <2> QED BY <1>3, SumExists
<1> DEFINE Step(f) == f = [s \in SUBSET R |->
      IF s = {} THEN 0
      ELSE BookBase[First(s)] + BookPerVote[First(s)] * Cardinality({x \in Users : r[First(s)][x] = "active"})
           + f[s \ {First(s)}]]
<1>7. ASSUME NEW f PROVE Step(f) <=> Adds(f, w, R)
  <2>1. ASSUME NEW s \in SUBSET R, s # {}
        PROVE w[First(s)] = BookBase[First(s)]
                + BookPerVote[First(s)] * Cardinality({x \in Users : r[First(s)][x] = "active"})
    <3> DEFINE i == First(s)
    <3>1. i \in R
      BY <2>1, FirstIn
    <3> HIDE DEF i
    <3>2. i \in Items /\ ~d[i] /\ ~h[i]
      BY <3>1
    <3>3. w[i] = Contribution(Kind[i], c[i], TRUE)
      BY <1>1, <3>1, <3>2
    <3>4. Contribution(Kind[i], c[i], TRUE) = CreateKarma[Kind[i]] + c[i] * UpvoteKarma[Kind[i]]
      BY DEF Contribution
    <3>5. /\ c[i] = Cardinality({x \in Users : r[i][x] = "active"}) /\ c[i] \in Nat
          /\ BookBase[i] = CreateKarma[Kind[i]] /\ BookPerVote[i] = UpvoteKarma[Kind[i]]
      BY <3>2 DEF BookBase, BookPerVote
    <3>6. UpvoteKarma[Kind[i]] \in Int
      BY <3>2, ConstantsAssumption DEF Kinds, UpvoteKarma
    <3>7. c[i] * UpvoteKarma[Kind[i]] = UpvoteKarma[Kind[i]] * c[i]
      BY <3>5, <3>6
    <3>8. w[i] = BookBase[i] + BookPerVote[i] * c[i]
      BY <3>3, <3>4, <3>5, <3>7
    <3> QED BY <3>5, <3>8 DEF i
  <2> HIDE DEF w, R
  <2> QED BY <2>1 DEF Adds
<1>8. BookOf(BookBase, BookPerVote, r, d, h, u) = (CHOOSE f : Step(f))[R]
  BY DEF BookOf, MapThenSumSet, MapThenFoldSet, First
<1>9. Adds(CHOOSE f : Step(f), w, R)
  <2>1. Step(k)
    BY <1>6, <1>7
  <2>2. Step(CHOOSE f : Step(f))
    <3> HIDE DEF Step
    <3> QED BY <2>1
  <2> HIDE DEF Step, R, w
  <2> QED BY <1>7, <2>2
<1>10. PICK e : e = CHOOSE f : Step(f)
  OBVIOUS
<1>11. Adds(e, w, R) /\ BookOf(BookBase, BookPerVote, r, d, h, u) = e[R]
  <2> HIDE DEF Step, R, w
  <2> QED BY <1>8, <1>9, <1>10
<1>12. g[R] = e[R]
  <2> HIDE DEF S, v, R, w
  <2> QED BY <1>2, <1>3, <1>4, <1>11, SumRestricts
<1> QED BY <1>4, <1>5, <1>11, <1>12

\* Served alone, a request may rely on the balances it loaded too.
Funded(q) ==
  /\ q.pc # "idle" => q.coins = coins[q.user]
  /\ /\ q.pc \in {"requery", "commit"} /\ q.op = "upvote" /\ Kind[q.item] # "comment"
     => q.authorCoins = coins[Author[q.item]]

SerialInv ==
  /\ RaceInv /\ IsolatedInv
  /\ \A u \in Users : KarmaInv(u)
  /\ \A s \in Slots : Funded(req[s])

LEMMA NextFunded ==
  ASSUME OneThread, RaceInv, \A s \in Slots : Funded(req[s]), [Next]_vars, NEW t \in Slots
  PROVE  Funded(req[t])'
<1>1. CASE UNCHANGED vars
  BY <1>1 DEF vars, store, Funded
<1>2. ASSUME NEW s \in Slots,
             \/ Begin(s) \/ ReadItem(s) \/ ReadVote(s) \/ NoWork(s) \/ ReadBefore(s)
             \/ ReadAuthor(s) \/ Requery(s) \/ CommitUpvote(s) \/ CommitCancel(s)
             \/ CommitDelete(s) \/ CommitHide(s) \/ Abort(s)
      PROVE  Funded(req[t])'
  <2>t. t = s
    BY DEF OneThread
  <2> DEFINE q == req[s]
  <2>q. q \in Request /\ Funded(q) /\ req \in [Slots -> Request] /\ Reliable(q)
    BY DEF RaceInv, TypeOK
  <2>1. CASE Begin(s)
    <3>1. PICK v \in Users, j \in Items, op \in Ops :
            req' = [req EXCEPT ![s] = [Idle EXCEPT
              !.pc = "item", !.op = op, !.user = v, !.item = j, !.coins = coins[v]]]
      BY <2>1 DEF Begin
    <3>2. req'[s].pc = "item" /\ req'[s].user = v /\ req'[s].coins = coins[v]
      BY <2>q, <3>1 DEF Idle
    <3>3. coins' = coins
      BY <2>1 DEF Begin, store
    <3> QED BY <2>t, <3>2, <3>3 DEF Funded
  <2>2. CASE ReadItem(s) \/ ReadBefore(s) \/ ReadVote(s)
    <3>1. /\ req'[s].coins = q.coins /\ req'[s].user = q.user /\ req'[s].op = q.op
          /\ req'[s].item = q.item /\ coins' = coins /\ q.pc # "idle"
          /\ req'[s].pc = "requery" => Kind[q.item] = "comment"
          /\ req'[s].pc # "commit"
      <4>1. CASE ReadItem(s)
        BY <2>q, <4>1 DEF ReadItem, Learn, store, At, Request
      <4>2. CASE ReadBefore(s)
        BY <2>q, <4>2 DEF ReadBefore, Learn, store, At, Request
      <4>3. CASE ReadVote(s)
        BY <2>q, <4>3 DEF ReadVote, Learn, store, At, Request
      <4> QED BY <2>2, <4>1, <4>2, <4>3
    <3> QED BY <2>t, <2>q, <3>1 DEF Funded
  <2>3. CASE ReadAuthor(s)
    <3>1. /\ req'[s].coins = q.coins /\ req'[s].user = q.user /\ req'[s].item = q.item
          /\ req'[s].authorCoins = coins[Author[q.item]] /\ coins' = coins /\ q.pc # "idle"
      BY <2>q, <2>3 DEF ReadAuthor, Learn, store, At, Request
    <3> QED BY <2>t, <2>q, <3>1 DEF Funded
  <2>4. CASE Requery(s)
    <3>1. /\ req'[s].coins = q.coins /\ req'[s].user = q.user /\ req'[s].item = q.item
          /\ req'[s].op = q.op /\ req'[s].authorCoins = q.authorCoins
          /\ coins' = coins /\ q.pc = "requery"
      BY <2>q, <2>4 DEF Requery, Learn, store, At, Request
    <3> QED BY <2>t, <2>q, <3>1 DEF Funded
  <2>5. CASE \/ NoWork(s) \/ CommitUpvote(s) \/ CommitCancel(s) \/ CommitDelete(s)
             \/ CommitHide(s) \/ Abort(s)
    <3>1. req'[s].pc = "idle"
      BY <2>q, <2>5 DEF NoWork, CommitUpvote, CommitCancel, CommitDelete, CommitHide, Abort,
                        Done, Learn, Idle
    <3> QED BY <2>t, <3>1 DEF Funded
  <2> QED BY <1>2, <2>1, <2>2, <2>3, <2>4, <2>5
<1> QED BY <1>1, <1>2 DEF Next

LEMMA NextSerial ==
  ASSUME OneThread, SerialInv, [Next]_vars PROVE SerialInv'
<1>1. RaceInv' /\ IsolatedInv'
  BY NextRace, NextIsolated DEF SerialInv, RaceInv
<1>2. \A u \in Users : Alone(u)
  BY DEF Alone, OneThread
<1>3. \A u \in Users : KarmaInv(u)'
  BY <1>2, NextKarma DEF SerialInv
<1>4. \A s \in Slots : Funded(req[s])'
  BY NextFunded DEF SerialInv
<1> QED BY <1>1, <1>3, <1>4 DEF SerialInv

LEMMA InitSerial ==
  ASSUME \A u \in Users : StartsReconciled(u), Init PROVE SerialInv
<1>1. \A s \in Slots : Funded(req[s])
  BY DEF Init, Idle, Funded
<1> QED BY <1>1, InitRace, InitIsolated, InitKarmaHolds DEF SerialInv

\* The cached karma is what the book says.
LEMMA KarmaOfBook ==
  ASSUME IsolatedItems = Items, SerialInv PROVE karma = [u \in Users |-> Book!Worth(u)]
<1>1. ASSUME NEW u \in Users PROVE karma[u] = Book!Worth(u)
  <2>1. karma[u] = WorthOf(count, deleted, hidden, u)
    BY ComputedIs DEF SerialInv, KarmaInv
  <2>2. count \in [Items -> Nat] /\ \A i \in Items : count[i] = Cardinality({v \in Users : row[i][v] = "active"})
    BY DEF SerialInv, RaceInv, TypeOK, IsolatedInv, CountAgrees, Voters
  <2>3. BookOf(BookBase, BookPerVote, row, deleted, hidden, u) = WorthOf(count, deleted, hidden, u)
    BY <2>2, BookAgrees
  <2> QED BY <2>1, <2>3, BookWorthIs
<1>2. karma \in [Users -> Int]
  BY DEF SerialInv, RaceInv, TypeOK
<1> QED BY <1>1, <1>2

LEMMA KarmaOfBookNext ==
  ASSUME IsolatedItems = Items, SerialInv' PROVE karma' = [u \in Users |-> Book!Worth(u)']
<1>1. ASSUME NEW u \in Users PROVE karma'[u] = Book!Worth(u)'
  <2>1. karma'[u] = WorthOf(count', deleted', hidden', u)
    BY ComputedIs DEF SerialInv, KarmaInv
  <2>2. count' \in [Items -> Nat] /\ \A i \in Items : count'[i] = Cardinality({v \in Users : row'[i][v] = "active"})
    BY DEF SerialInv, RaceInv, TypeOK, IsolatedInv, CountAgrees, Voters
  <2>3. BookOf(BookBase, BookPerVote, row', deleted', hidden', u) = WorthOf(count', deleted', hidden', u)
    BY <2>2, BookAgrees
  <2> QED BY <2>1, <2>3, BookWorthIs
<1>2. karma' \in [Users -> Int]
  BY DEF SerialInv, RaceInv, TypeOK
<1> QED BY <1>1, <1>2

LEMMA InitOfBook ==
  ASSUME IsolatedItems = Items, SerialInv, Init PROVE Book!Init
BY KarmaOfBook DEF Init, Book!Init

LEMMA StepOfBook ==
  ASSUME OneThread, IsolatedItems = Items, SerialInv, SerialInv', [Next]_vars
  PROVE  [Book!Next]_(Book!bookVars)
<1>k. karma' = [u \in Users |-> Book!Worth(u)']
  BY KarmaOfBookNext
<1>0. CASE UNCHANGED store
  BY <1>0 DEF store, Book!bookVars
<1>1. CASE UNCHANGED vars
  BY <1>0, <1>1 DEF vars
<1>2. ASSUME NEW s \in Slots, CommitUpvote(s) PROVE Book!Next
  <2> DEFINE q == req[s]
             i == req[s].item
             u == req[s].user
             a == Author[req[s].item]
  <2>1. /\ q \in Request /\ i \in Items /\ u \in Users /\ a \in Users
        /\ row \in [Items -> [Users -> RowStates]] /\ coins \in [Users -> Int]
        /\ paid \in [Items -> [Users -> Nat]] /\ Cost(i) \in Nat
    BY ConstantsAssumption, CostType DEF SerialInv, RaceInv, TypeOK, Request
  <2>2. q.pc = "commit" /\ q.op = "upvote" /\ Reliable(q) /\ Current(q) /\ Funded(q)
    BY <1>2, <2>1 DEF CommitUpvote, At, SerialInv, RaceInv, IsolatedInv
  <2>3. /\ u # a /\ q.seen = row[i][u] /\ row[i][u] # "active" /\ q.coins = coins[u]
        /\ Kind[i] # "comment" =>
             /\ q.coins >= Cost(i) /\ q.authorCoins = coins[a] /\ (q.before <=> row[i][u] # "none")
    BY <2>2 DEF Reliable, Current, Funded, Charging
  <2>4. row' = [row EXCEPT ![i][u] = "active"] /\ deleted' = deleted /\ hidden' = hidden
    BY <1>2, <2>3 DEF CommitUpvote
  <2>5. CASE row[i][u] = "none"
    <3>1. CASE Kind[i] = "comment"
      <4>1. coins' = coins /\ paid' = paid
        BY <1>2, <3>1 DEF CommitUpvote
      <4>2. Book!FirstVote(u, i)
        BY <2>3, <2>4, <2>5, <3>1, <4>1 DEF Book!FirstVote
      <4> QED BY <1>k, <2>1, <4>2 DEF Book!Next
    <3>2. CASE Kind[i] # "comment"
      <4>1. Pay(q)
        BY <1>2, <2>3, <2>5, <3>2 DEF CommitUpvote
      <4>2. paid[i][u] = 0
        BY <2>1, <2>5 DEF SerialInv, IsolatedInv, PaidOnce
      <4>3. paid' = [paid EXCEPT ![i][u] = 1]
        BY <2>1, <4>1, <4>2 DEF Pay
      <4> DEFINE c == Cost(i)
      <4>4. coins' = IF c = 0 THEN coins
                     ELSE [coins EXCEPT ![u] = coins[u] - c, ![a] = coins[a] + c]
        BY <2>3, <3>2, <4>1 DEF Pay
      <4>5. c \in Nat /\ coins[u] >= c /\ [j \in Items |-> Cost(j)][i] = c
        BY <2>1, <2>3, <3>2
      <4>6. coins' = [coins EXCEPT ![u] = @ - c, ![a] = @ + c]
        <5> HIDE DEF c, u, a
        <5>1. CASE c # 0
          BY <2>1, <2>3, <4>4, <5>1
        <5>2. CASE c = 0
          <6>1. coins[u] - c = coins[u] /\ coins[a] + c = coins[a]
            BY <2>1, <5>2
          <6>2. [coins EXCEPT ![u] = coins[u] - c, ![a] = coins[a] + c] = coins
            BY <2>1, <6>1
          <6>3. coins' = coins
            BY <4>4, <5>2
          <6> QED BY <2>1, <2>3, <6>2, <6>3
        <5> QED BY <5>1, <5>2
      <4>7. Book!FirstVote(u, i)
        BY <2>1, <2>3, <2>4, <2>5, <3>2, <4>3, <4>5, <4>6 DEF Book!FirstVote
      <4> QED BY <1>k, <2>1, <4>7 DEF Book!Next
    <3> QED BY <3>1, <3>2
  <2>6. CASE row[i][u] # "none"
    <3>1. row[i][u] = "cancelled"
      BY <2>1, <2>3, <2>6 DEF RowStates
    <3>2. coins' = coins /\ paid' = paid
      BY <1>2, <2>3, <2>6 DEF CommitUpvote
    <3>3. Book!ReviveVote(u, i)
      BY <2>1, <2>3, <2>4, <3>1, <3>2 DEF Book!ReviveVote
    <3> QED BY <1>k, <2>1, <3>3 DEF Book!Next
  <2> QED BY <2>5, <2>6
<1>3. ASSUME NEW s \in Slots, CommitCancel(s) PROVE Book!Next
  <2> DEFINE q == req[s]
  <2>1. q.item \in Items /\ q.user \in Users
    BY DEF SerialInv, RaceInv, TypeOK, Request
  <2>2. Current(q) /\ q.pc = "commit" /\ q.op = "cancel"
    BY <1>3, <2>1 DEF CommitCancel, At, SerialInv, IsolatedInv
  <2>3. row[q.item][q.user] = "active"
    BY <2>2 DEF Current, Cancelling
  <2>4. Book!CancelVote(q.user, q.item)
    BY <1>3, <2>3 DEF CommitCancel, CancelRow, Book!CancelVote
  <2> QED BY <1>k, <2>1, <2>4 DEF Book!Next
<1>4. ASSUME NEW s \in Slots, CommitDelete(s) PROVE Book!Next
  <2>1. req[s].item \in Items
    BY DEF SerialInv, RaceInv, TypeOK, Request
  <2>2. Book!Delete(req[s].item)
    BY <1>4 DEF CommitDelete, Book!Delete
  <2> QED BY <1>k, <2>1, <2>2 DEF Book!Next
<1>5. ASSUME NEW s \in Slots, CommitHide(s) PROVE Book!Next
  <2>1. req[s].item \in Items
    BY DEF SerialInv, RaceInv, TypeOK, Request
  <2>2. PICK b \in BOOLEAN : b = (req[s].op = "hide")
    OBVIOUS
  <2>3. Book!SetHidden(req[s].item, b)
    BY <1>5, <2>2 DEF CommitHide, Book!SetHidden
  <2> QED BY <1>k, <2>1, <2>3 DEF Book!Next
<1>6. ASSUME NEW s \in Slots,
             \/ Begin(s) \/ ReadItem(s) \/ ReadVote(s) \/ NoWork(s) \/ ReadBefore(s)
             \/ ReadAuthor(s) \/ Requery(s) \/ Abort(s)
      PROVE  UNCHANGED store
  BY <1>6 DEF Begin, ReadItem, ReadVote, NoWork, ReadBefore, ReadAuthor, Requery, Abort, Learn
<1> QED BY <1>0, <1>1, <1>2, <1>3, <1>4, <1>5, <1>6 DEF Next

\* Served one at a time, with karma reconciled when they begin, requests implement the
\* book: every commit is a step of it, and reads, refusals and failures leave it alone.
THEOREM VotesImplementBook ==
  ASSUME OneThread, IsolatedItems = Items, \A u \in Users : StartsReconciled(u)
  PROVE  Spec => ImplementsBook
<1>1. Init => SerialInv /\ Book!Init
  BY InitSerial, InitOfBook
<1>2. SerialInv /\ [Next]_vars => SerialInv'
  BY NextSerial
<1>3. SerialInv /\ SerialInv' /\ [Next]_vars => [Book!Next]_(Book!bookVars)
  BY StepOfBook
<1> QED BY <1>1, <1>2, <1>3, PTL DEF Spec, ImplementsBook, Book!Spec
=============================================================================
