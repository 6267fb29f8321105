-------------------------- MODULE CommunityProofs ---------------------------
(***************************************************************************)
(* Proofs about Community, for any users, contents, addresses, channels,   *)
(* threads and bounds.  A behaviour runs one component, and the other ones *)
(* stay as they were, so that an invariant of a component is proved of its *)
(* own steps (RunsAlone) and holds of the whole whenever it runs.          *)
(***************************************************************************)
EXTENDS Community, FiniteSetTheorems, FunctionTheorems, TLAPS

LEMMA RunsAlone ==
  ASSUME [CommunityNext]_communityVars
  PROVE  /\ part' = part
         /\ part = "suggestions" => Next \/ UNCHANGED vars
         /\ part = "delivery" => D!Next \/ UNCHANGED delivery
         /\ part = "commenting" => C!Next \/ UNCHANGED commenting
         /\ part = "links" => L!Next \/ UNCHANGED linking
         /\ part = "accounts" => A!Next \/ UNCHANGED accounts
         /\ part = "views" => V!Next \/ UNCHANGED viewing
         /\ part = "timeline" => T!Next \/ UNCHANGED timeline
         /\ part = "interests" => I!Next \/ UNCHANGED interests
         /\ part = "channels" => H!Next \/ UNCHANGED channels
  BY DEF CommunityNext, communityVars, RunSuggestions, RunDelivery, RunCommenting, RunLinks,
         RunAccounts, RunViews, RunTimeline, RunInterests, RunChannels

-----------------------------------------------------------------------------
(* Views.                                                                 *)

ViewsInv ==
  /\ V!TypeOK /\ V!ViewsAccounted
  /\ step = 1 => \A o \in Objects : batch[o] <= list[o]

LEMMA ViewsInit == MaxViews \in Nat /\ V!Init => ViewsInv
  BY SMT DEF ViewsInv, V!Init, V!TypeOK, V!ViewsAccounted, V!Zero, V!InRun, V!Did, V!Order

LEMMA ViewsStep ==
  ASSUME MaxViews \in Nat, ViewsInv, V!Next
  PROVE  ViewsInv'
<1> DEFINE Exact(c, l, b, n, d, x, v) ==
             \A o \in Objects : c[o] + l[o] + (IF n = 2 THEN b[o] ELSE 0) + d[o] + x[o] = v[o]
<1>1. Len(V!Order) = 3 /\ V!Order[1] = "read" /\ V!Order[2] = "delete" /\ V!Order[3] = "commit"
  BY DEF V!Order
<1>2. /\ V!TypeOK /\ Exact(counter, list, batch, step, late, dropped, views)
      /\ step \in 0..2 /\ (V!Did("delete") /\ ~V!Did("commit") <=> step = 2)
      /\ step = 1 => \A o \in Objects : batch[o] <= list[o]
  BY <1>1 DEF ViewsInv, V!ViewsAccounted, V!InRun, V!Did, V!TypeOK
<1>3. ASSUME V!TypeOK', Exact(counter', list', batch', step', late', dropped', views'),
             step' = 1 => \A o \in Objects : batch'[o] <= list'[o]
      PROVE  ViewsInv'
  <2>1. step' \in 0..2 /\ ((V!Did("delete") /\ ~V!Did("commit"))' <=> step' = 2)
    BY <1>1, <1>3 DEF V!Did, V!TypeOK
  <2> QED BY <1>3, <2>1 DEF ViewsInv, V!ViewsAccounted, V!InRun
<1>4. ASSUME NEW o \in Objects, V!View(o) PROVE ViewsInv'
  <2>1. V!TypeOK'
    BY <1>1, <1>2, <1>4 DEF V!View, V!TypeOK
  <2>2. Exact(counter', list', batch', step', late', dropped', views')
    <3>1. \A p \in Objects : p # o => list'[p] = list[p] /\ views'[p] = views[p]
      BY <1>2, <1>4 DEF V!View, V!TypeOK
    <3>2. list'[o] = list[o] + 1 /\ views'[o] = views[o] + 1
      BY <1>2, <1>4 DEF V!View, V!TypeOK
    <3>3. UNCHANGED <<counter, step, batch, late, dropped>>
      BY <1>4 DEF V!View
    <3> SUFFICES ASSUME NEW p \in Objects
                 PROVE counter'[p] + list'[p] + (IF step' = 2 THEN batch'[p] ELSE 0)
                         + late'[p] + dropped'[p] = views'[p]
      OBVIOUS
    <3>4. /\ counter[p] \in Nat /\ list[p] \in Nat /\ batch[p] \in Nat /\ late[p] \in Nat
          /\ dropped[p] \in Nat /\ views[p] \in Nat
          /\ counter[p] + list[p] + (IF step = 2 THEN batch[p] ELSE 0) + late[p] + dropped[p]
               = views[p]
      BY <1>2 DEF V!TypeOK
    <3> QED BY <3>1, <3>2, <3>3, <3>4
  <2>3. step' = 1 => \A p \in Objects : batch'[p] <= list'[p]
    BY <1>2, <1>4 DEF V!View, V!TypeOK
  <2> QED BY <1>3, <2>1, <2>2, <2>3
<1>5. CASE V!Read
  BY <1>1, <1>2, <1>3, <1>5 DEF V!Read, V!Now, V!Proceed, V!past, V!TypeOK
<1>6. CASE V!Delete
  <2>1. step = 1 /\ step' = 2
    BY <1>1, <1>2, <1>6 DEF V!Delete, V!Now, V!Proceed
  <2>2. V!TypeOK'
    BY <1>1, <1>2, <1>6, <2>1 DEF V!Delete, V!Zero, V!TypeOK
  <2>3. Exact(counter', list', batch', step', late', dropped', views')
    BY <1>2, <1>6, <2>1 DEF V!Delete, V!Zero, V!TypeOK
  <2> QED BY <1>3, <2>1, <2>2, <2>3
<1>7. CASE V!Commit
  <2>1. step = 2 /\ step' = 0
    BY <1>1, <1>2, <1>7 DEF V!Commit, V!Now, V!Proceed
  <2>2. \A o \in Objects : counter'[o] = counter[o] + batch[o]
    BY <1>7 DEF V!Commit, V!Sum, V!Increment
  <2>3. V!TypeOK'
    <3>1. counter' \in [Objects -> Nat]
      BY <1>2, <1>7, <2>2 DEF V!Commit, V!Sum, V!Increment, V!TypeOK
    <3> QED BY <1>1, <1>2, <1>7, <2>1, <3>1 DEF V!Commit, V!past, V!TypeOK
  <2>4. UNCHANGED <<list, batch, late, dropped, views>>
    BY <1>7 DEF V!Commit, V!past
  <2>5. ASSUME NEW p \in Objects
        PROVE counter'[p] + list'[p] + (IF step' = 2 THEN batch'[p] ELSE 0)
                + late'[p] + dropped'[p] = views'[p]
    <3>1. /\ counter[p] \in Nat /\ list[p] \in Nat /\ batch[p] \in Nat /\ late[p] \in Nat
          /\ dropped[p] \in Nat /\ views[p] \in Nat
          /\ counter[p] + list[p] + batch[p] + late[p] + dropped[p] = views[p]
      BY <1>2, <2>1 DEF V!TypeOK
    <3> QED BY <2>1, <2>2, <2>4, <3>1
  <2> QED BY <1>2, <1>3, <2>1, <2>3, <2>4, <2>5
<1>8. CASE V!Fail
  BY <1>1, <1>2, <1>3, <1>8 DEF V!Fail, V!Sum, V!TypeOK
<1> QED
  BY <1>4, <1>5, <1>6, <1>7, <1>8 DEF V!Next

\* A view is on the list, with a run, in the counter, or was lost by the race of the two Redis
\* commands or by a failed run, and is so once (services/viewcounts.py).
THEOREM ViewsAlwaysAccounted == CommunitySpec => []ViewsAccounted
<1> DEFINE Inv == part = "views" => ViewsInv
<1>1. CommunityInit => Inv
  BY ViewsBounds, ViewsInit DEF CommunityInit
<1>2. ViewsInv /\ UNCHANGED viewing => ViewsInv'
  BY DEF viewing, ViewsInv, V!TypeOK, V!ViewsAccounted, V!InRun, V!Did
<1>3. Inv /\ [CommunityNext]_communityVars => Inv'
  BY <1>2, ViewsBounds, RunsAlone, ViewsStep
<1>4. Inv => ViewsAccounted
  BY DEF ViewsInv, ViewsAccounted
<1> QED BY <1>1, <1>3, <1>4, PTL DEF CommunitySpec

-----------------------------------------------------------------------------
(* Comments.                                                              *)

\* A chore that writes the Activity of its comment when it ends, or will if it finds
\* the comment shared when it starts.
WillLog(t) == (t.op = "create" \/ C!SharesLater(t)) /\ (t.pc = "queued" \/ t.seen)
Busy(s) == asked[s].pc = "commit"

\* Nothing comes before a comment.
NothingBefore ==
  \A c \in Remarks :
    ~remark[c].exists =>
      /\ told[c] = 0 /\ logged[c] = 0 /\ ~remark[c].shared
      /\ \A t \in chores : t.c # c
      /\ \A s \in Slots : Busy(s) /\ asked[s].c = c => asked[s].op = "create"

\* A comment is created by one request, before anything else happens to it; requests on
\* isolated ones are alone.
AskedWell ==
  /\ \A s \in Slots :
       Busy(s) =>
         /\ acts >= 1
         /\ asked[s].op = "create" => ~remark[asked[s].c].exists
         /\ asked[s].op = "update" =>
              /\ asked[s].was => remark[asked[s].c].shared
              /\ asked[s].c \in IsolatedRemarks => asked[s].was = remark[asked[s].c].shared
  /\ \A s, t \in Slots :
       Busy(s) /\ Busy(t) /\ asked[s].c = asked[t].c
         /\ (asked[s].op = "create" \/ asked[s].c \in IsolatedRemarks) => s = t

\* What a chore has seen, or its request has done, is still so.
ChoresFit ==
  /\ \A t \in chores :
       /\ t.pc = "queued" => ~t.seen
       /\ t.seen \/ t.shares => remark[t.c].shared
       /\ t.op = "create" => told[t.c] = 0
  /\ \A t, u \in chores : t.op = "create" /\ u.op = "create" /\ t.c = u.c => t = u

\* While no task of a comment was lost, what is not done yet has a chore that will do it.
NoneForgotten ==
  \A c \in Remarks :
    remark[c].exists /\ c \notin missed =>
      /\ told[c] = 1 \/ \E t \in chores : t.c = c /\ t.op = "create"
      /\ remark[c].shared => logged[c] >= 1 \/ \E t \in chores : t.c = c /\ WillLog(t)

\* One chore at most logs an isolated comment that was not shared early.
LoggedByOne ==
  \A c \in IsolatedRemarks \ early :
    /\ c \in Remarks => logged[c] <= 1
    /\ \A t \in chores : t.c = c /\ WillLog(t) =>
         /\ logged[c] = 0
         /\ \A u \in chores : u.c = c /\ WillLog(u) => t = u

CommentsInv ==
  /\ C!TypeOK
  /\ \A c \in Remarks : told[c] <= 1 /\ (logged[c] > 0 => remark[c].shared)
  /\ NothingBefore /\ AskedWell /\ ChoresFit /\ NoneForgotten /\ LoggedByOne

LEMMA NoAskType == C!NoAsk \in C!Ask /\ C!NoAsk.pc = "idle"
<1>1. (CHOOSE c \in Remarks : TRUE) \in Remarks
  BY CommentingBounds
<1> QED BY <1>1 DEF C!NoAsk, C!Ask

LEMMA CommentsInit == C!Init => CommentsInv
  BY NoAskType, CommentingBounds
     DEF C!Init, CommentsInv, C!TypeOK, NothingBefore, AskedWell, ChoresFit, NoneForgotten,
         LoggedByOne, C!NoRemark, C!Remark, Busy

\* A request begins.
LEMMA RemarkAsked ==
  ASSUME CommentsInv, NEW s \in Slots, NEW q \in C!Ask, C!Start(s, q), q.pc = "commit",
         q.op = "create" => ~remark[q.c].exists /\ C!Alone(q.c),
         q.op # "create" => remark[q.c].exists,
         q.op = "update" => q.was = remark[q.c].shared
  PROVE  CommentsInv'
<1>1. /\ asked' = [asked EXCEPT ![s] = q] /\ acts' = acts + 1 /\ acts < MaxActs
      /\ UNCHANGED <<remark, told, logged, chores, outages, missed, early>>
      /\ q.c \in IsolatedRemarks => C!Alone(q.c)
      /\ ~Busy(s)
  BY DEF C!Start, C!rows, C!past, Busy
<1>2. asked'[s] = q /\ \A t \in Slots \ {s} : asked'[t] = asked[t]
  BY <1>1 DEF CommentsInv, C!TypeOK
<1>3. C!TypeOK'
  BY <1>1, CommentingBounds DEF CommentsInv, C!TypeOK
<1>4. \A t \in Slots \ {s} : Busy(t)' <=> Busy(t)
  BY <1>2 DEF Busy
<1>5. NothingBefore'
  BY <1>1, <1>2, <1>4 DEF CommentsInv, NothingBefore
<1>6. AskedWell'
  <2>1. \A t \in Slots \ {s} :
          Busy(t) /\ asked[t].c = q.c => q.op # "create" /\ q.c \notin IsolatedRemarks /\ asked[t].op # "create"
    BY <1>1 DEF C!Alone, Busy, CommentsInv, AskedWell
  <2>2. acts + 1 >= 1
    BY DEF CommentsInv, C!TypeOK
  <2>3. \A t \in Slots :
       Busy(t)' =>
         /\ acts' >= 1
         /\ asked'[t].op = "create" => ~remark'[asked'[t].c].exists
         /\ asked'[t].op = "update" =>
              /\ asked'[t].was => remark'[asked'[t].c].shared
              /\ asked'[t].c \in IsolatedRemarks => asked'[t].was = remark'[asked'[t].c].shared
    BY <1>1, <1>2, <1>4, <2>2 DEF CommentsInv, AskedWell
  <2>4. \A t, u \in Slots :
          Busy(t)' /\ Busy(u)' /\ asked'[t].c = asked'[u].c
            /\ (asked'[t].op = "create" \/ asked'[t].c \in IsolatedRemarks) => t = u
    BY <1>2, <1>4, <2>1 DEF CommentsInv, AskedWell
  <2> QED BY <2>3, <2>4 DEF AskedWell
<1>7. (ChoresFit /\ NoneForgotten /\ LoggedByOne)'
  BY <1>1 DEF CommentsInv, ChoresFit, NoneForgotten, LoggedByOne, WillLog, C!SharesLater
<1> QED BY <1>1, <1>3, <1>5, <1>6, <1>7 DEF CommentsInv

\* A request ends, and commits nothing.
LEMMA RemarkAnswered ==
  ASSUME CommentsInv, NEW s \in Slots, C!Done(s), UNCHANGED <<remark, acts>>
  PROVE  (asked \in [Slots -> C!Ask] /\ AskedWell)' /\ \A t \in Slots : Busy(t)' => Busy(t) /\ t # s /\ asked'[t] = asked[t]
<1>1. asked'[s] = C!NoAsk /\ \A t \in Slots \ {s} : asked'[t] = asked[t]
  BY DEF CommentsInv, C!TypeOK, C!Done
<1>2. \A t \in Slots : Busy(t)' => Busy(t) /\ t # s /\ asked'[t] = asked[t]
  BY <1>1, NoAskType DEF Busy
<1>3. (asked \in [Slots -> C!Ask])'
  BY NoAskType DEF CommentsInv, C!TypeOK, C!Done
<1> QED BY <1>2, <1>3 DEF CommentsInv, AskedWell

\* The chore of a committed request.
ChoreOf(q) == [pc |-> "queued", op |-> q.op, c |-> q.c, shares |-> q.shares,
               was |-> q.was, seen |-> FALSE, n |-> acts]

LEMMA ChoreOfType ==
  ASSUME CommentsInv, NEW s \in Slots, Busy(s), asked[s].op # "delete"
  PROVE  LET t == ChoreOf(asked[s]) IN
         /\ t \in C!Chore /\ t.pc = "queued" /\ t.op = asked[s].op /\ t.c = asked[s].c
         /\ t.shares = asked[s].shares /\ t.was = asked[s].was /\ ~t.seen
BY DEF CommentsInv, C!TypeOK, AskedWell, ChoreOf, C!Chore, C!Ask, Busy

LEMMA CommentCreated ==
  ASSUME CommentsInv, NEW s \in Slots, C!CommitCreate(s)
  PROVE  CommentsInv'
<1> DEFINE q == asked[s]
           c == q.c
           u == ChoreOf(q)
<1>1. /\ Busy(s) /\ q.op = "create" /\ c \in Remarks /\ q.shares \in BOOLEAN
      /\ remark' = [remark EXCEPT ![c] = [C!NoRemark EXCEPT !.exists = TRUE, !.shared = q.shares]]
      /\ chores' = chores \cup {u} /\ C!Done(s)
      /\ UNCHANGED <<told, logged, acts, outages, missed, early>>
  BY DEF C!CommitCreate, C!Queue, Busy, ChoreOf, C!past, CommentsInv, C!TypeOK, C!Ask
<1>2. /\ u \in C!Chore /\ u.pc = "queued" /\ u.op = "create" /\ u.c = c
      /\ u.shares = q.shares /\ ~u.seen
  BY <1>1, ChoreOfType
<1>3. /\ ~remark[c].exists /\ told[c] = 0 /\ logged[c] = 0 /\ \A t \in chores : t.c # c
      /\ \A t \in Slots : Busy(t) /\ asked[t].c = c => t = s
  BY <1>1 DEF CommentsInv, AskedWell, NothingBefore
<1>4. /\ remark' \in [Remarks -> C!Remark] /\ remark'[c].exists /\ remark'[c].shared = q.shares
      /\ \A d \in Remarks \ {c} : remark'[d] = remark[d]
  BY <1>1 DEF CommentsInv, C!TypeOK, C!NoRemark, C!Remark
<1>5. asked' \in [Slots -> C!Ask] /\ \A t \in Slots : Busy(t)' => Busy(t) /\ t # s /\ asked'[t] = asked[t]
  BY <1>1, NoAskType DEF C!Done, CommentsInv, C!TypeOK, Busy
<1> HIDE DEF u
<1>6. C!TypeOK'
  BY <1>1, <1>2, <1>4, <1>5 DEF CommentsInv, C!TypeOK
<1>7. \A d \in Remarks : told'[d] <= 1 /\ (logged'[d] > 0 => remark'[d].shared)
  BY <1>1, <1>3, <1>4 DEF CommentsInv
<1>8. NothingBefore'
  BY <1>1, <1>2, <1>4, <1>5 DEF CommentsInv, NothingBefore
<1>9. AskedWell'
  BY <1>1, <1>3, <1>4, <1>5 DEF CommentsInv, AskedWell, C!TypeOK, C!Ask
<1>10. ChoresFit'
  BY <1>1, <1>2, <1>3, <1>4 DEF CommentsInv, ChoresFit, C!TypeOK, C!Chore
<1>11. NoneForgotten'
  <2>1. WillLog(u)
    BY <1>2 DEF WillLog
  <2> QED BY <1>1, <1>2, <1>4, <2>1 DEF CommentsInv, NoneForgotten, WillLog
<1>12. LoggedByOne'
  BY <1>1, <1>2, <1>3 DEF CommentsInv, LoggedByOne, WillLog, C!SharesLater
<1> QED BY <1>6, <1>7, <1>8, <1>9, <1>10, <1>11, <1>12 DEF CommentsInv

LEMMA CommentUpdated ==
  ASSUME CommentsInv, NEW s \in Slots, C!CommitUpdate(s)
  PROVE  CommentsInv'
<1> DEFINE q == asked[s]
           c == q.c
           u == ChoreOf(q)
<1>1. /\ Busy(s) /\ q.op = "update" /\ c \in Remarks /\ q.shares \in BOOLEAN /\ q.was \in BOOLEAN
      /\ remark' = [remark EXCEPT ![c].shared = @ \/ q.shares]
      /\ early \subseteq early'
      /\ q.shares /\ (\E t \in chores : t.c = c /\ t.op = "create" /\ t.pc = "queued") => c \in early'
      /\ early' \subseteq early \cup {c}
      /\ chores' = chores \cup {u} /\ C!Done(s)
      /\ UNCHANGED <<told, logged, acts, outages, missed>>
  BY DEF C!CommitUpdate, C!Queue, Busy, ChoreOf, CommentsInv, C!TypeOK, C!Ask
<1>2. /\ u \in C!Chore /\ u.pc = "queued" /\ u.op = "update" /\ u.c = c
      /\ u.shares = q.shares /\ u.was = q.was /\ ~u.seen
  BY <1>1, ChoreOfType
<1>3. /\ remark[c].exists /\ (q.was => remark[c].shared)
      /\ c \in IsolatedRemarks => q.was = remark[c].shared
  BY <1>1 DEF CommentsInv, AskedWell, NothingBefore
<1>4. /\ remark' \in [Remarks -> C!Remark] /\ remark'[c].exists
      /\ remark'[c].shared <=> remark[c].shared \/ q.shares
      /\ \A d \in Remarks \ {c} : remark'[d] = remark[d]
  BY <1>1, <1>3 DEF CommentsInv, C!TypeOK, C!Remark
<1>5. asked' \in [Slots -> C!Ask] /\ \A t \in Slots : Busy(t)' => Busy(t) /\ t # s /\ asked'[t] = asked[t]
  BY <1>1, NoAskType DEF C!Done, CommentsInv, C!TypeOK, Busy
<1> HIDE DEF u
<1>6. C!TypeOK'
  BY <1>1, <1>2, <1>4, <1>5 DEF CommentsInv, C!TypeOK
<1>7. \A d \in Remarks : told'[d] <= 1 /\ (logged'[d] > 0 => remark'[d].shared)
  BY <1>1, <1>4 DEF CommentsInv
<1>8. NothingBefore'
  BY <1>1, <1>2, <1>4, <1>5 DEF CommentsInv, NothingBefore
<1>9. AskedWell'
  BY <1>1, <1>3, <1>4, <1>5 DEF CommentsInv, AskedWell, C!TypeOK, C!Ask
<1>10. ChoresFit'
  BY <1>1, <1>2, <1>4 DEF CommentsInv, ChoresFit, C!TypeOK, C!Chore
<1>11. NoneForgotten'
  BY <1>1, <1>2, <1>3, <1>4 DEF CommentsInv, NoneForgotten, WillLog, C!SharesLater
<1>12. LoggedByOne'
  <2>1. ASSUME c \in IsolatedRemarks \ early', WillLog(u)
        PROVE  logged[c] = 0 /\ \A t \in chores : t.c = c => ~WillLog(t)
    <3>1. q.shares /\ ~remark[c].shared
      BY <1>2, <1>3, <2>1 DEF WillLog, C!SharesLater
    <3>2. logged[c] = 0
      BY <1>1, <3>1 DEF CommentsInv, C!TypeOK
    <3>3. \A t \in chores : t.c = c => ~WillLog(t)
      BY <1>1, <2>1, <3>1 DEF CommentsInv, ChoresFit, C!TypeOK, C!Chore, WillLog, C!SharesLater
    <3> QED BY <3>2, <3>3
  <2> QED BY <1>1, <1>2, <2>1 DEF CommentsInv, LoggedByOne, WillLog, C!SharesLater
<1> QED BY <1>6, <1>7, <1>8, <1>9, <1>10, <1>11, <1>12 DEF CommentsInv

LEMMA CommentDeleted ==
  ASSUME CommentsInv, NEW s \in Slots, C!CommitDelete(s)
  PROVE  CommentsInv'
<1>1. /\ Busy(s) /\ asked[s].op = "delete" /\ asked[s].c \in Remarks
      /\ remark' = [remark EXCEPT ![asked[s].c].deleted = TRUE]
      /\ C!Done(s)
      /\ UNCHANGED <<told, logged, chores, acts, outages, missed, early>>
  BY DEF C!CommitDelete, C!past, Busy, CommentsInv, C!TypeOK, C!Ask
<1>2. /\ remark' \in [Remarks -> C!Remark]
      /\ \A d \in Remarks : remark'[d].exists = remark[d].exists /\ remark'[d].shared = remark[d].shared
  BY <1>1 DEF CommentsInv, C!TypeOK, C!Remark
<1>3. asked' \in [Slots -> C!Ask] /\ \A t \in Slots : Busy(t)' => Busy(t) /\ t # s /\ asked'[t] = asked[t]
  BY <1>1, NoAskType DEF C!Done, CommentsInv, C!TypeOK, Busy
<1>4. C!TypeOK'
  BY <1>1, <1>2, <1>3 DEF CommentsInv, C!TypeOK
<1>5. NothingBefore' /\ AskedWell'
  BY <1>1, <1>2, <1>3 DEF CommentsInv, NothingBefore, AskedWell, C!TypeOK, C!Ask
<1>6. ChoresFit' /\ NoneForgotten' /\ LoggedByOne'
  BY <1>1, <1>2 DEF CommentsInv, ChoresFit, NoneForgotten, LoggedByOne, WillLog, C!SharesLater,
                    C!TypeOK, C!Chore
<1> QED BY <1>1, <1>2, <1>4, <1>5, <1>6 DEF CommentsInv

LEMMA CommentAborted ==
  ASSUME CommentsInv, NEW s \in Slots, C!Abort(s)
  PROVE  CommentsInv'
<1>1. C!Done(s) /\ UNCHANGED <<remark, told, logged, chores, acts, outages, missed, early>>
  BY DEF C!Abort, C!rows, C!past
<1>2. asked' \in [Slots -> C!Ask] /\ \A t \in Slots : Busy(t)' => Busy(t) /\ t # s /\ asked'[t] = asked[t]
  BY <1>1, NoAskType DEF C!Done, CommentsInv, C!TypeOK, Busy
<1>3. C!TypeOK' /\ NothingBefore' /\ AskedWell'
  BY <1>1, <1>2 DEF CommentsInv, C!TypeOK, NothingBefore, AskedWell
<1> QED BY <1>1, <1>3 DEF CommentsInv, ChoresFit, NoneForgotten, LoggedByOne, WillLog, C!SharesLater

\* Only the tasks change, with what they write.
LEMMA AsksKept ==
  ASSUME CommentsInv, UNCHANGED <<remark, asked, acts>>,
         \A t \in chores' : \E u \in chores : t.c = u.c,
         \A c \in Remarks : told'[c] # told[c] \/ logged'[c] # logged[c] => \E u \in chores : u.c = c
  PROVE  (NothingBefore /\ AskedWell)'
BY DEF CommentsInv, NothingBefore, AskedWell, Busy

LEMMA ChoreRuns ==
  ASSUME CommentsInv, NEW t \in chores, C!Run(t)
  PROVE  CommentsInv'
<1> DEFINE u == [t EXCEPT !.pc = "running", !.seen = remark[t.c].shared]
<1>1. /\ t \in C!Chore /\ t.pc = "queued" /\ ~t.seen
      /\ chores' = (chores \ {t}) \cup {u}
      /\ UNCHANGED <<remark, told, logged, asked, acts, outages, missed, early>>
  BY DEF C!Run, C!rows, C!past, CommentsInv, C!TypeOK, ChoresFit
<1>2. /\ u \in C!Chore /\ u.pc = "running" /\ u.seen = remark[t.c].shared /\ u.op = t.op /\ u.c = t.c
      /\ u.shares = t.shares /\ u.was = t.was
  BY <1>1 DEF CommentsInv, C!TypeOK, C!Chore, C!Remark
<1> HIDE DEF u
<1>3. C!TypeOK'
  BY <1>1, <1>2 DEF CommentsInv, C!TypeOK
<1>4. NothingBefore' /\ AskedWell'
  BY <1>1, <1>2, AsksKept
<1>5. ChoresFit'
  BY <1>1, <1>2 DEF CommentsInv, ChoresFit
<1>6. NoneForgotten'
  BY <1>1, <1>2 DEF CommentsInv, NoneForgotten, WillLog, C!SharesLater
<1>7. LoggedByOne'
  <2>1. WillLog(u) => WillLog(t)
    BY <1>1, <1>2 DEF WillLog, C!SharesLater
  <2> QED BY <1>1, <1>2, <2>1 DEF CommentsInv, LoggedByOne
<1> QED BY <1>1, <1>3, <1>4, <1>5, <1>6, <1>7 DEF CommentsInv

LEMMA ChoreFinishes ==
  ASSUME CommentsInv, NEW t \in chores, C!Finish(t)
  PROVE  CommentsInv'
<1> DEFINE c == t.c
<1>1. /\ t \in C!Chore /\ t.pc = "running" /\ c \in Remarks
      /\ chores' = chores \ {t}
      /\ told' = IF t.op = "create" THEN [told EXCEPT ![c] = @ + 1] ELSE told
      /\ logged' = IF WillLog(t) THEN [logged EXCEPT ![c] = @ + 1] ELSE logged
      /\ UNCHANGED <<remark, asked, acts, outages, missed, early>>
  BY DEF C!Finish, C!Tells, C!Logs, C!past, WillLog, CommentsInv, C!TypeOK, C!Chore
<1>2. /\ told' \in [Remarks -> Nat] /\ told'[c] = IF t.op = "create" THEN told[c] + 1 ELSE told[c]
      /\ logged' \in [Remarks -> Nat] /\ logged'[c] = IF WillLog(t) THEN logged[c] + 1 ELSE logged[c]
      /\ \A d \in Remarks \ {c} : told'[d] = told[d] /\ logged'[d] = logged[d]
      /\ told[c] \in Nat /\ logged[c] \in Nat
  BY <1>1 DEF CommentsInv, C!TypeOK
<1>3. /\ t.op = "create" => told[c] = 0
      /\ WillLog(t) => remark[c].shared
      /\ c \in IsolatedRemarks \ early /\ WillLog(t) => logged[c] = 0
  BY <1>1 DEF CommentsInv, ChoresFit, LoggedByOne, WillLog
<1>4. C!TypeOK'
  BY <1>1, <1>2 DEF CommentsInv, C!TypeOK
<1>5. \A d \in Remarks : told'[d] <= 1 /\ (logged'[d] > 0 => remark'[d].shared)
  BY <1>1, <1>2, <1>3 DEF CommentsInv
<1>6. NothingBefore' /\ AskedWell'
  BY <1>1, <1>2, AsksKept
<1>7. ChoresFit'
  BY <1>1, <1>2 DEF CommentsInv, ChoresFit, C!TypeOK, C!Chore
<1>8. NoneForgotten'
  <2> SUFFICES ASSUME NEW d \in Remarks, remark[d].exists, d \notin missed
      PROVE  /\ told'[d] = 1 \/ \E u \in chores' : u.c = d /\ u.op = "create"
             /\ remark[d].shared => logged'[d] >= 1 \/ \E u \in chores' : u.c = d /\ WillLog(u)
    BY <1>1 DEF NoneForgotten, WillLog, C!SharesLater
  <2>1. CASE d # c
    BY <1>1, <1>2, <2>1 DEF CommentsInv, NoneForgotten
  <2>2. CASE d = c
    BY <1>1, <1>2, <1>3, <2>2 DEF CommentsInv, NoneForgotten
  <2> QED BY <2>1, <2>2
<1>9. LoggedByOne'
  BY <1>1, <1>2, <1>3 DEF CommentsInv, LoggedByOne, WillLog, C!SharesLater
<1> QED BY <1>1, <1>4, <1>5, <1>6, <1>7, <1>8, <1>9 DEF CommentsInv

LEMMA ChoreFails ==
  ASSUME CommentsInv, NEW t \in chores, C!Fail(t)
  PROVE  CommentsInv'
<1>1. /\ t.c \in Remarks /\ chores' = chores \ {t} /\ missed' = missed \cup {t.c}
      /\ UNCHANGED <<remark, told, logged, asked, acts, outages, early>>
  BY DEF C!Fail, C!rows, CommentsInv, C!TypeOK, C!Chore
<1>2. NothingBefore' /\ AskedWell'
  BY <1>1, AsksKept
<1>3. NoneForgotten'
  BY <1>1 DEF CommentsInv, NoneForgotten
<1> QED BY <1>1, <1>2, <1>3 DEF CommentsInv, C!TypeOK, ChoresFit, LoggedByOne, WillLog, C!SharesLater

LEMMA TasksLost ==
  ASSUME CommentsInv, C!Outage
  PROVE  CommentsInv'
<1>1. /\ chores' = {} /\ asked' = [s \in Slots |-> C!NoAsk]
      /\ outages < MaxOutages /\ outages' = outages + 1
      /\ missed' = missed \cup {t.c : t \in chores}
      /\ UNCHANGED <<remark, told, logged, acts, early>>
  BY DEF C!Outage, C!rows
<1>2. \A s \in Slots : ~Busy(s)'
  BY <1>1, NoAskType DEF Busy
<1>3. C!TypeOK'
  BY <1>1, NoAskType, CommentingBounds DEF CommentsInv, C!TypeOK, C!Chore
<1>4. NothingBefore' /\ AskedWell'
  BY <1>1, <1>2 DEF CommentsInv, NothingBefore, AskedWell
<1>5. NoneForgotten'
  <2>1. \A c \in Remarks : c \notin missed' => c \notin missed /\ \A t \in chores : t.c # c
    BY <1>1
  <2> QED BY <1>1, <2>1 DEF CommentsInv, NoneForgotten
<1> QED BY <1>1, <1>3, <1>4, <1>5 DEF CommentsInv, ChoresFit, LoggedByOne

LEMMA CommentsStep ==
  ASSUME CommentsInv, C!Next \/ UNCHANGED commenting
  PROVE  CommentsInv'
<1>1. ASSUME NEW s \in Slots, C!BeginCreate(s) PROVE CommentsInv'
  <2>1. PICK c \in Remarks, shares \in BOOLEAN :
          /\ ~remark[c].exists /\ C!Alone(c)
          /\ C!Start(s, [C!NoAsk EXCEPT !.pc = "commit", !.op = "create", !.c = c, !.shares = shares])
    BY <1>1 DEF C!BeginCreate
  <2> DEFINE q == [C!NoAsk EXCEPT !.pc = "commit", !.op = "create", !.c = c, !.shares = shares]
  <2>2. q \in C!Ask /\ q.pc = "commit" /\ q.op = "create" /\ q.c = c
    BY NoAskType DEF C!Ask
  <2>3. C!Start(s, q)
    BY <2>1
  <2> HIDE DEF q
  <2> QED BY <2>1, <2>2, <2>3, RemarkAsked
<1>2. ASSUME NEW s \in Slots, C!BeginUpdate(s) PROVE CommentsInv'
  <2>1. PICK c \in Remarks, shares \in BOOLEAN :
          /\ remark[c].exists
          /\ C!Start(s, [C!NoAsk EXCEPT !.pc = "commit", !.op = "update", !.c = c,
                                        !.shares = shares, !.was = remark[c].shared])
    BY <1>2 DEF C!BeginUpdate
  <2> DEFINE q == [C!NoAsk EXCEPT !.pc = "commit", !.op = "update", !.c = c,
                                  !.shares = shares, !.was = remark[c].shared]
  <2>2. q \in C!Ask /\ q.pc = "commit" /\ q.op = "update" /\ q.c = c /\ q.was = remark[c].shared
    BY NoAskType DEF C!Ask, CommentsInv, C!TypeOK, C!Remark
  <2>3. C!Start(s, q)
    BY <2>1
  <2> HIDE DEF q
  <2> QED BY <2>1, <2>2, <2>3, RemarkAsked
<1>3. ASSUME NEW s \in Slots, C!BeginDelete(s) PROVE CommentsInv'
  <2>1. PICK c \in Remarks :
          /\ remark[c].exists
          /\ C!Start(s, [C!NoAsk EXCEPT !.pc = "commit", !.op = "delete", !.c = c])
    BY <1>3 DEF C!BeginDelete
  <2> DEFINE q == [C!NoAsk EXCEPT !.pc = "commit", !.op = "delete", !.c = c]
  <2>2. q \in C!Ask /\ q.pc = "commit" /\ q.op = "delete" /\ q.c = c
    BY NoAskType DEF C!Ask
  <2>3. C!Start(s, q)
    BY <2>1
  <2> HIDE DEF q
  <2> QED BY <2>1, <2>2, <2>3, RemarkAsked
<1>4. CASE UNCHANGED commenting
  BY <1>4 DEF commenting, CommentsInv, C!TypeOK, NothingBefore, AskedWell, ChoresFit,
              NoneForgotten, LoggedByOne, Busy, WillLog, C!SharesLater
<1> QED
  BY <1>1, <1>2, <1>3, <1>4, CommentCreated, CommentUpdated, CommentDeleted, CommentAborted,
     ChoreRuns, ChoreFinishes, ChoreFails, TasksLost DEF C!Next

\* The author of what is commented on is told of a comment once, and a comment that is shared
\* is one Activity, whichever of its creation and its later sharing writes it, however the
\* background tasks of both interleave, unless one of them failed or was lost with its process
\* (services/comments.py, services/postprocess.py).
THEOREM CommentsSharedOnce == CommunitySpec => []SharedOnce
<1> DEFINE Inv == part = "commenting" => CommentsInv
<1>1. CommunityInit => Inv
  BY CommentsInit DEF CommunityInit
<1>2. Inv /\ [CommunityNext]_communityVars => Inv'
  BY RunsAlone, CommentsStep
<1>3. Inv => SharedOnce
  BY DEF CommentsInv, SharedOnce, C!SharedOnce, LoggedByOne, NoneForgotten
<1> QED BY <1>1, <1>2, <1>3, PTL DEF CommunitySpec

-----------------------------------------------------------------------------
(* Accounts and their addresses.                                          *)

\* Requests on an account; those that present a code and have seen it.
Presents(s) == demand[s].pc \in {"code", "delete", "commit"}
Holds(s, n) == demand[s].pc \in {"delete", "commit"} /\ demand[s].n = n
Registers(s, n) == demand[s].pc = "register" /\ demand[s].n = n

\* What a request on an account has found admissible.
Admitted(q) ==
  /\ q.op # "mail"
  /\ q.n = A!NoCode => q.pc = "commit" /\ (q.op = "remove" \/ (q.op = "login" /\ q.other[q.a] > 0))
  /\ q.op = "remove" => q.other[q.a] > 0
  /\ q.op = "open" => q.places >= 1
  /\ q.op = "login" => q.login # A!NoAddress

\* What it has loaded is proved, and is what is there if no other request is on the account.
Loaded(q) ==
  /\ q.login # A!NoAddress => q.login \in shown[q.p]
  /\ \A b \in Addresses : q.other[b] > 0 => b \in shown[q.p]
  /\ q.p \in SoloPeople => q.login = login[q.p] /\ q.other = other[q.p]

DemandsFit ==
  \A s \in Slots :
    /\ demand[s].pc = "register" => demand[s].op = "mail" /\ demand[s].n # A!NoCode
    /\ (Presents(s) \/ demand[s].pc = "register") /\ demand[s].n # A!NoCode =>
         mailed[demand[s].n] = demand[s].a
    /\ Presents(s) => Admitted(demand[s]) /\ Loaded(demand[s])

\* The requests on an account on which they do not overlap are one.
SoloFit ==
  \A s, t \in Slots :
    Presents(s) /\ Presents(t) /\ demand[s].p = demand[t].p /\ demand[s].p \in SoloPeople => s = t

\* A code is in Redis for the address it was mailed to, after it was registered and until a
\* request deletes it, which one request does unless two have seen it.
CodesFit ==
  /\ \A a \in Addresses : code[a] # A!NoCode => mailed[code[a]] = a
  /\ \A n \in A!Codes :
       /\ ~A!Sent(n) => used[n] = 0
       /\ \A s \in Slots : Registers(s, n) =>
            /\ used[n] = 0 /\ \A a \in Addresses : code[a] # n
            /\ \A t \in Slots : ~Holds(t, n) /\ (Registers(t, n) => t = s)
       /\ used[n] > 0 \/ (\E s \in Slots : demand[s].pc = "commit" /\ demand[s].n = n) =>
            \A a \in Addresses : code[a] # n
       /\ n \notin seen =>
            /\ used[n] <= 1
            /\ \A s, t \in Slots : Holds(s, n) /\ Holds(t, n) => s = t
            /\ \A s \in Slots : Holds(s, n) => used[n] = 0

\* The addresses of accounts are proved, and none is lost.
RowsFit ==
  \A p \in People :
    /\ login[p] # A!NoAddress => login[p] \in shown[p]
    /\ \A a \in Addresses : other[p][a] > 0 => a \in shown[p]
    /\ p \in SoloPeople => wanted[p] \subseteq A!Has(p)

AddressesInv == A!TypeOK /\ DemandsFit /\ SoloFit /\ CodesFit /\ RowsFit

LEMMA NoDemandType == A!NoDemand \in A!Demand /\ A!NoDemand.pc = "idle"
<1>1. (CHOOSE p \in People : TRUE) \in People /\ (CHOOSE a \in Addresses : TRUE) \in Addresses
  BY AccountsBounds
<1> QED BY <1>1, AccountsBounds DEF A!NoDemand, A!Demand, A!Ops

LEMMA AddressesInit == A!Init => AddressesInv
<1> SUFFICES ASSUME A!Init PROVE AddressesInv
  OBVIOUS
<1>1. \A p \in People : {FirstAddress[p]} \ {A!NoAddress} \subseteq Addresses
  BY AccountsBounds
<1>2. A!TypeOK
  BY <1>1, NoDemandType, AccountsBounds DEF A!Init, A!TypeOK, A!Codes
<1>3. DemandsFit /\ SoloFit /\ CodesFit
  BY NoDemandType DEF A!Init, DemandsFit, SoloFit, CodesFit, Presents, Holds, Registers
<1>4. RowsFit
  BY AccountsBounds DEF A!Init, RowsFit, A!Has
<1> QED BY <1>2, <1>3, <1>4 DEF AddressesInv

\* A request ends without having changed a row.
LEMMA DemandAnswered ==
  ASSUME AddressesInv, NEW s \in Slots, demand' = [demand EXCEPT ![s] = A!NoDemand],
         UNCHANGED <<login, other, places, mailed, used, seen, shown, wanted, demands>>,
         code' \in [Addresses -> A!Codes \cup {A!NoCode}],
         \A a \in Addresses :
           code'[a] = code[a] \/ code'[a] = A!NoCode \/ (Registers(s, code'[a]) /\ a = demand[s].a)
  PROVE  AddressesInv'
<1>1. /\ demand' \in [Slots -> A!Demand] /\ demand'[s].pc = "idle"
      /\ \A t \in Slots \ {s} : demand'[t] = demand[t]
  BY NoDemandType DEF AddressesInv, A!TypeOK
<1>2. A!TypeOK'
  BY <1>1 DEF AddressesInv, A!TypeOK
<1>3. DemandsFit' /\ SoloFit'
  <2>1. \A t \in Slots : Presents(t)' => Presents(t) /\ demand'[t] = demand[t]
    BY <1>1 DEF Presents
  <2>2. DemandsFit'
    BY <1>1, <2>1 DEF AddressesInv, DemandsFit, Admitted, Loaded
  <2> QED BY <2>1, <2>2 DEF AddressesInv, SoloFit
<1>4. \A t \in Slots, n \in A!Codes :
        /\ Holds(t, n)' => Holds(t, n) /\ t # s
        /\ Registers(t, n)' => Registers(t, n) /\ t # s
        /\ demand'[t].pc = "commit" => t # s
  BY <1>1 DEF Holds, Registers
<1>5. CodesFit'
  <2>1. \A a \in Addresses : code'[a] # A!NoCode => mailed'[code'[a]] = a
    BY DEF AddressesInv, CodesFit, DemandsFit, Registers
  <2>2. \A n \in A!Codes : \A a \in Addresses : code'[a] = n => code[a] = n \/ Registers(s, n)
    BY DEF A!Codes, A!NoCode
  <2>3. ASSUME NEW n \in A!Codes
        PROVE /\ ~A!Sent(n)' => used'[n] = 0
              /\ \A t \in Slots : Registers(t, n)' =>
                   /\ used'[n] = 0 /\ \A a \in Addresses : code'[a] # n
                   /\ \A u \in Slots : ~Holds(u, n)' /\ (Registers(u, n)' => u = t)
    BY <1>4, <2>2 DEF AddressesInv, CodesFit, A!Sent
  <2>4. ASSUME NEW n \in A!Codes
        PROVE used'[n] > 0 \/ (\E t \in Slots : demand'[t].pc = "commit" /\ demand'[t].n = n) =>
                \A a \in Addresses : code'[a] # n
    BY <1>1, <2>2 DEF AddressesInv, CodesFit, Holds
  <2>5. ASSUME NEW n \in A!Codes, n \notin seen
        PROVE /\ used'[n] <= 1
              /\ \A t, u \in Slots : Holds(t, n)' /\ Holds(u, n)' => t = u
              /\ \A t \in Slots : Holds(t, n)' => used'[n] = 0
    BY <1>4, <2>5 DEF AddressesInv, CodesFit
  <2> QED BY <2>1, <2>3, <2>4, <2>5 DEF CodesFit
<1>6. RowsFit'
  BY DEF AddressesInv, RowsFit, A!Has
<1> QED BY <1>2, <1>3, <1>5, <1>6 DEF AddressesInv

LEMMA CodeMailed ==
  ASSUME AddressesInv, NEW s \in Slots, A!MailCode(s)
  PROVE  AddressesInv'
<1>1. PICK n \in A!Codes, a \in Addresses :
        /\ demand[s].pc = "idle" /\ ~A!Sent(n)
        /\ mailed' = [mailed EXCEPT ![n] = a]
        /\ demand' = [demand EXCEPT ![s] = [A!NoDemand EXCEPT !.pc = "register", !.a = a, !.n = n]]
        /\ UNCHANGED <<login, other, places, code, used, seen, shown, wanted, demands>>
  BY DEF A!MailCode, A!rows, A!past
<1> DEFINE q == [A!NoDemand EXCEPT !.pc = "register", !.a = a, !.n = n]
<1>2. q \in A!Demand /\ q.pc = "register" /\ q.a = a /\ q.n = n /\ q.op = "mail"
  BY NoDemandType DEF A!Demand, A!NoDemand
<1>3. demand' = [demand EXCEPT ![s] = q]
  BY <1>1
<1> HIDE DEF q
<1>4. /\ demand' \in [Slots -> A!Demand] /\ demand'[s] = q
      /\ \A t \in Slots \ {s} : demand'[t] = demand[t]
      /\ mailed'[n] = a /\ mailed[n] = A!NoAddress /\ n # A!NoCode
      /\ \A m \in A!Codes \ {n} : mailed'[m] = mailed[m]
  BY <1>1, <1>2, <1>3 DEF AddressesInv, A!TypeOK, A!Sent, A!Codes, A!NoCode
<1>5. A!TypeOK'
  BY <1>1, <1>4 DEF AddressesInv, A!TypeOK
<1>6. /\ \A t \in Slots : Presents(t) \/ demand[t].pc = "register" => demand[t].n # n
      /\ \A b \in Addresses : code[b] # n
      /\ used[n] = 0
  <2>1. \A t \in Slots : demand[t].a \in Addresses /\ demand[t].n \in A!Codes \cup {A!NoCode}
    BY DEF AddressesInv, A!TypeOK, A!Demand
  <2>2. \A t \in Slots : Presents(t) \/ demand[t].pc = "register" => demand[t].n # n
    BY <1>1, <1>4, <2>1, AccountsBounds DEF AddressesInv, DemandsFit
  <2>3. (\A b \in Addresses : code[b] # n) /\ used[n] = 0
    BY <1>1, <1>4, AccountsBounds DEF AddressesInv, CodesFit
  <2> QED BY <2>2, <2>3
<1>7. DemandsFit' /\ SoloFit'
  <2>1. \A t \in Slots : Presents(t)' => Presents(t) /\ demand'[t] = demand[t]
    BY <1>2, <1>4 DEF Presents
  <2>2. \A t \in Slots : Presents(t) \/ demand[t].pc = "register" => demand[t].n \in (A!Codes \cup {A!NoCode}) \ {n}
    BY <1>6 DEF AddressesInv, A!TypeOK, A!Demand
  <2>3. SoloFit'
    BY <2>1 DEF AddressesInv, SoloFit
  <2>4. \A t \in Slots :
          (Presents(t)' \/ demand'[t].pc = "register") /\ demand'[t].n # A!NoCode =>
             mailed'[demand'[t].n] = demand'[t].a
    BY <1>2, <1>4, <2>1, <2>2 DEF AddressesInv, DemandsFit
  <2>5. \A t \in Slots : Presents(t)' => Admitted(demand'[t]) /\ Loaded(demand[t])
    BY <2>1 DEF AddressesInv, DemandsFit
  <2>6. \A t \in Slots : Presents(t)' => Loaded(demand[t])'
    BY <1>1, <2>1, <2>5 DEF Loaded
  <2>7. DemandsFit'
    BY <1>2, <1>4, <2>1, <2>4, <2>5, <2>6 DEF AddressesInv, DemandsFit, Admitted
  <2> QED BY <2>3, <2>7
<1>8. CodesFit'
  <2>1. \A t \in Slots, m \in A!Codes :
          /\ Holds(t, m)' => Holds(t, m) /\ m # n
          /\ Registers(t, m)' => (Registers(t, m) /\ m # n) \/ (t = s /\ m = n)
          /\ demand'[t].pc = "commit" /\ demand'[t].n = m => demand[t].pc = "commit" /\ demand[t].n = m
    BY <1>2, <1>4, <1>6 DEF Holds, Registers, Presents
  <2>2. \A b \in Addresses : code'[b] # A!NoCode => mailed'[code'[b]] = b
    BY <1>1, <1>4, <1>6 DEF AddressesInv, CodesFit, A!TypeOK
  <2>3. \A m \in A!Codes : ~A!Sent(m)' => used'[m] = 0
    BY <1>1, <1>4, <1>6 DEF AddressesInv, CodesFit, A!Sent
  <2>4. \A m \in A!Codes : \A t \in Slots : Registers(t, m)' =>
            /\ used'[m] = 0 /\ \A b \in Addresses : code'[b] # m
            /\ \A u \in Slots : ~Holds(u, m)' /\ (Registers(u, m)' => u = t)
    BY <1>1, <1>6, <2>1 DEF AddressesInv, CodesFit
  <2>5. \A m \in A!Codes :
          used'[m] > 0 \/ (\E t \in Slots : demand'[t].pc = "commit" /\ demand'[t].n = m) =>
            \A b \in Addresses : code'[b] # m
    BY <1>1, <2>1 DEF AddressesInv, CodesFit
  <2>6. \A m \in A!Codes : m \notin seen' =>
            /\ used'[m] <= 1
            /\ \A t, u \in Slots : Holds(t, m)' /\ Holds(u, m)' => t = u
            /\ \A t \in Slots : Holds(t, m)' => used'[m] = 0
    BY <1>1, <2>1 DEF AddressesInv, CodesFit
  <2> QED BY <2>2, <2>3, <2>4, <2>5, <2>6 DEF CodesFit
<1>9. RowsFit'
  BY <1>1 DEF AddressesInv, RowsFit, A!Has
<1> QED BY <1>5, <1>7, <1>8, <1>9 DEF AddressesInv

LEMMA CodeExpires ==
  ASSUME AddressesInv, NEW a \in Addresses, A!Expire(a)
  PROVE  AddressesInv'
<1>1. /\ code' = [code EXCEPT ![a] = A!NoCode]
      /\ UNCHANGED <<login, other, places, mailed, used, seen, shown, wanted, demand, demands>>
  BY DEF A!Expire, A!rows, A!past
<1>2. /\ code' \in [Addresses -> A!Codes \cup {A!NoCode}]
      /\ \A b \in Addresses : code'[b] = code[b] \/ code'[b] = A!NoCode
  BY <1>1 DEF AddressesInv, A!TypeOK
<1>3. A!TypeOK' /\ DemandsFit' /\ SoloFit' /\ RowsFit'
  BY <1>1, <1>2 DEF AddressesInv, A!TypeOK, DemandsFit, SoloFit, RowsFit, Presents, Admitted, Loaded, A!Has
<1>4. \A n \in A!Codes, b \in Addresses : code'[b] = n => code[b] = n
  BY <1>2 DEF A!Codes, A!NoCode
<1>5. CodesFit'
  <2>1. \A b \in Addresses : code'[b] # A!NoCode => mailed'[code'[b]] = b
    BY <1>1, <1>2 DEF AddressesInv, CodesFit
  <2>2. \A t \in Slots, n \in A!Codes : (Holds(t, n)' <=> Holds(t, n)) /\ (Registers(t, n)' <=> Registers(t, n))
    BY <1>1 DEF Holds, Registers
  <2>3. \A n \in A!Codes : ~A!Sent(n)' => used'[n] = 0
    BY <1>1 DEF AddressesInv, CodesFit, A!Sent
  <2>4. \A n \in A!Codes : \A s \in Slots : Registers(s, n)' =>
            /\ used'[n] = 0 /\ \A b \in Addresses : code'[b] # n
            /\ \A t \in Slots : ~Holds(t, n)' /\ (Registers(t, n)' => t = s)
    BY <1>1, <1>4, <2>2 DEF AddressesInv, CodesFit
  <2>5. \A n \in A!Codes : used'[n] > 0 \/ (\E s \in Slots : demand'[s].pc = "commit" /\ demand'[s].n = n) =>
            \A b \in Addresses : code'[b] # n
    BY <1>1, <1>4 DEF AddressesInv, CodesFit
  <2>6. \A n \in A!Codes : n \notin seen' =>
            /\ used'[n] <= 1
            /\ \A s, t \in Slots : Holds(s, n)' /\ Holds(t, n)' => s = t
            /\ \A s \in Slots : Holds(s, n)' => used'[n] = 0
    BY <1>1, <2>2 DEF AddressesInv, CodesFit
  <2> QED BY <2>1, <2>3, <2>4, <2>5, <2>6 DEF CodesFit
<1> QED BY <1>3, <1>5 DEF AddressesInv

LEMMA CodeRegistered ==
  ASSUME AddressesInv, NEW s \in Slots, A!RegisterCode(s)
  PROVE  AddressesInv'
<1>1. demand[s].pc = "register" /\ demand[s].a \in Addresses /\ demand[s].n \in A!Codes
  BY DEF A!RegisterCode, AddressesInv, DemandsFit, A!TypeOK, A!Demand
<1>2. /\ code' = [code EXCEPT ![demand[s].a] = demand[s].n]
      /\ demand' = [demand EXCEPT ![s] = A!NoDemand]
      /\ UNCHANGED <<login, other, places, mailed, used, seen, shown, wanted, demands>>
  BY DEF A!RegisterCode, A!rows, A!past
<1>3. code' \in [Addresses -> A!Codes \cup {A!NoCode}]
  BY <1>1, <1>2 DEF AddressesInv, A!TypeOK
<1>4. \A a \in Addresses : code'[a] = code[a] \/ (Registers(s, code'[a]) /\ a = demand[s].a)
  BY <1>1, <1>2 DEF AddressesInv, A!TypeOK, Registers
<1> QED BY <1>2, <1>3, <1>4, DemandAnswered

LEMMA DemandAborted ==
  ASSUME AddressesInv, NEW s \in Slots, A!Abort(s)
  PROVE  AddressesInv'
<1>1. /\ demand' = [demand EXCEPT ![s] = A!NoDemand]
      /\ UNCHANGED <<login, other, places, mailed, code, used, seen, shown, wanted, demands>>
  BY DEF A!Abort, A!rows, A!past
<1>2. code' \in [Addresses -> A!Codes \cup {A!NoCode}]
  BY <1>1 DEF AddressesInv, A!TypeOK
<1> QED BY <1>1, <1>2, DemandAnswered

LEMMA DemandBegins ==
  ASSUME AddressesInv, NEW s \in Slots, A!Begin(s)
  PROVE  AddressesInv'
<1>0. PICK op \in A!Ops \ {"mail"}, p \in People, a \in Addresses :
        /\ demand[s].pc = "idle" /\ demands < MaxDemands
        /\ p \in SoloPeople => A!Solo(p)
        /\ A!Admissible(op, p, a)
        /\ \E n \in IF A!ByCode(op, p, a) THEN {m \in A!Codes : mailed[m] = a} ELSE {A!NoCode} :
             demand' = [demand EXCEPT ![s] =
               [pc |-> IF n = A!NoCode THEN "commit" ELSE "code", op |-> op, p |-> p, a |-> a,
                n |-> n, login |-> login[p], other |-> other[p], places |-> places]]
        /\ demands' = demands + 1
        /\ UNCHANGED <<login, other, places, mailed, code, used, seen, shown, wanted>>
  BY DEF A!Begin, A!rows, A!past
<1>1. PICK n \in IF A!ByCode(op, p, a) THEN {m \in A!Codes : mailed[m] = a} ELSE {A!NoCode} :
        /\ demand[s].pc = "idle" /\ demands < MaxDemands
        /\ p \in SoloPeople => A!Solo(p)
        /\ A!Admissible(op, p, a)
        /\ demand' = [demand EXCEPT ![s] =
             [pc |-> IF n = A!NoCode THEN "commit" ELSE "code", op |-> op, p |-> p, a |-> a,
              n |-> n, login |-> login[p], other |-> other[p], places |-> places]]
        /\ demands' = demands + 1
        /\ UNCHANGED <<login, other, places, mailed, code, used, seen, shown, wanted>>
  BY <1>0
<1> DEFINE q == [pc |-> IF n = A!NoCode THEN "commit" ELSE "code", op |-> op, p |-> p, a |-> a,
                 n |-> n, login |-> login[p], other |-> other[p], places |-> places]
<1>2. /\ n \in A!Codes \cup {A!NoCode}
      /\ n # A!NoCode => mailed[n] = a
      /\ n = A!NoCode => op = "remove" \/ (op = "login" /\ other[p][a] > 0)
  BY DEF A!ByCode, A!Codes, A!NoCode
<1>3. /\ q \in A!Demand /\ q.op = op /\ q.p = p /\ q.a = a /\ q.n = n /\ q.login = login[p]
      /\ q.other = other[p] /\ q.places = places
      /\ q.pc = IF n = A!NoCode THEN "commit" ELSE "code"
  BY <1>2 DEF A!Demand, AddressesInv, A!TypeOK
<1>4. demand' = [demand EXCEPT ![s] = q]
  BY <1>1
<1> HIDE DEF q
<1>5. /\ demand' \in [Slots -> A!Demand] /\ demand'[s] = q
      /\ \A t \in Slots \ {s} : demand'[t] = demand[t]
  BY <1>3, <1>4 DEF AddressesInv, A!TypeOK
<1>6. A!TypeOK'
  BY <1>1, <1>5, AccountsBounds DEF AddressesInv, A!TypeOK
<1>7. \A t \in Slots : t # s => (Presents(t)' <=> Presents(t))
  BY <1>5 DEF Presents
<1>8. Admitted(q) /\ Loaded(q)
  <2>1. Admitted(q)
    BY <1>1, <1>2, <1>3 DEF Admitted, A!Admissible, A!Ops
  <2>2. Loaded(q)
    BY <1>3 DEF Loaded, AddressesInv, RowsFit
  <2> QED BY <2>1, <2>2
<1>9. DemandsFit'
  <2>1. ASSUME NEW t \in Slots, t # s
        PROVE /\ demand'[t].pc = "register" => demand'[t].op = "mail" /\ demand'[t].n # A!NoCode
              /\ (Presents(t)' \/ demand'[t].pc = "register") /\ demand'[t].n # A!NoCode =>
                    mailed'[demand'[t].n] = demand'[t].a
              /\ Presents(t)' => Admitted(demand[t])' /\ Loaded(demand[t])'
    BY <1>1, <1>5, <1>7, <2>1 DEF AddressesInv, DemandsFit, Admitted, Loaded
  <2>2. Loaded(demand[s])' /\ Admitted(demand[s])'
    BY <1>1, <1>5, <1>8 DEF Admitted, Loaded
  <2>3. /\ demand'[s].pc # "register"
        /\ demand'[s].n # A!NoCode => mailed'[demand'[s].n] = demand'[s].a
    BY <1>1, <1>2, <1>3, <1>5
  <2> QED BY <2>1, <2>2, <2>3 DEF DemandsFit
<1>10. SoloFit'
  <2>1. \A t \in Slots \ {s} : Presents(t) /\ demand[t].p = p => p \notin SoloPeople
    BY <1>1 DEF A!Solo, Presents, AddressesInv, DemandsFit, Admitted
  <2> QED BY <1>3, <1>5, <1>7, <2>1 DEF SoloFit, AddressesInv
<1>11. CodesFit'
  <2>1. \A t \in Slots, m \in A!Codes :
          /\ Holds(t, m)' <=> Holds(t, m)
          /\ Registers(t, m)' <=> Registers(t, m)
          /\ demand'[t].pc = "commit" /\ demand'[t].n = m <=> demand[t].pc = "commit" /\ demand[t].n = m
    BY <1>1, <1>3, <1>5 DEF Holds, Registers, A!Codes, A!NoCode
  <2> QED BY <1>1, <2>1 DEF AddressesInv, CodesFit, A!Sent
<1>12. RowsFit'
  BY <1>1 DEF AddressesInv, RowsFit, A!Has
<1> QED BY <1>6, <1>9, <1>10, <1>11, <1>12 DEF AddressesInv

LEMMA CodeSeen ==
  ASSUME AddressesInv, NEW s \in Slots, A!LookAtCode(s)
  PROVE  AddressesInv'
<1> DEFINE n == demand[s].n
<1>1. /\ demand[s].pc = "code" /\ code[demand[s].a] = n /\ n \in A!Codes /\ demand[s].a \in Addresses
      /\ demand' = [demand EXCEPT ![s].pc = "delete"]
      /\ seen \subseteq seen' /\ seen' \subseteq A!Codes
      /\ (\E t \in Slots : demand[t].pc = "delete" /\ demand[t].n = n) => n \in seen'
      /\ UNCHANGED <<login, other, places, mailed, code, used, shown, wanted, demands>>
  BY DEF A!LookAtCode, A!rows, AddressesInv, A!TypeOK, A!Demand, DemandsFit, Presents, Admitted
<1>2. /\ demand' \in [Slots -> A!Demand] /\ demand'[s] = [demand[s] EXCEPT !.pc = "delete"]
      /\ \A t \in Slots \ {s} : demand'[t] = demand[t]
  <2> DEFINE q == [demand[s] EXCEPT !.pc = "delete"]
  <2>1. demand[s] \in A!Demand
    BY DEF AddressesInv, A!TypeOK
  <2>2. q \in A!Demand
    BY <2>1 DEF A!Demand
  <2>3. demand' = [demand EXCEPT ![s] = q]
    BY <1>1
  <2> HIDE DEF q
  <2>4. demand' \in [Slots -> A!Demand] /\ demand'[s] = q /\ \A t \in Slots \ {s} : demand'[t] = demand[t]
    BY <2>2, <2>3 DEF AddressesInv, A!TypeOK
  <2> QED BY <2>4 DEF q
<1>3. /\ demand'[s].pc = "delete" /\ demand'[s].op = demand[s].op /\ demand'[s].p = demand[s].p
      /\ demand'[s].a = demand[s].a /\ demand'[s].n = n /\ demand'[s].login = demand[s].login
      /\ demand'[s].other = demand[s].other /\ demand'[s].places = demand[s].places
  BY <1>2 DEF AddressesInv, A!TypeOK, A!Demand
<1>4. A!TypeOK'
  BY <1>1, <1>2 DEF AddressesInv, A!TypeOK
<1>5. Presents(s) /\ \A t \in Slots : Presents(t)' <=> Presents(t)
  BY <1>1, <1>2, <1>3 DEF Presents
<1>6. DemandsFit' /\ SoloFit'
  <2>1. \A t \in Slots : Presents(t) => (Admitted(demand[t]) /\ Loaded(demand[t]))'
    BY <1>1, <1>2, <1>3 DEF AddressesInv, DemandsFit, Admitted, Loaded, A!Codes, A!NoCode
  <2>2. \A t \in Slots :
          /\ demand'[t].pc = "register" => demand'[t].op = "mail" /\ demand'[t].n # A!NoCode
          /\ (Presents(t)' \/ demand'[t].pc = "register") /\ demand'[t].n # A!NoCode =>
                mailed'[demand'[t].n] = demand'[t].a
    BY <1>1, <1>2, <1>3, <1>5 DEF AddressesInv, DemandsFit
  <2>3. DemandsFit'
    BY <1>5, <2>1, <2>2 DEF DemandsFit
  <2>4. SoloFit'
    BY <1>1, <1>2, <1>3, <1>5 DEF AddressesInv, SoloFit
  <2> QED BY <2>3, <2>4
<1>7. CodesFit'
  <2>1. \A t \in Slots, m \in A!Codes :
          /\ Holds(t, m)' <=> Holds(t, m) \/ (t = s /\ m = n)
          /\ Registers(t, m)' <=> Registers(t, m)
          /\ demand'[t].pc = "commit" /\ demand'[t].n = m <=> demand[t].pc = "commit" /\ demand[t].n = m
    BY <1>1, <1>2, <1>3 DEF Holds, Registers
  <2>2. used[n] = 0 /\ (\A t \in Slots : ~Registers(t, n))
        /\ ~(\E t \in Slots : demand[t].pc = "commit" /\ demand[t].n = n)
    <3>1. used[n] \in Nat
      BY <1>1 DEF AddressesInv, A!TypeOK
    <3> QED BY <1>1, <3>1 DEF AddressesInv, CodesFit
  <2>3. n \notin seen' => \A t \in Slots : ~Holds(t, n)
    BY <1>1, <2>2 DEF Holds
  <2>4. \A m \in A!Codes : m \notin seen' =>
            /\ used'[m] <= 1
            /\ \A t, u \in Slots : Holds(t, m)' /\ Holds(u, m)' => t = u
            /\ \A t \in Slots : Holds(t, m)' => used'[m] = 0
    <3> SUFFICES ASSUME NEW m \in A!Codes, m \notin seen'
                 PROVE /\ used[m] <= 1
                       /\ \A t, u \in Slots : Holds(t, m)' /\ Holds(u, m)' => t = u
                       /\ \A t \in Slots : Holds(t, m)' => used[m] = 0
      BY <1>1
    <3>1. m \notin seen
      BY <1>1
    <3>2. CASE m = n
      BY <2>1, <2>2, <2>3, <3>2
    <3>3. CASE m # n
      BY <2>1, <3>1, <3>3 DEF AddressesInv, CodesFit
    <3> QED BY <3>2, <3>3
  <2>5. \A m \in A!Codes : \A t \in Slots : Registers(t, m)' =>
            /\ used'[m] = 0 /\ \A b \in Addresses : code'[b] # m
            /\ \A u \in Slots : ~Holds(u, m)' /\ (Registers(u, m)' => u = t)
    BY <1>1, <2>1, <2>2 DEF AddressesInv, CodesFit
  <2>6. \A m \in A!Codes :
          used'[m] > 0 \/ (\E t \in Slots : demand'[t].pc = "commit" /\ demand'[t].n = m) =>
            \A b \in Addresses : code'[b] # m
    BY <1>1, <2>1 DEF AddressesInv, CodesFit
  <2>7. (\A b \in Addresses : code'[b] # A!NoCode => mailed'[code'[b]] = b)
        /\ \A m \in A!Codes : ~A!Sent(m)' => used'[m] = 0
    BY <1>1 DEF AddressesInv, CodesFit, A!Sent
  <2> QED BY <2>4, <2>5, <2>6, <2>7 DEF CodesFit
<1>8. RowsFit'
  BY <1>1 DEF AddressesInv, RowsFit, A!Has
<1> QED BY <1>4, <1>6, <1>7, <1>8 DEF AddressesInv

LEMMA CodeDeleted ==
  ASSUME AddressesInv, NEW s \in Slots, A!DeleteCode(s)
  PROVE  AddressesInv'
<1> DEFINE n == demand[s].n
<1>1. /\ demand[s].pc = "delete" /\ n \in A!Codes /\ demand[s].a \in Addresses
      /\ mailed[n] = demand[s].a
      /\ demand' = [demand EXCEPT ![s].pc = "commit"]
      /\ code' = [code EXCEPT ![demand[s].a] = A!NoCode]
      /\ UNCHANGED <<login, other, places, mailed, used, seen, shown, wanted, demands>>
  BY DEF A!DeleteCode, A!WithoutCode, A!rows, A!past, AddressesInv, A!TypeOK, A!Demand, DemandsFit,
         Presents, Admitted
<1>2. /\ demand' \in [Slots -> A!Demand] /\ demand'[s] = [demand[s] EXCEPT !.pc = "commit"]
      /\ \A t \in Slots \ {s} : demand'[t] = demand[t]
  <2> DEFINE q == [demand[s] EXCEPT !.pc = "commit"]
  <2>1. demand[s] \in A!Demand
    BY DEF AddressesInv, A!TypeOK
  <2>2. q \in A!Demand
    BY <2>1 DEF A!Demand
  <2>3. demand' = [demand EXCEPT ![s] = q]
    BY <1>1
  <2> HIDE DEF q
  <2>4. demand' \in [Slots -> A!Demand] /\ demand'[s] = q /\ \A t \in Slots \ {s} : demand'[t] = demand[t]
    BY <2>2, <2>3 DEF AddressesInv, A!TypeOK
  <2> QED BY <2>4 DEF q
<1>3. /\ demand'[s].pc = "commit" /\ demand'[s].op = demand[s].op /\ demand'[s].p = demand[s].p
      /\ demand'[s].a = demand[s].a /\ demand'[s].n = n /\ demand'[s].login = demand[s].login
      /\ demand'[s].other = demand[s].other /\ demand'[s].places = demand[s].places
  BY <1>2 DEF AddressesInv, A!TypeOK, A!Demand
<1>4. /\ code' \in [Addresses -> A!Codes \cup {A!NoCode}]
      /\ code'[demand[s].a] = A!NoCode
      /\ \A b \in Addresses \ {demand[s].a} : code'[b] = code[b]
  BY <1>1 DEF AddressesInv, A!TypeOK
<1>5. A!TypeOK'
  BY <1>1, <1>2, <1>4 DEF AddressesInv, A!TypeOK
<1>6. Presents(s) /\ \A t \in Slots : Presents(t)' <=> Presents(t)
  BY <1>1, <1>2, <1>3 DEF Presents
<1>7. DemandsFit' /\ SoloFit'
  <2>1. \A t \in Slots : Presents(t) => (Admitted(demand[t]) /\ Loaded(demand[t]))'
    BY <1>1, <1>2, <1>3 DEF AddressesInv, DemandsFit, Admitted, Loaded
  <2>2. \A t \in Slots :
          /\ demand'[t].pc = "register" => demand'[t].op = "mail" /\ demand'[t].n # A!NoCode
          /\ (Presents(t)' \/ demand'[t].pc = "register") /\ demand'[t].n # A!NoCode =>
                mailed'[demand'[t].n] = demand'[t].a
    BY <1>1, <1>2, <1>3, <1>6 DEF AddressesInv, DemandsFit
  <2>3. DemandsFit'
    BY <1>6, <2>1, <2>2 DEF DemandsFit
  <2>4. SoloFit'
    BY <1>1, <1>2, <1>3, <1>6 DEF AddressesInv, SoloFit
  <2> QED BY <2>3, <2>4
<1>8. CodesFit'
  <2>1. \A t \in Slots, m \in A!Codes :
          /\ Holds(t, m)' <=> Holds(t, m)
          /\ Registers(t, m)' <=> Registers(t, m)
          /\ demand'[t].pc = "commit" /\ demand'[t].n = m =>
               (demand[t].pc = "commit" /\ demand[t].n = m) \/ m = n
    BY <1>1, <1>2, <1>3 DEF Holds, Registers
  <2>2. \A m \in A!Codes, b \in Addresses : code'[b] = m => code[b] = m /\ m # n
    <3>1. \A b \in Addresses : code[b] = n => b = demand[s].a
      BY <1>1 DEF AddressesInv, CodesFit, A!Codes, A!NoCode
    <3> QED BY <1>4, <3>1 DEF A!Codes, A!NoCode
  <2>3. \A m \in A!Codes : \A t \in Slots : Registers(t, m)' =>
            /\ used'[m] = 0 /\ \A b \in Addresses : code'[b] # m
            /\ \A u \in Slots : ~Holds(u, m)' /\ (Registers(u, m)' => u = t)
    BY <1>1, <2>1, <2>2 DEF AddressesInv, CodesFit
  <2>4. \A m \in A!Codes :
          used'[m] > 0 \/ (\E t \in Slots : demand'[t].pc = "commit" /\ demand'[t].n = m) =>
            \A b \in Addresses : code'[b] # m
    BY <1>1, <2>1, <2>2 DEF AddressesInv, CodesFit
  <2>5. /\ \A b \in Addresses : code'[b] # A!NoCode => mailed'[code'[b]] = b
        /\ \A m \in A!Codes : ~A!Sent(m)' => used'[m] = 0
    BY <1>1, <1>4 DEF AddressesInv, CodesFit, A!Sent
  <2>6. \A m \in A!Codes : m \notin seen' =>
            /\ used'[m] <= 1
            /\ \A t, u \in Slots : Holds(t, m)' /\ Holds(u, m)' => t = u
            /\ \A t \in Slots : Holds(t, m)' => used'[m] = 0
    BY <1>1, <2>1 DEF AddressesInv, CodesFit
  <2> QED BY <2>3, <2>4, <2>5, <2>6 DEF CodesFit
<1>9. RowsFit'
  BY <1>1 DEF AddressesInv, RowsFit, A!Has
<1> QED BY <1>5, <1>7, <1>8, <1>9 DEF AddressesInv

\* What the list of secondary addresses that a request writes has in it.
LEMMA SecondaryFacts ==
  ASSUME NEW q \in A!Demand, Admitted(q)
  PROVE  /\ A!Secondary(q) \in [Addresses -> Nat]
         /\ q.op = "login" => \A b \in Addresses :
              /\ A!Secondary(q)[b] > 0 => b = q.login \/ q.other[b] > 0
              /\ b = q.login \/ (q.other[b] > 0 /\ b # q.a) => A!Secondary(q)[b] > 0
         /\ q.op = "add" => \A b \in Addresses :
              A!Secondary(q)[b] > 0 <=> b = q.a \/ q.other[b] > 0
         /\ q.op = "remove" => \A b \in Addresses :
              /\ A!Secondary(q)[b] > 0 => q.other[b] > 0
              /\ q.other[b] > 0 /\ b # q.a => A!Secondary(q)[b] > 0
<1>1. /\ q.other \in [Addresses -> Nat] /\ q.a \in Addresses /\ q.login \in Addresses \cup {A!NoAddress}
      /\ q.op \in A!Ops
  BY DEF A!Demand
<1>2. CASE q.op = "login"
  <2> DEFINE left == [q.other EXCEPT ![q.a] = IF @ > 0 THEN @ - 1 ELSE 0]
  <2>1. A!Secondary(q) = [left EXCEPT ![q.login] = @ + 1]
    BY <1>2 DEF A!Secondary
  <2>2. q.login \in Addresses
    BY <1>1, <1>2 DEF Admitted
  <2>3. left \in [Addresses -> Nat] /\ \A b \in Addresses :
          left[b] <= q.other[b] /\ (b # q.a => left[b] = q.other[b])
    BY <1>1
  <2> HIDE DEF left
  <2> QED BY <1>1, <1>2, <2>1, <2>2, <2>3
<1>3. CASE q.op = "add"
  BY <1>1, <1>3 DEF A!Secondary
<1>4. CASE q.op = "remove"
  BY <1>1, <1>4 DEF A!Secondary, Admitted
<1>5. CASE q.op \notin {"login", "add", "remove"}
  BY <1>1, <1>5 DEF A!Secondary
<1> QED BY <1>2, <1>3, <1>4, <1>5

LEMMA DemandCommitted ==
  ASSUME AddressesInv, NEW s \in Slots, A!Commit(s)
  PROVE  AddressesInv'
<1> DEFINE q == demand[s]
           p == q.p
<1>1. /\ q \in A!Demand /\ q.pc = "commit" /\ Presents(s) /\ p \in People /\ q.a \in Addresses
      /\ q.op \in A!Ops /\ q.n \in A!Codes \cup {A!NoCode}
  BY DEF A!Commit, AddressesInv, A!TypeOK, A!Demand, Presents
<1>2. Admitted(q) /\ Loaded(q) /\ (q.n # A!NoCode => mailed[q.n] = q.a)
  BY <1>1 DEF AddressesInv, DemandsFit
<1>3. /\ q.op \in {"open", "login"} => ~A!Taken(q.a) /\ (q.op = "open" => login[p] = A!NoAddress)
      /\ login' = IF q.op \in {"open", "login"} THEN [login EXCEPT ![p] = q.a] ELSE login
      /\ other' = IF q.op \in {"login", "add", "remove"}
                  THEN [other EXCEPT ![p] = A!Secondary(q)] ELSE other
      /\ places' = IF q.op = "open" THEN q.places - 1 ELSE places
      /\ used' = IF q.n = A!NoCode THEN used ELSE [used EXCEPT ![q.n] = @ + 1]
      /\ shown' = IF q.n = A!NoCode \/ q.op = "phone" THEN shown
                  ELSE [shown EXCEPT ![p] = @ \cup {q.a}]
      /\ wanted' = CASE q.op = "remove" -> [wanted EXCEPT ![p] = @ \ {q.a}]
                     [] q.op = "phone" -> wanted
                     [] OTHER -> [wanted EXCEPT ![p] = @ \cup {q.a}]
      /\ demand' = [demand EXCEPT ![s] = A!NoDemand]
      /\ UNCHANGED <<mailed, code, seen, demands>>
  BY DEF A!Commit
<1>4. /\ demand' \in [Slots -> A!Demand] /\ demand'[s].pc = "idle"
      /\ \A t \in Slots \ {s} : demand'[t] = demand[t]
  BY <1>3, NoDemandType DEF AddressesInv, A!TypeOK
<1>5. \A t \in Slots : Presents(t)' => Presents(t) /\ t # s /\ demand'[t] = demand[t]
  BY <1>4 DEF Presents
<1>6. /\ login' \in [People -> Addresses \cup {A!NoAddress}]
      /\ other' \in [People -> [Addresses -> Nat]]
      /\ \A r \in People \ {p} : login'[r] = login[r] /\ other'[r] = other[r]
      /\ login'[p] = IF q.op \in {"open", "login"} THEN q.a ELSE login[p]
      /\ other'[p] = IF q.op \in {"login", "add", "remove"} THEN A!Secondary(q) ELSE other[p]
  BY <1>1, <1>2, <1>3, SecondaryFacts DEF AddressesInv, A!TypeOK
<1>7. /\ shown' \in [People -> SUBSET Addresses]
      /\ \A r \in People \ {p} : shown'[r] = shown[r]
      /\ shown'[p] = IF q.n = A!NoCode \/ q.op = "phone" THEN shown[p] ELSE shown[p] \cup {q.a}
      /\ \A r \in People : shown[r] \subseteq shown'[r]
  BY <1>1, <1>3 DEF AddressesInv, A!TypeOK
<1>8. /\ wanted' \in [People -> SUBSET Addresses]
      /\ \A r \in People \ {p} : wanted'[r] = wanted[r]
      /\ q.op = "remove" => wanted'[p] = wanted[p] \ {q.a}
      /\ q.op # "remove" => wanted'[p] = IF q.op = "phone" THEN wanted[p] ELSE wanted[p] \cup {q.a}
  BY <1>1, <1>3 DEF AddressesInv, A!TypeOK
<1>9. /\ used' \in [A!Codes -> Nat]
      /\ \A n \in A!Codes : used'[n] = IF n = q.n THEN used[n] + 1 ELSE used[n]
  BY <1>1, <1>3 DEF AddressesInv, A!TypeOK, A!Codes, A!NoCode
<1>10. places' \in 0..Places
  BY <1>1, <1>2, <1>3, AccountsBounds DEF AddressesInv, A!TypeOK, Admitted, A!Demand
<1>11. A!TypeOK'
  BY <1>3, <1>4, <1>6, <1>7, <1>8, <1>9, <1>10 DEF AddressesInv, A!TypeOK
<1>12. DemandsFit'
  <2>1. \A t \in Slots : Presents(t)' => Admitted(demand'[t]) /\ Loaded(demand[t])
    BY <1>5 DEF AddressesInv, DemandsFit
  <2>2. \A t \in Slots : Presents(t)' => demand[t].p # p \/ p \notin SoloPeople
    BY <1>1, <1>5 DEF AddressesInv, SoloFit
  <2>3. ASSUME NEW t \in Slots, Presents(t)' PROVE Loaded(demand[t])'
    <3>1. demand'[t] = demand[t] /\ demand[t].p \in People
      BY <1>5, <2>3 DEF AddressesInv, A!TypeOK, A!Demand
    <3> QED BY <1>6, <1>7, <2>1, <2>2, <2>3, <3>1 DEF Loaded
  <2>4. \A t \in Slots : Presents(t)' => Admitted(demand[t])'
    BY <2>1 DEF Admitted
  <2>5. \A t \in Slots :
          /\ demand'[t].pc = "register" => demand'[t].op = "mail" /\ demand'[t].n # A!NoCode
          /\ (Presents(t)' \/ demand'[t].pc = "register") /\ demand'[t].n # A!NoCode =>
                mailed'[demand'[t].n] = demand'[t].a
    BY <1>3, <1>4, <1>5 DEF AddressesInv, DemandsFit
  <2> QED BY <2>3, <2>4, <2>5 DEF DemandsFit
<1>13. SoloFit'
  BY <1>5 DEF AddressesInv, SoloFit
<1>14. CodesFit'
  <2>1. \A t \in Slots, m \in A!Codes :
          /\ Holds(t, m)' => Holds(t, m) /\ t # s
          /\ Registers(t, m)' => Registers(t, m)
          /\ demand'[t].pc = "commit" /\ demand'[t].n = m => demand[t].pc = "commit" /\ demand[t].n = m
    BY <1>4 DEF Holds, Registers
  <2>2. \A m \in A!Codes : m = q.n => Holds(s, m)
    BY <1>1 DEF Holds
  <2>3. \A m \in A!Codes : \A t \in Slots : Registers(t, m)' =>
            /\ used'[m] = 0 /\ \A b \in Addresses : code'[b] # m
            /\ \A u \in Slots : ~Holds(u, m)' /\ (Registers(u, m)' => u = t)
    <3>1. \A m \in A!Codes : \A t \in Slots : Registers(t, m) => m # q.n
      BY <2>2 DEF AddressesInv, CodesFit
    <3> QED BY <1>3, <1>9, <2>1, <3>1 DEF AddressesInv, CodesFit
  <2>4. \A m \in A!Codes :
          used'[m] > 0 \/ (\E t \in Slots : demand'[t].pc = "commit" /\ demand'[t].n = m) =>
            \A b \in Addresses : code'[b] # m
    BY <1>1, <1>3, <1>9, <2>1 DEF AddressesInv, CodesFit
  <2>5. /\ \A b \in Addresses : code'[b] # A!NoCode => mailed'[code'[b]] = b
        /\ \A m \in A!Codes : ~A!Sent(m)' => used'[m] = 0
    BY <1>2, <1>1, <1>3, <1>9, AccountsBounds DEF AddressesInv, CodesFit, A!Sent
  <2>6. ASSUME NEW m \in A!Codes, m \notin seen
        PROVE  /\ used'[m] <= 1
               /\ \A t, u \in Slots : Holds(t, m)' /\ Holds(u, m)' => t = u
               /\ \A t \in Slots : Holds(t, m)' => used'[m] = 0
    <3>1. /\ used[m] <= 1
          /\ \A t, u \in Slots : Holds(t, m) /\ Holds(u, m) => t = u
          /\ \A t \in Slots : Holds(t, m) => used[m] = 0
      BY <2>6 DEF AddressesInv, CodesFit
    <3> QED BY <1>9, <2>1, <2>2, <3>1
  <2> QED BY <1>3, <2>3, <2>4, <2>5, <2>6 DEF CodesFit
<1>15. RowsFit'
  <2>1. ASSUME NEW r \in People, r # p
        PROVE  /\ login'[r] # A!NoAddress => login'[r] \in shown'[r]
               /\ \A a \in Addresses : other'[r][a] > 0 => a \in shown'[r]
               /\ r \in SoloPeople => wanted'[r] \subseteq A!Has(r)'
    BY <1>6, <1>7, <1>8, <2>1 DEF AddressesInv, RowsFit, A!Has
  <2>2. login'[p] # A!NoAddress => login'[p] \in shown'[p]
    BY <1>1, <1>2, <1>6, <1>7 DEF AddressesInv, RowsFit, Admitted, Loaded
  <2>3. \A a \in Addresses : other'[p][a] > 0 => a \in shown'[p]
    BY <1>1, <1>2, <1>6, <1>7, SecondaryFacts DEF AddressesInv, RowsFit, Admitted, Loaded
  <2>4. ASSUME NEW r \in SoloPeople, r = p PROVE wanted'[r] \subseteq A!Has(r)'
    <3>1. wanted[p] \subseteq A!Has(p) /\ q.login = login[p] /\ q.other = other[p]
      BY <1>1, <1>2, <2>4 DEF AddressesInv, RowsFit, Loaded
    <3>2. \A a \in Addresses : a \in A!Has(r)' <=> a = login'[p] \/ other'[p][a] > 0
      BY <2>4, AccountsBounds DEF A!Has
    <3>3. \A a \in Addresses : a \in wanted[p] => a = login[p] \/ other[p][a] > 0
      BY <3>1 DEF A!Has
    <3>4. wanted'[p] \subseteq Addresses
      BY <1>1, <1>8
    <3>5. CASE q.op = "open"
      BY <1>3, <1>6, <1>8, <2>4, <3>2, <3>3, <3>4, <3>5, AccountsBounds
    <3>6. CASE q.op = "login"
      <4>1. \A b \in Addresses : b = q.login \/ (q.other[b] > 0 /\ b # q.a) => A!Secondary(q)[b] > 0
        BY <1>1, <1>2, <3>6, SecondaryFacts
      <4> QED BY <1>6, <1>8, <2>4, <3>1, <3>2, <3>3, <3>4, <3>6, <4>1
    <3>7. CASE q.op = "add"
      <4>1. \A b \in Addresses : A!Secondary(q)[b] > 0 <=> b = q.a \/ q.other[b] > 0
        BY <1>1, <1>2, <3>7, SecondaryFacts
      <4> QED BY <1>6, <1>8, <2>4, <3>1, <3>2, <3>3, <3>4, <3>7, <4>1
    <3>8. CASE q.op = "remove"
      <4>1. \A b \in Addresses : q.other[b] > 0 /\ b # q.a => A!Secondary(q)[b] > 0
        BY <1>1, <1>2, <3>8, SecondaryFacts
      <4> QED BY <1>6, <1>8, <2>4, <3>1, <3>2, <3>3, <3>4, <3>8, <4>1
    <3>9. CASE q.op = "phone"
      BY <1>6, <1>8, <2>4, <3>2, <3>3, <3>4, <3>9
    <3> QED BY <1>1, <1>2, <3>5, <3>6, <3>7, <3>8, <3>9 DEF A!Ops, Admitted
  <2> QED BY <2>1, <2>2, <2>3, <2>4 DEF RowsFit
<1> QED BY <1>11, <1>12, <1>13, <1>14, <1>15 DEF AddressesInv

LEMMA AddressesStep ==
  ASSUME AddressesInv, A!Next \/ UNCHANGED accounts
  PROVE  AddressesInv'
<1>1. CASE UNCHANGED accounts
  <2>1. (A!TypeOK /\ DemandsFit /\ SoloFit /\ RowsFit)'
    BY <1>1 DEF accounts, AddressesInv, A!TypeOK, DemandsFit, SoloFit, RowsFit, Presents, Admitted,
                Loaded, A!Has
  <2>2. CodesFit'
    BY <1>1 DEF accounts, AddressesInv, CodesFit, Holds, Registers, A!Sent
  <2> QED BY <2>1, <2>2 DEF AddressesInv
<1> QED
  BY <1>1, CodeMailed, CodeRegistered, DemandBegins, CodeSeen, CodeDeleted, DemandCommitted,
     DemandAborted, CodeExpires DEF A!Next

\* However the requests on accounts interleave: a code serves one request, unless two looked at it
\* before either deleted it; every address of an account was proved by a code mailed to it; and an
\* account whose own requests do not overlap loses no address it has not removed
\* (services/accounts.py, services/me.py, security.py).
THEOREM AddressesAlwaysHold == CommunitySpec => []AddressesHold
<1> DEFINE Inv == part = "accounts" => AddressesInv
<1>1. CommunityInit => Inv
  BY AddressesInit DEF CommunityInit
<1>2. Inv /\ [CommunityNext]_communityVars => Inv'
  BY RunsAlone, AddressesStep
<1>3. Inv => AddressesHold
  <2>1. AddressesInv => A!CodesProve
    BY DEF AddressesInv, RowsFit, CodesFit, A!CodesProve, A!Has
  <2>2. AddressesInv => A!AddressesKept
    BY AccountsBounds DEF AddressesInv, RowsFit, A!AddressesKept
  <2> QED BY <2>1, <2>2 DEF AddressesHold, A!AddressesHold
<1> QED BY <1>1, <1>2, <1>3, PTL DEF CommunitySpec

-----------------------------------------------------------------------------
(* Links.                                                                 *)

Calling == {s \in Slots : turn[s].pc # "idle"}
Reach(n) == n + Cardinality(Calling) <= calls
CountsFit ==
  /\ \A k \in Pairs :
       /\ Reach(joins[k]) /\ Reach(news[k]) /\ \A d \in L!Ways : Reach(links[k][d])
       /\ LinkKind[k] # "channel" => links[k][2] = 0
  /\ \A w \in Sessions : Reach(saves[w])

\* The rows of a pair.
Rows(k) == links[k][1] + links[k][2]

\* Only channels are looked for either way; what has been seen of a pair on which requests
\* do not overlap is still so when it is acted on.
TurnFits(q) ==
  /\ LinkKind[q.k] # "channel" => q.d = 1
  /\ q.pc = "again" => L!LooksTwice(q.k)
  /\ q.pc \in {"session", "mark"} => q.session \in Sessions
  /\ q.k \in SoloPairs =>
       /\ q.pc = "again" => q.found = L!There(q.k, q.d)
       /\ q.pc = "join" =>
            /\ ~q.again => Rows(q.k) = 0
            /\ LinkKind[q.k] \in {"follow", "column"} => q.found = q.again

TurnsFit ==
  /\ \A s \in Slots : turn[s].pc # "idle" => TurnFits(turn[s])
  /\ \A s, t \in Calling : turn[s].k = turn[t].k /\ turn[s].k \in SoloPairs => s = t

\* Those who found a session unmarked, and those of them who have marked it.
Passed(s, w) == turn[s].pc \in {"mark", "look", "again", "join"} /\ turn[s].session = w
SessionsFit ==
  \A w \in Sessions \ (expired \cup raced) :
    /\ saves[w] <= 1
    /\ \A s, t \in Slots : Passed(s, w) /\ Passed(t, w) => s = t
    /\ \A s \in Slots : Passed(s, w) => saves[w] = 0
    /\ saves[w] >= 1 \/ (\E s \in Slots : Passed(s, w) /\ turn[s].pc # "mark") => w \in sessions

LinksInv ==
  /\ L!TypeOK /\ CountsFit /\ TurnsFit /\ SessionsFit /\ L!LinkedOnce

LEMMA NoTurnType == L!NoTurn \in L!Turn /\ L!NoTurn.pc = "idle"
<1>1. L!NoPair \in Pairs
  BY LinksBounds DEF L!NoPair
<1> QED BY <1>1 DEF L!NoTurn, L!Turn, L!Ways

LEMMA CallingFinite == IsFiniteSet(Calling) /\ Cardinality(Calling) \in Nat
<1>1. Calling \in SUBSET Slots
  BY DEF Calling
<1> QED BY <1>1, LinksBounds, FS_Subset, FS_CardinalityType

LEMMA LinksInit == L!Init => LinksInv
<1> SUFFICES ASSUME L!Init PROVE LinksInv
  OBVIOUS
<1>1. L!TypeOK
  BY NoTurnType, LinksBounds DEF L!Init, L!TypeOK, L!Counts, L!Ways
<1>2. Calling = {}
  BY NoTurnType DEF L!Init, Calling
<1>3. CountsFit
  BY <1>2, FS_EmptySet DEF L!Init, CountsFit, Reach, L!Ways
<1>4. TurnsFit /\ SessionsFit
  BY NoTurnType DEF L!Init, TurnsFit, SessionsFit, Calling, Passed
<1>5. L!LinkedOnce
  BY DEF L!Init, L!LinkedOnce, L!Ways
<1> QED BY <1>1, <1>3, <1>4, <1>5 DEF LinksInv

\* Rows and counts keep to their bounds while the requests being served are the same, or one
\* more of them; and when one is answered, which writes at most one row of a pair.
LEMMA ReachKept ==
  ASSUME LinksInv, NEW n \in Int, Reach(n), NEW s \in Slots,
         \/ Calling' = Calling /\ calls' = calls
         \/ Calling' = Calling \cup {s} /\ calls' = calls + 1
         \/ Calling' = Calling \ {s} /\ calls' = calls
  PROVE  n + Cardinality(Calling') <= calls' /\ n <= calls
<1>1. Cardinality(Calling) \in Nat /\ calls \in Nat
  BY CallingFinite DEF LinksInv, L!TypeOK
<1>0. /\ IsFiniteSet(Calling \cup {s}) /\ IsFiniteSet(Calling \ {s})
      /\ Cardinality(Calling \cup {s}) = IF s \in Calling THEN Cardinality(Calling)
                                         ELSE Cardinality(Calling) + 1
      /\ Cardinality(Calling \ {s}) = IF s \in Calling THEN Cardinality(Calling) - 1
                                      ELSE Cardinality(Calling)
  BY CallingFinite, FS_AddElement, FS_RemoveElement
<1>2. Cardinality(Calling \cup {s}) <= Cardinality(Calling) + 1
  BY <1>0, <1>1
<1>3. Cardinality(Calling \ {s}) <= Cardinality(Calling)
  BY <1>0, <1>1
<1>4. Cardinality(Calling \cup {s}) \in Nat /\ Cardinality(Calling \ {s}) \in Nat
  BY <1>0, FS_CardinalityType
<1>5. n + Cardinality(Calling) <= calls
  BY DEF Reach
<1>6. CASE Calling' = Calling /\ calls' = calls
  BY <1>1, <1>5, <1>6
<1>7. CASE Calling' = Calling \cup {s} /\ calls' = calls + 1
  BY <1>1, <1>2, <1>4, <1>5, <1>7
<1>8. CASE Calling' = Calling \ {s} /\ calls' = calls
  BY <1>1, <1>3, <1>4, <1>5, <1>8
<1> QED BY <1>6, <1>7, <1>8

LEMMA ReachCounted ==
  ASSUME LinksInv, NEW n \in Int, Reach(n), NEW s \in Calling,
         Calling' = Calling \ {s} /\ calls' = calls
  PROVE  n + 1 + Cardinality(Calling') <= calls' /\ n + 1 <= calls
<1>1. Cardinality(Calling) \in Nat /\ calls \in Nat
  BY CallingFinite DEF LinksInv, L!TypeOK
<1>2. Cardinality(Calling \ {s}) = Cardinality(Calling) - 1
  BY CallingFinite, FS_RemoveElement
<1>3. Cardinality(Calling \ {s}) \in Nat
  BY CallingFinite, FS_RemoveElement, FS_CardinalityType
<1>4. n + Cardinality(Calling) <= calls
  BY DEF Reach
<1> QED BY <1>1, <1>2, <1>3, <1>4

\* A request begins.
LEMMA CallBegins ==
  ASSUME LinksInv, NEW s \in Slots, NEW q \in L!Turn, L!Start(s, q),
         q.pc \in {"session", "look", "leave"}, LinkKind[q.k] # "channel" => q.d = 1,
         q.pc \in {"look", "leave"} => q.session = L!NoSession,
         q.pc = "session" => q.session \in Sessions
  PROVE  LinksInv'
<1>1. /\ turn[s].pc = "idle" /\ calls < MaxCalls /\ (q.k \in SoloPairs => L!Solo(q.k))
      /\ turn' = [turn EXCEPT ![s] = q] /\ calls' = calls + 1
      /\ UNCHANGED <<links, news, sessions, raced, saves, expired, joins>>
  BY DEF L!Start, L!rows, L!marks
<1>2. turn' \in [Slots -> L!Turn] /\ turn'[s] = q /\ \A t \in Slots \ {s} : turn'[t] = turn[t]
  BY <1>1 DEF LinksInv, L!TypeOK
<1>3. L!TypeOK'
  BY <1>1, <1>2, LinksBounds DEF LinksInv, L!TypeOK
<1>4. Calling' = Calling \cup {s} /\ s \notin Calling
  BY <1>1, <1>2 DEF Calling
<1>5. CountsFit'
  <2>1. ASSUME NEW n \in 0..MaxCalls, Reach(n) PROVE n + Cardinality(Calling') <= calls'
    BY <1>1, <1>4, <2>1, ReachKept
  <2> QED BY <1>1, <2>1 DEF LinksInv, CountsFit, Reach, L!TypeOK, L!Counts
<1>6. TurnsFit'
  <2>1. \A t \in Calling : turn[t].k = q.k => q.k \notin SoloPairs
    BY <1>1 DEF L!Solo, Calling
  <2>2. \A t \in Slots : turn'[t].pc # "idle" => TurnFits(turn[t])'
    BY <1>1, <1>2 DEF LinksInv, TurnsFit, TurnFits, L!There, Rows, L!LooksTwice
  <2>3. \A t, u \in Calling' : turn'[t].k = turn'[u].k /\ turn'[t].k \in SoloPairs => t = u
    BY <1>2, <1>4, <2>1 DEF LinksInv, TurnsFit, Calling
  <2> QED BY <2>2, <2>3 DEF TurnsFit
<1>7. SessionsFit'
  <2>1. \A w \in Sessions, t \in Slots : Passed(t, w)' => Passed(t, w) /\ turn'[t].pc = turn[t].pc
    BY <1>2, LinksBounds DEF Passed
  <2> QED BY <1>1, <2>1 DEF LinksInv, SessionsFit
<1>8. L!LinkedOnce'
  BY <1>1 DEF LinksInv, L!LinkedOnce
<1> QED BY <1>3, <1>5, <1>6, <1>7, <1>8 DEF LinksInv

\* A request goes on, and writes no row.
LEMMA CallGoesOn ==
  ASSUME LinksInv, NEW s \in Calling, NEW q \in L!Turn, turn' = [turn EXCEPT ![s] = q], q.pc # "idle",
         q.k = turn[s].k, q.d = turn[s].d, q.session = turn[s].session, TurnFits(q),
         UNCHANGED <<links, news, saves, expired, joins, calls>>,
         sessions' \subseteq Sessions, raced' \subseteq Sessions
  PROVE  /\ (L!TypeOK /\ CountsFit /\ TurnsFit /\ L!LinkedOnce)'
         /\ turn'[s] = q /\ \A t \in Slots \ {s} : turn'[t] = turn[t]
<1>1. s \in Slots /\ turn[s].pc # "idle"
  BY DEF Calling
<1>2. turn' \in [Slots -> L!Turn] /\ turn'[s] = q /\ \A t \in Slots \ {s} : turn'[t] = turn[t]
  BY <1>1 DEF LinksInv, L!TypeOK
<1>3. L!TypeOK'
  BY <1>2 DEF LinksInv, L!TypeOK
<1>4. Calling' = Calling
  BY <1>1, <1>2 DEF Calling
<1>5. CountsFit' /\ L!LinkedOnce'
  BY <1>4 DEF LinksInv, CountsFit, Reach, L!LinkedOnce
<1>6. TurnsFit'
  <2>1. \A t \in Slots : turn'[t].pc # "idle" => TurnFits(turn[t])'
    BY <1>2 DEF LinksInv, TurnsFit, TurnFits, L!There, Rows, L!LooksTwice
  <2>2. \A t, u \in Calling' : turn'[t].k = turn'[u].k /\ turn'[t].k \in SoloPairs => t = u
    BY <1>1, <1>2, <1>4 DEF LinksInv, TurnsFit, Calling
  <2> QED BY <2>1, <2>2 DEF TurnsFit
<1> QED BY <1>2, <1>3, <1>5, <1>6

LEMMA TurnType ==
  ASSUME LinksInv, NEW s \in Slots
  PROVE  /\ turn[s] \in L!Turn /\ turn[s].k \in Pairs /\ turn[s].d \in L!Ways
         /\ turn[s].session \in Sessions \cup {L!NoSession}
         /\ turn[s].found \in BOOLEAN /\ turn[s].again \in BOOLEAN
BY DEF LinksInv, L!TypeOK, L!Turn

LEMMA SessionSeen ==
  ASSUME LinksInv, NEW s \in Slots, L!LookAtSession(s)
  PROVE  LinksInv'
<1> DEFINE w == turn[s].session
           q == [turn[s] EXCEPT !.pc = "mark"]
<1>1. /\ turn[s].pc = "session" /\ w \notin sessions /\ turn' = [turn EXCEPT ![s] = q]
      /\ raced \subseteq raced' /\ raced' \subseteq raced \cup {w}
      /\ (\E t \in Slots : turn[t].pc = "mark" /\ turn[t].session = w) => w \in raced'
      /\ UNCHANGED <<links, news, sessions, saves, expired, joins, calls>>
  BY DEF L!LookAtSession, L!rows
<1>2. /\ q \in L!Turn /\ q.pc = "mark" /\ q.k = turn[s].k /\ q.d = turn[s].d /\ q.session = w
  BY TurnType DEF L!Turn
<1> HIDE DEF q
<1>3. s \in Calling /\ TurnFits(turn[s])
  BY <1>1 DEF Calling, LinksInv, TurnsFit
<1>4. TurnFits(q)
  BY <1>1, <1>2, <1>3 DEF TurnFits
<1>5. w \in Sessions /\ raced' \subseteq Sessions /\ sessions' \subseteq Sessions
  BY <1>1, <1>3 DEF TurnFits, LinksInv, L!TypeOK
<1>6. /\ (L!TypeOK /\ CountsFit /\ TurnsFit /\ L!LinkedOnce)'
      /\ turn'[s] = q /\ \A t \in Slots \ {s} : turn'[t] = turn[t]
  BY <1>1, <1>2, <1>3, <1>4, <1>5, CallGoesOn
<1>7. SessionsFit'
  <2> SUFFICES ASSUME NEW v \in Sessions, v \notin expired, v \notin raced'
      PROVE  /\ saves[v] <= 1
             /\ \A t, u \in Slots : Passed(t, v)' /\ Passed(u, v)' => t = u
             /\ \A t \in Slots : Passed(t, v)' => saves[v] = 0
             /\ saves[v] >= 1 \/ (\E t \in Slots : Passed(t, v)' /\ turn'[t].pc # "mark") => v \in sessions
    BY <1>1 DEF SessionsFit
  <2>1. v \notin raced /\ saves[v] \in Nat
    BY <1>1 DEF LinksInv, L!TypeOK
  <2>2. \A t \in Slots : (t # s => (Passed(t, v)' <=> Passed(t, v)) /\ turn'[t] = turn[t]) /\ (Passed(s, v)' => v = w)
    BY <1>2, <1>6 DEF Passed
  <2>3. CASE v = w
    <3>1. saves[w] = 0 /\ \A t \in Slots : ~Passed(t, w)
      <4>1. \A t \in Slots : Passed(t, w) => turn[t].pc = "mark" /\ turn[t].session = w
        BY <1>1, <1>5, <2>1, <2>3 DEF LinksInv, SessionsFit, Passed
      <4>2. \A t \in Slots : ~Passed(t, w)
        BY <1>1, <2>3, <4>1
      <4> QED BY <1>1, <1>5, <2>1, <2>3, <4>2 DEF LinksInv, SessionsFit
    <3> QED BY <1>2, <1>6, <2>2, <2>3, <3>1
  <2>4. CASE v # w
    BY <1>1, <2>1, <2>2, <2>4 DEF LinksInv, SessionsFit
  <2> QED BY <2>3, <2>4
<1> QED BY <1>6, <1>7 DEF LinksInv

LEMMA SessionMarked ==
  ASSUME LinksInv, NEW s \in Slots, L!MarkSession(s)
  PROVE  LinksInv'
<1> DEFINE w == turn[s].session
           q == [turn[s] EXCEPT !.pc = "look"]
<1>1. /\ turn[s].pc = "mark" /\ turn' = [turn EXCEPT ![s] = q] /\ sessions' = sessions \cup {w}
      /\ UNCHANGED <<links, news, raced, saves, expired, joins, calls>>
  BY DEF L!MarkSession, L!Marked, L!rows
<1>2. /\ q \in L!Turn /\ q.pc = "look" /\ q.k = turn[s].k /\ q.d = turn[s].d /\ q.session = w
  BY TurnType DEF L!Turn
<1> HIDE DEF q
<1>3. s \in Calling /\ TurnFits(turn[s])
  BY <1>1 DEF Calling, LinksInv, TurnsFit
<1>4. TurnFits(q)
  BY <1>1, <1>2, <1>3 DEF TurnFits
<1>5. w \in Sessions /\ raced' \subseteq Sessions /\ sessions' \subseteq Sessions
  BY <1>1, <1>3 DEF TurnFits, LinksInv, L!TypeOK
<1>6. /\ (L!TypeOK /\ CountsFit /\ TurnsFit /\ L!LinkedOnce)'
      /\ turn'[s] = q /\ \A t \in Slots \ {s} : turn'[t] = turn[t]
  BY <1>1, <1>2, <1>3, <1>4, <1>5, CallGoesOn
<1>7. SessionsFit'
  <2>1. \A t \in Slots, v \in Sessions : Passed(t, v)' <=> Passed(t, v)
    BY <1>1, <1>2, <1>6 DEF Passed
  <2>2. \A t \in Slots, v \in Sessions :
          Passed(t, v)' /\ turn'[t].pc # "mark" => v = w \/ (Passed(t, v) /\ turn[t].pc # "mark")
    BY <1>1, <1>2, <1>6 DEF Passed
  <2> QED BY <1>1, <2>1, <2>2 DEF LinksInv, SessionsFit
<1> QED BY <1>6, <1>7 DEF LinksInv

\* Looking for the row of a pair leaves the sessions as they are.
LEMMA LooksKeepSessions ==
  ASSUME LinksInv, NEW s \in Slots, NEW q \in L!Turn, turn[s].pc \in {"look", "again"},
         q.pc \in {"again", "join"}, q.session = turn[s].session,
         turn'[s] = q, \A t \in Slots \ {s} : turn'[t] = turn[t],
         UNCHANGED <<saves, expired, raced, sessions>>
  PROVE  SessionsFit'
<1>1. \A t \in Slots, v \in Sessions :
        /\ Passed(t, v)' <=> Passed(t, v)
        /\ Passed(t, v)' /\ turn'[t].pc # "mark" => Passed(t, v) /\ turn[t].pc # "mark"
  BY DEF Passed
<1> QED BY <1>1 DEF LinksInv, SessionsFit

\* Counts of rows.
LEMMA RowCounts ==
  ASSUME LinksInv, NEW k \in Pairs
  PROVE  /\ links[k][1] \in Nat /\ links[k][2] \in Nat /\ links[k] \in [L!Ways -> Nat]
         /\ \A d \in L!Ways : d = 1 \/ d = 2
         /\ Rows(k) = 0 <=> links[k][1] = 0 /\ links[k][2] = 0
<1>1. links[k] \in [L!Ways -> Nat]
  BY DEF LinksInv, L!TypeOK
<1> QED BY <1>1 DEF L!Ways, Rows

LEMMA RowLookedFor ==
  ASSUME LinksInv, NEW s \in Slots, L!Look(s)
  PROVE  LinksInv'
<1> DEFINE r == turn[s]
           there == L!There(r.k, r.d)
           q == [r EXCEPT !.pc = IF L!LooksTwice(r.k) THEN "again" ELSE "join",
                          !.found = there, !.again = there]
<1>1. /\ r.pc = "look" /\ ~(LinkKind[r.k] = "answer" /\ there)
      /\ turn' = [turn EXCEPT ![s] = q]
      /\ UNCHANGED <<links, news, sessions, raced, saves, expired, joins, calls>>
  BY DEF L!Look, L!rows, L!marks
<1>2. there \in BOOLEAN
  BY DEF L!There
<1>3. /\ q \in L!Turn /\ q.pc = (IF L!LooksTwice(r.k) THEN "again" ELSE "join") /\ q.k = r.k
      /\ q.d = r.d /\ q.session = r.session /\ q.found = there /\ q.again = there
  BY <1>2, TurnType DEF L!Turn
<1> HIDE DEF q
<1>4. s \in Calling /\ TurnFits(r)
  BY <1>1 DEF Calling, LinksInv, TurnsFit
<1>5. TurnFits(q)
  <2>1. ASSUME ~L!LooksTwice(r.k), ~there PROVE Rows(r.k) = 0
    <3>1. LinkKind[r.k] # "channel" /\ r.d = 1 /\ links[r.k][2] = 0
      BY <1>4, <2>1, TurnType DEF TurnFits, L!LooksTwice, LinksInv, CountsFit
    <3> QED BY <2>1, <3>1, TurnType, RowCounts DEF L!There
  <2>2. L!LooksTwice(r.k) => q.pc = "again"
    BY <1>3
  <2> QED BY <1>3, <1>4, <2>1, <2>2 DEF TurnFits, L!LooksTwice
<1>6. /\ (L!TypeOK /\ CountsFit /\ TurnsFit /\ L!LinkedOnce)'
      /\ turn'[s] = q /\ \A t \in Slots \ {s} : turn'[t] = turn[t]
  BY <1>1, <1>3, <1>4, <1>5, CallGoesOn DEF LinksInv, L!TypeOK
<1>7. SessionsFit'
  BY <1>1, <1>3, <1>6, LooksKeepSessions
<1> QED BY <1>6, <1>7 DEF LinksInv

LEMMA RowLookedForAgain ==
  ASSUME LinksInv, NEW s \in Slots, L!LookAgain(s)
  PROVE  LinksInv'
<1> DEFINE r == turn[s]
           again == IF LinkKind[r.k] = "channel" THEN r.found \/ L!There(r.k, 3 - r.d)
                    ELSE L!There(r.k, r.d)
           q == [r EXCEPT !.pc = "join", !.again = again]
<1>1. /\ r.pc = "again" /\ turn' = [turn EXCEPT ![s] = q]
      /\ UNCHANGED <<links, news, sessions, raced, saves, expired, joins, calls>>
  BY DEF L!LookAgain, L!rows, L!marks
<1>2. again \in BOOLEAN
  <2>1. L!There(r.k, r.d) \in BOOLEAN /\ L!There(r.k, 3 - r.d) \in BOOLEAN
    BY DEF L!There
  <2>2. CASE LinkKind[r.k] = "channel"
    BY <2>2
  <2>3. CASE LinkKind[r.k] # "channel"
    BY <2>1, <2>3
  <2> QED BY <2>2, <2>3
<1>3. /\ q \in L!Turn /\ q.pc = "join" /\ q.k = r.k
      /\ q.d = r.d /\ q.session = r.session /\ q.found = r.found /\ q.again = again
  BY <1>2, TurnType DEF L!Turn
<1> HIDE DEF q
<1>4. s \in Calling /\ TurnFits(r)
  BY <1>1 DEF Calling, LinksInv, TurnsFit
<1>5. TurnFits(q)
  <2>1. ASSUME r.k \in SoloPairs, ~again PROVE Rows(r.k) = 0
    <3>1. r.found = L!There(r.k, r.d)
      BY <1>1, <1>4, <2>1 DEF TurnFits
    <3>2. CASE LinkKind[r.k] = "channel"
      <4>1. ~L!There(r.k, r.d) /\ ~L!There(r.k, 3 - r.d)
        BY <2>1, <3>1, <3>2
      <4>2. CASE r.d = 1
        BY <4>1, <4>2, TurnType, RowCounts DEF L!There
      <4>3. CASE r.d = 2
        BY <4>1, <4>3, TurnType, RowCounts DEF L!There
      <4> QED BY <4>2, <4>3, TurnType, RowCounts
    <3>3. CASE LinkKind[r.k] # "channel"
      <4>1. r.d = 1 /\ links[r.k][2] = 0
        BY <1>4, <3>3, TurnType DEF TurnFits, LinksInv, CountsFit
      <4> QED BY <2>1, <3>3, <4>1, TurnType, RowCounts DEF L!There
    <3> QED BY <3>2, <3>3
  <2>2. ASSUME r.k \in SoloPairs, LinkKind[r.k] \in {"follow", "column"} PROVE r.found = again
    BY <1>1, <1>4, <2>2 DEF TurnFits
  <2> QED BY <1>3, <1>4, <2>1, <2>2 DEF TurnFits
<1>6. /\ (L!TypeOK /\ CountsFit /\ TurnsFit /\ L!LinkedOnce)'
      /\ turn'[s] = q /\ \A t \in Slots \ {s} : turn'[t] = turn[t]
  BY <1>1, <1>3, <1>4, <1>5, CallGoesOn DEF LinksInv, L!TypeOK
<1>7. SessionsFit'
  BY <1>1, <1>3, <1>6, LooksKeepSessions
<1> QED BY <1>6, <1>7 DEF LinksInv

\* A request is answered, and writes no row.
LEMMA CallAnswered ==
  ASSUME LinksInv, NEW s \in Slots, turn' = [turn EXCEPT ![s] = L!NoTurn], turn[s].pc # "idle",
         UNCHANGED <<sessions, raced, expired, calls>>
  PROVE  /\ turn' \in [Slots -> L!Turn] /\ \A t \in Slots : turn'[t].pc # "idle" => t # s /\ turn'[t] = turn[t]
         /\ s \in Calling /\ Calling' = Calling \ {s}
         /\ (\A t, u \in Calling' : turn'[t].k = turn'[u].k /\ turn'[t].k \in SoloPairs => t = u)
         /\ (saves' = saves => SessionsFit')
<1>1. turn' \in [Slots -> L!Turn] /\ \A t \in Slots : turn'[t].pc # "idle" => t # s /\ turn'[t] = turn[t]
  BY NoTurnType DEF LinksInv, L!TypeOK
<1>2. s \in Calling /\ Calling' = Calling \ {s}
  BY NoTurnType DEF LinksInv, L!TypeOK, Calling
<1>3. \A t, u \in Calling' : turn'[t].k = turn'[u].k /\ turn'[t].k \in SoloPairs => t = u
  BY <1>1, <1>2 DEF LinksInv, TurnsFit, Calling
<1>4. ASSUME saves' = saves PROVE SessionsFit'
  <2>1. \A t \in Slots, w \in Sessions : Passed(t, w)' => Passed(t, w) /\ turn'[t] = turn[t]
    BY <1>1 DEF Passed
  <2> QED BY <1>4, <2>1 DEF LinksInv, SessionsFit
<1> QED BY <1>1, <1>2, <1>3, <1>4

LEMMA CallAborted ==
  ASSUME LinksInv, NEW s \in Slots, L!Abort(s)
  PROVE  LinksInv'
<1>1. /\ turn[s].pc # "idle" /\ turn' = [turn EXCEPT ![s] = L!NoTurn]
      /\ UNCHANGED <<links, news, sessions, raced, saves, expired, joins, calls>>
  BY DEF L!Abort, L!rows, L!marks
<1>2. /\ turn' \in [Slots -> L!Turn] /\ \A t \in Slots : turn'[t].pc # "idle" => t # s /\ turn'[t] = turn[t]
      /\ s \in Calling /\ Calling' = Calling \ {s}
      /\ (\A t, u \in Calling' : turn'[t].k = turn'[u].k /\ turn'[t].k \in SoloPairs => t = u)
      /\ SessionsFit'
  BY <1>1, CallAnswered
<1>3. L!TypeOK' /\ L!LinkedOnce'
  BY <1>1, <1>2 DEF LinksInv, L!TypeOK, L!LinkedOnce
<1>4. CountsFit'
  <2>1. ASSUME NEW n \in 0..MaxCalls, Reach(n) PROVE n + Cardinality(Calling') <= calls'
    BY <1>1, <1>2, <2>1, ReachKept
  <2> QED BY <1>1, <2>1 DEF LinksInv, CountsFit, Reach, L!TypeOK, L!Counts
<1>5. TurnsFit'
  <2>1. \A t \in Slots : turn'[t].pc # "idle" => TurnFits(turn[t])'
    BY <1>1, <1>2 DEF LinksInv, TurnsFit, TurnFits, L!There, Rows, L!LooksTwice
  <2> QED BY <1>2, <2>1 DEF TurnsFit
<1> QED BY <1>2, <1>3, <1>4, <1>5 DEF LinksInv

LEMMA LinkLeft ==
  ASSUME LinksInv, NEW s \in Slots, L!Leave(s)
  PROVE  LinksInv'
<1> DEFINE r == turn[s]
<1>1. /\ r.pc = "leave" /\ turn' = [turn EXCEPT ![s] = L!NoTurn]
      /\ links' = [links EXCEPT ![r.k][r.d] = IF LinkKind[r.k] = "answer" /\ @ > 0 THEN @ - 1 ELSE 0]
      /\ UNCHANGED <<news, sessions, raced, saves, expired, joins, calls>>
      /\ r.k \in Pairs /\ r.d \in L!Ways
  BY TurnType DEF L!Leave, L!marks
<1>2. /\ turn' \in [Slots -> L!Turn] /\ \A t \in Slots : turn'[t].pc # "idle" => t # s /\ turn'[t] = turn[t]
      /\ s \in Calling /\ Calling' = Calling \ {s}
      /\ (\A t, u \in Calling' : turn'[t].k = turn'[u].k /\ turn'[t].k \in SoloPairs => t = u)
      /\ SessionsFit'
  BY <1>1, CallAnswered
<1>3. /\ links' \in [Pairs -> [L!Ways -> 0..MaxCalls]]
      /\ \A k \in Pairs, d \in L!Ways : links'[k][d] <= links[k][d]
      /\ \A k \in Pairs : k # r.k => links'[k] = links[k]
  <2> DEFINE n == IF LinkKind[r.k] = "answer" /\ links[r.k][r.d] > 0 THEN links[r.k][r.d] - 1 ELSE 0
  <2>1. links \in [Pairs -> [L!Ways -> 0..MaxCalls]]
    BY DEF LinksInv, L!TypeOK
  <2>2. links[r.k][r.d] \in 0..MaxCalls
    BY <1>1, <2>1
  <2>3. n \in 0..MaxCalls /\ n <= links[r.k][r.d]
    BY <2>2, LinksBounds
  <2>4. links' = [links EXCEPT ![r.k][r.d] = n]
    BY <1>1
  <2> HIDE DEF n
  <2>5. links' \in [Pairs -> [L!Ways -> 0..MaxCalls]]
    BY <1>1, <2>1, <2>3, <2>4
  <2>6. \A k \in Pairs, d \in L!Ways : links'[k][d] = IF k = r.k /\ d = r.d THEN n ELSE links[k][d]
    BY <1>1, <2>1, <2>4
  <2>7. \A k \in Pairs, d \in L!Ways : links[k][d] \in 0..MaxCalls
    BY <2>1
  <2>8. \A k \in Pairs, d \in L!Ways : links'[k][d] <= links[k][d]
    BY <2>3, <2>6, <2>7
  <2> QED BY <1>1, <2>1, <2>4, <2>5, <2>8
<1>4. \A k \in Pairs, d \in L!Ways : links[k][d] \in 0..MaxCalls /\ links'[k][d] \in 0..MaxCalls
  BY <1>3 DEF LinksInv, L!TypeOK
<1>5. L!TypeOK'
  BY <1>1, <1>2, <1>3 DEF LinksInv, L!TypeOK
<1>6. L!LinkedOnce'
  <2>1. \A k \in Pairs : links'[k][1] + links'[k][2] <= links[k][1] + links[k][2]
    BY <1>3, <1>4 DEF L!Ways
  <2>2. \A k \in Pairs : links'[k][1] + links'[k][2] \in Nat /\ links[k][1] + links[k][2] \in Nat
    BY <1>4 DEF L!Ways
  <2> QED BY <1>1, <2>1, <2>2 DEF LinksInv, L!LinkedOnce
<1>7. CountsFit'
  <2>1. ASSUME NEW n \in 0..MaxCalls, Reach(n) PROVE n + Cardinality(Calling') <= calls'
    <3>1. n \in Int /\ Calling' = Calling \ {s} /\ calls' = calls
      BY <1>1, <1>2
    <3> QED BY <2>1, <3>1, ReachKept
  <2>2. Cardinality(Calling') \in Nat
    BY <1>2, CallingFinite, FS_RemoveElement, FS_CardinalityType
  <2>3. ASSUME NEW k \in Pairs, NEW d \in L!Ways PROVE links'[k][d] + Cardinality(Calling') <= calls'
    <3>1. links[k][d] + Cardinality(Calling') <= calls'
      BY <1>4, <2>1 DEF LinksInv, CountsFit
    <3>2. links'[k][d] <= links[k][d] /\ links[k][d] \in Nat /\ links'[k][d] \in Nat /\ calls' \in Nat
      BY <1>3, <1>4, <1>5 DEF L!TypeOK
    <3> QED BY <2>2, <3>1, <3>2
  <2>4. \A k \in Pairs : LinkKind[k] # "channel" => links'[k][2] = 0
    <3> SUFFICES ASSUME NEW k \in Pairs, LinkKind[k] # "channel" PROVE links'[k][2] = 0
      OBVIOUS
    <3>1. links[k][2] = 0 /\ links'[k][2] <= links[k][2] /\ links'[k][2] \in Nat
      BY <1>3, <1>4 DEF LinksInv, CountsFit, L!Ways
    <3> QED BY <3>1
  <2>5. \A k \in Pairs : joins'[k] + Cardinality(Calling') <= calls' /\ news'[k] + Cardinality(Calling') <= calls'
    BY <1>1, <2>1 DEF LinksInv, CountsFit, L!TypeOK, L!Counts
  <2>6. \A w \in Sessions : saves'[w] + Cardinality(Calling') <= calls'
    BY <1>1, <2>1 DEF LinksInv, CountsFit, L!TypeOK
  <2> QED BY <2>3, <2>4, <2>5, <2>6 DEF CountsFit, Reach
<1>8. TurnsFit'
  <2>1. \A t \in Slots : t # s /\ turn[t].pc # "idle" /\ turn[t].k \in SoloPairs => turn[t].k # r.k
    BY <1>2 DEF LinksInv, TurnsFit, Calling
  <2>2. ASSUME NEW t \in Slots, turn'[t].pc # "idle" PROVE TurnFits(turn[t])'
    BY <1>1, <1>2, <1>3, <2>1, <2>2, TurnType DEF LinksInv, TurnsFit, TurnFits, L!There, Rows, L!LooksTwice
  <2> QED BY <1>2, <2>2 DEF TurnsFit
<1> QED BY <1>2, <1>5, <1>6, <1>7, <1>8 DEF LinksInv

LEMMA LinkJoined ==
  ASSUME LinksInv, NEW s \in Slots, L!Join(s)
  PROVE  LinksInv'
<1> DEFINE r == turn[s]
<1>1. /\ r.pc = "join" /\ turn' = [turn EXCEPT ![s] = L!NoTurn]
      /\ LinkKind[r.k] = "handle" => r.again \/ ~L!There(r.k, r.d)
      /\ links' = IF ~r.again THEN [links EXCEPT ![r.k][r.d] = @ + 1] ELSE links
      /\ joins' = IF ~r.again THEN [joins EXCEPT ![r.k] = @ + 1] ELSE joins
      /\ news' = IF LinkKind[r.k] \in {"follow", "column"} /\ ~r.found THEN [news EXCEPT ![r.k] = @ + 1] ELSE news
      /\ saves' = IF r.session = L!NoSession THEN saves ELSE [saves EXCEPT ![r.session] = @ + 1]
      /\ UNCHANGED <<sessions, raced, expired, calls>>
      /\ r.k \in Pairs /\ r.d \in L!Ways
  BY TurnType DEF L!Join, L!Inserts, L!IsNews
<1>2. /\ turn' \in [Slots -> L!Turn] /\ \A t \in Slots : turn'[t].pc # "idle" => t # s /\ turn'[t] = turn[t]
      /\ s \in Calling /\ Calling' = Calling \ {s}
      /\ (\A t, u \in Calling' : turn'[t].k = turn'[u].k /\ turn'[t].k \in SoloPairs => t = u)
  BY <1>1, CallAnswered
<1>3. TurnFits(r)
  BY <1>1 DEF LinksInv, TurnsFit
<1>4. /\ links \in [Pairs -> [L!Ways -> 0..MaxCalls]] /\ joins \in [Pairs -> 0..MaxCalls]
      /\ news \in [Pairs -> 0..MaxCalls] /\ saves \in [Sessions -> 0..MaxCalls] /\ calls \in 0..MaxCalls
  BY DEF LinksInv, L!TypeOK, L!Counts
<1>5. /\ \A k \in Pairs, d \in L!Ways :
            links'[k][d] = IF k = r.k /\ d = r.d /\ ~r.again THEN links[k][d] + 1 ELSE links[k][d]
      /\ \A k \in Pairs : joins'[k] = IF k = r.k /\ ~r.again THEN joins[k] + 1 ELSE joins[k]
      /\ \A k \in Pairs : news'[k] = IF k = r.k /\ LinkKind[k] \in {"follow", "column"} /\ ~r.found
                                     THEN news[k] + 1 ELSE news[k]
      /\ \A w \in Sessions : saves'[w] = IF w = r.session THEN saves[w] + 1 ELSE saves[w]
  BY <1>1, <1>4, LinksBounds
<1>6. ASSUME NEW n \in 0..MaxCalls, Reach(n)
      PROVE  /\ n + Cardinality(Calling') <= calls' /\ n + 1 + Cardinality(Calling') <= calls'
             /\ n + 1 \in 0..MaxCalls
  <2>1. n \in Int /\ Calling' = Calling \ {s} /\ calls' = calls /\ s \in Calling
    BY <1>1, <1>2
  <2>2. n + Cardinality(Calling') <= calls'
    BY <1>6, <2>1, ReachKept
  <2>3. n + 1 + Cardinality(Calling') <= calls' /\ n + 1 <= calls
    BY <1>6, <2>1, ReachCounted
  <2> QED BY <1>4, <2>2, <2>3, LinksBounds
<1>7. /\ \A k \in Pairs : Reach(joins[k]) /\ Reach(news[k]) /\ \A d \in L!Ways : Reach(links[k][d])
      /\ \A w \in Sessions : Reach(saves[w])
      /\ \A k \in Pairs : LinkKind[k] # "channel" => links[k][2] = 0
  BY DEF LinksInv, CountsFit
<1>8. L!TypeOK'
  <2>1. \A k \in Pairs : joins[k] + 1 \in 0..MaxCalls /\ news[k] + 1 \in 0..MaxCalls
    BY <1>4, <1>6, <1>7
  <2>2. \A k \in Pairs, d \in L!Ways : links[k][d] + 1 \in 0..MaxCalls
    BY <1>4, <1>6, <1>7
  <2>3. \A w \in Sessions : saves[w] + 1 \in 0..MaxCalls
    BY <1>4, <1>6, <1>7
  <2>4. links' \in [Pairs -> [L!Ways -> 0..MaxCalls]]
    BY <1>1, <1>4, <2>2
  <2>5. joins' \in [Pairs -> 0..MaxCalls] /\ news' \in [Pairs -> 0..MaxCalls]
    BY <1>1, <1>4, <2>1
  <2>6. saves' \in [Sessions -> 0..MaxCalls]
    BY <1>1, <1>4, <2>3, TurnType
  <2> QED BY <1>1, <1>2, <2>4, <2>5, <2>6 DEF LinksInv, L!TypeOK, L!Counts
<1>9. CountsFit'
  <2>1. \A k \in Pairs : Reach(joins[k])' /\ Reach(news[k])'
    BY <1>4, <1>5, <1>6, <1>7 DEF Reach
  <2>2. \A k \in Pairs, d \in L!Ways : Reach(links[k][d])'
    BY <1>4, <1>5, <1>6, <1>7 DEF Reach
  <2>3. \A w \in Sessions : Reach(saves[w])'
    BY <1>4, <1>5, <1>6, <1>7 DEF Reach
  <2>4. \A k \in Pairs : LinkKind[k] # "channel" => links'[k][2] = 0
    BY <1>3, <1>5, <1>7 DEF TurnFits, L!Ways
  <2> QED BY <2>1, <2>2, <2>3, <2>4 DEF CountsFit
<1>10. TurnsFit'
  <2>1. \A t \in Slots : t # s /\ turn[t].pc # "idle" /\ turn[t].k \in SoloPairs => turn[t].k # r.k
    BY <1>2 DEF LinksInv, TurnsFit, Calling
  <2>2. ASSUME NEW t \in Slots, turn'[t].pc # "idle" PROVE TurnFits(turn[t])'
    <3>1. turn'[t] = turn[t] /\ t # s /\ TurnFits(turn[t]) /\ turn[t].k \in Pairs /\ turn[t].d \in L!Ways
      BY <1>2, <2>2, TurnType DEF LinksInv, TurnsFit
    <3>2. turn[t].k \in SoloPairs => \A d \in L!Ways : links'[turn[t].k][d] = links[turn[t].k][d]
      BY <1>5, <2>1, <2>2, <3>1
    <3> QED BY <3>1, <3>2 DEF TurnFits, L!There, Rows, L!LooksTwice, L!Ways
  <2> QED BY <1>2, <2>2 DEF TurnsFit
<1>11. L!LinkedOnce'
  <2> SUFFICES ASSUME NEW k \in Pairs
               PROVE  /\ k \in SoloPairs \/ LinkKind[k] = "handle" => links'[k][1] + links'[k][2] <= 1
                      /\ k \in SoloPairs /\ LinkKind[k] \in {"follow", "column"} => news'[k] = joins'[k]
    BY DEF L!LinkedOnce
  <2>1. /\ k \in SoloPairs \/ LinkKind[k] = "handle" => links[k][1] + links[k][2] <= 1
        /\ k \in SoloPairs /\ LinkKind[k] \in {"follow", "column"} => news[k] = joins[k]
    BY DEF LinksInv, L!LinkedOnce
  <2>2. CASE k # r.k
    BY <1>5, <2>1, <2>2 DEF L!Ways
  <2>3. ASSUME k = r.k, k \in SoloPairs, LinkKind[k] \in {"follow", "column"} PROVE news'[k] = joins'[k]
    BY <1>1, <1>3, <1>5, <2>1, <2>3 DEF TurnFits
  <2>4. ASSUME k = r.k, ~r.again, k \in SoloPairs \/ LinkKind[k] = "handle"
        PROVE  links'[k][1] + links'[k][2] <= 1
    <3>1. links[k][1] = 0 /\ links[k][2] = 0
      <4>1. CASE k \in SoloPairs
        BY <1>1, <1>3, <2>4, <4>1, RowCounts DEF TurnFits
      <4>2. CASE LinkKind[k] = "handle"
        BY <1>1, <1>3, <1>7, <2>4, <4>2, RowCounts DEF TurnFits, L!There
      <4> QED BY <2>4, <4>1, <4>2
    <3>2. links'[k][r.d] = 1 /\ \A d \in L!Ways \ {r.d} : links'[k][d] = 0
      BY <1>1, <1>5, <2>4, <3>1 DEF L!Ways
    <3> QED BY <1>1, <3>2 DEF L!Ways
  <2>5. ASSUME k = r.k, r.again PROVE \A d \in L!Ways : links'[k][d] = links[k][d]
    BY <1>5, <2>5
  <2> QED BY <2>1, <2>2, <2>3, <2>4, <2>5 DEF L!Ways
<1>12. SessionsFit'
  <2>1. \A t \in Slots, w \in Sessions : Passed(t, w)' => Passed(t, w) /\ turn'[t] = turn[t] /\ t # s
    BY <1>2 DEF Passed
  <2>2. Passed(s, r.session)
    BY <1>1 DEF Passed
  <2> SUFFICES ASSUME NEW w \in Sessions, w \notin expired, w \notin raced
               PROVE  /\ saves'[w] <= 1
                      /\ \A t, u \in Slots : Passed(t, w)' /\ Passed(u, w)' => t = u
                      /\ \A t \in Slots : Passed(t, w)' => saves'[w] = 0
                      /\ saves'[w] >= 1 \/ (\E t \in Slots : Passed(t, w)' /\ turn'[t].pc # "mark") => w \in sessions
    BY <1>1 DEF SessionsFit
  <2>3. /\ saves[w] <= 1
        /\ \A t, u \in Slots : Passed(t, w) /\ Passed(u, w) => t = u
        /\ \A t \in Slots : Passed(t, w) => saves[w] = 0
        /\ saves[w] >= 1 \/ (\E t \in Slots : Passed(t, w) /\ turn[t].pc # "mark") => w \in sessions
    BY DEF LinksInv, SessionsFit
  <2>4. CASE w = r.session
    BY <1>1, <1>5, <2>1, <2>2, <2>3, <2>4
  <2>5. CASE w # r.session
    BY <1>5, <2>1, <2>3, <2>5
  <2> QED BY <2>4, <2>5
<1> QED BY <1>8, <1>9, <1>10, <1>11, <1>12 DEF LinksInv

LEMMA SessionExpires ==
  ASSUME LinksInv, NEW w \in Sessions, L!Expire(w)
  PROVE  LinksInv'
<1>1. /\ sessions' = sessions \ {w} /\ expired' = expired \cup {w}
      /\ UNCHANGED <<links, news, raced, saves, joins, turn, calls>>
  BY DEF L!Expire, L!rows
<1>2. L!TypeOK' /\ L!LinkedOnce'
  BY <1>1 DEF LinksInv, L!TypeOK, L!LinkedOnce
<1>3. CountsFit' /\ TurnsFit'
  BY <1>1 DEF LinksInv, CountsFit, Reach, TurnsFit, TurnFits, Calling, L!There, Rows, L!LooksTwice
<1>4. SessionsFit'
  BY <1>1 DEF LinksInv, SessionsFit, Passed
<1> QED BY <1>2, <1>3, <1>4 DEF LinksInv

LEMMA LinksStep ==
  ASSUME LinksInv, L!Next \/ UNCHANGED linking
  PROVE  LinksInv'
<1>1. ASSUME NEW s \in Slots, L!BeginJoin(s) PROVE LinksInv'
  <2>1. PICK k \in Pairs, d \in L!Ways :
          /\ d = 1 \/ LinkKind[k] = "channel"
          /\ L!Start(s, [L!NoTurn EXCEPT !.pc = "look", !.k = k, !.d = d])
    BY <1>1 DEF L!BeginJoin
  <2> DEFINE q == [L!NoTurn EXCEPT !.pc = "look", !.k = k, !.d = d]
  <2>2. q \in L!Turn /\ q.pc = "look" /\ q.k = k /\ q.d = d /\ q.session = L!NoSession
    BY NoTurnType DEF L!Turn, L!NoTurn
  <2>3. L!Start(s, q)
    BY <2>1
  <2> HIDE DEF q
  <2> QED BY <2>1, <2>2, <2>3, CallBegins
<1>2. ASSUME NEW s \in Slots, L!BeginAnswer(s) PROVE LinksInv'
  <2>1. PICK k \in Pairs, w \in Sessions :
          L!Start(s, [L!NoTurn EXCEPT !.pc = "session", !.k = k, !.session = w])
    BY <1>2 DEF L!BeginAnswer
  <2> DEFINE q == [L!NoTurn EXCEPT !.pc = "session", !.k = k, !.session = w]
  <2>2. q \in L!Turn /\ q.pc = "session" /\ q.k = k /\ q.d = 1 /\ q.session = w
    BY NoTurnType DEF L!Turn, L!NoTurn
  <2>3. L!Start(s, q)
    BY <2>1
  <2> HIDE DEF q
  <2> QED BY <2>1, <2>2, <2>3, CallBegins
<1>3. ASSUME NEW s \in Slots, L!BeginLeave(s) PROVE LinksInv'
  <2>1. PICK k \in Pairs : L!Start(s, [L!NoTurn EXCEPT !.pc = "leave", !.k = k])
    BY <1>3 DEF L!BeginLeave
  <2> DEFINE q == [L!NoTurn EXCEPT !.pc = "leave", !.k = k]
  <2>2. q \in L!Turn /\ q.pc = "leave" /\ q.k = k /\ q.d = 1 /\ q.session = L!NoSession
    BY NoTurnType DEF L!Turn, L!NoTurn
  <2>3. L!Start(s, q)
    BY <2>1
  <2> HIDE DEF q
  <2> QED BY <2>1, <2>2, <2>3, CallBegins
<1>4. CASE UNCHANGED linking
  <2>1. L!TypeOK' /\ L!LinkedOnce' /\ CountsFit' /\ TurnsFit'
    BY <1>4 DEF linking, LinksInv, L!TypeOK, L!LinkedOnce, CountsFit, Reach, TurnsFit, TurnFits, Calling,
                L!There, Rows, L!LooksTwice
  <2>2. SessionsFit'
    BY <1>4 DEF linking, LinksInv, SessionsFit, Passed
  <2> QED BY <2>1, <2>2 DEF LinksInv
<1> QED
  BY <1>1, <1>2, <1>3, <1>4, SessionSeen, SessionMarked, RowLookedFor, RowLookedForAgain, LinkJoined,
     LinkLeft, CallAborted, SessionExpires DEF L!Next

LEMMA LinksHolds == LinksInv => L!LinksHold
<1>1. ASSUME LinksInv, NEW w \in Sessions \ (expired \cup raced)
      PROVE  saves[w] <= 1
  BY <1>1 DEF LinksInv, SessionsFit
<1> QED
  BY <1>1 DEF LinksInv, L!LinksHold, L!OneAnswerPerSession

-----------------------------------------------------------------------------
(* Channels and messages.                                                 *)

RoomRow == [admin : People, with : People, subject : H!Topics]
MessageRow == [author : People, room : Nat \ {0}]
OpeningRow == [pc : {"idle", "look", "look again", "create"},
               host : People, with : People, subject : H!Topics]
RowsTyped ==
  room \in Seq(RoomRow) /\ messages \in Seq(MessageRow) /\ opening \in [Openers -> OpeningRow]
Seeking == {s \in Openers : opening[s].pc # "idle"}
Between(o) == {o.host, o.with}

\* Openings of one channel that should not overlap do not.
Apart ==
  \A s, t \in Seeking :
    /\ Between(opening[s]) = Between(opening[t])
    /\ opening[s].subject = opening[t].subject /\ opening[s].subject \in SoloMatters
    => s = t

\* What the first look did not find is not there, nor what neither look found.
NotThere(o) ==
  \A c \in H!Rooms :
    o.subject \in SoloMatters /\ room[c].subject = o.subject =>
      /\ o.pc = "look again" => ~(room[c].admin = o.host /\ room[c].with = o.with)
      /\ o.pc = "create" => H!Sides(c) # Between(o)

\* A message is notified to the other side.
OthersTold ==
  \A n \in 1..Len(messages), p \in People :
    <<p, n>> \in notified <=> p \in H!Sides(messages[n].room) \ {messages[n].author}

ChannelsInv ==
  /\ RowsTyped /\ H!TypeOK /\ Apart /\ (\A s \in Openers : NotThere(opening[s]))
  /\ H!OneConversation /\ OthersTold
  /\ Len(room) + Cardinality(Seeking) <= openings

LEMMA ChannelsInit == CommunityInit => ChannelsInv
<1> SUFFICES ASSUME CommunityInit PROVE ChannelsInv
  OBVIOUS
<1> USE CommunityInit, ChannelsBounds DEF CommunityInit, H!Init
<1>1. H!NoOpening \in OpeningRow
  BY DEF H!NoOpening, OpeningRow, H!Topics
<1>2. RowsTyped
  BY <1>1 DEF RowsTyped
<1>3. Seeking = {} /\ Cardinality(Seeking) = 0
  <2>1. Seeking = {}
    BY DEF Seeking, H!NoOpening
  <2> QED
    BY <2>1, FS_EmptySet
<1>4. H!Rooms = {} /\ 1..Len(messages) = {} /\ Len(room) = 0
  BY DEF H!Rooms
<1>5. \A s \in Openers : opening[s] \in OpeningRow
  BY <1>1
<1>6. filed \in [Feedback -> H!Givers]
  BY DEF H!Givers
<1>7. H!TypeOK
  <2>1. Len(room) <= MaxOpenings /\ openings \in 0..MaxOpenings
    BY <1>4
  <2>2. /\ \A c \in H!Rooms : H!Sides(c) \subseteq People /\ room[c].subject \in H!Topics
        /\ \A m \in 1..Len(messages) : messages[m].author \in People /\ messages[m].room \in H!Rooms
        /\ notified \subseteq People \X (1..Len(messages)) /\ read \subseteq notified
        /\ got \subseteq People \X People \X H!Topics \X H!Rooms
    BY <1>4
  <2>3. \A s \in Openers :
          /\ opening[s].pc \in {"idle", "look", "look again", "create"}
          /\ {opening[s].host, opening[s].with} \subseteq People /\ opening[s].subject \in H!Topics
    BY <1>5 DEF OpeningRow
  <2> QED
    BY <1>6, <2>1, <2>2, <2>3 DEF H!TypeOK
<1>8. \A s \in Openers : NotThere(opening[s])
  BY <1>4 DEF NotThere
<1>9. Apart /\ H!OneConversation /\ OthersTold
  BY <1>3, <1>4 DEF Apart, H!OneConversation, OthersTold
<1> QED
  BY <1>2, <1>3, <1>4, <1>7, <1>8, <1>9 DEF ChannelsInv

LEMMA RoomOpens ==
  ASSUME room \in Seq(RoomRow), NEW r \in RoomRow, room' = Append(room, r),
         NEW n, n = Len(room) + 1
  PROVE  /\ room' \in Seq(RoomRow) /\ Len(room)' = n
         /\ H!Rooms' = H!Rooms \cup {n} /\ n \notin H!Rooms
         /\ room'[n] = r
         /\ \A c \in H!Rooms : room'[c] = room[c] /\ (H!Sides(c))' = H!Sides(c)
         /\ (H!Sides(n))' = {r.admin, r.with}
<1>1. /\ room' \in Seq(RoomRow) /\ Len(room') = n /\ Len(room) \in Nat
      /\ DOMAIN room' = 1..n /\ DOMAIN room = 1..Len(room)
      /\ room'[n] = r /\ \A c \in 1..Len(room) : room'[c] = room[c]
  OBVIOUS
<1>2. H!Rooms' = 1..Len(room') /\ H!Rooms = 1..Len(room)
  BY <1>1 DEF H!Rooms
<1>3. \A c \in H!Rooms : room'[c] = room[c]
  BY <1>1, <1>2
<1>4. \A c \in H!Rooms : (H!Sides(c))' = H!Sides(c)
  BY <1>3 DEF H!Sides
<1>5. (H!Sides(n))' = {r.admin, r.with}
  BY <1>1 DEF H!Sides
<1> QED
  BY <1>1, <1>2, <1>3, <1>4, <1>5

\* What an opening that goes on, or is done with, must keep.
LEMMA OpeningMoves ==
  ASSUME ChannelsInv, NEW s \in Openers, NEW o \in OpeningRow,
         opening' = [opening EXCEPT ![s] = o]
  PROVE  /\ opening' \in [Openers -> OpeningRow]
         /\ \A t \in Openers : opening'[t] = IF t = s THEN o ELSE opening[t]
         /\ IsFiniteSet(Seeking) /\ Cardinality(Seeking) \in Nat
         /\ o.pc = "idle" /\ opening[s].pc # "idle" =>
              Seeking' = Seeking \ {s} /\ Cardinality(Seeking') = Cardinality(Seeking) - 1
         /\ o.pc # "idle" /\ opening[s].pc # "idle" => Seeking' = Seeking
         /\ o.pc # "idle" /\ opening[s].pc = "idle" =>
              Seeking' = Seeking \cup {s} /\ Cardinality(Seeking') = Cardinality(Seeking) + 1
<1>1. opening \in [Openers -> OpeningRow] /\ opening' \in [Openers -> OpeningRow]
  BY DEF ChannelsInv, RowsTyped
<1>2. \A t \in Openers : opening'[t] = IF t = s THEN o ELSE opening[t]
  BY <1>1
<1>3. IsFiniteSet(Seeking) /\ Cardinality(Seeking) \in Nat
  <2>1. IsFiniteSet(Seeking)
    BY ChannelsBounds, FS_Subset DEF Seeking
  <2> QED
    BY <2>1, FS_CardinalityType
<1>4. IsFiniteSet(Seeking \ {s}) /\ Cardinality(Seeking \ {s}) =
        IF s \in Seeking THEN Cardinality(Seeking) - 1 ELSE Cardinality(Seeking)
  BY <1>3, FS_RemoveElement
<1>5. Cardinality(Seeking \cup {s}) =
        IF s \in Seeking THEN Cardinality(Seeking) ELSE Cardinality(Seeking) + 1
  BY <1>3, FS_AddElement
<1>6. o.pc = "idle" /\ opening[s].pc # "idle" => s \in Seeking /\ Seeking' = Seeking \ {s}
  BY <1>2 DEF Seeking
<1>7. o.pc # "idle" /\ opening[s].pc # "idle" => Seeking' = Seeking
  BY <1>2 DEF Seeking
<1>8. o.pc # "idle" /\ opening[s].pc = "idle" => s \notin Seeking /\ Seeking' = Seeking \cup {s}
  BY <1>2 DEF Seeking
<1> QED
  BY <1>1, <1>2, <1>3, <1>4, <1>5, <1>6, <1>7, <1>8

LEMMA RecordOfOpening ==
  ASSUME ChannelsInv, NEW s \in Openers
  PROVE  /\ opening[s] \in OpeningRow /\ H!NoOpening \in OpeningRow
         /\ H!NoOpening.pc = "idle"
         /\ \A pc \in {"look again", "create"} :
              /\ [opening[s] EXCEPT !.pc = pc] \in OpeningRow
              /\ [opening[s] EXCEPT !.pc = pc].pc = pc
              /\ [opening[s] EXCEPT !.pc = pc].host = opening[s].host
              /\ [opening[s] EXCEPT !.pc = pc].with = opening[s].with
              /\ [opening[s] EXCEPT !.pc = pc].subject = opening[s].subject
<1>1. opening[s] \in OpeningRow
  BY DEF ChannelsInv, RowsTyped
<1>2. H!NoOpening \in OpeningRow /\ H!NoOpening.pc = "idle"
  BY ChannelsBounds DEF H!NoOpening, OpeningRow, H!Topics
<1> QED
  BY <1>1, <1>2 DEF OpeningRow

\* A step of an opening that leaves the rooms alone.
LEMMA RoomsStay ==
  ASSUME ChannelsInv, NEW s \in Openers, NEW o \in OpeningRow,
         opening' = [opening EXCEPT ![s] = o], NotThere(o), Apart',
         UNCHANGED <<room, messages, notified, read, filed>>,
         got' \subseteq People \X People \X H!Topics \X H!Rooms,
         \A g \in got' : H!Sides(g[4]) = {g[1], g[2]} /\ g[3] \in {NoMatter, room[g[4]].subject},
         openings' \in 0..MaxOpenings, Len(room) + Cardinality(Seeking') <= openings'
  PROVE  ChannelsInv'
<1>1. /\ opening' \in [Openers -> OpeningRow]
      /\ \A t \in Openers : opening'[t] = IF t = s THEN o ELSE opening[t]
      /\ Cardinality(Seeking') \in Nat
  <2>1. IsFiniteSet(Seeking')
    BY ChannelsBounds, FS_Subset DEF Seeking
  <2> QED
    BY <2>1, OpeningMoves, FS_CardinalityType
<1>2. RowsTyped'
  BY <1>1 DEF RowsTyped, ChannelsInv
<1>3. \A t \in Openers : NotThere(opening[t])'
  <2> SUFFICES ASSUME NEW t \in Openers PROVE NotThere(opening[t])'
    OBVIOUS
  <2>1. CASE t = s
    BY <1>1, <2>1 DEF NotThere, H!Rooms, H!Sides, Between
  <2>2. CASE t # s
    BY <1>1, <2>2 DEF NotThere, H!Rooms, H!Sides, Between, ChannelsInv
  <2> QED
    BY <2>1, <2>2
<1>4. H!OneConversation'
  BY DEF ChannelsInv, H!OneConversation, H!Rooms, H!Sides
<1>5. OthersTold'
  BY DEF ChannelsInv, OthersTold, H!Sides
<1>6. Len(room)' <= MaxOpenings
  BY <1>1, ChannelsBounds DEF ChannelsInv, RowsTyped
<1>7. H!TypeOK'
  <2>1. /\ \A c \in H!Rooms' : (H!Sides(c))' \subseteq People /\ room'[c].subject \in H!Topics
        /\ \A m \in 1..Len(messages') :
             messages'[m].author \in People /\ messages'[m].room \in H!Rooms'
        /\ notified' \subseteq People \X (1..Len(messages')) /\ read' \subseteq notified'
        /\ filed' \in [Feedback -> H!Givers]
        /\ got' \subseteq People \X People \X H!Topics \X H!Rooms'
    BY DEF ChannelsInv, H!TypeOK, H!Rooms, H!Sides
  <2>2. \A t \in Openers : opening'[t] \in OpeningRow
    BY <1>1
  <2>3. \A t \in Openers :
          /\ opening'[t].pc \in {"idle", "look", "look again", "create"}
          /\ {opening'[t].host, opening'[t].with} \subseteq People
          /\ opening'[t].subject \in H!Topics
    <3> SUFFICES ASSUME NEW t \in Openers, NEW q \in OpeningRow, q = opening'[t]
                 PROVE  /\ q.pc \in {"idle", "look", "look again", "create"}
                        /\ {q.host, q.with} \subseteq People /\ q.subject \in H!Topics
      BY <2>2
    <3> QED
      BY DEF OpeningRow
  <2> QED
    BY <1>6, <2>1, <2>3 DEF H!TypeOK
<1> QED
  BY <1>2, <1>3, <1>4, <1>5, <1>7 DEF ChannelsInv

\* Those who go on or are done stay apart.
LEMMA StayApart ==
  ASSUME ChannelsInv, NEW s \in Openers, NEW o \in OpeningRow,
         opening' = [opening EXCEPT ![s] = o],
         \/ o.pc = "idle"
         \/ /\ opening[s].pc # "idle" /\ o.host = opening[s].host
            /\ o.with = opening[s].with /\ o.subject = opening[s].subject
  PROVE  Apart'
<1>1. \A t \in Openers : opening'[t] = IF t = s THEN o ELSE opening[t]
  BY OpeningMoves
<1> SUFFICES ASSUME NEW t \in Seeking', NEW u \in Seeking',
                    Between(opening[t])' = Between(opening[u])',
                    opening'[t].subject = opening'[u].subject,
                    opening'[t].subject \in SoloMatters
             PROVE  t = u
  BY DEF Apart
<1>2. t \in Openers /\ u \in Openers /\ opening'[t].pc # "idle" /\ opening'[u].pc # "idle"
  BY DEF Seeking
<1>3. t \in Seeking /\ u \in Seeking
  BY <1>1, <1>2 DEF Seeking
<1>4. /\ Between(opening[t]) = Between(opening[u])
      /\ opening[t].subject = opening[u].subject /\ opening[t].subject \in SoloMatters
  BY <1>1, <1>2 DEF Between
<1> QED
  BY <1>3, <1>4 DEF ChannelsInv, Apart

LEMMA GotTyped ==
  ASSUME ChannelsInv
  PROVE  /\ got \subseteq People \X People \X H!Topics \X H!Rooms
         /\ \A g \in got : H!Sides(g[4]) = {g[1], g[2]} /\ g[3] \in {NoMatter, room[g[4]].subject}
         /\ openings \in 0..MaxOpenings
  BY DEF ChannelsInv, H!TypeOK, H!OneConversation

LEMMA OpensChannel ==
  ASSUME ChannelsInv, NEW s \in Openers, NEW h \in People, NEW w \in People,
         NEW x \in H!Topics, H!Open(s, h, w, x)
  PROVE  ChannelsInv'
<1> DEFINE o == [pc |-> "look", host |-> h, with |-> w, subject |-> x]
<1>1. /\ o \in OpeningRow /\ o.pc = "look" /\ o.host = h /\ o.with = w /\ o.subject = x
      /\ opening' = [opening EXCEPT ![s] = o]
  BY DEF H!Open, OpeningRow
<1> HIDE DEF o
<1>2. opening[s].pc = "idle" /\ openings < MaxOpenings /\ openings' = openings + 1
      /\ UNCHANGED <<room, messages, notified, read, filed, got>>
  BY DEF H!Open
<1>3. /\ \A t \in Openers : opening'[t] = IF t = s THEN o ELSE opening[t]
      /\ Cardinality(Seeking) \in Nat
      /\ Seeking' = Seeking \cup {s} /\ Cardinality(Seeking') = Cardinality(Seeking) + 1
  BY <1>1, <1>2, OpeningMoves
<1>4. x \in SoloMatters =>
        \A t \in Openers : opening[t].pc # "idle" /\ Between(opening[t]) = {h, w}
                             => opening[t].subject # x
  BY DEF H!Open, H!Solo, Between
<1>5. Apart'
  <2> SUFFICES ASSUME NEW t \in Seeking', NEW u \in Seeking',
                      Between(opening[t])' = Between(opening[u])',
                      opening'[t].subject = opening'[u].subject,
                      opening'[t].subject \in SoloMatters
               PROVE  t = u
    BY DEF Apart
  <2>1. /\ t \in Openers /\ u \in Openers
        /\ t # s => opening[t].pc # "idle" /\ opening'[t] = opening[t]
        /\ u # s => opening[u].pc # "idle" /\ opening'[u] = opening[u]
        /\ opening'[s] = o
    BY <1>3 DEF Seeking
  <2>2. CASE t = s /\ u # s
    BY <1>1, <1>4, <2>1, <2>2 DEF Between
  <2>3. CASE t # s /\ u = s
    BY <1>1, <1>4, <2>1, <2>3 DEF Between
  <2>4. CASE t # s /\ u # s
    BY <2>1, <2>4 DEF Between, ChannelsInv, Apart, Seeking
  <2> QED
    BY <2>2, <2>3, <2>4
<1>6. NotThere(o)
  BY <1>1 DEF NotThere
<1>7. openings' \in 0..MaxOpenings /\ Len(room) + Cardinality(Seeking') <= openings'
  <2>1. Len(room) \in Nat /\ Len(room) + Cardinality(Seeking) <= openings
    BY DEF ChannelsInv, RowsTyped
  <2> QED
    BY <1>2, <1>3, <2>1, GotTyped, ChannelsBounds
<1> QED
  BY <1>1, <1>2, <1>5, <1>6, <1>7, GotTyped, RoomsStay

LEMMA GoesOn ==
  ASSUME ChannelsInv, NEW s \in Openers, NEW pc \in {"look again", "create"},
         opening[s].pc # "idle", H!GoOn(s, pc),
         pc = "look again" => H!find_channel(opening[s].host, opening[s].with, opening[s].subject) = {},
         pc = "create" => /\ opening[s].pc = "look again"
                          /\ H!find_channel(opening[s].with, opening[s].host, opening[s].subject) = {}
  PROVE  ChannelsInv'
<1> DEFINE o == [opening[s] EXCEPT !.pc = pc]
<1>1. /\ o \in OpeningRow /\ o.pc = pc /\ o.host = opening[s].host /\ o.with = opening[s].with
      /\ o.subject = opening[s].subject /\ opening' = [opening EXCEPT ![s] = o]
  BY RecordOfOpening DEF H!GoOn
<1> HIDE DEF o
<1>2. UNCHANGED <<room, messages, notified, read, filed, got, openings>>
  BY DEF H!GoOn
<1>3. NotThere(o)
  <2> SUFFICES ASSUME NEW c \in H!Rooms, o.subject \in SoloMatters,
                      room[c].subject = o.subject
               PROVE  /\ pc = "look again" => ~(room[c].admin = o.host /\ room[c].with = o.with)
                      /\ pc = "create" => H!Sides(c) # Between(o)
    BY <1>1 DEF NotThere
  <2>1. CASE pc = "look again"
    BY <1>1, <2>1 DEF H!find_channel
  <2>2. CASE pc = "create"
    <3>1. ~(room[c].admin = o.host /\ room[c].with = o.with)
      BY <1>1, <2>2 DEF ChannelsInv, NotThere
    <3>2. ~(room[c].admin = o.with /\ room[c].with = o.host)
      BY <1>1, <2>2 DEF H!find_channel
    <3> QED
      BY <2>2, <3>1, <3>2 DEF H!Sides, Between
  <2> QED
    BY <2>1, <2>2
<1>4. Apart'
  BY <1>1, StayApart
<1>5. Len(room) + Cardinality(Seeking') <= openings'
  BY <1>1, <1>2, OpeningMoves DEF ChannelsInv
<1> QED
  BY <1>1, <1>2, <1>3, <1>4, <1>5, GotTyped, RoomsStay

\* An opening that ends, with an answer or without.
LEMMA Ends ==
  ASSUME ChannelsInv, NEW s \in Openers, opening[s].pc # "idle",
         opening' = [opening EXCEPT ![s] = H!NoOpening]
  PROVE  /\ NotThere(H!NoOpening) /\ Apart'
         /\ \A t \in Openers : opening'[t] = IF t = s THEN H!NoOpening ELSE opening[t]
         /\ Cardinality(Seeking) \in Nat /\ Cardinality(Seeking') = Cardinality(Seeking) - 1
<1>1. NotThere(H!NoOpening)
  BY RecordOfOpening DEF NotThere
<1> QED
  BY <1>1, RecordOfOpening, OpeningMoves, StayApart

LEMMA AbortsOpening ==
  ASSUME ChannelsInv, NEW s \in Openers, H!Abort(s)
  PROVE  ChannelsInv'
<1>1. /\ opening[s].pc # "idle" /\ opening' = [opening EXCEPT ![s] = H!NoOpening]
      /\ UNCHANGED <<room, messages, notified, read, filed, got, openings>>
  BY DEF H!Abort
<1>2. Len(room) + Cardinality(Seeking') <= openings'
  <2>1. Len(room) \in Nat /\ openings \in Int /\ Len(room) + Cardinality(Seeking) <= openings
    BY ChannelsBounds, GotTyped DEF ChannelsInv, RowsTyped
  <2>2. Cardinality(Seeking) \in Nat /\ Cardinality(Seeking') = Cardinality(Seeking) - 1
    BY <1>1, Ends
  <2>3. openings' = openings
    BY <1>1
  <2> QED
    BY <2>1, <2>2, <2>3
<1> QED
  BY <1>1, <1>2, Ends, GotTyped, RecordOfOpening, RoomsStay

LEMMA AnswersFound ==
  ASSUME ChannelsInv, NEW s \in Openers, opening[s].pc # "idle",
         NEW c \in H!Rooms, H!Sides(c) = Between(opening[s]),
         opening[s].subject \in {NoMatter, room[c].subject},
         H!Answer(s, c), UNCHANGED room
  PROVE  ChannelsInv'
<1>1. /\ opening' = [opening EXCEPT ![s] = H!NoOpening]
      /\ got' = got \cup {<<opening[s].host, opening[s].with, opening[s].subject, c>>}
      /\ UNCHANGED <<room, messages, notified, read, filed, openings>>
  BY DEF H!Answer
<1>2. Len(room) + Cardinality(Seeking') <= openings'
  <2>1. Len(room) \in Nat /\ openings \in Int /\ Len(room) + Cardinality(Seeking) <= openings
    BY ChannelsBounds, GotTyped DEF ChannelsInv, RowsTyped
  <2>2. Cardinality(Seeking) \in Nat /\ Cardinality(Seeking') = Cardinality(Seeking) - 1
    BY <1>1, Ends
  <2>3. openings' = openings
    BY <1>1
  <2> QED
    BY <2>1, <2>2, <2>3
<1>3. got' \subseteq People \X People \X H!Topics \X H!Rooms
  <2>1. opening[s] \in OpeningRow
    BY RecordOfOpening
  <2>2. <<opening[s].host, opening[s].with, opening[s].subject, c>>
          \in People \X People \X H!Topics \X H!Rooms
    BY <2>1 DEF OpeningRow
  <2> QED
    BY <1>1, <2>2, GotTyped
<1>4. \A g \in got' : H!Sides(g[4]) = {g[1], g[2]} /\ g[3] \in {NoMatter, room[g[4]].subject}
  BY <1>1, GotTyped DEF Between
<1> QED
  BY <1>1, <1>2, <1>3, <1>4, Ends, GotTyped, RecordOfOpening, RoomsStay

LEMMA LooksForChannel ==
  ASSUME ChannelsInv, NEW s \in Openers, H!Look(s) \/ H!LookAgain(s)
  PROVE  ChannelsInv'
<1>1. CASE H!Look(s)
  <2>1. opening[s].pc = "look"
    BY <1>1 DEF H!Look
  <2>2. CASE /\ H!find_channel(opening[s].host, opening[s].with, opening[s].subject) = {}
             /\ H!GoOn(s, "look again")
    BY <2>1, <2>2, GoesOn
  <2>3. CASE \E c \in H!find_channel(opening[s].host, opening[s].with, opening[s].subject) :
               H!Answer(s, c) /\ UNCHANGED room
    <3>1. PICK c \in H!find_channel(opening[s].host, opening[s].with, opening[s].subject) :
                 H!Answer(s, c) /\ UNCHANGED room
      BY <2>3
    <3>2. /\ c \in H!Rooms /\ H!Sides(c) = Between(opening[s])
          /\ opening[s].subject \in {NoMatter, room[c].subject}
      BY DEF H!find_channel, H!Sides, Between
    <3> QED
      BY <2>1, <3>1, <3>2, AnswersFound
  <2> QED
    BY <1>1, <2>2, <2>3 DEF H!Look, H!LookFor
<1>2. CASE H!LookAgain(s)
  <2>1. opening[s].pc = "look again"
    BY <1>2 DEF H!LookAgain
  <2>2. CASE /\ H!find_channel(opening[s].with, opening[s].host, opening[s].subject) = {}
             /\ H!GoOn(s, "create")
    BY <2>1, <2>2, GoesOn
  <2>3. CASE \E c \in H!find_channel(opening[s].with, opening[s].host, opening[s].subject) :
               H!Answer(s, c) /\ UNCHANGED room
    <3>1. PICK c \in H!find_channel(opening[s].with, opening[s].host, opening[s].subject) :
                 H!Answer(s, c) /\ UNCHANGED room
      BY <2>3
    <3>2. /\ c \in H!Rooms /\ H!Sides(c) = Between(opening[s])
          /\ opening[s].subject \in {NoMatter, room[c].subject}
      BY DEF H!find_channel, H!Sides, Between
    <3> QED
      BY <2>1, <3>1, <3>2, AnswersFound
  <2> QED
    BY <1>2, <2>2, <2>3 DEF H!LookAgain, H!LookFor, H!OtherWay
<1> QED
  BY <1>1, <1>2

LEMMA CreatesChannel ==
  ASSUME ChannelsInv, NEW s \in Openers, H!Create(s)
  PROVE  ChannelsInv'
<1> DEFINE r == [admin |-> opening[s].host, with |-> opening[s].with,
                 subject |-> opening[s].subject]
           n == Len(room) + 1
<1>1. opening[s] \in OpeningRow /\ opening[s].pc = "create"
  BY RecordOfOpening DEF H!Create
<1>2. /\ r \in RoomRow /\ {r.admin, r.with} = Between(opening[s])
      /\ r.subject = opening[s].subject
  BY <1>1 DEF OpeningRow, RoomRow, Between
<1>3. /\ room' = Append(room, r)
      /\ opening' = [opening EXCEPT ![s] = H!NoOpening]
      /\ got' = got \cup {<<opening[s].host, opening[s].with, opening[s].subject, n>>}
      /\ UNCHANGED <<messages, notified, read, filed, openings>>
  BY DEF H!Create, H!Answer
<1>4. room \in Seq(RoomRow) /\ messages \in Seq(MessageRow) /\ opening \in [Openers -> OpeningRow]
  BY DEF ChannelsInv, RowsTyped
<1> HIDE DEF r
<1> SUFFICES ASSUME NEW m, m = n PROVE ChannelsInv'
  OBVIOUS
<1>5. /\ room' \in Seq(RoomRow) /\ Len(room)' = m /\ m = Len(room) + 1
      /\ H!Rooms' = H!Rooms \cup {m} /\ m \notin H!Rooms /\ room'[m] = r
      /\ \A c \in H!Rooms : room'[c] = room[c] /\ (H!Sides(c))' = H!Sides(c)
      /\ (H!Sides(m))' = Between(opening[s])
  BY <1>2, <1>3, <1>4, RoomOpens
<1>6. got' = got \cup {<<opening[s].host, opening[s].with, opening[s].subject, m>>}
  BY <1>3
<1> HIDE DEF n
<1>7. /\ NotThere(H!NoOpening) /\ Apart'
      /\ \A t \in Openers : opening'[t] = IF t = s THEN H!NoOpening ELSE opening[t]
      /\ Cardinality(Seeking) \in Nat /\ Cardinality(Seeking') = Cardinality(Seeking) - 1
  BY <1>1, <1>3, Ends
<1>8. RowsTyped'
  <2>1. opening' \in [Openers -> OpeningRow]
    BY <1>3, <1>4, RecordOfOpening
  <2> QED
    BY <1>3, <1>4, <1>5, <2>1 DEF RowsTyped
<1>9. /\ Len(room)' + Cardinality(Seeking') <= openings' /\ Len(room)' <= MaxOpenings
      /\ openings' \in 0..MaxOpenings
  <2>1. /\ Len(room) \in Nat /\ openings \in 0..MaxOpenings
        /\ Len(room) + Cardinality(Seeking) <= openings
    BY <1>4, GotTyped DEF ChannelsInv
  <2>2. Cardinality(Seeking') \in Nat
    <3>1. IsFiniteSet(Seeking')
      BY ChannelsBounds, FS_Subset DEF Seeking
    <3> QED
      BY <3>1, FS_CardinalityType
  <2>3. openings' = openings
    BY <1>3
  <2>4. Len(room') + Cardinality(Seeking') <= openings
    BY <1>5, <1>7, <2>1
  <2> QED
    BY <1>5, <2>1, <2>2, <2>3, <2>4, ChannelsBounds
<1>10. \A t \in Openers : NotThere(opening[t])'
  <2> SUFFICES ASSUME NEW t \in Openers, NEW c \in H!Rooms',
                      opening'[t].subject \in SoloMatters,
                      room'[c].subject = opening'[t].subject
               PROVE  /\ opening'[t].pc = "look again" =>
                           ~(room'[c].admin = opening'[t].host /\ room'[c].with = opening'[t].with)
                      /\ opening'[t].pc = "create" => (H!Sides(c))' # Between(opening'[t])
    BY DEF NotThere, Between
  <2>1. CASE t = s
    BY <1>7, <2>1, RecordOfOpening
  <2>2. CASE t # s /\ c \in H!Rooms
    BY <1>5, <1>7, <2>2 DEF NotThere, ChannelsInv
  <2>3. CASE t # s /\ c = m
    <3>1. opening'[t] = opening[t] /\ opening[t].subject = opening[s].subject
          /\ room'[c].admin = opening[s].host /\ room'[c].with = opening[s].with
      BY <1>2, <1>5, <1>7, <2>3 DEF r
    <3>2. CASE opening[t].pc = "idle"
      BY <3>1, <3>2
    <3>3. CASE opening[t].pc # "idle"
      <4>1. t \in Seeking /\ s \in Seeking
        BY <1>1, <3>3 DEF Seeking
      <4>2. Between(opening[t]) # Between(opening[s])
        BY <2>3, <3>1, <4>1 DEF ChannelsInv, Apart
      <4> QED
        BY <1>5, <2>3, <3>1, <4>2 DEF Between
    <3> QED
      BY <3>2, <3>3
  <2> QED
    BY <1>5, <2>1, <2>2, <2>3
<1>11. H!OneConversation'
  <2>1. \A g \in got' : (H!Sides(g[4]))' = {g[1], g[2]} /\ g[3] \in {NoMatter, room'[g[4]].subject}
    <3> SUFFICES ASSUME NEW g \in got'
                 PROVE  (H!Sides(g[4]))' = {g[1], g[2]} /\ g[3] \in {NoMatter, room'[g[4]].subject}
      OBVIOUS
    <3>1. CASE g \in got
      <4>1. g[4] \in H!Rooms /\ H!Sides(g[4]) = {g[1], g[2]}
            /\ g[3] \in {NoMatter, room[g[4]].subject}
        BY <3>1, GotTyped
      <4>2. room'[g[4]] = room[g[4]]
        BY <1>5, <4>1
      <4> QED
        BY <4>1, <4>2 DEF H!Sides
    <3>2. CASE g = <<opening[s].host, opening[s].with, opening[s].subject, m>>
      BY <1>2, <1>5, <3>2 DEF Between, H!Sides
    <3> QED
      BY <1>6, <3>1, <3>2
  <2>2. \A c, d \in H!Rooms' :
          c # d /\ (H!Sides(c))' = (H!Sides(d))' /\ room'[c].subject = room'[d].subject
            => room'[c].subject \notin SoloMatters
    <3>1. \A c \in H!Rooms : (H!Sides(c))' = (H!Sides(m))' /\ room'[c].subject = room'[m].subject
            => room'[c].subject \notin SoloMatters
      <4> SUFFICES ASSUME NEW c \in H!Rooms, (H!Sides(c))' = (H!Sides(m))',
                          room'[c].subject = room'[m].subject
                   PROVE  room'[c].subject \notin SoloMatters
        OBVIOUS
      <4>1. NotThere(opening[s])
        BY DEF ChannelsInv
      <4>2. room[c].subject = opening[s].subject /\ room'[c].subject = room[c].subject
        BY <1>2, <1>5
      <4>3. H!Sides(c) = Between(opening[s])
        BY <1>5
      <4> QED
        BY <1>1, <4>1, <4>2, <4>3 DEF NotThere
    <3>2. \A c, d \in H!Rooms :
            c # d /\ (H!Sides(c))' = (H!Sides(d))' /\ room'[c].subject = room'[d].subject
              => room'[c].subject \notin SoloMatters
      BY <1>5 DEF ChannelsInv, H!OneConversation
    <3> QED
      BY <1>5, <3>1, <3>2
  <2> QED
    BY <2>1, <2>2 DEF H!OneConversation
<1>12. OthersTold'
  BY <1>3, <1>5 DEF ChannelsInv, OthersTold, H!TypeOK, H!Sides
<1>13. H!TypeOK'
  <2>1. \A c \in H!Rooms' : (H!Sides(c))' \subseteq People /\ room'[c].subject \in H!Topics
    <3>1. (H!Sides(m))' \subseteq People /\ room'[m].subject \in H!Topics
      BY <1>1, <1>2, <1>5 DEF OpeningRow, Between
    <3> QED
      BY <1>5, <3>1 DEF ChannelsInv, H!TypeOK
  <2>2. /\ \A k \in 1..Len(messages') :
             messages'[k].author \in People /\ messages'[k].room \in H!Rooms'
        /\ notified' \subseteq People \X (1..Len(messages')) /\ read' \subseteq notified'
        /\ filed' \in [Feedback -> H!Givers]
    BY <1>3, <1>5 DEF ChannelsInv, H!TypeOK
  <2>3. \A t \in Openers :
          /\ opening'[t].pc \in {"idle", "look", "look again", "create"}
          /\ {opening'[t].host, opening'[t].with} \subseteq People
          /\ opening'[t].subject \in H!Topics
    <3> SUFFICES ASSUME NEW t \in Openers, NEW q \in OpeningRow, q = opening'[t]
                 PROVE  /\ q.pc \in {"idle", "look", "look again", "create"}
                        /\ {q.host, q.with} \subseteq People /\ q.subject \in H!Topics
      BY <1>8 DEF RowsTyped
    <3> QED
      BY DEF OpeningRow
  <2>4. got' \subseteq People \X People \X H!Topics \X H!Rooms'
    <3>1. <<opening[s].host, opening[s].with, opening[s].subject, m>>
            \in People \X People \X H!Topics \X H!Rooms'
      BY <1>1, <1>5 DEF OpeningRow
    <3> QED
      BY <1>5, <1>6, <3>1, GotTyped
  <2> QED
    BY <1>9, <2>1, <2>2, <2>3, <2>4 DEF H!TypeOK
<1> QED
  BY <1>7, <1>8, <1>9, <1>10, <1>11, <1>12, <1>13 DEF ChannelsInv

LEMMA SendsMessage ==
  ASSUME ChannelsInv, NEW p \in People, NEW c \in H!Rooms, H!create_message(p, c)
  PROVE  ChannelsInv'
<1> DEFINE r == [author |-> p, room |-> c]
<1> SUFFICES ASSUME NEW m, m = Len(messages) + 1 PROVE ChannelsInv'
  OBVIOUS
<1>1. /\ messages' = Append(messages, r)
      /\ notified' = notified \cup {<<q, m>> : q \in H!Sides(c) \ {p}}
      /\ UNCHANGED <<room, read, filed, opening, got, openings>>
  BY DEF H!create_message, H!create_with_author, H!Told, H!Members
<1>2. room \in Seq(RoomRow) /\ messages \in Seq(MessageRow)
  BY DEF ChannelsInv, RowsTyped
<1>3. r \in MessageRow /\ r.author = p /\ r.room = c
  BY <1>2 DEF MessageRow, H!Rooms
<1> HIDE DEF r
<1>4. /\ messages' \in Seq(MessageRow) /\ m \in Nat \ {0}
      /\ 1..Len(messages') = (1..Len(messages)) \cup {m} /\ m \notin 1..Len(messages)
      /\ messages'[m] = r /\ \A k \in 1..Len(messages) : messages'[k] = messages[k]
  BY <1>1, <1>2, <1>3
<1>5. RowsTyped'
  BY <1>1, <1>4 DEF ChannelsInv, RowsTyped
<1>6. H!Rooms' = H!Rooms /\ (\A d \in H!Rooms : (H!Sides(d))' = H!Sides(d)) /\ Seeking' = Seeking
  BY <1>1 DEF H!Rooms, H!Sides, Seeking
<1>7. Apart' /\ H!OneConversation' /\ Len(room)' + Cardinality(Seeking') <= openings'
  BY <1>1, <1>6 DEF ChannelsInv, Apart, H!OneConversation, H!Rooms, H!Sides, Between
<1>8. \A t \in Openers : NotThere(opening[t])'
  <2> SUFFICES ASSUME NEW t \in Openers PROVE NotThere(opening[t])'
    OBVIOUS
  <2>1. NotThere(opening[t])
    BY DEF ChannelsInv
  <2> QED
    BY <1>1, <2>1 DEF NotThere, H!Rooms, H!Sides, Between
<1>9. /\ H!Sides(c) \subseteq People
      /\ notified \subseteq People \X (1..Len(messages)) /\ read \subseteq notified
      /\ \A k \in 1..Len(messages) : messages[k].author \in People /\ messages[k].room \in H!Rooms
  BY DEF ChannelsInv, H!TypeOK
<1>10. OthersTold'
  <2> SUFFICES ASSUME NEW k \in 1..Len(messages'), NEW q \in People
               PROVE  <<q, k>> \in notified' <=>
                        q \in (H!Sides(messages[k].room))' \ {messages'[k].author}
    BY DEF OthersTold
  <2>1. CASE k \in 1..Len(messages)
    <3>1. <<q, k>> \in notified' <=> <<q, k>> \in notified
      BY <1>1, <1>4, <2>1
    <3>2. messages'[k] = messages[k] /\ (H!Sides(messages[k].room))' = H!Sides(messages[k].room)
      BY <1>1, <1>4, <2>1 DEF H!Sides
    <3> QED
      BY <2>1, <3>1, <3>2 DEF ChannelsInv, OthersTold
  <2>2. CASE k = m
    <3>1. <<q, k>> \in notified' <=> q \in H!Sides(c) \ {p}
      BY <1>1, <1>4, <1>9, <2>2
    <3>2. messages'[k].room = c /\ messages'[k].author = p
      BY <1>3, <1>4, <2>2
    <3>3. (H!Sides(messages[k].room))' = H!Sides(c)
      BY <1>1, <3>2 DEF H!Sides
    <3> QED
      BY <3>1, <3>2, <3>3
  <2> QED
    BY <1>4, <2>1, <2>2
<1>11. H!TypeOK'
  <2>1. notified' \subseteq People \X (1..Len(messages')) /\ read' \subseteq notified'
    BY <1>1, <1>4, <1>9
  <2>2. \A k \in 1..Len(messages') :
          messages'[k].author \in People /\ messages'[k].room \in H!Rooms'
    BY <1>3, <1>4, <1>6, <1>9
  <2>3. /\ Len(room') <= MaxOpenings
        /\ \A d \in H!Rooms' : (H!Sides(d))' \subseteq People /\ room'[d].subject \in H!Topics
        /\ filed' \in [Feedback -> H!Givers]
        /\ \A s \in Openers :
             /\ opening'[s].pc \in {"idle", "look", "look again", "create"}
             /\ {opening'[s].host, opening'[s].with} \subseteq People
             /\ opening'[s].subject \in H!Topics
        /\ got' \subseteq People \X People \X H!Topics \X H!Rooms'
        /\ openings' \in 0..MaxOpenings
    BY <1>1, <1>6 DEF ChannelsInv, H!TypeOK
  <2> QED
    BY <2>1, <2>2, <2>3 DEF H!TypeOK
<1> QED
  BY <1>5, <1>7, <1>8, <1>10, <1>11 DEF ChannelsInv

\* Marking a notification and giving feedback.
LEMMA MarksOrFiles ==
  ASSUME ChannelsInv, UNCHANGED <<room, messages, notified, opening, got, openings>>,
         read' \subseteq notified, filed' \in [Feedback -> H!Givers]
  PROVE  ChannelsInv'
<1>1. /\ H!Rooms' = H!Rooms /\ Seeking' = Seeking
      /\ RowsTyped' = RowsTyped
  BY DEF H!Rooms, Seeking, RowsTyped
<1>2. H!TypeOK'
  BY DEF ChannelsInv, H!TypeOK, H!Rooms, H!Sides
<1>3. Apart' /\ H!OneConversation'
  BY <1>1 DEF ChannelsInv, Apart, H!OneConversation, H!Rooms, H!Sides, Between
<1>5. OthersTold'
  BY DEF ChannelsInv, OthersTold, H!Sides
<1>4. \A t \in Openers : NotThere(opening[t])'
  <2> SUFFICES ASSUME NEW t \in Openers PROVE NotThere(opening[t])'
    OBVIOUS
  <2>1. NotThere(opening[t])
    BY DEF ChannelsInv
  <2> QED
    BY <2>1 DEF NotThere, H!Rooms, H!Sides, Between
<1> QED
  BY <1>1, <1>2, <1>3, <1>4, <1>5 DEF ChannelsInv

LEMMA ChannelsStep == ChannelsInv /\ (H!Next \/ UNCHANGED channels) => ChannelsInv'
<1> SUFFICES ASSUME ChannelsInv, H!Next \/ UNCHANGED channels PROVE ChannelsInv'
  OBVIOUS
<1>0. read \subseteq notified /\ filed \in [Feedback -> H!Givers]
  BY DEF ChannelsInv, H!TypeOK
<1>1. CASE UNCHANGED channels
  BY <1>0, <1>1, MarksOrFiles DEF channels
<1>2. CASE \E s \in Openers : \E h, w \in People, x \in H!Topics : H!Open(s, h, w, x)
  BY <1>2, OpensChannel
<1>3. CASE \E s \in Openers : H!Look(s) \/ H!LookAgain(s)
  BY <1>3, LooksForChannel
<1>4. CASE \E s \in Openers : H!Create(s)
  BY <1>4, CreatesChannel
<1>5. CASE \E s \in Openers : H!Abort(s)
  BY <1>5, AbortsOpening
<1>6. CASE \E p \in People, c \in H!Rooms : H!create_message(p, c)
  BY <1>6, SendsMessage
<1>7. CASE \E k \in notified, is_read \in BOOLEAN : H!update_notification(k, is_read)
  <2>1. /\ read' \subseteq notified
        /\ UNCHANGED <<room, messages, notified, filed, opening, got, openings>>
    BY <1>0, <1>7 DEF H!update_notification, H!update
  <2> QED
    BY <1>0, <2>1, MarksOrFiles
<1>8. CASE \E g \in H!Givers, f \in Feedback : H!PostFeedback(g, f)
  <2>1. /\ filed' \in [Feedback -> H!Givers]
        /\ UNCHANGED <<room, messages, notified, read, opening, got, openings>>
    BY <1>0, <1>8 DEF H!PostFeedback, H!create_feedback
  <2> QED
    BY <1>0, <2>1, MarksOrFiles
<1> QED
  BY <1>1, <1>2, <1>3, <1>4, <1>5, <1>6, <1>7, <1>8 DEF H!Next

\* The elements of R from v on, and after it.
From(R, v) == {x \in R : x >= v}
After(R, v) == {x \in R : x > v}

LEMMA RankOf ==
  ASSUME NEW R, \A x \in R : x \in Nat, IsFiniteSet(R), NEW n \in Nat, NEW m \in After(R, n)
  PROVE  /\ m \in R /\ m \in Nat
         /\ From(R, m) \subseteq After(R, n) /\ Cardinality(After(R, m)) \in Nat
         /\ Cardinality(From(R, m)) = Cardinality(After(R, m)) + 1
         /\ Cardinality(From(R, m)) \in 1..Cardinality(After(R, n))
<1>1. m \in R /\ m \in Nat /\ m > n
  BY DEF After
<1>2. \A x \in R : x \in From(R, m) => x \in After(R, n) /\ (x = m \/ x \in After(R, m))
  <2> SUFFICES ASSUME NEW x \in R, x \in From(R, m)
               PROVE  x \in After(R, n) /\ (x = m \/ x \in After(R, m))
    OBVIOUS
  <2>1. x \in Nat /\ x >= m
    BY DEF From
  <2>2. x > n /\ (x = m \/ x > m)
    BY <1>1, <2>1
  <2> QED
    BY <2>2 DEF After
<1>3. /\ \A x \in After(R, m) : x \in From(R, m)
      /\ m \in From(R, m) /\ m \notin After(R, m)
  <2>1. ASSUME NEW x \in After(R, m) PROVE x \in From(R, m)
    <3>1. x \in R /\ x \in Nat /\ x > m
      BY DEF After
    <3>2. x >= m
      BY <1>1, <3>1
    <3> QED
      BY <3>1, <3>2 DEF From
  <2>2. m >= m /\ ~(m > m)
    BY <1>1
  <2> QED
    BY <1>1, <2>1, <2>2 DEF From, After
<1>4. From(R, m) \subseteq R /\ After(R, m) \subseteq R /\ After(R, n) \subseteq R
  BY DEF From, After
<1>5. From(R, m) \subseteq After(R, n) /\ From(R, m) = After(R, m) \cup {m}
  BY <1>2, <1>3, <1>4
<1>6. IsFiniteSet(After(R, m)) /\ IsFiniteSet(After(R, n))
  BY <1>4, FS_Subset
<1>7. Cardinality(After(R, m)) \in Nat /\ Cardinality(After(R, n)) \in Nat
  BY <1>6, FS_CardinalityType
<1>8. Cardinality(From(R, m)) = Cardinality(After(R, m)) + 1
  BY <1>3, <1>6, <1>5, FS_AddElement
<1>9. Cardinality(From(R, m)) <= Cardinality(After(R, n))
  BY <1>6, <1>5, FS_Subset
<1> QED
  BY <1>1, <1>5, <1>7, <1>8, <1>9

\* Those of R after n have, one each, the ranks up to their number, the last one the first.
LEMMA RanksTaken ==
  ASSUME NEW R, \A x \in R : x \in Nat, IsFiniteSet(R), NEW n \in Nat
  PROVE  /\ IsFiniteSet(After(R, n)) /\ Cardinality(After(R, n)) \in Nat
         /\ \A m \in After(R, n) : Cardinality(After(R, m)) + 1 \in 1..Cardinality(After(R, n))
         /\ \A k \in 1..Cardinality(After(R, n)) :
              \E m \in After(R, n) : Cardinality(After(R, m)) + 1 = k
         /\ \A a, b \in After(R, n) : a < b => Cardinality(After(R, b)) < Cardinality(After(R, a))
         /\ \A a, b \in After(R, n) : Cardinality(After(R, a)) = Cardinality(After(R, b)) => a = b
<1> DEFINE S == After(R, n)
           N == Cardinality(S)
           rank == [m \in S |-> Cardinality(From(R, m))]
<1>1. IsFiniteSet(S) /\ N \in Nat
  <2>1. IsFiniteSet(S)
    BY FS_Subset DEF After
  <2> QED
    BY <2>1, FS_CardinalityType
<1>2. \A m \in S : /\ rank[m] = Cardinality(After(R, m)) + 1 /\ Cardinality(After(R, m)) \in Nat
                   /\ rank[m] \in 1..N
  BY RankOf
<1>3. \A a, b \in S : a < b => Cardinality(After(R, b)) < Cardinality(After(R, a))
  <2> SUFFICES ASSUME NEW a \in S, NEW b \in S, a < b
               PROVE  Cardinality(After(R, b)) < Cardinality(After(R, a))
    OBVIOUS
  <2>1. a \in Nat /\ b \in Nat
    BY RankOf
  <2>2. From(R, b) \subseteq After(R, a)
    <3> SUFFICES ASSUME NEW x \in From(R, b) PROVE x \in After(R, a)
      OBVIOUS
    <3>1. x \in R /\ x \in Nat /\ x >= b
      BY DEF From
    <3>2. x > a
      BY <2>1, <3>1
    <3> QED
      BY <3>1, <3>2 DEF After
  <2>3. IsFiniteSet(After(R, a))
    BY FS_Subset DEF After
  <2>4. Cardinality(From(R, b)) <= Cardinality(After(R, a))
    BY <2>2, <2>3, FS_Subset
  <2>5. /\ Cardinality(From(R, b)) = Cardinality(After(R, b)) + 1
        /\ Cardinality(After(R, a)) \in Nat /\ Cardinality(After(R, b)) \in Nat
    BY RankOf
  <2> QED
    BY <2>4, <2>5
<1>4. \A a, b \in S : Cardinality(After(R, a)) = Cardinality(After(R, b)) => a = b
  <2> SUFFICES ASSUME NEW a \in S, NEW b \in S, Cardinality(After(R, a)) = Cardinality(After(R, b))
               PROVE  a = b
    OBVIOUS
  <2>1. a \in Nat /\ b \in Nat /\ Cardinality(After(R, a)) \in Nat
    BY RankOf
  <2>2. ~(a < b) /\ ~(b < a)
    BY <1>3, <2>1
  <2> QED
    BY <2>1, <2>2
<1>5. rank \in [S -> 1..N] /\ \A a, b \in S : rank[a] = rank[b] => a = b
  <2>1. rank \in [S -> 1..N]
    BY <1>2
  <2>2. ASSUME NEW a \in S, NEW b \in S, rank[a] = rank[b]
        PROVE  a = b
    <3>1. Cardinality(After(R, a)) = Cardinality(After(R, b))
      BY <1>2, <2>2
    <3> QED
      BY <1>4, <3>1
  <2> QED
    BY <2>1, <2>2
<1> HIDE DEF rank, S
<1>6. \A k \in 1..N : \E m \in S : rank[m] = k
  <2>1. rank \in Injection(S, 1..N)
    BY <1>5, Fun_IsInj
  <2>2. IsFiniteSet(1..N) /\ Cardinality(1..N) = N
    BY <1>1, FS_Interval
  <2> HIDE DEF N
  <2>3. rank \in Surjection(S, 1..N)
    BY <1>1, <2>1, <2>2, FS_Injection DEF N
  <2> QED
    BY <2>3, Fun_SurjectionProperties
<1> QED
  BY <1>1, <1>2, <1>3, <1>4, <1>6 DEF S

\* Of the numbers of R after n, K of them or more, those that are among the last K of R
\* number K: ranked from the last, they take all the ranks up to K.
LEMMA LatestOf ==
  ASSUME NEW R, \A x \in R : x \in Nat, IsFiniteSet(R), NEW K \in Nat, NEW n \in Nat,
         Cardinality(After(R, n)) >= K
  PROVE  Cardinality({m \in After(R, n) : Cardinality(After(R, m)) < K}) = K
<1> DEFINE Top == {m \in After(R, n) : Cardinality(After(R, m)) < K}
           last == [m \in Top |-> Cardinality(After(R, m)) + 1]
<1>1. /\ IsFiniteSet(After(R, n)) /\ Cardinality(After(R, n)) \in Nat
      /\ \A m \in After(R, n) : Cardinality(After(R, m)) + 1 \in 1..Cardinality(After(R, n))
      /\ \A k \in 1..Cardinality(After(R, n)) :
           \E m \in After(R, n) : Cardinality(After(R, m)) + 1 = k
      /\ \A a, b \in After(R, n) : Cardinality(After(R, a)) = Cardinality(After(R, b)) => a = b
  BY RanksTaken
<1>2. \A m \in After(R, n) : Cardinality(After(R, m)) \in Nat
  BY RankOf
<1>3. last \in Bijection(Top, 1..K)
  <2>1. last \in [Top -> 1..K] /\ \A a, b \in Top : last[a] = last[b] => a = b
    BY <1>1, <1>2
  <2>2. \A k \in 1..K : \E m \in Top : last[m] = k
    <3> SUFFICES ASSUME NEW k \in 1..K PROVE \E m \in Top : last[m] = k
      OBVIOUS
    <3>1. PICK m \in After(R, n) : Cardinality(After(R, m)) + 1 = k
      BY <1>1
    <3> QED
      BY <1>2, <3>1
  <2> HIDE DEF last, Top
  <2> QED
    BY <2>1, <2>2, Fun_IsBij
<1>4. IsFiniteSet(1..K) /\ Cardinality(1..K) = K
  BY FS_Interval
<1>5. IsFiniteSet(Top)
  BY <1>1, FS_Subset
<1>6. ExistsBijection(Top, 1..K)
  BY <1>3, Fun_ExistsBij
<1> HIDE DEF Top
<1>7. Cardinality(Top) = K
  BY <1>4, <1>5, <1>6, FS_Bijection
<1> QED
  BY <1>7 DEF Top

\* Who may read a message are the two sides of its channel.
LEMMA SidesRead ==
  ASSUME ChannelsInv, NEW p \in People
  PROVE  /\ \A c : H!check_user_in_channel(p, c) <=> p \in H!Sides(c)
         /\ \A n \in 1..Len(messages) : H!get_message(p, n) <=> p \in H!Sides(messages[n].room)
         /\ \A n \in 1..Len(messages) :
              <<p, n>> \in notified <=> H!get_message(p, n) /\ messages[n].author # p
<1>1. \A c : H!check_user_in_channel(p, c) <=> p \in H!Sides(c)
  BY DEF H!check_user_in_channel, H!Members, H!Sides
<1>2. \A n \in 1..Len(messages) : H!get_message(p, n) <=> p \in H!Sides(messages[n].room)
  BY <1>1 DEF H!get_message
<1> QED
  BY <1>1, <1>2 DEF ChannelsInv, OthersTold

LEMMA ReadersTold == ChannelsInv => H!ReadersAreTold
<1> SUFFICES ASSUME ChannelsInv PROVE H!ReadersAreTold
  OBVIOUS
<1>1. \A n \in 1..Len(messages) :
        {p \in People : <<p, n>> \in notified}
          = {p \in People : H!get_message(p, n)} \ {messages[n].author}
  BY SidesRead
<1>2. ASSUME NEW p \in People, NEW c \in H!Rooms
      PROVE  /\ H!get_channel(p, c) <=> c \in H!list_channels(p)
             /\ H!list_channel_messages(p, c)
                  = {n \in 1..Len(messages) : messages[n].room = c /\ H!get_message(p, n)}
  <2>1. H!get_channel(p, c) <=> p \in H!Sides(c)
    BY <1>2, SidesRead DEF H!get_channel
  <2>2. \A n \in 1..Len(messages) : messages[n].room = c => (H!get_channel(p, c) <=> H!get_message(p, n))
    BY <2>1, SidesRead
  <2> QED
    BY <1>2, <2>1, <2>2 DEF H!list_channels, H!list_channel_messages, H!Members
<1>3. \A p \in People :
        H!list_my_feedbacks(p) \subseteq {f \in Feedback : H!get_feedback_screenshot(p, f)}
  <2> SUFFICES ASSUME NEW p \in People, NEW f \in Feedback, filed[f] = p
               PROVE  H!get_feedback_screenshot(p, f)
    BY DEF H!list_my_feedbacks
  <2> QED
    BY PeopleAreUsers DEF H!get_feedback_screenshot
<1> QED
  BY <1>1, <1>2, <1>3 DEF H!ReadersAreTold

LEMMA SameCardinality == \A S : H!Cardinality(S) = Cardinality(S)
  BY DEF H!Cardinality, Cardinality

LEMMA NotesFound == ChannelsInv => H!NotesAreFound
<1> SUFFICES ASSUME ChannelsInv, NEW p \in People
             PROVE  LET found == {n \in 1..Len(messages) : H!get_message(p, n) /\ messages[n].author # p}
                        hidden == found \ (H!list_unread(p) \cup H!list_read(p))
                        listed == H!list_read(p) IN
                    /\ H!list_unread(p) \cap listed = {}
                    /\ H!list_unread(p) = {n \in found : <<p, n>> \notin read}
                    /\ \A n \in hidden : Cardinality({m \in listed : m > n}) = ReadPage
  BY SameCardinality DEF H!NotesAreFound
<1> DEFINE found == {n \in 1..Len(messages) : H!get_message(p, n) /\ messages[n].author # p}
           listed == H!list_read(p)
           R == H!Noted(p) \ H!get_unread(p)
<1>1. H!Noted(p) = found
  BY SidesRead DEF H!Noted
<1>2. /\ H!list_unread(p) = {n \in found : <<p, n>> \notin read}
      /\ H!list_unread(p) = H!get_unread(p)
  BY <1>1 DEF H!list_unread, H!get_unread
<1>3. /\ \A x \in R : x \in Nat
      /\ IsFiniteSet(R)
  <2>1. R \subseteq 1..Len(messages) /\ Len(messages) \in Nat
    BY DEF H!Noted, ChannelsInv, RowsTyped
  <2>2. IsFiniteSet(1..Len(messages))
    BY <2>1, FS_Interval
  <2> QED
    BY <2>1, <2>2, FS_Subset
<1>4. listed = {n \in R : Cardinality(After(R, n)) < ReadPage}
  BY SameCardinality DEF H!list_read, H!get_read, After
<1>5. H!list_unread(p) \cap listed = {}
  BY <1>2, <1>4
<1>6. ASSUME NEW n \in found \ (H!list_unread(p) \cup listed)
      PROVE  Cardinality({m \in listed : m > n}) = ReadPage
  <2>1. n \in R /\ n \in Nat
    BY <1>1, <1>2, <1>3
  <2>2. ~(Cardinality(After(R, n)) < ReadPage)
    BY <1>4, <2>1
  <2>3. Cardinality(After(R, n)) \in Nat
    <3>1. IsFiniteSet(After(R, n))
      BY <1>3, FS_Subset DEF After
    <3> QED
      BY <3>1, FS_CardinalityType
  <2>4. Cardinality(After(R, n)) >= ReadPage
    BY <2>2, <2>3, ChannelsBounds
  <2>5. Cardinality({m \in After(R, n) : Cardinality(After(R, m)) < ReadPage}) = ReadPage
    BY <1>3, <2>1, <2>4, ChannelsBounds, LatestOf
  <2>6. {m \in listed : m > n} = {m \in After(R, n) : Cardinality(After(R, m)) < ReadPage}
    BY <1>4 DEF After
  <2> QED
    BY <2>5, <2>6
<1> QED
  BY <1>2, <1>5, <1>6

LEMMA ChannelsHolds == ChannelsInv => H!ChannelsHold
  BY ReadersTold, NotesFound DEF ChannelsInv, H!ChannelsHold

\* Where requests on it do not overlap, and for a handle always, a pair is linked at most once, with
\* an Activity for each row; a writing session saves one answer unless two requests raced on it
\* (services/me.py, crud_user.py, services/answers.py).  Two people are in one channel about a thing
\* if its openings do not overlap, who is notified of a message can read it, and every message of
\* others is listed until newer ones fill the page (services/channels.py, services/messages.py,
\* services/notifications.py).
THEOREM LinksAlwaysHold == CommunitySpec => []LinksHold
<1> DEFINE Inv == /\ part = "links" => LinksInv
                  /\ part = "channels" => ChannelsInv
<1>1. CommunityInit => Inv
  BY LinksInit, ChannelsInit DEF CommunityInit
<1>2. Inv /\ [CommunityNext]_communityVars => Inv'
  BY RunsAlone, LinksStep, ChannelsStep
<1>3. Inv => LinksHold
  BY LinksHolds, ChannelsHolds DEF LinksHold
<1> QED BY <1>1, <1>2, <1>3, PTL DEF CommunitySpec

-----------------------------------------------------------------------------
(* Suggested edits.                                                       *)

Active == {s \in Slots : req[s].pc # "idle"}
Proposals == {"propose", "proposeBare"}

\* No two requests have one number, nor an isolated content.
RequestsApart ==
  \A s, t \in Active : s # t =>
    /\ req[s].n # req[t].n
    /\ req[s].of = req[t].of => req[s].of \notin IsolatedContents

\* An answer is to a suggestion whose content, author and text stay, and which only
\* changes where requests overlap.
AnswerFits(q) ==
  /\ q.g \in Numbers /\ sugg[q.g].status # "absent" /\ q.sugg.of = q.of
  /\ sugg[q.g].of = q.of /\ sugg[q.g].by = q.sugg.by /\ sugg[q.g].text = q.sugg.text
  /\ Follows(q.op, q.sugg.status)
  /\ q.of \in IsolatedContents => sugg[q.g].status = q.sugg.status

\* Contributors stay; the content only changes where requests overlap.
LoadFits(q) ==
  /\ \A u \in q.credited : credits[q.of][u] >= 1
  /\ q.of \in IsolatedContents =>
       q.row = content[q.of] /\ \A u \in Users \ q.credited : credits[q.of][u] = 0

RequestFits(q) ==
  /\ q.n \in 1..served /\ content[q.of].body # None
  /\ q.op \in Answers => AnswerFits(q)
  /\ q.op \in Proposals => sugg[q.n].status = "absent"
  /\ q.pc = "commit" => LoadFits(q)

SuggestionFits(g) ==
  /\ sugg[g].text \in Numbers \cup {None}
  /\ sugg[g].status = "absent" => uses[g] = 0
  /\ sugg[g].status # "absent" => g <= served /\ content[sugg[g].of].body # None
  /\ sugg[g].status = "accepted" => uses[g] >= 1 /\ credits[sugg[g].of][sugg[g].by] >= 1
  /\ sugg[g].of \in IsolatedContents =>
       uses[g] = IF sugg[g].status = "accepted" THEN 1 ELSE 0

ContentFits(c) ==
  /\ content[c].body = None => content[c] = NoRow
  /\ ~content[c].published => ever[c] = {}
  /\ content[c].body = Erased => content[c].gone /\ Kind[c] = "answer"
  /\ c \in IsolatedContents => \A u \in Users : credits[c][u] <= 1

SuggestionsInv ==
  /\ TypeOK /\ RequestsApart /\ PublicTextsKept
  /\ \A s \in Active : RequestFits(req[s])
  /\ \A g \in Numbers : SuggestionFits(g)
  /\ \A c \in Contents : ContentFits(c)

LEMMA Sentinels ==
  /\ NoContent \in Contents /\ NoUser \in Users
  /\ NoSugg \in Sugg /\ NoSugg.status = "absent" /\ NoSugg.text = None
  /\ NoRow \in Row /\ NoRow.body = None /\ NoRow.published = FALSE /\ NoRow.gone = FALSE
  /\ Idle \in Request /\ Idle.pc = "idle"
  /\ None \in Texts /\ Erased \in Texts /\ Original \in Texts /\ Numbers \subseteq Texts
  /\ None # Erased /\ None # Original /\ Original # Erased
  /\ None \notin Numbers /\ Erased \notin Numbers
<1>1. NoContent \in Contents
  BY SuggestionsBounds DEF NoContent
<1>2. NoUser \in Users
  <2>1. Owner[NoContent] \in Users
    BY <1>1, ConstantsAssumption
  <2> QED
    BY <2>1 DEF NoUser
<1>3. /\ None \in Texts /\ Erased \in Texts /\ Original \in Texts /\ Numbers \subseteq Texts
      /\ None # Erased /\ None # Original /\ Original # Erased
      /\ None \notin Numbers /\ Erased \notin Numbers
  BY ConstantsAssumption DEF Texts, Numbers, None, Erased, Original
<1>4. NoSugg \in Sugg /\ NoSugg.status = "absent" /\ NoSugg.text = None
  BY <1>1, <1>2, <1>3 DEF NoSugg, Sugg, Statuses
<1>5. NoRow \in Row /\ NoRow.body = None /\ NoRow.published = FALSE /\ NoRow.gone = FALSE
  BY <1>3 DEF NoRow, Row
<1>6. Idle \in Request /\ Idle.pc = "idle"
  BY <1>1, <1>2, <1>4, <1>5, ConstantsAssumption DEF Idle, Request, Ops, Answers
<1> QED
  BY <1>1, <1>2, <1>3, <1>4, <1>5, <1>6

LEMMA SuggestionsInit == CommunityInit => SuggestionsInv
<1> SUFFICES ASSUME Init PROVE SuggestionsInv
  BY DEF CommunityInit
<1>1. /\ content = [c \in Contents |-> NoRow] /\ saved = [c \in Contents |-> {}]
      /\ credits = [c \in Contents |-> [u \in Users |-> 0]]
      /\ sugg = [g \in Numbers |-> NoSugg] /\ uses = [g \in Numbers |-> 0]
      /\ ever = [c \in Contents |-> {}] /\ req = [s \in Slots |-> Idle] /\ served = 0
  BY DEF Init
<1>2. TypeOK
  BY <1>1, Sentinels, ConstantsAssumption DEF TypeOK
<1>3. Active = {}
  BY <1>1, Sentinels DEF Active
<1>4. \A g \in Numbers : SuggestionFits(g)
  BY <1>1, Sentinels DEF SuggestionFits
<1>5. \A c \in Contents : ContentFits(c)
  BY <1>1, Sentinels DEF ContentFits
<1>6. PublicTextsKept
  BY <1>1, ConstantsAssumption DEF PublicTextsKept
<1> QED
  BY <1>2, <1>3, <1>4, <1>5, <1>6 DEF SuggestionsInv, RequestsApart

LEMMA RequestTypes ==
  ASSUME SuggestionsInv, NEW s \in Slots
  PROVE  /\ req[s] \in Request /\ req \in [Slots -> Request]
         /\ req[s].of \in Contents /\ req[s].user \in Users /\ req[s].n \in 0..MaxRequests
         /\ req[s].op \in Ops /\ req[s].sugg \in Sugg /\ req[s].row \in Row
         /\ req[s].credited \in SUBSET Users /\ req[s].sugg.by \in Users
         /\ req[s].sugg.text \in Texts /\ content[req[s].of] \in Row
<1>1. req[s] \in Request /\ req \in [Slots -> Request]
  BY DEF SuggestionsInv, TypeOK
<1>2. /\ req[s].of \in Contents /\ req[s].user \in Users /\ req[s].n \in 0..MaxRequests
      /\ req[s].op \in Ops /\ req[s].sugg \in Sugg /\ req[s].row \in Row
      /\ req[s].credited \in SUBSET Users
  BY <1>1 DEF Request
<1>3. req[s].sugg.by \in Users /\ req[s].sugg.text \in Texts
  BY <1>2 DEF Sugg
<1>4. content[req[s].of] \in Row
  BY <1>2 DEF SuggestionsInv, TypeOK
<1> QED
  BY <1>1, <1>2, <1>3, <1>4

\* A request that ends leaves the others apart from it.
LEMMA EndsRequest ==
  ASSUME SuggestionsInv, NEW s \in Slots, req' = [req EXCEPT ![s] = Idle]
  PROVE  /\ req' \in [Slots -> Request] /\ RequestsApart'
         /\ \A t \in Active' : /\ t \in Active /\ t # s /\ req'[t] = req[t] /\ RequestFits(req[t])
                               /\ s \in Active => req[t].n # req[s].n
                               /\ s \in Active /\ req[t].of = req[s].of
                                    => req[s].of \notin IsolatedContents
<1>1. req' \in [Slots -> Request] /\ \A t \in Slots : req'[t] = IF t = s THEN Idle ELSE req[t]
  BY Sentinels, RequestTypes
<1>2. \A t \in Active' : t \in Active /\ t # s /\ req'[t] = req[t]
  BY <1>1, Sentinels DEF Active
<1>3. RequestsApart'
  BY <1>2 DEF SuggestionsInv, RequestsApart
<1> QED
  BY <1>1, <1>2, <1>3 DEF SuggestionsInv, RequestsApart

\* A step that leaves the rows alone.
LEMMA StoreStays ==
  ASSUME SuggestionsInv, UNCHANGED store, served' \in 0..MaxRequests, served' >= served,
         req' \in [Slots -> Request], RequestsApart',
         \A t \in Active' : RequestFits(req[t])'
  PROVE  SuggestionsInv'
<1>1. UNCHANGED <<content, saved, credits, sugg, uses, ever>>
  BY DEF store
<1>2. TypeOK'
  BY <1>1 DEF SuggestionsInv, TypeOK
<1>3. \A g \in Numbers : SuggestionFits(g)'
  BY <1>1, ConstantsAssumption DEF SuggestionsInv, SuggestionFits, TypeOK, Numbers
<1>4. \A c \in Contents : ContentFits(c)'
  BY <1>1 DEF SuggestionsInv, ContentFits
<1>5. PublicTextsKept'
  BY <1>1 DEF SuggestionsInv, PublicTextsKept
<1> QED
  BY <1>2, <1>3, <1>4, <1>5 DEF SuggestionsInv

\* What a request that goes on unchanged needs.
LEMMA RequestStays ==
  ASSUME NEW q, RequestFits(q), UNCHANGED store, served' >= served, served \in Nat, served' \in Nat
  PROVE  RequestFits(q)'
<1>1. UNCHANGED <<content, saved, credits, sugg, uses, ever>>
  BY DEF store
<1>2. q.n \in 1..served'
  BY DEF RequestFits
<1> QED
  BY <1>1, <1>2 DEF RequestFits, AnswerFits, LoadFits

LEMMA AbortsRequest ==
  ASSUME SuggestionsInv, NEW s \in Slots, Abort(s)
  PROVE  SuggestionsInv'
<1>1. req' = [req EXCEPT ![s] = Idle] /\ UNCHANGED <<store, served>>
  BY DEF Abort
<1>2. served \in 0..MaxRequests /\ served' = served
  BY <1>1 DEF SuggestionsInv, TypeOK
<1>3. \A t \in Active' : RequestFits(req[t])'
  <2> SUFFICES ASSUME NEW t \in Active' PROVE RequestFits(req[t])'
    OBVIOUS
  <2>1. req'[t] = req[t] /\ RequestFits(req[t])
    BY <1>1, EndsRequest
  <2> SUFFICES ASSUME NEW q, q = req[t] PROVE RequestFits(q)'
    BY <2>1
  <2> QED
    BY <1>1, <1>2, <2>1, RequestStays, ConstantsAssumption
<1>4. served' \in 0..MaxRequests /\ served' >= served
  BY <1>2, ConstantsAssumption
<1> QED
  BY <1>1, <1>3, <1>4, EndsRequest, StoreStays

LEMMA ReadsContent ==
  ASSUME SuggestionsInv, NEW s \in Slots, ReadContent(s)
  PROVE  SuggestionsInv'
<1> DEFINE q == [req[s] EXCEPT !.pc = "commit", !.row = content[req[s].of],
                               !.credited = {u \in Users : credits[req[s].of][u] > 0}]
<1>1. req[s].pc = "content" /\ req' = [req EXCEPT ![s] = q] /\ UNCHANGED <<store, served>>
  BY RequestTypes DEF ReadContent, At
<1>2. /\ q \in Request /\ q.pc = "commit" /\ q.row = content[req[s].of]
      /\ q.credited = {u \in Users : credits[req[s].of][u] > 0}
      /\ q.of = req[s].of /\ q.n = req[s].n /\ q.op = req[s].op /\ q.g = req[s].g
      /\ q.sugg = req[s].sugg
  BY RequestTypes DEF Request
<1> HIDE DEF q
<1>3. /\ req' \in [Slots -> Request]
      /\ \A t \in Slots : req'[t] = IF t = s THEN q ELSE req[t]
  BY <1>1, <1>2, RequestTypes
<1>4. Active' = Active /\ s \in Active
  BY <1>1, <1>2, <1>3 DEF Active
<1>5. RequestsApart'
  BY <1>2, <1>3, <1>4 DEF SuggestionsInv, RequestsApart, Active
<1>6. served \in 0..MaxRequests /\ served' = served
  BY <1>1 DEF SuggestionsInv, TypeOK
<1>7. RequestFits(q)
  <2>1. RequestFits(req[s])
    BY <1>4 DEF SuggestionsInv
  <2>2. LoadFits(q)
    <3>1. q.of \in Contents /\ credits[q.of] \in [Users -> Nat]
      BY <1>2, RequestTypes DEF SuggestionsInv, TypeOK
    <3> QED
      BY <1>2, <3>1 DEF LoadFits
  <2>3. q.op \in Answers => AnswerFits(q)
    BY <1>2, <2>1 DEF RequestFits, AnswerFits
  <2> QED
    BY <1>2, <2>1, <2>2, <2>3 DEF RequestFits
<1>8. \A t \in Active' : RequestFits(req[t])'
  <2> SUFFICES ASSUME NEW t \in Active, NEW p, p = req'[t] PROVE RequestFits(p)'
    BY <1>4
  <2>1. RequestFits(p)
    BY <1>3, <1>7 DEF SuggestionsInv, Active
  <2> QED
    BY <1>1, <1>6, <2>1, RequestStays, ConstantsAssumption
<1> QED
  BY <1>1, <1>3, <1>5, <1>6, <1>8, StoreStays, ConstantsAssumption

LEMMA StartsRequest ==
  ASSUME SuggestionsInv, NEW s \in Slots, NEW q \in Request, Start(s, q),
         q.pc = "content", content[q.of].body # None, q.op \in Answers => AnswerFits(q)
  PROVE  SuggestionsInv'
<1> SUFFICES ASSUME NEW r, r = [q EXCEPT !.n = served + 1] PROVE SuggestionsInv'
  OBVIOUS
<1>1. /\ req[s].pc = "idle" /\ served < MaxRequests /\ served' = served + 1
      /\ req' = [req EXCEPT ![s] = r] /\ UNCHANGED store
      /\ q.of \in IsolatedContents => \A t \in Slots : req[t].pc # "idle" => req[t].of # q.of
  BY DEF Start, At, Isolated
<1>2. served \in 0..MaxRequests /\ served' \in 0..MaxRequests /\ MaxRequests \in Nat
  BY <1>1, ConstantsAssumption DEF SuggestionsInv, TypeOK
<1>3. /\ r \in Request /\ r.n = served + 1 /\ r.pc = "content" /\ r.of = q.of /\ r.op = q.op
      /\ r.g = q.g /\ r.sugg = q.sugg
  <2>1. served + 1 \in 0..MaxRequests
    BY <1>1, <1>2
  <2> QED
    BY <2>1 DEF Request
<1>4. /\ req' \in [Slots -> Request]
      /\ \A t \in Slots : req'[t] = IF t = s THEN r ELSE req[t]
  BY <1>1, <1>3, RequestTypes
<1>5. \A t \in Active' : t = s \/ (t \in Active /\ t # s /\ req'[t] = req[t])
  BY <1>1, <1>4 DEF Active
<1>6. \A t \in Active : req[t].n # r.n /\ (req[t].of = r.of => r.of \notin IsolatedContents)
  <2> SUFFICES ASSUME NEW t \in Active
               PROVE  req[t].n # r.n /\ (req[t].of = r.of => r.of \notin IsolatedContents)
    OBVIOUS
  <2>1. req[t].n \in 1..served
    BY DEF SuggestionsInv, RequestFits
  <2>2. req[t].n # r.n
    BY <1>2, <1>3, <2>1
  <2> QED
    BY <1>1, <1>3, <2>2 DEF Active
<1>7. RequestsApart'
  <2> SUFFICES ASSUME NEW t \in Active', NEW u \in Active', t # u
               PROVE  /\ req'[t].n # req'[u].n
                      /\ req'[t].of = req'[u].of => req'[t].of \notin IsolatedContents
    BY DEF RequestsApart
  <2>1. CASE t = s
    BY <1>4, <1>5, <1>6, <2>1
  <2>2. CASE u = s
    BY <1>4, <1>5, <1>6, <2>2
  <2>3. CASE t # s /\ u # s
    BY <1>5, <2>3 DEF SuggestionsInv, RequestsApart
  <2> QED
    BY <2>1, <2>2, <2>3
<1>8. RequestFits(r)'
  <2>1. /\ sugg' = sugg /\ content' = content /\ credits' = credits
    BY <1>1 DEF store
  <2>2. r.n \in Numbers /\ r.n \in 1..served'
    BY <1>1, <1>2, <1>3 DEF Numbers
  <2>3. sugg[r.n].status = "absent"
    <3>1. ~(r.n <= served)
      BY <1>2, <1>3
    <3> QED
      BY <2>2, <3>1 DEF SuggestionsInv, SuggestionFits
  <2>4. r.op \in Answers => AnswerFits(r)'
    BY <1>3, <2>1 DEF AnswerFits
  <2> QED
    BY <1>3, <2>1, <2>2, <2>3, <2>4 DEF RequestFits
<1>9. \A t \in Active' : RequestFits(req[t])'
  <2> SUFFICES ASSUME NEW t \in Active', NEW p, p = req'[t] PROVE RequestFits(p)'
    OBVIOUS
  <2>1. CASE t = s
    <3>1. p = r
      BY <1>4, <2>1
    <3> QED
      BY <1>8, <3>1
  <2>2. CASE t # s
    <3>1. RequestFits(p)
      BY <1>5, <2>2 DEF SuggestionsInv
    <3>2. served \in Nat /\ served' \in Nat /\ served' >= served
      BY <1>1, <1>2
    <3> QED
      BY <1>1, <3>1, <3>2, RequestStays
  <2> QED
    BY <2>1, <2>2
<1>10. served' >= served
  BY <1>1, <1>2
<1> QED
  BY <1>1, <1>2, <1>4, <1>7, <1>9, <1>10, StoreStays

LEMMA BeginsRequest ==
  ASSUME SuggestionsInv, NEW s \in Slots, BeginOnContent(s) \/ BeginOnSuggestion(s)
  PROVE  SuggestionsInv'
<1>1. CASE BeginOnContent(s)
  <2>1. PICK op \in Ops \ Answers, c \in Contents, u \in Users :
          /\ Exists(c)
          /\ Start(s, [Idle EXCEPT !.pc = "content", !.op = op, !.user = u, !.of = c])
    BY <1>1 DEF BeginOnContent
  <2> SUFFICES ASSUME NEW q, q = [Idle EXCEPT !.pc = "content", !.op = op, !.user = u, !.of = c]
               PROVE  SuggestionsInv'
    OBVIOUS
  <2>2. q \in Request /\ q.pc = "content" /\ q.op = op /\ q.of = c
    BY Sentinels DEF Request
  <2>3. content[q.of].body # None
    BY <2>1, <2>2 DEF Exists, SuggestionsInv, ContentFits
  <2> QED
    BY <2>1, <2>2, <2>3, StartsRequest
<1>2. CASE BeginOnSuggestion(s)
  <2>1. PICK op \in Answers, g \in Numbers, u \in Users :
          /\ Follows(op, sugg[g].status)
          /\ Start(s, [Idle EXCEPT !.pc = "content", !.op = op, !.user = u,
                             !.of = sugg[g].of, !.g = g, !.sugg = sugg[g]])
    BY <1>2 DEF BeginOnSuggestion
  <2>2. PICK q : q = [Idle EXCEPT !.pc = "content", !.op = op, !.user = u,
                             !.of = sugg[g].of, !.g = g, !.sugg = sugg[g]]
    OBVIOUS
  <2>3. sugg[g] \in Sugg /\ sugg[g].of \in Contents /\ g \in 0..MaxRequests /\ op \in Ops
    BY ConstantsAssumption DEF SuggestionsInv, TypeOK, Sugg, Numbers, Ops
  <2>4. /\ q \in Request /\ q.pc = "content" /\ q.op = op /\ q.of = sugg[g].of /\ q.g = g
        /\ q.sugg = sugg[g]
    BY <2>2, <2>3, Sentinels DEF Request
  <2>5. sugg[g].status # "absent"
    BY <2>1 DEF Follows
  <2>6. AnswerFits(q)
    BY <2>1, <2>4, <2>5 DEF AnswerFits
  <2>7. content[q.of].body # None
    BY <2>4, <2>5 DEF SuggestionsInv, SuggestionFits
  <2> QED
    BY <2>1, <2>2, <2>4, <2>6, <2>7, StartsRequest
<1> QED
  BY <1>1, <1>2

\* A step that touches content c and proposes at most suggestion n.
Touches(c, n) ==
  /\ served' = served
  /\ \A d \in Contents : d # c => /\ content'[d] = content[d] /\ credits'[d] = credits[d]
                                  /\ ever'[d] = ever[d] /\ saved'[d] = saved[d]
  /\ content[c].body # None => content'[c].body # None
  /\ \A u \in Users : credits'[c][u] >= credits[c][u]
  /\ \A g \in Numbers : sugg[g].status # "absent" =>
       /\ sugg'[g].status # "absent" /\ sugg'[g].of = sugg[g].of
       /\ sugg'[g].by = sugg[g].by /\ sugg'[g].text = sugg[g].text
       /\ sugg[g].of # c => sugg'[g].status = sugg[g].status
  /\ \A g \in Numbers \ {n} : sugg[g].status = "absent" => sugg'[g] = sugg[g]

TextKept(c) ==
  content[c].body # Erased => \A x \in ever[c] : x = content[c].body \/ x \in saved[c]

LEMMA OtherRequestStays ==
  ASSUME SuggestionsInv, NEW c \in Contents, NEW n, Touches(c, n), TypeOK',
         NEW t \in Active, NEW q, q = req[t], q.of = c => c \notin IsolatedContents, q.n # n
  PROVE  RequestFits(q)'
<1>1. q.of \in Contents /\ q.credited \in SUBSET Users /\ q.n \in 0..MaxRequests /\ RequestFits(q)
  BY RequestTypes DEF SuggestionsInv, Active
<1>2. served' = served /\ q.n \in 1..served /\ q.n \in Numbers
  <2>1. served \in 0..MaxRequests
    BY DEF SuggestionsInv, TypeOK
  <2> QED
    BY <1>1, <2>1, ConstantsAssumption DEF Touches, RequestFits, Numbers
<1>3. content'[q.of].body # None
  BY <1>1 DEF Touches, RequestFits
<1>4. q.op \in Answers => AnswerFits(q)'
  BY <1>1 DEF Touches, RequestFits, AnswerFits
<1>5. q.op \in Proposals => sugg'[q.n].status = "absent"
  BY <1>1, <1>2 DEF Touches, RequestFits
<1>6. q.pc = "commit" => LoadFits(q)'
  <2> SUFFICES ASSUME q.pc = "commit" PROVE LoadFits(q)'
    OBVIOUS
  <2>1. LoadFits(q)
    BY <1>1 DEF RequestFits
  <2>2. \A u \in q.credited : credits'[q.of][u] >= 1
    <3> SUFFICES ASSUME NEW u \in q.credited PROVE credits'[q.of][u] >= 1
      OBVIOUS
    <3>1. credits[q.of][u] \in Nat /\ credits[q.of][u] >= 1
      BY <1>1, <2>1 DEF LoadFits, SuggestionsInv, TypeOK
    <3>2. CASE q.of # c
      BY <1>1, <3>1, <3>2 DEF Touches
    <3>3. CASE q.of = c
      <4>1. credits'[c][u] >= credits[c][u]
        BY <1>1 DEF Touches
      <4>2. credits'[c][u] \in Nat
        BY <1>1 DEF TypeOK
      <4> QED
        BY <3>1, <3>3, <4>1, <4>2
    <3> QED
      BY <3>2, <3>3
  <2>3. q.of \in IsolatedContents =>
          q.row = content'[q.of] /\ \A u \in Users \ q.credited : credits'[q.of][u] = 0
    BY <1>1, <2>1 DEF LoadFits, Touches
  <2> QED
    BY <2>2, <2>3 DEF LoadFits
<1> QED
  BY <1>2, <1>3, <1>4, <1>5, <1>6 DEF RequestFits

LEMMA SuggestionStays ==
  ASSUME SuggestionsInv, NEW c \in Contents, NEW n, Touches(c, n), TypeOK',
         NEW g \in Numbers, sugg'[g] = sugg[g], uses'[g] = uses[g]
  PROVE  SuggestionFits(g)'
<1>1. SuggestionFits(g) /\ served' = served
  BY DEF SuggestionsInv, Touches
<1>2. /\ sugg[g] \in Sugg /\ sugg[g].of \in Contents /\ sugg[g].by \in Users
      /\ credits[sugg[g].of][sugg[g].by] \in Nat /\ credits'[sugg[g].of][sugg[g].by] \in Nat
  BY DEF SuggestionsInv, TypeOK, Sugg
<1>3. credits'[sugg[g].of][sugg[g].by] >= credits[sugg[g].of][sugg[g].by]
  BY <1>2 DEF Touches
<1>4. sugg[g].status = "accepted" => credits'[sugg[g].of][sugg[g].by] >= 1
  BY <1>1, <1>2, <1>3 DEF SuggestionFits
<1>5. sugg[g].status # "absent" => content'[sugg[g].of].body # None
  BY <1>1, <1>2 DEF SuggestionFits, Touches
<1> QED
  BY <1>1, <1>4, <1>5 DEF SuggestionFits

LEMMA ContentStays ==
  ASSUME SuggestionsInv, NEW c \in Contents, NEW n, Touches(c, n), TypeOK', RequestsApart',
         \A t \in Active' : RequestFits(req[t])',
         \A g \in Numbers : SuggestionFits(g)',
         ContentFits(c)', c \in IsolatedContents => TextKept(c)'
  PROVE  SuggestionsInv'
<1>1. \A d \in Contents : ContentFits(d)'
  <2> SUFFICES ASSUME NEW d \in Contents, d # c PROVE ContentFits(d)'
    OBVIOUS
  <2>1. ContentFits(d)
    BY DEF SuggestionsInv
  <2>2. content'[d] = content[d] /\ credits'[d] = credits[d] /\ ever'[d] = ever[d]
    BY DEF Touches
  <2> QED
    BY <2>1, <2>2 DEF ContentFits
<1>2. PublicTextsKept'
  <2> SUFFICES ASSUME NEW d \in IsolatedContents PROVE TextKept(d)'
    BY DEF PublicTextsKept, TextKept
  <2>1. d \in Contents
    BY ConstantsAssumption
  <2>2. CASE d # c
    <3>1. content'[d] = content[d] /\ saved'[d] = saved[d] /\ ever'[d] = ever[d]
      BY <2>1, <2>2 DEF Touches
    <3> QED
      BY <3>1 DEF SuggestionsInv, PublicTextsKept, TextKept
  <2> QED
    BY <2>2
<1> QED
  BY <1>1, <1>2 DEF SuggestionsInv

LEMMA PostsContent ==
  ASSUME SuggestionsInv, NEW c \in Contents, Post(c)
  PROVE  SuggestionsInv'
<1>1. PICK published \in BOOLEAN :
        /\ content[c] = NoRow
        /\ content' = [content EXCEPT ![c] =
                         [NoRow EXCEPT !.body = Original, !.published = published]]
        /\ ever' = [ever EXCEPT ![c] = IF published THEN {Original} ELSE {}]
        /\ UNCHANGED <<saved, credits, sugg, uses, req, served>>
  BY DEF Post, Exists
<1> DEFINE p == [NoRow EXCEPT !.body = Original, !.published = published]
<1>2. p \in Row /\ p.body = Original /\ p.published = published
  BY Sentinels DEF Row
<1> HIDE DEF p
<1>3. /\ content' = [content EXCEPT ![c] = p]
      /\ content \in [Contents -> Row] /\ ever \in [Contents -> SUBSET Texts]
      /\ credits \in [Contents -> [Users -> Nat]]
  BY <1>1 DEF p, SuggestionsInv, TypeOK
<1>4. TypeOK'
  <2>1. content' \in [Contents -> Row] /\ ever' \in [Contents -> SUBSET Texts]
    BY <1>1, <1>2, <1>3, Sentinels
  <2> QED
    BY <1>1, <2>1 DEF SuggestionsInv, TypeOK
<1>5. Touches(c, 0)
  BY <1>1, <1>2, <1>3, Sentinels DEF Touches
<1>6. Active' = Active /\ RequestsApart'
  BY <1>1 DEF Active, SuggestionsInv, RequestsApart
<1>7. \A t \in Active' : RequestFits(req[t])'
  <2> SUFFICES ASSUME NEW t \in Active, NEW q, q = req[t] PROVE RequestFits(q)'
    BY <1>1, <1>6
  <2>1. RequestFits(q) /\ q.of # c /\ q.n # 0
    <3>1. RequestFits(q)
      BY DEF SuggestionsInv
    <3>2. q.n \in 1..served /\ served \in Nat
      BY <3>1, ConstantsAssumption DEF RequestFits, SuggestionsInv, TypeOK
    <3> QED
      BY <1>1, <3>1, <3>2, Sentinels DEF RequestFits
  <2> QED
    BY <1>4, <1>5, <2>1, OtherRequestStays
<1>8. \A g \in Numbers : SuggestionFits(g)'
  BY <1>1, <1>4, <1>5, SuggestionStays
<1>9. ContentFits(c)' /\ TextKept(c)'
  <2>1. content'[c] = p /\ ever'[c] = (IF published THEN {Original} ELSE {}) /\ credits'[c] = credits[c]
    BY <1>1, <1>3
  <2>2. ContentFits(c)'
    BY <1>2, <2>1, Sentinels DEF SuggestionsInv, ContentFits
  <2> QED
    BY <1>2, <2>1, <2>2 DEF TextKept
<1> QED
  BY <1>4, <1>5, <1>6, <1>7, <1>8, <1>9, ContentStays

LEMMA RemovesContent ==
  ASSUME SuggestionsInv, NEW c \in Contents, Remove(c)
  PROVE  SuggestionsInv'
<1> DEFINE p == IF Kind[c] = "answer"
                THEN [content[c] EXCEPT !.gone = TRUE, !.body = Erased, !.draft = Erased]
                ELSE [content[c] EXCEPT !.gone = TRUE]
<1>1. /\ content[c].body # None /\ content' = [content EXCEPT ![c] = p]
      /\ saved' = [saved EXCEPT ![c] = IF Kind[c] = "answer" THEN {Erased} ELSE saved[c]]
      /\ UNCHANGED <<credits, sugg, uses, ever, req, served>>
      /\ c \in IsolatedContents => \A t \in Slots : req[t].pc # "idle" => req[t].of # c
  BY DEF Remove, Exists, SuggestionsInv, ContentFits, Isolated, At
<1>2. /\ content \in [Contents -> Row] /\ saved \in [Contents -> SUBSET Texts]
      /\ ever \in [Contents -> SUBSET Texts] /\ credits \in [Contents -> [Users -> Nat]]
      /\ content[c] \in Row /\ ContentFits(c)
  BY DEF SuggestionsInv, TypeOK
<1>3. /\ p \in Row /\ p.gone = TRUE /\ p.published = content[c].published
      /\ p.body = IF Kind[c] = "answer" THEN Erased ELSE content[c].body
  BY <1>2, Sentinels DEF Row
<1> HIDE DEF p
<1>4. TypeOK'
  <2>1. content' \in [Contents -> Row] /\ saved' \in [Contents -> SUBSET Texts]
    BY <1>1, <1>2, <1>3, Sentinels
  <2> QED
    BY <1>1, <2>1 DEF SuggestionsInv, TypeOK
<1>5. Touches(c, 0)
  BY <1>1, <1>2, <1>3, Sentinels DEF Touches
<1>6. Active' = Active /\ RequestsApart'
  BY <1>1 DEF Active, SuggestionsInv, RequestsApart
<1>7. \A t \in Active' : RequestFits(req[t])'
  <2> SUFFICES ASSUME NEW t \in Active, NEW q, q = req[t] PROVE RequestFits(q)'
    BY <1>1, <1>6
  <2>1. q.of = c => c \notin IsolatedContents
    BY <1>1 DEF Active
  <2>2. q.n # 0
    <3>1. q.n \in 1..served /\ served \in Nat
      BY ConstantsAssumption DEF RequestFits, SuggestionsInv, TypeOK
    <3> QED
      BY <3>1
  <2> QED
    BY <1>4, <1>5, <2>1, <2>2, OtherRequestStays
<1>8. \A g \in Numbers : SuggestionFits(g)'
  BY <1>1, <1>4, <1>5, SuggestionStays
<1>9. ContentFits(c)'
  <2>1. content'[c] = p /\ ever'[c] = ever[c] /\ credits'[c] = credits[c]
    BY <1>1, <1>2
  <2> QED
    BY <1>1, <1>2, <1>3, <2>1, Sentinels DEF ContentFits
<1>10. c \in IsolatedContents => TextKept(c)'
  <2> SUFFICES ASSUME c \in IsolatedContents, Kind[c] # "answer" PROVE TextKept(c)'
    BY <1>1, <1>2, <1>3 DEF TextKept
  <2>1. content'[c].body = content[c].body /\ ever'[c] = ever[c] /\ saved'[c] = saved[c]
    BY <1>1, <1>2, <1>3
  <2> QED
    BY <2>1 DEF TextKept, SuggestionsInv, PublicTextsKept
<1> QED
  BY <1>4, <1>5, <1>6, <1>7, <1>8, <1>9, <1>10, ContentStays

LEMMA CommitsProposal ==
  ASSUME SuggestionsInv, NEW s \in Slots, CommitProposal(s)
  PROVE  SuggestionsInv'
<1> SUFFICES ASSUME NEW n, n = req[s].n, NEW c, c = req[s].of,
                    NEW g0, g0 = [status |-> "pending", of |-> c, by |-> req[s].user,
                                  text |-> IF req[s].op = "propose" THEN n ELSE None]
             PROVE  SuggestionsInv'
  OBVIOUS
<1>1. /\ s \in Active /\ req[s].op \in Proposals /\ served' = served
      /\ sugg' = [sugg EXCEPT ![n] = g0] /\ req' = [req EXCEPT ![s] = Idle]
      /\ UNCHANGED <<content, saved, credits, uses, ever>>
  BY DEF CommitProposal, At, Finish, Active, Proposals
<1>2. /\ RequestFits(req[s]) /\ c \in Contents /\ req[s].user \in Users
      /\ content[c].body # None /\ n \in 1..served /\ n \in Numbers
      /\ sugg[n].status = "absent" /\ uses[n] = 0
  <2>1. RequestFits(req[s])
    BY <1>1 DEF SuggestionsInv
  <2>2. n \in 1..served /\ served \in 0..MaxRequests
    BY <2>1 DEF RequestFits, SuggestionsInv, TypeOK
  <2>3. n \in Numbers
    BY <2>2, ConstantsAssumption DEF Numbers
  <2>4. sugg[n].status = "absent"
    BY <1>1, <2>1 DEF RequestFits
  <2>5. uses[n] = 0
    BY <2>3, <2>4 DEF SuggestionsInv, SuggestionFits
  <2> QED
    BY <2>1, <2>2, <2>3, <2>4, <2>5, RequestTypes DEF RequestFits
<1>3. /\ g0 \in Sugg /\ g0.status = "pending" /\ g0.of = c
      /\ g0.text \in Numbers \cup {None}
  BY <1>2, Sentinels DEF Sugg, Statuses
<1>4. sugg' \in [Numbers -> Sugg] /\ \A g \in Numbers : sugg'[g] = IF g = n THEN g0 ELSE sugg[g]
  BY <1>1, <1>2, <1>3 DEF SuggestionsInv, TypeOK
<1>5. TypeOK'
  BY <1>1, <1>4, EndsRequest DEF SuggestionsInv, TypeOK
<1>6. Touches(c, n)
  <2>1. \A u \in Users : credits[c][u] \in Nat
    BY <1>2 DEF SuggestionsInv, TypeOK
  <2> QED
    BY <1>1, <1>2, <1>4, <2>1 DEF Touches
<1>7. \A t \in Active' : RequestFits(req[t])'
  <2> SUFFICES ASSUME NEW t \in Active', NEW q, q = req'[t] PROVE RequestFits(q)'
    OBVIOUS
  <2>1. t \in Active /\ q = req[t] /\ q.n # n /\ (q.of = c => c \notin IsolatedContents)
    BY <1>1, EndsRequest
  <2> QED
    BY <1>2, <1>5, <1>6, <2>1, OtherRequestStays
<1>8. \A g \in Numbers : SuggestionFits(g)'
  <2> SUFFICES ASSUME NEW g \in Numbers PROVE SuggestionFits(g)'
    OBVIOUS
  <2>1. CASE g # n
    BY <1>1, <1>2, <1>4, <1>5, <1>6, <2>1, SuggestionStays
  <2>2. CASE g = n
    <3>1. sugg'[g] = g0 /\ uses'[g] = 0 /\ served' = served /\ content' = content
      BY <1>1, <1>2, <1>4, <2>2
    <3>2. g <= served
      BY <1>2, <2>2, ConstantsAssumption DEF SuggestionsInv, TypeOK
    <3> QED
      BY <1>2, <1>3, <3>1, <3>2 DEF SuggestionFits
  <2> QED
    BY <2>1, <2>2
<1>9. ContentFits(c)' /\ (c \in IsolatedContents => TextKept(c)')
  BY <1>1, <1>2 DEF SuggestionsInv, ContentFits, PublicTextsKept, TextKept
<1> QED
  BY <1>1, <1>2, <1>5, <1>6, <1>7, <1>8, <1>9, EndsRequest, ContentStays

\* What an update does to the row and its archive.
WellUpdated(c) ==
  /\ content' \in [Contents -> Row] /\ saved' \in [Contents -> SUBSET Texts]
  /\ ever' \in [Contents -> SUBSET Texts] /\ content'[c].body # None
  /\ \A d \in Contents : d # c => /\ content'[d] = content[d] /\ ever'[d] = ever[d]
                                  /\ saved'[d] = saved[d]
  /\ ~content'[c].published => ever'[c] = {}
  /\ content'[c].body = Erased => content'[c].gone /\ Kind[c] = "answer"
  /\ c \in IsolatedContents => TextKept(c)'

LEMMA UpdatesContent ==
  ASSUME SuggestionsInv, NEW s \in Active, req[s].pc = "commit", Readable(req[s]),
         NEW c, c = req[s].of, NEW text \in Numbers \cup {None}, Update(req[s], text)
  PROVE  WellUpdated(c)
<1> DEFINE q == req[s]
           r == Updated(q, text)
<1>1. /\ q \in Request /\ c \in Contents /\ q.row \in Row /\ content[c] \in Row /\ q.of = c
      /\ ContentFits(c) /\ RequestFits(q)
      /\ c \in IsolatedContents => q.row = content[c]
  <2>1. RequestFits(q)
    BY DEF SuggestionsInv
  <2> QED
    BY <2>1, RequestTypes DEF SuggestionsInv, Active, RequestFits, LoadFits
<1>2. /\ content' = [content EXCEPT ![c] = r]
      /\ saved' = [saved EXCEPT ![c] = saved[c] \cup Replaced(q)]
      /\ ever' = [ever EXCEPT ![c] = ever[c] \cup {r.body}]
      /\ content \in [Contents -> Row] /\ saved \in [Contents -> SUBSET Texts]
      /\ ever \in [Contents -> SUBSET Texts]
  BY DEF Update, SuggestionsInv, TypeOK
<1>3. Replaced(q) \in SUBSET Texts /\ (q.row.published => Replaced(q) = {q.row.body})
  BY <1>1 DEF Replaced, Row
<1>4. /\ r \in Row /\ r.published = TRUE /\ r.gone = content[c].gone
      /\ r.body = (IF text = None THEN content[c].body
                   ELSE NetChange(text, q.row.body, content[c].body))
  <2>1. text \in Texts /\ None \in Texts
    BY Sentinels
  <2>2. /\ NetChange(text, q.row.body, content[c].body) \in Texts
        /\ NetChange(None, q.row.draft, content[c].draft) \in Texts
    BY <1>1, <2>1 DEF NetChange, Row
  <2> QED
    BY <1>1, <2>2 DEF Updated, Row
<1>5. r.body \in {text, content[c].body} /\ (r.body = text => text # None \/ content[c].body = None)
  BY <1>4 DEF NetChange
<1>6. content[c].body # None
  BY <1>1 DEF RequestFits
<1> HIDE DEF r, q
<1>7. r.body # None /\ (r.body = Erased => content[c].body = Erased)
  BY <1>5, <1>6, Sentinels
<1>8. /\ content' \in [Contents -> Row] /\ saved' \in [Contents -> SUBSET Texts]
      /\ ever' \in [Contents -> SUBSET Texts]
      /\ content'[c] = r /\ saved'[c] = saved[c] \cup Replaced(q)
      /\ ever'[c] = ever[c] \cup {r.body}
      /\ \A d \in Contents : d # c => /\ content'[d] = content[d] /\ ever'[d] = ever[d]
                                      /\ saved'[d] = saved[d]
  <2>1. r.body \in Texts
    BY <1>4 DEF Row
  <2> QED
    BY <1>1, <1>2, <1>3, <1>4, <2>1
<1>9. content'[c].body = Erased => content'[c].gone /\ Kind[c] = "answer"
  BY <1>1, <1>4, <1>7, <1>8 DEF ContentFits
<1>10. c \in IsolatedContents => TextKept(c)'
  <2> SUFFICES ASSUME c \in IsolatedContents, NEW x \in ever'[c]
               PROVE  x = content'[c].body \/ x \in saved'[c]
    BY DEF TextKept
  <2>1. CASE x = r.body
    BY <1>8, <2>1
  <2>2. CASE x \in ever[c]
    <3>1. content[c].published /\ content[c].body \in saved'[c]
      BY <1>1, <1>3, <1>8, <2>2 DEF ContentFits
    <3>2. content[c].body # Erased
      BY <1>1 DEF ContentFits, Readable, q
    <3>3. x = content[c].body \/ x \in saved[c]
      BY <2>2, <3>2 DEF SuggestionsInv, PublicTextsKept
    <3> QED
      BY <1>8, <3>1, <3>3
  <2> QED
    BY <1>8, <2>1, <2>2
<1> QED
  BY <1>1, <1>4, <1>7, <1>8, <1>9, <1>10 DEF WellUpdated

LEMMA CommitsText ==
  ASSUME SuggestionsInv, NEW s \in Slots, CommitEdit(s) \/ CommitDraft(s)
  PROVE  SuggestionsInv'
<1> SUFFICES ASSUME NEW n, n = req[s].n, NEW c, c = req[s].of PROVE SuggestionsInv'
  OBVIOUS
<1>1. /\ s \in Active /\ req[s].pc = "commit" /\ Readable(req[s])
      /\ req' = [req EXCEPT ![s] = Idle]
      /\ served' = served /\ UNCHANGED <<credits, sugg, uses>>
  BY DEF CommitEdit, CommitDraft, At, Finish, Active
<1>2. /\ RequestFits(req[s]) /\ c \in Contents /\ n \in Numbers /\ content[c].body # None
      /\ ContentFits(c)
  <2>1. RequestFits(req[s])
    BY <1>1 DEF SuggestionsInv
  <2>2. n \in 1..served /\ served \in 0..MaxRequests
    BY <2>1 DEF RequestFits, SuggestionsInv, TypeOK
  <2>3. n \in Numbers
    BY <2>2, ConstantsAssumption DEF Numbers
  <2> QED
    BY <2>1, <2>3, RequestTypes DEF RequestFits, SuggestionsInv
<1>3. WellUpdated(c)
  <2>1. CASE CommitEdit(s)
    <3>1. Update(req[s], n)
      BY <2>1 DEF CommitEdit
    <3>2. n \in Numbers \cup {None}
      BY <1>2
    <3> QED
      BY <1>1, <3>1, <3>2, UpdatesContent
  <2>2. CASE CommitDraft(s)
    <3>1. content' = [content EXCEPT ![c].draft = n] /\ UNCHANGED <<saved, ever>>
      BY <2>2 DEF CommitDraft
    <3>2. /\ content \in [Contents -> Row] /\ content[c] \in Row
          /\ saved \in [Contents -> SUBSET Texts] /\ ever \in [Contents -> SUBSET Texts]
      BY <1>2 DEF SuggestionsInv, TypeOK
    <3>3. PICK p : p = [content[c] EXCEPT !.draft = n]
      OBVIOUS
    <3>4. /\ p \in Row /\ p.body = content[c].body /\ p.gone = content[c].gone
          /\ p.published = content[c].published
      BY <1>2, <3>2, <3>3, Sentinels DEF Row
    <3>5. content' = [content EXCEPT ![c] = p]
      BY <3>1, <3>3
    <3>6. /\ content' \in [Contents -> Row] /\ content'[c] = p
          /\ \A d \in Contents : d # c => content'[d] = content[d]
      BY <1>2, <3>2, <3>4, <3>5
    <3>7. c \in IsolatedContents => TextKept(c)'
      BY <3>1, <3>4, <3>6 DEF SuggestionsInv, PublicTextsKept, TextKept
    <3> QED
      BY <1>2, <3>1, <3>2, <3>4, <3>6, <3>7 DEF ContentFits, WellUpdated
  <2> QED
    BY <2>1, <2>2
<1>4. TypeOK'
  BY <1>1, <1>3, EndsRequest DEF SuggestionsInv, TypeOK, WellUpdated
<1>5. Touches(c, n)
  <2>1. \A u \in Users : credits[c][u] \in Nat
    BY <1>2 DEF SuggestionsInv, TypeOK
  <2> QED
    BY <1>1, <1>2, <1>3, <2>1 DEF Touches, WellUpdated
<1>6. \A t \in Active' : RequestFits(req[t])'
  <2> SUFFICES ASSUME NEW t \in Active', NEW q, q = req'[t] PROVE RequestFits(q)'
    OBVIOUS
  <2>1. t \in Active /\ q = req[t] /\ q.n # n /\ (q.of = c => c \notin IsolatedContents)
    BY <1>1, EndsRequest
  <2> QED
    BY <1>2, <1>4, <1>5, <2>1, OtherRequestStays
<1>7. \A g \in Numbers : SuggestionFits(g)'
  BY <1>1, <1>2, <1>4, <1>5, SuggestionStays
<1>8. ContentFits(c)'
  BY <1>1, <1>2, <1>3 DEF ContentFits, WellUpdated
<1>9. c \in IsolatedContents => TextKept(c)'
  BY <1>3 DEF WellUpdated
<1> QED
  BY <1>1, <1>2, <1>4, <1>5, <1>6, <1>7, <1>8, <1>9, EndsRequest, ContentStays

\* An answer to a suggestion, before it is committed.
LEMMA AnswerLoaded ==
  ASSUME SuggestionsInv, NEW s \in Active, req[s].pc = "commit", req[s].op \in Answers,
         NEW c, c = req[s].of, NEW g, g = req[s].g
  PROVE  /\ AnswerFits(req[s]) /\ LoadFits(req[s]) /\ c \in Contents /\ g \in Numbers
         /\ s \in Slots /\ content[c].body # None /\ sugg[g] \in Sugg /\ sugg[g].of = c
         /\ sugg[g].by = req[s].sugg.by /\ sugg[g].by \in Users
         /\ sugg[g].text = req[s].sugg.text /\ sugg[g].text \in Numbers \cup {None}
         /\ sugg[g].status # "absent" /\ SuggestionFits(g) /\ ContentFits(c)
         /\ Follows(req[s].op, req[s].sugg.status)
         /\ c \in IsolatedContents => sugg[g].status = req[s].sugg.status
<1>1. RequestFits(req[s]) /\ s \in Slots
  BY DEF SuggestionsInv, Active
<1>2. AnswerFits(req[s]) /\ LoadFits(req[s])
  BY <1>1 DEF RequestFits
<1>3. g \in Numbers /\ sugg[g] \in Sugg
  BY <1>2 DEF AnswerFits, SuggestionsInv, TypeOK
<1>4. sugg[g].by \in Users
  BY <1>3 DEF Sugg
<1>5. SuggestionFits(g)
  BY <1>3 DEF SuggestionsInv
<1>6. c \in Contents /\ ContentFits(c)
  BY <1>1, RequestTypes DEF SuggestionsInv
<1> QED
  BY <1>1, <1>2, <1>3, <1>4, <1>5, <1>6 DEF RequestFits, AnswerFits, SuggestionFits

LEMMA AddsCredit ==
  ASSUME SuggestionsInv, NEW s \in Active, req[s].pc = "commit", req[s].op \in Answers,
         NEW c, c = req[s].of, NEW g, g = req[s].g, credits' = Credit(req[s])
  PROVE  /\ credits' \in [Contents -> [Users -> Nat]]
         /\ \A d \in Contents : d # c => credits'[d] = credits[d]
         /\ \A u \in Users : credits'[c][u] >= credits[c][u]
         /\ credits'[c][sugg[g].by] >= 1
         /\ c \in IsolatedContents => \A u \in Users : credits'[c][u] <= 1
<1> DEFINE q == req[s]
<1> SUFFICES ASSUME NEW b, b = sugg[g].by
             PROVE  /\ credits' \in [Contents -> [Users -> Nat]]
                    /\ \A d \in Contents : d # c => credits'[d] = credits[d]
                    /\ \A u \in Users : credits'[c][u] >= credits[c][u]
                    /\ credits'[c][b] >= 1
                    /\ c \in IsolatedContents => \A u \in Users : credits'[c][u] <= 1
  OBVIOUS
<1>1. c \in Contents /\ b \in Users /\ b = q.sugg.by /\ LoadFits(q) /\ ContentFits(c)
  BY AnswerLoaded
<1>2. credits \in [Contents -> [Users -> Nat]] /\ \A u \in Users : credits[c][u] \in Nat
  BY <1>1 DEF SuggestionsInv, TypeOK
<1>3. CASE b \in q.credited
  <2>1. credits' = credits
    BY <1>1, <1>3 DEF Credit
  <2>2. credits[c][b] >= 1
    BY <1>3, <1>1 DEF LoadFits
  <2> QED
    BY <1>1, <1>2, <2>1, <2>2 DEF ContentFits
<1>4. CASE b \notin q.credited
  <2>1. credits' = [credits EXCEPT ![c] = [credits[c] EXCEPT ![b] = credits[c][b] + 1]]
    BY <1>1, <1>2, <1>4 DEF Credit
  <2>2. /\ credits' \in [Contents -> [Users -> Nat]]
        /\ \A d \in Contents : d # c => credits'[d] = credits[d]
        /\ credits'[c][b] = credits[c][b] + 1
        /\ \A u \in Users : u # b => credits'[c][u] = credits[c][u]
    BY <1>1, <1>2, <2>1
  <2>3. c \in IsolatedContents => credits[c][b] = 0
    BY <1>1, <1>4 DEF LoadFits
  <2>4. credits'[c][b] >= 1 /\ \A u \in Users : credits'[c][u] >= credits[c][u]
    <3>1. credits'[c][b] >= credits[c][b] /\ credits'[c][b] >= 1
      BY <1>1, <1>2, <2>2
    <3>2. \A u \in Users : u # b => credits'[c][u] >= credits[c][u]
      BY <1>2, <2>2
    <3> QED
      BY <3>1, <3>2
  <2>5. c \in IsolatedContents => \A u \in Users : credits'[c][u] <= 1
    <3> SUFFICES ASSUME c \in IsolatedContents, NEW u \in Users PROVE credits'[c][u] <= 1
      OBVIOUS
    <3>1. CASE u = b
      BY <2>2, <2>3, <3>1
    <3>2. CASE u # b
      BY <1>1, <2>2, <3>2 DEF ContentFits
    <3> QED
      BY <3>1, <3>2
  <2> QED
    BY <2>2, <2>4, <2>5
<1> QED
  BY <1>3, <1>4

LEMMA CommitsAccept ==
  ASSUME SuggestionsInv, NEW s \in Slots, CommitAccept(s)
  PROVE  SuggestionsInv'
<1> SUFFICES ASSUME NEW c, c = req[s].of, NEW g, g = req[s].g, NEW n, n = req[s].n,
                    NEW b, b = sugg[g].by, NEW text, text = req[s].sugg.text
             PROVE  SuggestionsInv'
  OBVIOUS
<1>1. /\ s \in Active /\ req[s].pc = "commit" /\ req[s].op = "accept" /\ req[s].op \in Answers
      /\ Readable(req[s]) /\ Update(req[s], text) /\ credits' = Credit(req[s])
      /\ sugg' = Settled(req[s]) /\ uses' = [uses EXCEPT ![g] = uses[g] + 1]
      /\ req' = [req EXCEPT ![s] = Idle] /\ served' = served
  BY DEF CommitAccept, At, Finish, Active, Answers
<1>2. /\ c \in Contents /\ g \in Numbers /\ content[c].body # None /\ sugg[g] \in Sugg
      /\ sugg[g].of = c /\ text \in Numbers \cup {None} /\ sugg[g].status # "absent"
      /\ SuggestionFits(g) /\ b \in Users /\ ContentFits(c)
      /\ Follows("accept", req[s].sugg.status) /\ sugg[g].text = text
      /\ c \in IsolatedContents => sugg[g].status = req[s].sugg.status
  BY <1>1, AnswerLoaded
<1>3. WellUpdated(c)
  BY <1>1, <1>2, UpdatesContent
<1>4. /\ credits' \in [Contents -> [Users -> Nat]]
      /\ \A d \in Contents : d # c => credits'[d] = credits[d]
      /\ \A u \in Users : credits'[c][u] >= credits[c][u]
      /\ credits'[c][b] >= 1
      /\ c \in IsolatedContents => \A u \in Users : credits'[c][u] <= 1
  BY <1>1, AddsCredit
<1>5. PICK g0 : g0 = [sugg[g] EXCEPT !.status = "accepted"]
  OBVIOUS
<1>6. /\ g0 \in Sugg /\ g0.status = "accepted" /\ g0.of = c /\ g0.by = b /\ g0.text = text
  BY <1>2, <1>5 DEF Sugg, Statuses
<1>7. sugg' = [sugg EXCEPT ![g] = g0] /\ req[s].sugg.status \in {"pending", "rejected"}
  <2>1. req[s].sugg.status \in {"pending", "rejected"}
    BY <1>2 DEF Follows
  <2>2. NetChange(Outcome("accept"), req[s].sugg.status, sugg[g].status) = "accepted"
    BY <2>1 DEF NetChange, Outcome
  <2> QED
    BY <1>1, <1>5, <2>1, <2>2 DEF Settled
<1>8. /\ sugg' \in [Numbers -> Sugg] /\ uses' \in [Numbers -> Nat]
      /\ sugg'[g] = g0 /\ uses'[g] = uses[g] + 1 /\ uses[g] \in Nat
      /\ \A h \in Numbers : h # g => sugg'[h] = sugg[h] /\ uses'[h] = uses[h]
  BY <1>1, <1>2, <1>6, <1>7 DEF SuggestionsInv, TypeOK
<1>9. TypeOK'
  BY <1>1, <1>3, <1>4, <1>8, EndsRequest DEF SuggestionsInv, TypeOK, WellUpdated
<1>10. Touches(c, n)
  BY <1>1, <1>2, <1>3, <1>4, <1>6, <1>8 DEF Touches, WellUpdated
<1>11. \A t \in Active' : RequestFits(req[t])'
  <2> SUFFICES ASSUME NEW t \in Active', NEW q, q = req'[t] PROVE RequestFits(q)'
    OBVIOUS
  <2>1. t \in Active /\ q = req[t] /\ q.n # n /\ (q.of = c => c \notin IsolatedContents)
    BY <1>1, EndsRequest
  <2> QED
    BY <1>2, <1>9, <1>10, <2>1, OtherRequestStays
<1>12. \A h \in Numbers : SuggestionFits(h)'
  <2> SUFFICES ASSUME NEW h \in Numbers PROVE SuggestionFits(h)'
    OBVIOUS
  <2>1. CASE h # g
    BY <1>2, <1>8, <1>9, <1>10, <2>1, SuggestionStays
  <2>2. CASE h = g
    <3>1. c \in IsolatedContents => uses[g] = 0
      BY <1>2, <1>7 DEF SuggestionFits
    <3>2. uses'[g] >= 1 /\ (c \in IsolatedContents => uses'[g] = 1)
      BY <1>8, <3>1
    <3>3. g <= served' /\ content'[c].body # None
      BY <1>1, <1>2, <1>3 DEF SuggestionFits, WellUpdated
    <3>4. /\ sugg'[g].text = text /\ sugg'[g].status = "accepted" /\ sugg'[g].of = c
          /\ sugg'[g].by = b
      BY <1>6, <1>8
    <3> QED
      BY <1>2, <1>4, <2>2, <3>2, <3>3, <3>4 DEF SuggestionFits
  <2> QED
    BY <2>1, <2>2
<1>13. ContentFits(c)'
  BY <1>2, <1>3, <1>4 DEF ContentFits, WellUpdated
<1>14. c \in IsolatedContents => TextKept(c)'
  BY <1>3 DEF WellUpdated
<1> QED
  BY <1>1, <1>2, <1>14, <1>9, <1>10, <1>11, <1>12, <1>13, EndsRequest, ContentStays

LEMMA CommitsAnswer ==
  ASSUME SuggestionsInv, NEW s \in Slots, CommitAnswer(s)
  PROVE  SuggestionsInv'
<1> SUFFICES ASSUME NEW c, c = req[s].of, NEW g, g = req[s].g, NEW n, n = req[s].n,
                    NEW st, st = NetChange(Outcome(req[s].op), req[s].sugg.status, sugg[g].status)
             PROVE  SuggestionsInv'
  OBVIOUS
<1>1. /\ s \in Active /\ req[s].pc = "commit" /\ req[s].op \in {"reject", "retract", "reopen"}
      /\ req[s].op \in Answers /\ sugg' = Settled(req[s])
      /\ req' = [req EXCEPT ![s] = Idle] /\ served' = served
      /\ UNCHANGED <<content, saved, credits, uses, ever>>
  BY DEF CommitAnswer, At, Finish, Active, Answers
<1>2. /\ c \in Contents /\ g \in Numbers /\ content[c].body # None /\ sugg[g] \in Sugg
      /\ sugg[g].of = c /\ sugg[g].status # "absent" /\ SuggestionFits(g) /\ ContentFits(c)
      /\ Follows(req[s].op, req[s].sugg.status)
      /\ c \in IsolatedContents => sugg[g].status = req[s].sugg.status
  BY <1>1, AnswerLoaded
<1>3. Outcome(req[s].op) \in {"rejected", "retracted", "pending"}
  BY <1>1 DEF Outcome
<1>4. st \in {"rejected", "retracted", "pending", sugg[g].status}
  BY <1>3 DEF NetChange
<1>5. PICK g0 : g0 = [sugg[g] EXCEPT !.status = st]
  OBVIOUS
<1>6. /\ g0 \in Sugg /\ g0.status = st /\ g0.of = c /\ g0.by = sugg[g].by /\ g0.text = sugg[g].text
      /\ st # "absent"
  <2>1. sugg[g].status \in Statuses
    BY <1>2 DEF Sugg
  <2>2. st \in Statuses /\ st # "absent"
    BY <1>2, <1>4, <2>1 DEF Statuses
  <2> QED
    BY <1>2, <1>5, <2>2 DEF Sugg
<1>7. sugg' = [sugg EXCEPT ![g] = g0]
  BY <1>1, <1>5 DEF Settled
<1>8. /\ sugg' \in [Numbers -> Sugg] /\ sugg'[g] = g0
      /\ \A h \in Numbers : h # g => sugg'[h] = sugg[h]
  BY <1>2, <1>6, <1>7 DEF SuggestionsInv, TypeOK
<1>9. TypeOK'
  BY <1>1, <1>8, EndsRequest DEF SuggestionsInv, TypeOK
<1>10. Touches(c, n)
  <2>1. \A u \in Users : credits[c][u] \in Nat
    BY <1>2 DEF SuggestionsInv, TypeOK
  <2> QED
    BY <1>1, <1>2, <1>6, <1>8, <2>1 DEF Touches
<1>11. \A t \in Active' : RequestFits(req[t])'
  <2> SUFFICES ASSUME NEW t \in Active', NEW q, q = req'[t] PROVE RequestFits(q)'
    OBVIOUS
  <2>1. t \in Active /\ q = req[t] /\ q.n # n /\ (q.of = c => c \notin IsolatedContents)
    BY <1>1, EndsRequest
  <2> QED
    BY <1>2, <1>9, <1>10, <2>1, OtherRequestStays
<1>12. \A h \in Numbers : SuggestionFits(h)'
  <2> SUFFICES ASSUME NEW h \in Numbers PROVE SuggestionFits(h)'
    OBVIOUS
  <2>1. CASE h # g
    BY <1>1, <1>2, <1>8, <1>9, <1>10, <2>1, SuggestionStays
  <2>2. CASE h = g
    <3>1. c \in IsolatedContents => uses[g] = IF st = "accepted" THEN 1 ELSE 0
      <4> SUFFICES ASSUME c \in IsolatedContents
                   PROVE  uses[g] = IF st = "accepted" THEN 1 ELSE 0
        OBVIOUS
      <4>1. sugg[g].status \in {"pending", "rejected", "retracted"}
        BY <1>2 DEF Follows
      <4>2. uses[g] = 0 /\ st # "accepted"
        BY <1>2, <1>4, <4>1 DEF SuggestionFits
      <4> QED
        BY <4>2
    <3>2. st = "accepted" => sugg[g].status = "accepted"
      BY <1>4
    <3>3. /\ sugg'[g].text = sugg[g].text /\ sugg'[g].status = st /\ sugg'[g].of = sugg[g].of
          /\ sugg'[g].by = sugg[g].by
      BY <1>2, <1>6, <1>8
    <3> QED
      BY <1>1, <1>2, <1>6, <2>2, <3>1, <3>2, <3>3 DEF SuggestionFits
  <2> QED
    BY <2>1, <2>2
<1>13. ContentFits(c)' /\ (c \in IsolatedContents => TextKept(c)')
  BY <1>1, <1>2 DEF SuggestionsInv, ContentFits, PublicTextsKept, TextKept
<1> QED
  BY <1>1, <1>2, <1>9, <1>10, <1>11, <1>12, <1>13, EndsRequest, ContentStays

LEMMA SuggestionsStep == SuggestionsInv /\ (Next \/ UNCHANGED vars) => SuggestionsInv'
<1> SUFFICES ASSUME SuggestionsInv, Next \/ UNCHANGED vars PROVE SuggestionsInv'
  OBVIOUS
<1>1. CASE UNCHANGED vars
  <2>1. UNCHANGED <<store, req, served>>
    BY <1>1 DEF vars
  <2>2. Active' = Active /\ RequestsApart' /\ req' \in [Slots -> Request]
    BY <2>1 DEF Active, SuggestionsInv, RequestsApart, TypeOK
  <2>3. served \in 0..MaxRequests
    BY DEF SuggestionsInv, TypeOK
  <2>4. served \in Nat /\ served' \in Nat /\ served' >= served /\ served' \in 0..MaxRequests
    BY <2>1, <2>3, ConstantsAssumption
  <2>5. \A t \in Active' : RequestFits(req[t])'
    <3> SUFFICES ASSUME NEW t \in Active, NEW q, q = req[t] PROVE RequestFits(q)'
      BY <2>1, <2>2
    <3>1. RequestFits(q)
      BY DEF SuggestionsInv
    <3> QED
      BY <2>1, <2>4, <3>1, RequestStays
  <2> QED
    BY <2>1, <2>2, <2>4, <2>5, StoreStays
<1>2. CASE \E s \in Slots : BeginOnContent(s) \/ BeginOnSuggestion(s)
  BY <1>2, BeginsRequest
<1>3. CASE \E s \in Slots : ReadContent(s)
  BY <1>3, ReadsContent
<1>4. CASE \E s \in Slots : CommitProposal(s)
  BY <1>4, CommitsProposal
<1>5. CASE \E s \in Slots : CommitEdit(s) \/ CommitDraft(s)
  BY <1>5, CommitsText
<1>6. CASE \E s \in Slots : CommitAccept(s)
  BY <1>6, CommitsAccept
<1>7. CASE \E s \in Slots : CommitAnswer(s)
  BY <1>7, CommitsAnswer
<1>8. CASE \E s \in Slots : Abort(s)
  BY <1>8, AbortsRequest
<1>9. CASE \E c \in Contents : Post(c) \/ Remove(c)
  BY <1>9, PostsContent, RemovesContent
<1> QED
  BY <1>1, <1>2, <1>3, <1>4, <1>5, <1>6, <1>7, <1>8, <1>9 DEF Next

LEMMA TextsFollow == SuggestionsInv => TextsAccounted
<1> SUFFICES ASSUME SuggestionsInv PROVE AcceptedLeavesTrace
  BY DEF TextsAccounted, SuggestionsInv
<1> SUFFICES ASSUME NEW g \in Numbers, sugg[g].status = "accepted"
             PROVE  /\ uses[g] >= 1 /\ credits[sugg[g].of][sugg[g].by] >= 1
                    /\ sugg[g].of \in IsolatedContents => credits[sugg[g].of][sugg[g].by] = 1
  BY DEF AcceptedLeavesTrace
<1>1. uses[g] >= 1 /\ credits[sugg[g].of][sugg[g].by] >= 1
  BY DEF SuggestionsInv, SuggestionFits
<1>2. /\ sugg[g].of \in Contents /\ sugg[g].by \in Users
      /\ credits[sugg[g].of][sugg[g].by] \in Nat
  BY DEF SuggestionsInv, TypeOK, Sugg
<1>3. sugg[g].of \in IsolatedContents => credits[sugg[g].of][sugg[g].by] <= 1
  BY <1>2 DEF SuggestionsInv, ContentFits
<1> QED
  BY <1>1, <1>2, <1>3

\* Where the row of a suggestion stands in its course.
PhaseAt(r) ==
  IF r.status # "absent" /\ r.of \in IsolatedContents
  THEN IF r.status \in {"pending", "rejected"} THEN "open" ELSE r.status
  ELSE "absent"
UsesAt(r, n) == IF PhaseAt(r) = "absent" THEN 0 ELSE n

LEMMA PhaseCases ==
  ASSUME NEW r \in Sugg, NEW alone, alone <=> (r.status # "absent" => r.of \in IsolatedContents)
  PROVE  (CASE r.status \in {"pending", "rejected"} /\ alone -> "open"
            [] r.status \in {"retracted", "accepted"} /\ alone -> r.status
            [] OTHER -> "absent") = PhaseAt(r)
<1>1. r.status \in Statuses
  BY DEF Sugg
<1>2. CASE r.status = "absent"
  BY <1>2 DEF PhaseAt
<1>3. CASE r.status \in {"pending", "rejected"}
  BY <1>3 DEF PhaseAt
<1>4. CASE r.status \in {"retracted", "accepted"}
  BY <1>4 DEF PhaseAt
<1> QED
  BY <1>1, <1>2, <1>3, <1>4 DEF Statuses

\* The phases and uses before a step and after it.
LEMMA CourseOf ==
  ASSUME sugg \in [Numbers -> Sugg], sugg' \in [Numbers -> Sugg]
  PROVE  /\ Phase = [g \in Numbers |-> PhaseAt(sugg[g])]
         /\ Uses = [g \in Numbers |-> UsesAt(sugg[g], uses[g])]
         /\ Phase' = [g \in Numbers |-> PhaseAt(sugg'[g])]
         /\ Uses' = [g \in Numbers |-> UsesAt(sugg'[g], uses'[g])]
<1>1. Phase = [g \in Numbers |-> PhaseAt(sugg[g])]
  BY PhaseCases DEF Phase, Alone
<1>2. Phase' = [g \in Numbers |-> PhaseAt(sugg'[g])]
  BY PhaseCases DEF Phase, Alone
<1>3. \A g \in Numbers : Phase[g] = PhaseAt(sugg[g]) /\ Phase'[g] = PhaseAt(sugg'[g])
  BY <1>1, <1>2
<1>4. /\ Uses = [g \in Numbers |-> UsesAt(sugg[g], uses[g])]
      /\ Uses' = [g \in Numbers |-> UsesAt(sugg'[g], uses'[g])]
  BY <1>3 DEF Uses, UsesAt
<1> QED
  BY <1>1, <1>2, <1>4

LEMMA CourseMoves ==
  ASSUME sugg \in [Numbers -> Sugg], sugg' \in [Numbers -> Sugg], NEW g \in Numbers,
         \A h \in Numbers : h # g => sugg'[h] = sugg[h] /\ uses'[h] = uses[h],
         NEW from, from = PhaseAt(sugg[g]), NEW to, to = PhaseAt(sugg'[g]),
         NEW was, was = UsesAt(sugg[g], uses[g]), NEW is, is = UsesAt(sugg'[g], uses'[g]),
         \/ from = to /\ is = was
         \/ from = "absent" /\ to = "open" /\ is = was
         \/ from = "open" /\ to = "retracted" /\ is = was
         \/ from = "retracted" /\ to = "open" /\ is = was
         \/ from = "open" /\ to = "accepted" /\ is = was + 1
  PROVE  [Course!Next]_Course!vars
<1>1. /\ Phase = [h \in Numbers |-> PhaseAt(sugg[h])]
      /\ Uses = [h \in Numbers |-> UsesAt(sugg[h], uses[h])]
      /\ Phase' = [h \in Numbers |-> PhaseAt(sugg'[h])]
      /\ Uses' = [h \in Numbers |-> UsesAt(sugg'[h], uses'[h])]
  BY CourseOf
<1>2. Phase[g] = from /\ Uses[g] = was
  BY <1>1
<1>3. Phase' = [Phase EXCEPT ![g] = to]
  <2>1. \A h \in Numbers : PhaseAt(sugg'[h]) = IF h = g THEN to ELSE PhaseAt(sugg[h])
    OBVIOUS
  <2> QED
    BY <1>1, <2>1
<1>4. Uses' = [Uses EXCEPT ![g] = is]
  <2>1. \A h \in Numbers :
          UsesAt(sugg'[h], uses'[h]) = IF h = g THEN is ELSE UsesAt(sugg[h], uses[h])
    OBVIOUS
  <2> QED
    BY <1>1, <2>1
<1>5. is = was => Uses' = Uses
  <2>1. Uses = [Uses EXCEPT ![g] = Uses[g]]
    BY <1>1
  <2> QED
    BY <1>2, <1>4, <2>1
<1>6. from = to => Phase' = Phase
  <2>1. Phase = [Phase EXCEPT ![g] = Phase[g]]
    BY <1>1
  <2> QED
    BY <1>2, <1>3, <2>1
<1>7. CASE from = to /\ is = was
  BY <1>5, <1>6, <1>7 DEF Course!vars
<1>8. CASE from = "absent" /\ to = "open" /\ is = was
  BY <1>2, <1>3, <1>5, <1>8 DEF Course!Next, Course!Propose, Course!Move
<1>9. CASE from = "open" /\ to = "retracted" /\ is = was
  BY <1>2, <1>3, <1>5, <1>9 DEF Course!Next, Course!Retract, Course!Move
<1>10. CASE from = "retracted" /\ to = "open" /\ is = was
  BY <1>2, <1>3, <1>5, <1>10 DEF Course!Next, Course!Reopen, Course!Move
<1>11. CASE from = "open" /\ to = "accepted" /\ is = was + 1
  BY <1>2, <1>3, <1>4, <1>11 DEF Course!Next, Course!Accept, Course!Move
<1> QED
  BY <1>7, <1>8, <1>9, <1>10, <1>11

LEMMA FollowsCourse ==
  ASSUME SuggestionsInv, SuggestionsInv', Next \/ UNCHANGED vars
  PROVE  [Course!Next]_Course!vars
<1>1. sugg \in [Numbers -> Sugg] /\ sugg' \in [Numbers -> Sugg]
  BY DEF SuggestionsInv, TypeOK
<1>2. CASE UNCHANGED <<sugg, uses>>
  BY <1>1, <1>2, CourseOf DEF Course!vars
<1>3. ASSUME NEW s \in Slots, CommitProposal(s)
      PROVE  [Course!Next]_Course!vars
  <2> SUFFICES ASSUME NEW n, n = req[s].n,
                      NEW g0, g0 = [status |-> "pending", of |-> req[s].of, by |-> req[s].user,
                                    text |-> IF req[s].op = "propose" THEN n ELSE None]
               PROVE  [Course!Next]_Course!vars
    OBVIOUS
  <2>1. /\ s \in Active /\ req[s].op \in Proposals /\ sugg' = [sugg EXCEPT ![n] = g0]
        /\ uses' = uses
    BY <1>3 DEF CommitProposal, At, Active, Proposals
  <2>2. RequestFits(req[s])
    BY <2>1 DEF SuggestionsInv
  <2>3. n \in Numbers
    <3>1. n \in 1..served /\ served \in 0..MaxRequests
      BY <2>2 DEF RequestFits, SuggestionsInv, TypeOK
    <3> QED
      BY <3>1, ConstantsAssumption DEF Numbers
  <2>4. sugg[n].status = "absent" /\ uses[n] = 0
    BY <2>1, <2>2, <2>3 DEF RequestFits, SuggestionsInv, SuggestionFits
  <2>5. sugg'[n] = g0 /\ (\A h \in Numbers : h # n => sugg'[h] = sugg[h] /\ uses'[h] = uses[h])
    BY <1>1, <2>1, <2>3
  <2>6. PhaseAt(sugg[n]) = "absent" /\ PhaseAt(g0) \in {"absent", "open"}
    BY <2>4 DEF PhaseAt
  <2>7. UsesAt(sugg[n], uses[n]) = 0 /\ UsesAt(sugg'[n], uses'[n]) = 0
    BY <2>1, <2>4 DEF UsesAt
  <2> QED
    BY <1>1, <2>3, <2>5, <2>6, <2>7, CourseMoves
<1>4. ASSUME NEW s \in Slots, CommitAccept(s) \/ CommitAnswer(s)
      PROVE  [Course!Next]_Course!vars
  <2> SUFFICES ASSUME NEW g, g = req[s].g, NEW c, c = req[s].of, NEW op, op = req[s].op,
                      NEW st, st = NetChange(Outcome(op), req[s].sugg.status, sugg[g].status)
               PROVE  [Course!Next]_Course!vars
    OBVIOUS
  <2>1. /\ s \in Active /\ req[s].pc = "commit" /\ op \in Answers
        /\ sugg' = [sugg EXCEPT ![g].status = st]
        /\ op = "accept" => uses' = [uses EXCEPT ![g] = uses[g] + 1]
        /\ op # "accept" => uses' = uses
    BY <1>4 DEF CommitAccept, CommitAnswer, At, Active, Answers, Settled
  <2>2. /\ g \in Numbers /\ sugg[g] \in Sugg /\ sugg[g].of = c /\ sugg[g].status # "absent"
        /\ Follows(op, req[s].sugg.status)
        /\ c \in IsolatedContents => sugg[g].status = req[s].sugg.status
    BY <2>1, AnswerLoaded
  <2>3. PICK g0 : g0 = [sugg[g] EXCEPT !.status = st]
    OBVIOUS
  <2>4. /\ g0.status = st /\ g0.of = c /\ sugg' = [sugg EXCEPT ![g] = g0]
    BY <2>1, <2>2, <2>3 DEF Sugg
  <2>5. /\ sugg'[g] = g0 /\ uses \in [Numbers -> Nat]
        /\ \A h \in Numbers : h # g => sugg'[h] = sugg[h] /\ uses'[h] = uses[h]
        /\ uses'[g] = IF op = "accept" THEN uses[g] + 1 ELSE uses[g]
    BY <1>1, <2>1, <2>2, <2>4 DEF SuggestionsInv, TypeOK
  <2>6. CASE c \notin IsolatedContents
    <3>1. PhaseAt(sugg[g]) = "absent" /\ PhaseAt(sugg'[g]) = "absent"
      BY <2>2, <2>4, <2>5, <2>6 DEF PhaseAt
    <3>2. UsesAt(sugg[g], uses[g]) = 0 /\ UsesAt(sugg'[g], uses'[g]) = 0
      BY <3>1 DEF UsesAt
    <3> QED
      BY <1>1, <2>2, <2>5, <3>1, <3>2, CourseMoves
  <2>7. CASE c \in IsolatedContents
    <3>1. /\ op = "reopen" => sugg[g].status = "retracted" /\ st = "pending"
          /\ op = "accept" => sugg[g].status \in {"pending", "rejected"} /\ st = "accepted"
          /\ op = "retract" => sugg[g].status \in {"pending", "rejected"} /\ st = "retracted"
          /\ op = "reject" => sugg[g].status \in {"pending", "rejected"} /\ st = "rejected"
      BY <2>2, <2>7 DEF Follows, NetChange, Outcome
    <3>2. /\ op = "reopen" => PhaseAt(sugg[g]) = "retracted" /\ PhaseAt(sugg'[g]) = "open"
          /\ op = "accept" => PhaseAt(sugg[g]) = "open" /\ PhaseAt(sugg'[g]) = "accepted"
          /\ op = "retract" => PhaseAt(sugg[g]) = "open" /\ PhaseAt(sugg'[g]) = "retracted"
          /\ op = "reject" => PhaseAt(sugg[g]) = "open" /\ PhaseAt(sugg'[g]) = "open"
      BY <2>2, <2>4, <2>5, <2>7, <3>1 DEF PhaseAt
    <3>3. op \in {"reopen", "accept", "retract", "reject"}
      BY <2>1 DEF Answers
    <3>4. UsesAt(sugg[g], uses[g]) = uses[g] /\ UsesAt(sugg'[g], uses'[g]) = uses'[g]
      BY <3>2, <3>3 DEF UsesAt
    <3>5. CASE op = "accept"
      BY <1>1, <2>2, <2>5, <3>2, <3>4, <3>5, CourseMoves
    <3>6. CASE op # "accept"
      BY <1>1, <2>2, <2>5, <3>2, <3>3, <3>4, <3>6, CourseMoves
    <3> QED
      BY <3>5, <3>6
  <2> QED
    BY <2>6, <2>7
<1>5. CASE UNCHANGED vars
  BY <1>2, <1>5 DEF vars, store
<1>6. ASSUME NEW s \in Slots,
             \/ BeginOnContent(s) \/ BeginOnSuggestion(s) \/ ReadContent(s) \/ CommitEdit(s)
             \/ CommitDraft(s) \/ Abort(s)
      PROVE  UNCHANGED <<sugg, uses>>
  BY <1>6 DEF BeginOnContent, BeginOnSuggestion, Start, ReadContent, CommitEdit, CommitDraft,
              Abort, store
<1>7. ASSUME NEW c \in Contents, Post(c) \/ Remove(c)
      PROVE  UNCHANGED <<sugg, uses>>
  BY <1>7 DEF Post, Remove
<1> QED
  BY <1>2, <1>3, <1>4, <1>5, <1>6, <1>7 DEF Next

LEMMA SuggestionsRun ==
  ASSUME [CommunityNext]_communityVars
  PROVE  Next \/ UNCHANGED vars
BY DEF CommunityNext, communityVars, RunSuggestions, RunDelivery, RunCommenting, RunLinks,
       RunAccounts, RunViews, RunTimeline, RunInterests, RunChannels

\* An accepted suggestion has been put into its content and its author is among the contributors,
\* whatever overlaps; no public text is lost by edits and acceptances of a content on which requests
\* do not overlap (services/answer_suggest_edits.py, services/submission_suggestions.py,
\* services/questions.py).
THEOREM TextsAlwaysAccounted == CommunitySpec => []TextsAccounted
<1>1. SuggestionsInv /\ [CommunityNext]_communityVars => SuggestionsInv'
  BY SuggestionsRun, SuggestionsStep
<1> QED BY <1>1, SuggestionsInit, TextsFollow, PTL DEF CommunitySpec

LEMMA CourseInit == CommunityInit => Course!Init
<1> SUFFICES ASSUME CommunityInit PROVE Course!Init
  OBVIOUS
<1>1. /\ sugg = [g \in Numbers |-> NoSugg]
  BY DEF CommunityInit, Init
<1>2. \A g \in Numbers : PhaseAt(sugg[g]) = "absent"
  BY <1>1 DEF PhaseAt, NoSugg
<1>3. sugg \in [Numbers -> Sugg]
  BY SuggestionsInit DEF SuggestionsInv, TypeOK
<1>4. Phase = [g \in Numbers |-> PhaseAt(sugg[g])]
  BY <1>3, PhaseCases DEF Phase, Alone
<1>5. Phase = [g \in Numbers |-> "absent"]
  BY <1>2, <1>4
<1>6. Uses = [g \in Numbers |-> 0]
  BY <1>5 DEF Uses
<1> QED
  BY <1>5, <1>6 DEF Course!Init

\* Where the requests on a content do not overlap, each of its suggestions takes the course of
\* Suggestion: every step of the handlers is a step of that course or leaves it where it is.
THEOREM SuggestionsImplementCourse == CommunitySpec => ImplementsCourse
<1>1. SuggestionsInv /\ [CommunityNext]_communityVars => SuggestionsInv'
  BY SuggestionsRun, SuggestionsStep
<1>2. SuggestionsInv /\ SuggestionsInv' /\ [CommunityNext]_communityVars => [Course!Next]_Course!vars
  BY SuggestionsRun, FollowsCourse
<1> QED BY <1>1, <1>2, SuggestionsInit, CourseInit, PTL DEF CommunitySpec, ImplementsCourse, Course!Spec

-----------------------------------------------------------------------------
(* Delivery of events.                                                    *)

\* The ids of a verb.
LEMMA IdsAre ==
  /\ \A v \in DOMAIN D!CreationEvents : D!Ids[v] = D!CreationEvents[v]
  /\ \A v \in DOMAIN D!RewardEvents : D!Ids[v] = D!RewardEvents[v]
  /\ \A v \in DOMAIN D!ReplyEvents : D!Ids[v] = D!ReplyEvents[v]
  /\ \A v \in DOMAIN D!VoteEvents : D!Ids[v] = D!VoteEvents[v]
  /\ \A v \in DOMAIN D!FollowEvents : D!Ids[v] = D!FollowEvents[v]
BY DEF D!Ids, D!Verbs, D!CreationEvents, D!RewardEvents, D!ReplyEvents, D!VoteEvents, D!FollowEvents

\* Every audience the policy names is one that the ids of the event lead to.
LEMMA PolicyReaches ==
  ASSUME NEW v \in D!Verbs, NEW a \in D!Notifies(v) \cup D!FeedAudience(v),
         a # "mentioned_users"
  PROVE  D!Reaches(a, D!Ids[v])
<1>1. CASE v \in DOMAIN D!CreationEvents
  BY <1>1, IdsAre DEF D!CreationEvents, D!Notifies, D!FeedAudience, D!EditNotifies, D!SiteNotifies,
     D!CommentNotifies, D!Comments, D!Reaches, D!ReachesAnswer, D!ReachesQuestion, D!ReachesSubmission
<1>2. CASE v \in DOMAIN D!RewardEvents
  BY <1>2, IdsAre DEF D!RewardEvents, D!Notifies, D!FeedAudience, D!EditNotifies, D!SiteNotifies,
     D!CommentNotifies, D!Comments, D!Reaches, D!ReachesAnswer, D!ReachesQuestion, D!ReachesSubmission
<1>3. CASE v \in DOMAIN D!ReplyEvents
  BY <1>3, IdsAre DEF D!ReplyEvents, D!Notifies, D!FeedAudience, D!EditNotifies, D!SiteNotifies,
     D!CommentNotifies, D!Comments, D!Reaches, D!ReachesAnswer, D!ReachesQuestion, D!ReachesSubmission
<1>4. CASE v \in DOMAIN D!VoteEvents
  BY <1>4, IdsAre DEF D!VoteEvents, D!Notifies, D!FeedAudience, D!EditNotifies, D!SiteNotifies,
     D!CommentNotifies, D!Comments, D!Reaches, D!ReachesAnswer, D!ReachesQuestion, D!ReachesSubmission
<1>5. CASE v \in DOMAIN D!FollowEvents
  BY <1>5, IdsAre DEF D!FollowEvents, D!Notifies, D!FeedAudience, D!EditNotifies, D!SiteNotifies,
     D!CommentNotifies, D!Comments, D!Reaches, D!ReachesAnswer, D!ReachesQuestion, D!ReachesSubmission
<1> QED
  BY <1>1, <1>2, <1>3, <1>4, <1>5 DEF D!Verbs

\* What has a feed audience is an Activity, whatever the request says.
LEMMA FeedsAreActivities ==
  ASSUME NEW v \in D!Verbs, D!FeedAudience(v) # {}
  PROVE  D!WritesActivity(v) /\ v \notin D!Comments
BY DEF D!FeedAudience, D!WritesActivity, D!Comments

\* The members of audiences, of which st knows the fans.
MembersOf(audiences, st) == UNION {D!Members(a, st) : a \in audiences \ {"mentioned_users"}}
Told(e) == e.notes \cup e.todo

\* What an event in progress has written serves the members of its audiences who were members
\* all along, of which st knows; and those are still members.
EventFits(e, st) ==
  /\ e.pc # "none" =>
       /\ \A a \in DOMAIN Fans : st[a] \subseteq fans[a]
       /\ e.sinks \in D!Ways(e.verb)
  /\ e.pc \in {"feed", "notes"} => e.notes = {}
  /\ e.pc \in {"notes", "push", "done"} =>
       /\ e.activity <=> /\ "activity" \in e.sinks /\ D!WritesActivity(e.verb)
                         /\ e.verb \in D!Comments => e.shared
       /\ "feed" \in e.sinks => MembersOf(D!FeedAudience(e.verb), st) \subseteq e.feed
  /\ e.pc \in {"push", "done"} =>
       /\ "notification" \in e.sinks =>
            MembersOf(D!Notifies(e.verb), st) \ D!Excluded(e) \subseteq Told(e)
       /\ D!ExcludesSubject(e.verb) => e.subject \notin Told(e)
  /\ e.pc = "done" => e.todo = {}

DeliveryInv == D!TypeOK /\ \A n \in D!Events : EventFits(event[n], steady[n])

LEMMA EventsServed == DeliveryInv => D!EverySinkServed
BY DEF DeliveryInv, EventFits, Told, MembersOf, D!EverySinkServed, D!Owed, D!Excluded

LEMMA NoEventType == D!NoEvent \in D!EventRow /\ D!NoEvent.pc = "none"
<1>1. (CHOOSE u \in Readers : TRUE) \in Readers
  BY DeliveryBounds
<1>2. "create_question" \in D!Verbs
  BY DEF D!Verbs, D!CreationEvents
<1> QED
  BY <1>1, <1>2 DEF D!NoEvent, D!EventRow, D!AllSinks

LEMMA DeliveryInit == D!Init => DeliveryInv
<1> SUFFICES ASSUME D!Init PROVE DeliveryInv
  OBVIOUS
<1>1. D!TypeOK
  BY DeliveryBounds, NoEventType DEF D!Init, D!TypeOK, D!Moving
<1>2. \A n \in D!Events : EventFits(event[n], steady[n])
  BY NoEventType DEF D!Init, EventFits
<1> QED
  BY <1>1, <1>2 DEF DeliveryInv

\* Audiences lose those who leave.
LEMMA MembersShrink ==
  ASSUME NEW who, NEW st, NEW st2, \A a \in DOMAIN Fans : st2[a] \subseteq st[a]
  PROVE  MembersOf(who, st2) \subseteq MembersOf(who, st)
BY DEF MembersOf, D!Members, D!Moving

\* An audience of the policy is resolved to its members, who are readers.
LEMMA Resolved ==
  ASSUME NEW v \in D!Verbs, NEW who, who = D!Notifies(v) \/ who = D!FeedAudience(v)
  PROVE  \A st : MembersOf(who, st) \subseteq D!Resolve(who, v, st)
BY PolicyReaches DEF MembersOf, D!Resolve

LEMMA ResolvedReaders ==
  ASSUME NEW v \in D!Verbs, NEW who, who = D!Notifies(v) \/ who = D!FeedAudience(v),
         NEW st, st \in [DOMAIN Fans -> SUBSET Readers]
  PROVE  D!Resolve(who, v, st) \subseteq Readers
<1>1. ~D!Reaches("mentioned_users", D!Ids[v])
  BY DEF D!Reaches
<1>2. \A a \in who : a # "mentioned_users" => D!Members(a, st) \subseteq Readers
  <2>1. \A a \in who : a \notin DOMAIN Fans /\ a # "mentioned_users" => Holder[a] \in Readers
    BY DeliveryBounds
  <2>2. \A a \in DOMAIN Fans : st[a] \subseteq Readers
    OBVIOUS
  <2> QED
    BY <2>1, <2>2 DEF D!Members, D!Moving
<1> QED
  BY <1>1, <1>2 DEF D!Resolve

\* An event moves on; the others and their audiences stay.
LEMMA EventMoves ==
  ASSUME DeliveryInv, NEW n \in D!Events, NEW e, e \in D!EventRow, EventFits(e, steady[n]),
         event' = [event EXCEPT ![n] = e], UNCHANGED <<fans, steady>>
  PROVE  event' \in [D!Events -> D!EventRow] /\ \A m \in D!Events : EventFits(event[m], steady[m])'
<1>1. event'[n] = e /\ \A m \in D!Events \ {n} : event'[m] = event[m]
  BY DEF DeliveryInv, D!TypeOK
<1>2. \A m \in D!Events : EventFits(event'[m], steady[m])
  BY <1>1 DEF DeliveryInv
<1>3. \A m \in D!Events : EventFits(event[m], steady[m])'
  BY <1>2 DEF EventFits
<1> QED
  BY <1>3 DEF DeliveryInv, D!TypeOK

LEMMA EventsOnly ==
  ASSUME DeliveryInv, NEW n \in D!Events, NEW e, e \in D!EventRow,
         EventFits(e, steady[n]), event' = [event EXCEPT ![n] = e],
         UNCHANGED <<fans, moves, steady, queue, heard, lost, table, sock, loop, restarts>>
  PROVE  DeliveryInv'
BY EventMoves DEF DeliveryInv, D!TypeOK

LEMMA AudienceMoves ==
  ASSUME DeliveryInv, NEW a \in D!Moving, NEW u \in Readers, D!Move(a, u)
  PROVE  DeliveryInv'
<1>1. /\ moves < MaxMoves /\ moves' = moves + 1
      /\ fans' = [fans EXCEPT ![a] = IF u \in @ THEN @ \ {u} ELSE @ \cup {u}]
      /\ steady' = [n \in D!Events |-> IF event[n].pc = "none" THEN fans'
                                       ELSE [steady[n] EXCEPT ![a] = @ \ {u}]]
      /\ UNCHANGED <<event, queue, heard, lost, table, sock, loop, restarts>>
  BY DEF D!Move, D!wires
<1>2. fans' \in [D!Moving -> SUBSET Readers]
  BY <1>1 DEF DeliveryInv, D!TypeOK
<1>3. steady' \in [D!Events -> [D!Moving -> SUBSET Readers]]
  BY <1>1, <1>2 DEF DeliveryInv, D!TypeOK
<1>4. ASSUME NEW n \in D!Events
      PROVE  EventFits(event[n], steady[n])'
  <2>1. event[n].pc # "none" =>
          \A b \in DOMAIN Fans : steady'[n][b] \subseteq steady[n][b] /\ steady'[n][b] \subseteq fans'[b]
    BY <1>1 DEF DeliveryInv, D!TypeOK, EventFits, D!Moving
  <2>2. EventFits(event[n], steady[n])
    BY DEF DeliveryInv
  <2>3. event[n].pc # "none" =>
          \A who : MembersOf(who, steady'[n]) \subseteq MembersOf(who, steady[n])
    BY <2>1, MembersShrink
  <2> QED
    BY <1>1, <2>1, <2>2, <2>3 DEF EventFits, Told
<1>5. MaxMoves \in Nat
  BY DeliveryBounds
<1>6. D!TypeOK'
  BY <1>1, <1>2, <1>3, <1>5 DEF DeliveryInv, D!TypeOK
<1> QED
  BY <1>4, <1>6 DEF DeliveryInv

LEMMA EventBegins ==
  ASSUME DeliveryInv, NEW n \in D!Events, D!Begin(n)
  PROVE  DeliveryInv'
<1>1. PICK verb \in Emits[n], u \in Subjects, shared \in BOOLEAN, private \in BOOLEAN :
    /\ event[n].pc = "none"
    /\ shared => verb \in D!Comments
    /\ private => D!Asks(verb) \cap (D!SiteBound \cup {"answer_suggest_edit"}) # {}
                  /\ "article" \notin D!Ids[verb]
    /\ \E sinks \in D!Ways(verb), receivers \in D!Mentioned(verb) :
         /\ sinks = {"activity"} => shared
         /\ event' = [event EXCEPT ![n] =
              [D!NoEvent EXCEPT !.pc = IF verb = "mentioned_in_comment" THEN "push" ELSE "feed",
                              !.verb = verb, !.subject = u, !.sinks = sinks,
                              !.shared = shared, !.private = private, !.todo = receivers]]
    /\ steady' = [steady EXCEPT ![n] = fans]
    /\ UNCHANGED <<D!counts, queue, D!wires>>
  BY DEF D!Begin
<1>2. PICK sinks \in D!Ways(verb), receivers \in D!Mentioned(verb) :
        event' = [event EXCEPT ![n] =
              [D!NoEvent EXCEPT !.pc = IF verb = "mentioned_in_comment" THEN "push" ELSE "feed",
                              !.verb = verb, !.subject = u, !.sinks = sinks,
                              !.shared = shared, !.private = private, !.todo = receivers]]
  BY <1>1
<1>3. /\ steady' = [steady EXCEPT ![n] = fans]
      /\ UNCHANGED <<fans, moves, queue, heard, lost, table, sock, loop, restarts>>
  BY DEF D!Begin, D!counts, D!wires
<1> DEFINE e == [D!NoEvent EXCEPT !.pc = IF verb = "mentioned_in_comment" THEN "push" ELSE "feed",
                              !.verb = verb, !.subject = u, !.sinks = sinks,
                              !.shared = shared, !.private = private, !.todo = receivers]
<1>4. verb \in D!Verbs /\ u \in Readers /\ receivers \subseteq Readers /\ sinks \subseteq D!AllSinks
  BY DeliveryBounds DEF D!Mentioned, D!Ways, D!AllSinks
<1>5. e \in D!EventRow
  BY <1>4, NoEventType DEF D!EventRow
<1>6. /\ e.pc = IF verb = "mentioned_in_comment" THEN "push" ELSE "feed"
      /\ e.verb = verb /\ e.subject = u /\ e.sinks = sinks /\ e.shared = shared
      /\ e.activity = FALSE /\ e.feed = {} /\ e.notes = {} /\ e.todo = receivers
  BY DEF D!NoEvent
<1>7. event'[n] = e /\ \A m \in D!Events \ {n} : event'[m] = event[m]
  BY <1>2 DEF DeliveryInv, D!TypeOK
<1> HIDE DEF e
<1>8. steady'[n] = fans /\ \A m \in D!Events \ {n} : steady'[m] = steady[m]
  BY <1>3 DEF DeliveryInv, D!TypeOK
<1>9. D!TypeOK'
  BY <1>2, <1>3, <1>5 DEF DeliveryInv, D!TypeOK, e
<1>10. EventFits(event[n], steady[n])'
  <2>1. verb = "mentioned_in_comment" =>
          /\ ~D!WritesActivity(verb) /\ D!FeedAudience(verb) = {} /\ ~D!ExcludesSubject(verb)
          /\ D!Notifies(verb) = {"mentioned_users"}
    BY DEF D!WritesActivity, D!FeedAudience, D!ExcludesSubject, D!Notifies, D!CommentNotifies, D!Comments
  <2>2. \A a \in DOMAIN Fans : steady'[n][a] \subseteq fans'[a]
    BY <1>3, <1>8
  <2>3. verb = "mentioned_in_comment" =>
          /\ MembersOf(D!FeedAudience(verb), fans) = {} /\ MembersOf(D!Notifies(verb), fans) = {}
    BY <2>1 DEF MembersOf
  <2> QED
    BY <1>6, <1>7, <1>8, <2>1, <2>2, <2>3 DEF EventFits
<1>11. ASSUME NEW m \in D!Events \ {n}
       PROVE  EventFits(event[m], steady[m])'
  <2>1. EventFits(event[m], steady[m])
    BY DEF DeliveryInv
  <2> QED
    BY <1>3, <1>7, <1>8, <2>1 DEF EventFits, Told
<1> QED
  BY <1>9, <1>10, <1>11 DEF DeliveryInv

LEMMA FeedWritten ==
  ASSUME DeliveryInv, NEW n \in D!Events, D!WriteFeed(n)
  PROVE  DeliveryInv'
<1> SUFFICES ASSUME NEW e, e = event[n],
                    NEW writes \in BOOLEAN,
                    writes <=> /\ "activity" \in e.sinks /\ D!WritesActivity(e.verb)
                               /\ e.verb \in D!Comments => e.shared,
                    NEW feed, feed = IF writes /\ "feed" \in e.sinks
                                     THEN D!Resolve(D!FeedAudience(e.verb), e.verb, fans) ELSE {},
                    NEW q, q = [e EXCEPT !.pc = "notes", !.activity = writes, !.feed = feed]
             PROVE  DeliveryInv'
  OBVIOUS
<1>1. /\ e \in D!EventRow /\ EventFits(e, steady[n]) /\ e.verb \in D!Verbs
      /\ fans \in [DOMAIN Fans -> SUBSET Readers]
  BY DEF DeliveryInv, D!TypeOK, D!EventRow, D!Moving
<1>2. /\ e.pc = "feed" /\ event' = [event EXCEPT ![n] = q]
      /\ UNCHANGED <<fans, moves, steady, queue, heard, lost, table, sock, loop, restarts>>
  BY <1>1 DEF D!WriteFeed, D!Precondition, D!counts, D!wires, D!EventRow
<1>3. feed \subseteq Readers
  BY <1>1, ResolvedReaders
<1>4. q \in D!EventRow
  BY <1>1, <1>3 DEF D!EventRow
<1>5. /\ q.pc = "notes" /\ q.activity = writes /\ q.feed = feed /\ q.notes = e.notes
      /\ q.verb = e.verb /\ q.sinks = e.sinks /\ q.shared = e.shared
  BY <1>1 DEF D!EventRow
<1>6. "feed" \in e.sinks => MembersOf(D!FeedAudience(e.verb), steady[n]) \subseteq feed
  <2>1. CASE D!FeedAudience(e.verb) = {}
    BY <2>1 DEF MembersOf
  <2>2. CASE D!FeedAudience(e.verb) # {} /\ "feed" \in e.sinks
    <3>1. writes
      BY <1>1, <1>2, <2>2, FeedsAreActivities DEF EventFits, D!Ways, D!AllSinks
    <3>2. MembersOf(D!FeedAudience(e.verb), steady[n]) \subseteq MembersOf(D!FeedAudience(e.verb), fans)
      BY <1>1, <1>2, MembersShrink DEF EventFits
    <3>3. MembersOf(D!FeedAudience(e.verb), fans) \subseteq D!Resolve(D!FeedAudience(e.verb), e.verb, fans)
      BY <1>1, Resolved
    <3> QED
      BY <2>2, <3>1, <3>2, <3>3
  <2> QED
    BY <2>1, <2>2
<1>7. EventFits(q, steady[n])
  BY <1>1, <1>2, <1>5, <1>6 DEF EventFits
<1> QED
  BY <1>2, <1>4, <1>7, EventsOnly

LEMMA NotesResolved ==
  ASSUME DeliveryInv, NEW n \in D!Events, D!ResolveNotes(n)
  PROVE  DeliveryInv'
<1> SUFFICES ASSUME NEW e, e = event[n],
                    NEW todo, todo = IF "notification" \in e.sinks
                                     THEN D!Resolve(D!Notifies(e.verb), e.verb, fans) \ D!Excluded(e)
                                     ELSE {},
                    NEW q, q = [e EXCEPT !.pc = "push", !.todo = todo]
             PROVE  DeliveryInv'
  OBVIOUS
<1>1. /\ e \in D!EventRow /\ EventFits(e, steady[n]) /\ e.verb \in D!Verbs
      /\ fans \in [DOMAIN Fans -> SUBSET Readers]
  BY DEF DeliveryInv, D!TypeOK, D!EventRow, D!Moving
<1>2. /\ e.pc = "notes" /\ event' = [event EXCEPT ![n] = q]
      /\ UNCHANGED <<fans, moves, steady, queue, heard, lost, table, sock, loop, restarts>>
  BY <1>1 DEF D!ResolveNotes, D!counts, D!wires, D!EventRow
<1>3. todo \subseteq Readers
  BY <1>1, ResolvedReaders
<1>4. q \in D!EventRow
  BY <1>1, <1>3 DEF D!EventRow
<1>5. /\ q.pc = "push" /\ q.activity = e.activity /\ q.feed = e.feed /\ q.notes = e.notes
      /\ q.verb = e.verb /\ q.sinks = e.sinks /\ q.shared = e.shared /\ q.todo = todo
      /\ q.subject = e.subject
  BY <1>1 DEF D!EventRow
<1>6. "notification" \in e.sinks => MembersOf(D!Notifies(e.verb), steady[n]) \ D!Excluded(e) \subseteq todo
  <2>1. MembersOf(D!Notifies(e.verb), steady[n]) \subseteq MembersOf(D!Notifies(e.verb), fans)
    BY <1>1, <1>2, MembersShrink DEF EventFits
  <2>2. MembersOf(D!Notifies(e.verb), fans) \subseteq D!Resolve(D!Notifies(e.verb), e.verb, fans)
    BY <1>1, Resolved
  <2> QED
    BY <2>1, <2>2
<1>7. D!ExcludesSubject(e.verb) => e.subject \notin todo
  BY DEF D!Excluded
<1>8. D!Excluded(q) = D!Excluded(e)
  BY <1>5 DEF D!Excluded
<1>9. EventFits(q, steady[n])
  BY <1>1, <1>2, <1>5, <1>6, <1>7, <1>8 DEF EventFits, Told
<1> QED
  BY <1>2, <1>4, <1>9, EventsOnly

LEMMA ReceiverNotified ==
  ASSUME DeliveryInv, NEW n \in D!Events, NEW u \in Readers, D!Notify(n, u)
  PROVE  DeliveryInv'
<1> SUFFICES ASSUME NEW e, e = event[n],
                    NEW q, q = [e EXCEPT !.todo = @ \ {u}, !.notes = @ \cup {u}]
             PROVE  DeliveryInv'
  OBVIOUS
<1>1. e \in D!EventRow /\ EventFits(e, steady[n])
  BY DEF DeliveryInv, D!TypeOK
<1>2. /\ e.pc = "push" /\ u \in e.todo
      /\ event' = [event EXCEPT ![n] = q]
      /\ UNCHANGED <<fans, moves, steady, heard, lost, table, sock, loop, restarts>>
      /\ queue' = [queue EXCEPT ![u] = Append(queue[u], n)] \/ queue' = queue
  BY <1>1 DEF D!Notify, D!Queued, D!counts, D!wires, D!EventRow
<1>3. q \in D!EventRow
  BY <1>1, <1>2 DEF D!EventRow
<1>4. /\ q.pc = e.pc /\ q.activity = e.activity /\ q.feed = e.feed /\ Told(q) = Told(e)
      /\ q.verb = e.verb /\ q.sinks = e.sinks /\ q.shared = e.shared /\ q.subject = e.subject
  BY <1>1, <1>2 DEF D!EventRow, Told
<1>5. D!Excluded(q) = D!Excluded(e)
  BY <1>4 DEF D!Excluded
<1>6. EventFits(q, steady[n])
  BY <1>1, <1>2, <1>4, <1>5 DEF EventFits
<1>7. queue' \in [Readers -> Seq(D!Events)]
  <2>1. queue \in [Readers -> Seq(D!Events)] /\ Append(queue[u], n) \in Seq(D!Events)
    BY DEF DeliveryInv, D!TypeOK
  <2> QED
    BY <1>2, <2>1
<1>8. event' \in [D!Events -> D!EventRow] /\ \A m \in D!Events : EventFits(event[m], steady[m])'
  BY <1>2, <1>3, <1>6, EventMoves
<1> QED
  BY <1>2, <1>7, <1>8 DEF DeliveryInv, D!TypeOK

LEMMA EventEnds ==
  ASSUME DeliveryInv, NEW n \in D!Events, D!Commit(n) \/ D!Abort(n)
  PROVE  DeliveryInv'
<1>1. event[n] \in D!EventRow /\ EventFits(event[n], steady[n])
  BY DEF DeliveryInv, D!TypeOK
<1>2. UNCHANGED <<fans, moves, steady, queue, heard, lost, table, sock, loop, restarts>>
  BY DEF D!Commit, D!Abort, D!counts, D!wires
<1>3. CASE D!Commit(n)
  <2> SUFFICES ASSUME NEW e, e = event[n], NEW q, q = [e EXCEPT !.pc = "done"]
               PROVE  DeliveryInv'
    OBVIOUS
  <2>1. e.pc = "push" /\ e.todo = {} /\ event' = [event EXCEPT ![n] = q]
    BY <1>1, <1>3 DEF D!Commit, D!Finished, D!EventRow
  <2>2. /\ q \in D!EventRow /\ q.pc = "done" /\ q.activity = e.activity /\ q.feed = e.feed
        /\ q.todo = {} /\ Told(q) = Told(e) /\ q.verb = e.verb /\ q.sinks = e.sinks
        /\ q.shared = e.shared /\ q.subject = e.subject
    BY <1>1, <2>1 DEF D!EventRow, Told
  <2>3. D!Excluded(q) = D!Excluded(e)
    BY <2>2 DEF D!Excluded
  <2>4. EventFits(q, steady[n])
    BY <1>1, <2>1, <2>2, <2>3 DEF EventFits
  <2> QED
    BY <1>2, <2>1, <2>2, <2>4, EventsOnly
<1>4. CASE D!Abort(n)
  <2> SUFFICES ASSUME NEW e, e = event[n], NEW q, q = D!Undone(e)
               PROVE  DeliveryInv'
    OBVIOUS
  <2>1. e.pc # "none" /\ event' = [event EXCEPT ![n] = q]
    BY <1>1, <1>4 DEF D!Abort
  <2>2. q \in D!EventRow /\ q.pc = "undone" /\ q.verb = e.verb /\ q.sinks = e.sinks
    BY <1>1 DEF D!Undone, D!EventRow
  <2>3. EventFits(q, steady[n])
    BY <1>1, <2>1, <2>2 DEF EventFits
  <2> QED
    BY <1>2, <2>1, <2>2, <2>3, EventsOnly
<1> QED
  BY <1>3, <1>4

LEMMA SocketsMove ==
  ASSUME DeliveryInv, NEW x \in Sockets, D!Connect(x) \/ D!Drop(x) \/ D!Poll(x)
  PROVE  DeliveryInv'
<1>1. UNCHANGED <<fans, moves, event, steady, restarts>>
  BY DEF D!Connect, D!Drop, D!Poll, D!counts, D!rows
<1>2. \A n \in D!Events : EventFits(event[n], steady[n])'
  BY <1>1 DEF DeliveryInv, EventFits, Told
<1>3. SocketOf[x] \in Readers
  BY DeliveryBounds
<1>4. CASE D!Connect(x) \/ D!Drop(x)
  BY <1>1, <1>2, <1>3, <1>4 DEF D!Connect, D!Drop, DeliveryInv, D!TypeOK
<1>5. CASE D!Poll(x)
  <2>1. /\ queue[SocketOf[x]] \in Seq(D!Events) /\ queue[SocketOf[x]] # <<>>
        /\ heard[SocketOf[x]] \in Seq(D!Events)
    BY <1>3, <1>5 DEF D!Poll, DeliveryInv, D!TypeOK
  <2>2. Head(queue[SocketOf[x]]) \in D!Events /\ Tail(queue[SocketOf[x]]) \in Seq(D!Events)
    BY <2>1
  <2>3. Append(heard[SocketOf[x]], Head(queue[SocketOf[x]])) \in Seq(D!Events)
    BY <2>1, <2>2
  <2>4. /\ queue' \in [Readers -> Seq(D!Events)]
        /\ heard' \in [Readers -> Seq(D!Events)] /\ lost' \in [Readers -> SUBSET D!Events]
    <3>1. /\ queue' = [queue EXCEPT ![SocketOf[x]] = Tail(@)]
          /\ \/ heard' = heard
             \/ heard' = [heard EXCEPT ![SocketOf[x]] = Append(@, Head(queue[SocketOf[x]]))]
          /\ \/ lost' = lost
             \/ lost' = [lost EXCEPT ![SocketOf[x]] = @ \cup {Head(queue[SocketOf[x]])}]
      BY <1>5, Zenon DEF D!Poll
    <3>2. /\ queue \in [Readers -> Seq(D!Events)] /\ heard \in [Readers -> Seq(D!Events)]
          /\ lost \in [Readers -> SUBSET D!Events]
      BY DEF DeliveryInv, D!TypeOK
    <3>3. queue' \in [Readers -> Seq(D!Events)]
      BY <1>3, <2>2, <3>1, <3>2
    <3>4. heard' \in [Readers -> Seq(D!Events)]
      BY <1>3, <2>3, <3>1, <3>2
    <3>5. lost' \in [Readers -> SUBSET D!Events]
      <4>1. lost[SocketOf[x]] \cup {Head(queue[SocketOf[x]])} \in SUBSET D!Events
        BY <1>3, <2>2, <3>2
      <4> QED
        BY <1>3, <3>1, <3>2, <4>1
    <3> QED
      BY <3>3, <3>4, <3>5
  <2>5. /\ table' \in [Readers -> Sockets \cup {D!NoSocket}] /\ loop' \subseteq Sockets
        /\ sock' \in [Sockets -> {"new", "open", "dead"}]
    BY <1>3, <1>5 DEF D!Poll, D!LoopEnded, DeliveryInv, D!TypeOK
  <2>6. D!TypeOK'
    BY <1>1, <2>4, <2>5 DEF DeliveryInv, D!TypeOK
  <2> QED
    BY <1>2, <2>6 DEF DeliveryInv
<1> QED
  BY <1>4, <1>5

LEMMA ProcessRestarts ==
  ASSUME DeliveryInv, D!Restart
  PROVE  DeliveryInv'
<1>1. /\ restarts < MaxRestarts /\ restarts' = restarts + 1
      /\ event' = [n \in D!Events |->
           IF event[n].pc \in {"feed", "notes", "push"} THEN D!Undone(event[n]) ELSE event[n]]
      /\ sock' = [x \in Sockets |-> IF sock[x] = "open" THEN "dead" ELSE sock[x]]
      /\ table' = [u \in Readers |-> D!NoSocket] /\ loop' = {}
      /\ UNCHANGED <<fans, moves, steady, queue, heard, lost>>
  BY DEF D!Restart
<1>2. ASSUME NEW n \in D!Events, NEW e, e = event[n], NEW q, q = D!Undone(e)
      PROVE  /\ e \in D!EventRow /\ EventFits(e, steady[n]) /\ q \in D!EventRow
             /\ e.pc # "none" => EventFits(q, steady[n])
  <2>1. e \in D!EventRow /\ EventFits(e, steady[n])
    BY <1>2 DEF DeliveryInv, D!TypeOK
  <2>2. q \in D!EventRow /\ q.pc = "undone" /\ q.verb = e.verb /\ q.sinks = e.sinks
    BY <1>2, <2>1 DEF D!Undone, D!EventRow
  <2> QED
    BY <2>1, <2>2 DEF EventFits
<1>3. \A n \in D!Events : event'[n] \in D!EventRow /\ EventFits(event'[n], steady[n])
  BY <1>1, <1>2
<1>4. \A n \in D!Events : EventFits(event[n], steady[n])'
  BY <1>1, <1>3 DEF EventFits
<1>5. event' \in [D!Events -> D!EventRow]
  BY <1>1, <1>3
<1>6. D!TypeOK'
  BY DeliveryBounds, <1>1, <1>5 DEF DeliveryInv, D!TypeOK
<1> QED
  BY <1>4, <1>6 DEF DeliveryInv

LEMMA DeliveryStep ==
  ASSUME DeliveryInv, D!Next \/ UNCHANGED delivery
  PROVE  DeliveryInv'
<1>1. CASE UNCHANGED delivery
  BY <1>1 DEF delivery, DeliveryInv, D!TypeOK, EventFits, Told
<1> QED
  BY <1>1, AudienceMoves, EventBegins, FeedWritten, NotesResolved, ReceiverNotified, EventEnds, SocketsMove,
     ProcessRestarts DEF D!Next

\* Every sink the policy names for the event of a request is served when it is done: the Activity,
\* the feed of whoever followed all along, and a Notification for each whom the event concerns, if
\* no step of it failed, whatever readers join and leave meanwhile (services/events.py,
\* services/postprocess.py).
THEOREM SinksAlwaysServed == CommunitySpec => []EverySinkServed
<1> DEFINE Inv == part = "delivery" => DeliveryInv
<1>1. CommunityInit => Inv
  BY DeliveryInit DEF CommunityInit
<1>2. Inv /\ [CommunityNext]_communityVars => Inv'
  BY RunsAlone, DeliveryStep
<1>3. Inv => EverySinkServed
  BY EventsServed DEF EverySinkServed
<1> QED BY <1>1, <1>2, <1>3, PTL DEF CommunitySpec

-----------------------------------------------------------------------------
(* Timelines.                                                             *)

Descending(s) == \A i, j \in 1..Len(s) : i < j => s[i] > s[j]

\* What is not the reader's comes last, is public, and only on a page of the feed.
Padded(s) ==
  \A n \in 1..Len(s) : s[n] \notin mine =>
    /\ mode = "feed"
    /\ \A m \in n..Len(s) : s[m] \in public

\* A profile is scrolled down, past nothing that lasts, to the end of the last page.
ScrolledDown ==
  mode = "profile" =>
    /\ Descending(scrolled)
    /\ pages = 0 => scrolled = <<>>
    /\ page # <<>> => scrolled # <<>> /\ scrolled[Len(scrolled)] = page[Len(page)]
    /\ scrolled # <<>> =>
         \A a \in lasting : a >= scrolled[Len(scrolled)] => \E n \in 1..Len(scrolled) : scrolled[n] = a

TimelineInv ==
  /\ T!TypeOK /\ lasting \subseteq mine \cap readable
  /\ Len(page) <= Limit /\ T!IsInjective(page) /\ Padded(page) /\ ScrolledDown

LEMMA TCardinality == \A S : T!Cardinality(S) = Cardinality(S)
  BY DEF T!Cardinality, Cardinality

LEMMA DescendingOnce ==
  ASSUME NEW s \in Seq(T!Numbers), Descending(s)
  PROVE  T!IsInjective(s)
<1> SUFFICES ASSUME NEW a \in DOMAIN s, NEW b \in DOMAIN s, s[a] = s[b] PROVE a = b
  BY DEF T!IsInjective
<1>1. a \in 1..Len(s) /\ b \in 1..Len(s) /\ s[a] \in Int /\ s[b] \in Int
  BY TimelineBounds DEF T!Numbers
<1>2. ~(a < b)
  BY <1>1 DEF Descending
<1>3. ~(b < a)
  BY <1>1 DEF Descending
<1> QED
  BY <1>1, <1>2, <1>3

LEMMA TimelineHolds == TimelineInv => T!PagingHolds
<1> SUFFICES ASSUME TimelineInv PROVE T!PagingHolds
  OBVIOUS
<1>1. T!PageIsSound
  BY DEF TimelineInv, Padded, T!PageIsSound
<1>2. T!PagingMissesNothing
  <2> SUFFICES ASSUME mode = "profile" PROVE T!PagingMissesNothing
    BY DEF T!PagingMissesNothing
  <2>1. scrolled \in Seq(T!Numbers) /\ Descending(scrolled)
    BY DEF TimelineInv, T!TypeOK, ScrolledDown
  <2>2. T!IsInjective(scrolled)
    BY <2>1, DescendingOnce
  <2>3. ASSUME scrolled # <<>>
        PROVE  {a \in lasting : a >= T!Last(scrolled)} \subseteq T!ToSet(scrolled)
    BY <2>1, <2>3 DEF TimelineInv, ScrolledDown, T!Last, T!ToSet
  <2> QED
    BY <2>2, <2>3 DEF T!PagingMissesNothing
<1> QED
  BY <1>1, <1>2 DEF T!PagingHolds

LEMMA TimelineInit == T!Init => TimelineInv
<1> SUFFICES ASSUME T!Init PROVE TimelineInv
  OBVIOUS
<1>1. T!TypeOK
  BY TimelineBounds DEF T!Init, T!TypeOK
<1>2. page = <<>> /\ scrolled = <<>> /\ lasting = {}
  BY DEF T!Init
<1>3. Len(<<>>) = 0 /\ DOMAIN <<>> = {}
  OBVIOUS
<1>4. Len(page) <= Limit /\ T!IsInjective(page)
  BY TimelineBounds, <1>2, <1>3 DEF T!IsInjective
<1> QED
  BY <1>1, <1>2, <1>3, <1>4 DEF TimelineInv, Padded, ScrolledDown, Descending

\* What the pages are made of.
LEMMA NumbersFinite ==
  ASSUME NEW S \in SUBSET T!Numbers
  PROVE  /\ \A x \in S : x \in Nat /\ x > 0
         /\ IsFiniteSet(S) /\ Cardinality(S) \in Nat /\ After(S, 0) = S
<1>1. \A x \in S : x \in Nat /\ x > 0
  BY TimelineBounds DEF T!Numbers
<1>2. IsFiniteSet(1..MaxActivity)
  BY TimelineBounds, FS_Interval
<1>3. IsFiniteSet(S)
  BY <1>2, FS_Subset DEF T!Numbers
<1> QED
  BY <1>1, <1>3, FS_CardinalityType DEF After

LEMMA Sorted ==
  ASSUME NEW S \in SUBSET T!Numbers, NEW s, s = T!NewestFirst(S)
  PROVE  /\ s \in Seq(S) /\ Len(s) = Cardinality(S) /\ Cardinality(S) \in Nat /\ Descending(s)
         /\ \A a \in S : \E n \in 1..Len(s) : s[n] = a
<1> DEFINE N == Cardinality(S)
<1>1. /\ \A x \in S : x \in Nat
      /\ IsFiniteSet(S) /\ N \in Nat /\ After(S, 0) = S
  BY NumbersFinite
<1>2. /\ \A m \in S : Cardinality(After(S, m)) + 1 \in 1..N
      /\ \A k \in 1..N : \E m \in S : Cardinality(After(S, m)) + 1 = k
      /\ \A a, b \in S : a < b => Cardinality(After(S, b)) < Cardinality(After(S, a))
      /\ \A a, b \in S : Cardinality(After(S, a)) = Cardinality(After(S, b)) => a = b
  BY <1>1, RanksTaken
<1>3. \A m \in S : Cardinality(After(S, m)) \in Nat
  BY <1>1, RankOf
<1>4. s = [n \in 1..N |-> CHOOSE a \in S : Cardinality(After(S, a)) = n - 1]
  <2>1. T!Cardinality(S) = N /\ \A a \in S : T!Cardinality({b \in S : b > a}) = Cardinality(After(S, a))
    BY TCardinality DEF After
  <2>2. \A n \in 1..N : (CHOOSE a \in S : T!Cardinality({b \in S : b > a}) = n - 1)
                       = (CHOOSE a \in S : Cardinality(After(S, a)) = n - 1)
    BY <2>1
  <2> QED
    BY <2>1, <2>2 DEF T!NewestFirst
<1>5. \A n \in 1..N : s[n] \in S /\ Cardinality(After(S, s[n])) = n - 1
  <2> SUFFICES ASSUME NEW n \in 1..N
               PROVE  s[n] \in S /\ Cardinality(After(S, s[n])) = n - 1
    OBVIOUS
  <2>1. \E m \in S : Cardinality(After(S, m)) = n - 1
    <3>1. PICK m \in S : Cardinality(After(S, m)) + 1 = n
      BY <1>2
    <3>2. Cardinality(After(S, m)) = n - 1
      BY <1>3, <3>1
    <3> QED
      BY <3>2
  <2> QED
    BY <1>4, <2>1
<1>6. s \in Seq(S) /\ Len(s) = N
  BY <1>1, <1>4, <1>5
<1>7. Descending(s)
  <2> SUFFICES ASSUME NEW i \in 1..N, NEW j \in 1..N, i < j PROVE s[i] > s[j]
    BY <1>6 DEF Descending
  <2>1. s[i] \in S /\ s[j] \in S /\ s[i] \in Nat /\ s[j] \in Nat
    BY <1>1, <1>5
  <2>2. Cardinality(After(S, s[i])) = i - 1 /\ Cardinality(After(S, s[j])) = j - 1
    BY <1>5
  <2>3. s[i] # s[j]
    BY <2>2
  <2>4. ~(s[i] < s[j])
    <3>1. s[i] < s[j] => Cardinality(After(S, s[j])) < Cardinality(After(S, s[i]))
      BY <1>2, <2>1
    <3> QED
      BY <2>2, <3>1
  <2> QED
    BY <2>1, <2>3, <2>4
<1>8. ASSUME NEW a \in S PROVE \E n \in 1..Len(s) : s[n] = a
  <2>1. PICK n \in 1..N : n = Cardinality(After(S, a)) + 1
    BY <1>2
  <2>2. Cardinality(After(S, s[n])) = Cardinality(After(S, a))
    BY <1>3, <1>5, <2>1
  <2>3. s[n] = a
    BY <1>2, <1>5, <2>2
  <2> QED
    BY <1>6, <2>3
<1> QED
  BY <1>1, <1>6, <1>7, <1>8

\* LIMIT n gives no more than n rows, and with one all the newer ones.
LEMMA Limited ==
  ASSUME NEW S \in SUBSET T!Numbers, NEW n \in Nat
  PROVE  /\ T!Newest(S, n) \subseteq S /\ Cardinality(T!Newest(S, n)) <= n
         /\ Cardinality(T!Newest(S, n)) \in Nat
         /\ \A a \in T!Newest(S, n), b \in S : b >= a => b \in T!Newest(S, n)
<1> DEFINE X == T!Newest(S, n)
<1>1. /\ \A x \in S : x \in Nat
      /\ IsFiniteSet(S) /\ Cardinality(S) \in Nat /\ After(S, 0) = S
  BY NumbersFinite
<1>2. X = {a \in S : Cardinality(After(S, a)) < n}
  BY TCardinality DEF T!Newest, After
<1>3. IsFiniteSet(X) /\ Cardinality(X) \in Nat /\ Cardinality(X) <= Cardinality(S)
  BY <1>1, <1>2, FS_Subset, FS_CardinalityType
<1>4. Cardinality(S) >= n => Cardinality(X) = n
  BY <1>1, <1>2, LatestOf
<1>5. Cardinality(X) <= n
  BY <1>1, <1>3, <1>4
<1>6. ASSUME NEW a \in X, NEW b \in S, b >= a
      PROVE  b \in X
  <2>1. a \in S /\ a \in Nat /\ b \in Nat
    BY <1>1, <1>2
  <2>2. After(S, b) \subseteq After(S, a)
    <3> SUFFICES ASSUME NEW x \in After(S, b) PROVE x \in After(S, a)
      OBVIOUS
    <3>1. x \in S /\ x > b /\ x \in Nat
      BY <1>1 DEF After
    <3>2. x > a
      BY <1>6, <2>1, <3>1
    <3> QED
      BY <3>1, <3>2 DEF After
  <2>3. IsFiniteSet(After(S, a)) /\ IsFiniteSet(After(S, b))
    BY <1>1, FS_Subset DEF After
  <2>4. /\ Cardinality(After(S, b)) <= Cardinality(After(S, a))
        /\ Cardinality(After(S, b)) \in Nat /\ Cardinality(After(S, a)) \in Nat
    BY <2>2, <2>3, FS_Subset, FS_CardinalityType
  <2>5. Cardinality(After(S, a)) < n
    BY <1>2
  <2> QED
    BY <1>2, <2>4, <2>5
<1> QED
  BY <1>2, <1>3, <1>5, <1>6
\* What was fetched is sorted, short, mine and before the cursor, with all the
\* newer ones the reader may see.
LEMMA FetchedIs ==
  ASSUME T!TypeOK, NEW before \in Nat, NEW s, s = T!Fetched(before)
  PROVE  /\ s \in Seq(T!Numbers) /\ Len(s) <= Limit /\ Descending(s)
         /\ \A n \in 1..Len(s) : s[n] \in mine \cap readable /\ (before # 0 => s[n] < before)
         /\ \A n \in 1..Len(s), a \in mine \cap readable :
              a >= s[n] /\ (before # 0 => a < before) => a \in T!ToSet(s)
<1> DEFINE B == T!Before(mine, before)
           R == T!Newest(B, Limit)
           S == R \cap readable
<1>1. B \in SUBSET T!Numbers /\ Limit \in Nat /\ B \subseteq mine
  BY TimelineBounds DEF T!Before, T!TypeOK
<1>2. /\ R \subseteq B /\ Cardinality(R) <= Limit /\ Cardinality(R) \in Nat
      /\ \A a \in R, b \in B : b >= a => b \in R
  BY <1>1, Limited
<1>3. IsFiniteSet(R) /\ S \in SUBSET T!Numbers
  BY <1>1, <1>2, NumbersFinite
<1>4. Cardinality(S) <= Limit
  <2>1. Cardinality(S) <= Cardinality(R) /\ Cardinality(S) \in Nat
    BY <1>3, FS_Subset, FS_CardinalityType
  <2> QED
    BY <1>1, <1>2, <2>1
<1>5. s = T!NewestFirst(S)
  BY DEF T!Fetched
<1>6. /\ s \in Seq(S) /\ Len(s) = Cardinality(S) /\ Descending(s)
      /\ \A a \in S : \E n \in 1..Len(s) : s[n] = a
  <2>1. S \in SUBSET T!Numbers /\ s = T!NewestFirst(S)
    BY <1>3, <1>5
  <2> HIDE DEF S
  <2> QED
    BY <2>1, Sorted
<1>7. \A n \in 1..Len(s) : s[n] \in S /\ s[n] \in B
  BY <1>2, <1>6
<1>8. s \in Seq(T!Numbers)
  BY <1>3, <1>6
<1>9. \A n \in 1..Len(s) : s[n] \in mine \cap readable /\ (before # 0 => s[n] < before)
  BY <1>1, <1>7 DEF T!Before
<1>10. ASSUME NEW n \in 1..Len(s), NEW a \in mine \cap readable, a >= s[n],
              before # 0 => a < before
       PROVE  a \in T!ToSet(s)
  <2>1. a \in B
    BY <1>10 DEF T!Before
  <2>2. s[n] \in R
    BY <1>7
  <2>3. a \in S
    BY <1>2, <1>10, <2>1, <2>2
  <2>4. PICK m \in 1..Len(s) : s[m] = a
    BY <1>6, <2>3
  <2> QED
    BY <1>6, <2>4 DEF T!ToSet
<1> QED
  BY <1>4, <1>6, <1>8, <1>9, <1>10

\* What pads a page is sorted, public, not yet on the page, and fits.
LEMMA PaddingIs ==
  ASSUME T!TypeOK, NEW before \in Nat, NEW exclude, NEW count \in Nat,
         NEW s, s = T!NewestFirst(T!RecentPublic(exclude, before, count))
  PROVE  /\ s \in Seq(T!Numbers) /\ Len(s) <= count /\ Descending(s)
         /\ \A n \in 1..Len(s) : s[n] \in public /\ s[n] \notin exclude
<1> DEFINE B == T!Before(activities, before)
           R == T!Newest(B, ScanLimit)
           S == (R \cap readable \cap public) \ exclude
           W == T!Newest(S, count)
<1>1. B \in SUBSET T!Numbers /\ ScanLimit \in Nat
  BY TimelineBounds DEF T!Before, T!TypeOK
<1>2. S \in SUBSET T!Numbers /\ S \subseteq public /\ S \cap exclude = {}
  BY DEF T!TypeOK
<1>3. W \subseteq S /\ Cardinality(W) <= count
  BY <1>2, Limited
<1>4. W \in SUBSET T!Numbers
  BY <1>2, <1>3
<1>5. s = T!NewestFirst(W)
  BY DEF T!RecentPublic
<1>6. s \in Seq(W) /\ Len(s) = Cardinality(W) /\ Descending(s)
  BY <1>4, <1>5, Sorted
<1>7. \A n \in 1..Len(s) : s[n] \in S
  BY <1>3, <1>6
<1>8. s \in Seq(T!Numbers)
  BY <1>4, <1>6
<1> QED
  BY <1>2, <1>3, <1>6, <1>7, <1>8

LEMMA Chain ==
  ASSUME NEW s \in Seq(T!Numbers), NEW r \in Seq(T!Numbers), NEW q, q = s \o r
  PROVE  /\ q \in Seq(T!Numbers) /\ Len(q) = Len(s) + Len(r)
         /\ \A n \in 1..Len(s) : q[n] = s[n]
         /\ \A n \in 1..Len(r) : q[Len(s) + n] = r[n]
         /\ \A n \in 1..Len(q) : n > Len(s) => q[n] = r[n - Len(s)] /\ n - Len(s) \in 1..Len(r)
<1>1. /\ q \in Seq(T!Numbers) /\ Len(q) = Len(s) + Len(r)
      /\ \A n \in 1..Len(s) : q[n] = s[n]
      /\ \A n \in 1..Len(r) : q[Len(s) + n] = r[n]
  OBVIOUS
<1>2. Len(s) \in Nat /\ Len(r) \in Nat
  OBVIOUS
<1>3. \A n \in 1..Len(q) : n > Len(s) => q[n] = r[n - Len(s)] /\ n - Len(s) \in 1..Len(r)
  <2> SUFFICES ASSUME NEW n \in 1..Len(q), n > Len(s)
               PROVE  q[n] = r[n - Len(s)] /\ n - Len(s) \in 1..Len(r)
    OBVIOUS
  <2>1. n - Len(s) \in 1..Len(r) /\ Len(s) + (n - Len(s)) = n
    BY <1>1, <1>2
  <2> QED
    BY <1>1, <2>1
<1> QED
  BY <1>1, <1>3

LEMMA ChainOnce ==
  ASSUME NEW s \in Seq(T!Numbers), NEW r \in Seq(T!Numbers), NEW q, q = s \o r,
         \A n \in 1..Len(s), m \in 1..Len(r) : s[n] # r[m], T!IsInjective(s), T!IsInjective(r)
  PROVE  T!IsInjective(q)
<1>1. /\ Len(q) = Len(s) + Len(r)
      /\ \A n \in 1..Len(s) : q[n] = s[n]
      /\ q \in Seq(T!Numbers)
  BY Chain
<1>2. Len(s) \in Nat /\ Len(r) \in Nat
  OBVIOUS
<1>3. \A n \in 1..Len(q) : n > Len(s) => q[n] = r[n - Len(s)] /\ n - Len(s) \in 1..Len(r)
  BY Chain
<1> SUFFICES ASSUME NEW a \in DOMAIN q, NEW b \in DOMAIN q, q[a] = q[b] PROVE a = b
  BY DEF T!IsInjective
<1>4. a \in 1..Len(q) /\ b \in 1..Len(q)
  BY <1>1
<1>5. CASE a \in 1..Len(s) /\ b \in 1..Len(s)
  BY <1>1, <1>5 DEF T!IsInjective
<1>6. CASE a \notin 1..Len(s) /\ b \notin 1..Len(s)
  <2>1. a - Len(s) \in DOMAIN r /\ b - Len(s) \in DOMAIN r /\ r[a - Len(s)] = r[b - Len(s)]
    BY <1>2, <1>3, <1>4, <1>6
  <2>2. a - Len(s) = b - Len(s)
    BY <2>1 DEF T!IsInjective
  <2> QED
    BY <1>2, <1>4, <2>2
<1>7. CASE a \in 1..Len(s) /\ b \notin 1..Len(s)
  BY <1>1, <1>2, <1>3, <1>4, <1>7
<1>8. CASE a \notin 1..Len(s) /\ b \in 1..Len(s)
  BY <1>1, <1>2, <1>3, <1>4, <1>8
<1> QED
  BY <1>5, <1>6, <1>7, <1>8

LEMMA ChainDown ==
  ASSUME NEW s \in Seq(T!Numbers), NEW r \in Seq(T!Numbers), NEW q, q = s \o r,
         \A n \in 1..Len(s), m \in 1..Len(r) : s[n] > r[m], Descending(s), Descending(r)
  PROVE  Descending(q)
<1>1. /\ Len(q) = Len(s) + Len(r)
      /\ \A n \in 1..Len(s) : q[n] = s[n]
      /\ q \in Seq(T!Numbers)
  BY Chain
<1>2. Len(s) \in Nat /\ Len(r) \in Nat
  OBVIOUS
<1>3. \A n \in 1..Len(q) : n > Len(s) => q[n] = r[n - Len(s)] /\ n - Len(s) \in 1..Len(r)
  BY Chain
<1> SUFFICES ASSUME NEW i \in 1..Len(q), NEW j \in 1..Len(q), i < j PROVE q[i] > q[j]
  BY DEF Descending
<1>4. CASE j \in 1..Len(s)
  BY <1>1, <1>2, <1>4 DEF Descending
<1>5. CASE i > Len(s)
  <2>1. /\ i - Len(s) \in 1..Len(r) /\ j - Len(s) \in 1..Len(r) /\ i - Len(s) < j - Len(s)
        /\ q[i] = r[i - Len(s)] /\ q[j] = r[j - Len(s)]
    BY <1>1, <1>2, <1>3, <1>5
  <2> QED
    BY <2>1 DEF Descending
<1>6. CASE i \in 1..Len(s) /\ j > Len(s)
  BY <1>1, <1>2, <1>3, <1>6
<1> QED
  BY <1>1, <1>2, <1>4, <1>5, <1>6

\* A page of either kind is sound.
LEMMA PageShown ==
  ASSUME T!TypeOK, NEW before \in Nat, NEW random,
         NEW s, s = T!GetUserActivity(before, random)
  PROVE  /\ s \in Seq(T!Numbers) /\ Len(s) <= Limit /\ T!IsInjective(s) /\ Padded(s)
         /\ mode = "profile" => s = T!Fetched(before)
<1> DEFINE items == T!Fetched(before)
           filling == T!NewestFirst(T!RecentPublic(T!ToSet(items), before, Limit - Len(items)))
<1>1. /\ items \in Seq(T!Numbers) /\ Len(items) <= Limit /\ Descending(items)
      /\ \A n \in 1..Len(items) : items[n] \in mine
  BY FetchedIs
<1>2. T!IsInjective(items)
  BY <1>1, DescendingOnce
<1>3. Padded(items)
  BY <1>1 DEF Padded
<1>4. CASE s = items
  BY <1>1, <1>2, <1>3, <1>4
<1>5. CASE mode # "profile" /\ ~(Limit <= Len(items)) /\ s = items \o filling
  <2>1. Limit - Len(items) \in Nat
    BY TimelineBounds, <1>1, <1>5
  <2>2. /\ filling \in Seq(T!Numbers) /\ Len(filling) <= Limit - Len(items) /\ Descending(filling)
        /\ \A n \in 1..Len(filling) : filling[n] \in public /\ filling[n] \notin T!ToSet(items)
    BY <2>1, PaddingIs
  <2>3. T!IsInjective(filling)
    BY <2>2, DescendingOnce
  <2> HIDE DEF items, filling
  <2>4. \A n \in 1..Len(items), m \in 1..Len(filling) : items[n] # filling[m]
    <3>1. \A n \in 1..Len(items) : items[n] \in T!ToSet(items)
      BY <1>1 DEF T!ToSet
    <3> QED
      BY <2>2, <3>1
  <2>5. /\ s \in Seq(T!Numbers) /\ Len(s) = Len(items) + Len(filling) /\ T!IsInjective(s)
        /\ \A n \in 1..Len(items) : s[n] = items[n]
        /\ \A n \in 1..Len(s) : n > Len(items) =>
              s[n] = filling[n - Len(items)] /\ n - Len(items) \in 1..Len(filling)
    <3>1. items \in Seq(T!Numbers) /\ filling \in Seq(T!Numbers) /\ s = items \o filling
      BY <1>1, <1>5, <2>2
    <3>2. T!IsInjective(s)
      BY <1>2, <2>3, <2>4, <3>1, ChainOnce
    <3> QED
      BY <3>1, <3>2, Chain
  <2>6. Len(items) \in Nat /\ Len(filling) \in Nat /\ Limit \in Nat
    BY TimelineBounds, <1>1, <2>2
  <2>7. Len(s) <= Limit
    BY <2>2, <2>5, <2>6
  <2>8. mode = "feed"
    BY <1>5 DEF T!TypeOK
  <2>9. Padded(s)
    <3> SUFFICES ASSUME NEW n \in 1..Len(s), s[n] \notin mine, NEW m \in n..Len(s)
                 PROVE  s[m] \in public
      BY <2>8 DEF Padded
    <3>1. n > Len(items)
      BY <1>1, <2>5, <2>6
    <3>2. m \in 1..Len(s) /\ m > Len(items)
      BY <2>5, <2>6, <3>1
    <3>3. s[m] = filling[m - Len(items)] /\ m - Len(items) \in 1..Len(filling)
      BY <2>5, <3>2
    <3> QED
      BY <2>2, <3>3
  <2> QED
    BY <1>5, <2>5, <2>7, <2>9
<1> QED
  <2>1. mode = "profile" => s = items
    BY DEF T!GetUserActivity
  <2>2. s = items \/ (mode # "profile" /\ ~(Limit <= Len(items)) /\ s = items \o filling)
    BY DEF T!GetUserActivity, T!TopUp
  <2> QED
    BY <1>4, <1>5, <2>1, <2>2

LEMMA TimelineRecords ==
  ASSUME TimelineInv, NEW a \in T!Numbers, T!Record(a)
  PROVE  TimelineInv'
<1>1. T!TypeOK /\ lasting \subseteq mine \cap readable /\ Padded(page) /\ ScrolledDown
  BY DEF TimelineInv
<1>2. /\ UNCHANGED <<mode, page, pages, scrolled, lasting, changes>>
      /\ activities' = activities \cup {a}
      /\ mine \subseteq mine' /\ mine' \subseteq activities'
      /\ public \subseteq public' /\ public' \subseteq activities'
      /\ readable \subseteq readable' /\ readable' \subseteq activities'
  BY <1>1 DEF T!Record, T!TypeOK
<1>3. T!TypeOK'
  BY <1>1, <1>2 DEF T!TypeOK
<1>4. ScrolledDown'
  BY <1>1, <1>2 DEF ScrolledDown, Descending
<1>5. Padded(page)'
  BY <1>1, <1>2 DEF Padded
<1>6. (lasting \subseteq mine \cap readable)'
  BY <1>1, <1>2
<1>7. Len(page') <= Limit /\ T!IsInjective(page')
  BY <1>2 DEF TimelineInv
<1> QED
  BY <1>3, <1>4, <1>5, <1>6, <1>7 DEF TimelineInv

LEMMA PermissionChanges ==
  ASSUME TimelineInv, NEW a \in T!Numbers, T!ChangePermission(a)
  PROVE  TimelineInv'
<1>1. T!TypeOK /\ lasting \subseteq mine \cap readable /\ Padded(page) /\ ScrolledDown
  BY DEF TimelineInv
<1>2. /\ UNCHANGED <<mode, page, pages, scrolled, activities, mine, public>>
      /\ lasting' = lasting \ {a} /\ readable \ {a} \subseteq readable'
      /\ readable' \subseteq activities /\ changes' \in 0..MaxChanges
  BY TimelineBounds, <1>1 DEF T!ChangePermission, T!TypeOK
<1>3. T!TypeOK'
  BY <1>1, <1>2 DEF T!TypeOK
<1>4. ScrolledDown'
  BY <1>1, <1>2 DEF ScrolledDown, Descending
<1>5. Padded(page)'
  BY <1>1, <1>2 DEF Padded
<1>6. (lasting \subseteq mine \cap readable)'
  BY <1>1, <1>2
<1>7. Len(page') <= Limit /\ T!IsInjective(page')
  BY <1>2 DEF TimelineInv
<1> QED
  BY <1>3, <1>4, <1>5, <1>6, <1>7 DEF TimelineInv

\* Whatever the page, its soundness and its type follow from the request; how far
\* a profile is scrolled does not.
LEMMA ShowsPage ==
  ASSUME T!TypeOK, pages \in 0..MaxPages-1, NEW before \in Nat, NEW random,
         T!ShowPage(before, random), lasting' \subseteq mine \cap readable, ScrolledDown'
  PROVE  TimelineInv'
<1>1. /\ page' \in Seq(T!Numbers) /\ Len(page') <= Limit /\ T!IsInjective(page') /\ Padded(page')
  BY PageShown DEF T!ShowPage
<1>2. UNCHANGED <<mode, activities, mine, public, readable, changes>>
  BY DEF T!ShowPage, T!rows
<1>3. scrolled' = scrolled \o page' /\ pages' = pages + 1
  BY DEF T!ShowPage
<1>4. scrolled' \in Seq(T!Numbers)
  BY <1>1, <1>3 DEF T!TypeOK
<1>5. pages' \in 0..MaxPages
  BY TimelineBounds, <1>3
<1>6. lasting' \subseteq T!Numbers
  BY DEF T!TypeOK
<1>7. T!TypeOK'
  BY <1>1, <1>2, <1>4, <1>5, <1>6 DEF T!TypeOK
<1>8. Padded(page)'
  BY <1>1, <1>2 DEF Padded
<1> QED
  BY <1>1, <1>2, <1>7, <1>8 DEF TimelineInv

\* The end of a page.
LEMMA EndOf ==
  ASSUME NEW s \in Seq(T!Numbers), s # <<>>
  PROVE  Len(s) \in 1..Len(s) /\ T!Last(s) = s[Len(s)] /\ s[Len(s)] \in Nat /\ s[Len(s)] # 0
<1>1. Len(s) \in 1..Len(s)
  OBVIOUS
<1> QED
  BY TimelineBounds, <1>1 DEF T!Last, T!Numbers

LEMMA FirstPageShown ==
  ASSUME TimelineInv, T!FirstPage
  PROVE  TimelineInv'
<1>1. PICK random \in BOOLEAN : T!ShowPage(0, random)
  BY DEF T!FirstPage
<1>2. T!TypeOK /\ ScrolledDown /\ pages = 0 /\ lasting' = mine \cap readable
  BY DEF TimelineInv, T!FirstPage
<1>3. pages \in 0..MaxPages-1 /\ 0 \in Nat
  BY TimelineBounds, <1>2
<1>4. mode' = mode /\ scrolled' = scrolled \o page' /\ pages' = pages + 1
  BY <1>1 DEF T!ShowPage
<1>5. ScrolledDown'
  <2> SUFFICES ASSUME mode = "profile" PROVE ScrolledDown'
    BY <1>4 DEF ScrolledDown
  <2>1. page' = T!GetUserActivity(0, random)
    BY <1>1 DEF T!ShowPage
  <2>2. page' = T!Fetched(0)
    BY <1>2, <1>3, <2>1, PageShown
  <2>3. /\ page' \in Seq(T!Numbers) /\ Descending(page')
        /\ \A n \in 1..Len(page'), a \in mine \cap readable :
             a >= page'[n] => a \in T!ToSet(page')
    BY <1>2, <1>3, <2>2, FetchedIs
  <2>4. scrolled' = page'
    <3>1. scrolled = <<>>
      BY <1>2 DEF ScrolledDown
    <3> QED
      BY <1>4, <2>3, <3>1
  <2>5. page' # <<>> => Len(page') \in 1..Len(page')
    BY <2>3
  <2>6. pages' # 0
    BY <1>2, <1>4
  <2> QED
    BY <1>2, <2>3, <2>4, <2>5, <2>6 DEF ScrolledDown, Descending, T!ToSet
<1> QED
  BY <1>1, <1>2, <1>3, <1>5, ShowsPage

LEMMA NextPageShown ==
  ASSUME TimelineInv, T!NextPage
  PROVE  TimelineInv'
<1> DEFINE before == T!Last(page)
<1>1. T!ShowPage(before, FALSE) /\ pages \in 1..MaxPages-1 /\ page # <<>> /\ lasting' = lasting
  BY DEF T!NextPage
<1>2. T!TypeOK /\ ScrolledDown /\ lasting \subseteq mine \cap readable
  BY DEF TimelineInv
<1>3. page \in Seq(T!Numbers) /\ scrolled \in Seq(T!Numbers)
  BY <1>2 DEF T!TypeOK
<1>4. before = page[Len(page)] /\ before \in Nat /\ before # 0
  BY <1>1, <1>3, EndOf
<1>5. pages \in 0..MaxPages-1
  BY TimelineBounds, <1>1
<1>6. mode' = mode /\ scrolled' = scrolled \o page' /\ pages' = pages + 1
  BY <1>1 DEF T!ShowPage
<1> HIDE DEF before
<1>7. ScrolledDown'
  <2> SUFFICES ASSUME mode = "profile" PROVE ScrolledDown'
    BY <1>6 DEF ScrolledDown
  <2>1. page' = T!GetUserActivity(before, FALSE)
    BY <1>1 DEF T!ShowPage
  <2>2. page' = T!Fetched(before)
    BY <1>2, <1>4, <2>1, PageShown
  <2>3. /\ page' \in Seq(T!Numbers) /\ Descending(page')
        /\ \A n \in 1..Len(page') : page'[n] < before
        /\ \A n \in 1..Len(page'), a \in mine \cap readable :
             a >= page'[n] /\ a < before => a \in T!ToSet(page')
    BY <1>2, <1>4, <2>2, FetchedIs
  <2>4. /\ Descending(scrolled) /\ scrolled # <<>> /\ scrolled[Len(scrolled)] = before
        /\ \A a \in lasting : a >= before => \E n \in 1..Len(scrolled) : scrolled[n] = a
    BY <1>1, <1>2, <1>4 DEF ScrolledDown
  <2>5. \A n \in 1..Len(scrolled) : scrolled[n] \in Nat /\ scrolled[n] >= before
    <3> SUFFICES ASSUME NEW n \in 1..Len(scrolled) PROVE scrolled[n] \in Nat /\ scrolled[n] >= before
      OBVIOUS
    <3>1. scrolled[n] \in Nat
      BY TimelineBounds, <1>3 DEF T!Numbers
    <3>2. Len(scrolled) \in 1..Len(scrolled)
      BY <1>3, <2>4
    <3>3. n = Len(scrolled) \/ n < Len(scrolled)
      BY <1>3
    <3> QED
      BY <1>4, <2>4, <3>1, <3>2, <3>3 DEF Descending
  <2>6. \A n \in 1..Len(page') : page'[n] \in Nat
    BY TimelineBounds, <2>3 DEF T!Numbers
  <2>7. \A n \in 1..Len(scrolled), m \in 1..Len(page') : scrolled[n] > page'[m]
    BY <1>4, <2>3, <2>5, <2>6
  <2>8. Descending(scrolled')
    BY <1>3, <1>6, <2>3, <2>4, <2>7, ChainDown
  <2>9. /\ scrolled' \in Seq(T!Numbers) /\ Len(scrolled') = Len(scrolled) + Len(page')
        /\ \A n \in 1..Len(scrolled) : scrolled'[n] = scrolled[n]
        /\ \A n \in 1..Len(page') : scrolled'[Len(scrolled) + n] = page'[n]
    BY <1>3, <1>6, <2>3, Chain
  <2>10. Len(scrolled) \in Nat \ {0} /\ Len(page') \in Nat
    BY <1>3, <2>3, <2>4
  <2>11. scrolled' # <<>>
    BY <2>9, <2>10
  <2>12. CASE page' = <<>>
    <3>1. scrolled' = scrolled
      BY <1>3, <1>6, <2>12
    <3> QED
      BY <1>1, <1>2, <1>6, <2>4, <2>10, <2>12, <3>1 DEF ScrolledDown, Descending
  <2>13. CASE page' # <<>>
    <3>1. Len(page') \in 1..Len(page') /\ scrolled'[Len(scrolled')] = page'[Len(page')]
      BY <2>3, <2>9, <2>13
    <3>2. ASSUME NEW a \in lasting, a >= page'[Len(page')]
          PROVE  \E n \in 1..Len(scrolled') : scrolled'[n] = a
      <4>1. a \in mine \cap readable /\ a \in Nat
        BY TimelineBounds, <1>2 DEF T!TypeOK, T!Numbers
      <4>2. CASE a >= before
        <5>1. PICK n \in 1..Len(scrolled) : scrolled[n] = a
          BY <2>4, <4>2
        <5> QED
          BY <2>9, <2>10, <5>1
      <4>3. CASE a < before
        <5>1. PICK m \in 1..Len(page') : page'[m] = a
          BY <2>3, <3>1, <3>2, <4>1, <4>3 DEF T!ToSet
        <5>2. Len(scrolled) + m \in 1..Len(scrolled') /\ scrolled'[Len(scrolled) + m] = a
          BY <2>9, <2>10, <5>1
        <5> QED
          BY <5>2
      <4> QED
        BY <1>4, <4>1, <4>2, <4>3
    <3>3. pages' # 0
      BY <1>1, <1>6
    <3> QED
      BY <1>1, <2>8, <2>11, <3>1, <3>2, <3>3 DEF ScrolledDown, Descending
  <2> QED
    BY <2>12, <2>13
<1> QED
  BY <1>1, <1>2, <1>4, <1>5, <1>7, ShowsPage

LEMMA TimelineStep ==
  ASSUME TimelineInv, T!Next \/ UNCHANGED timeline
  PROVE  TimelineInv'
<1>1. CASE UNCHANGED timeline
  BY <1>1 DEF timeline, TimelineInv, T!TypeOK, Padded, ScrolledDown, Descending
<1> QED
  BY <1>1, TimelineRecords, PermissionChanges, FirstPageShown, NextPageShown DEF T!Next

\* A page has no more items than were asked for, none twice, what pads it comes last and is public;
\* and paging through a profile, whatever is recorded, hidden or shown between two pages, shows
\* no activity twice and none is missed that was readable all along (services/feed.py,
\* services/feed_impl.py, services/feed_fill.py).
THEOREM PagingAlwaysHolds == CommunitySpec => []PagingHolds
<1> DEFINE Inv == part = "timeline" => TimelineInv
<1>1. CommunityInit => Inv
  BY TimelineInit DEF CommunityInit
<1>2. Inv /\ [CommunityNext]_communityVars => Inv'
  BY RunsAlone, TimelineStep
<1>3. Inv => PagingHolds
  BY TimelineHolds DEF PagingHolds
<1> QED BY <1>1, <1>2, <1>3, PTL DEF CommunitySpec

-----------------------------------------------------------------------------
(* Lists of what may interest someone.                                    *)

Shelf == [ids : SUBSET I!Items, day : Int]
Lookup == [pc : {"idle", "refresh", "show"}, l : Lists, had : Shelf, day : Int, after : Int]
ShelvesTyped ==
  /\ shelf \in [Lists -> Shelf] /\ look \in [Looks -> Lookup]
  /\ since \in [Lists -> [I!Items -> Int]] /\ looked \in [Lists -> Int]
  /\ days \in 0..MaxDays
  /\ within \subseteq People \X I!Sites /\ follow \subseteq People \X People
  /\ gone \subseteq posed /\ posed \subseteq Asked

\* The list has what has been of interest since before the day it was computed.
Complete(l, row) ==
  /\ row.day \in I!NoDay..days
  /\ row.day # I!NoDay =>
       \A i \in I!Items : since[l][i] # I!NoDay /\ since[l][i] < row.day => i \in row.ids

\* The list is not older than Fresh on a day on which it was looked at.
Recent(row, day) == day # I!NoDay => row.day # I!NoDay /\ row.day >= day - Fresh

\* What is listed has been so since a day that is not to come.
SinceFits ==
  \A l \in Lists : \A i \in I!Items :
    /\ since[l][i] # I!NoDay <=> i \in I!Computed(l)
    /\ since[l][i] \in I!NoDay..days

ShelvesFit ==
  \A l \in Lists :
    Complete(l, shelf[l]) /\ Recent(shelf[l], looked[l]) /\ looked[l] \in I!NoDay..days

\* A look has loaded a list that was not too old at the look before it; when it shows it, what
\* is in the row now is not too old for the day of the look.
LooksFit ==
  \A s \in Looks : look[s].pc # "idle" =>
    /\ Complete(look[s].l, look[s].had) /\ Recent(look[s].had, look[s].after)
    /\ look[s].day \in I!NoDay..days
    /\ look[s].pc = "show" => Recent(shelf[look[s].l], look[s].day)

InterestsInv == ShelvesTyped /\ SinceFits /\ ShelvesFit /\ LooksFit /\ overlooked = {}

LEMMA NeverType == I!Never \in Shelf /\ I!Never.day = I!NoDay
BY DEF I!Never, Shelf, I!NoDay

LEMMA NoLookType == I!NoLook \in Lookup /\ I!NoLook.pc = "idle"
BY InterestsBounds, NeverType DEF I!NoLook, Lookup, I!NoDay

LEMMA InterestsInit == I!Init => InterestsInv
<1> SUFFICES ASSUME I!Init PROVE InterestsInv
  OBVIOUS
<1>1. ShelvesTyped
  BY InterestsBounds, NeverType, NoLookType DEF I!Init, ShelvesTyped, I!NoDay
<1>2. SinceFits
  BY DEF I!Init, SinceFits, I!NoDay
<1>3. ShelvesFit
  BY NeverType DEF I!Init, ShelvesFit, Complete, Recent, I!NoDay
<1>4. LooksFit
  BY NoLookType DEF I!Init, LooksFit
<1> QED
  BY <1>1, <1>2, <1>3, <1>4 DEF InterestsInv, I!Init

\* A change, or a day: what is listed since an earlier day was listed then.
LEMMA ListsChange ==
  ASSUME InterestsInv, I!Listed,
         days' \in 0..MaxDays, days' >= days,
         UNCHANGED <<shelf, look, looked, overlooked>>,
         within' \subseteq People \X I!Sites, follow' \subseteq People \X People,
         gone' \subseteq posed', posed' \subseteq Asked
  PROVE  InterestsInv'
<1>1. /\ since' = [l \in Lists |-> [i \in I!Items |->
             IF i \notin I!Computed(l)' THEN I!NoDay
             ELSE IF since[l][i] = I!NoDay THEN days' ELSE since[l][i]]]
  BY DEF I!Listed
<1>2. ASSUME NEW l \in Lists, NEW i \in I!Items
      PROVE  /\ since'[l][i] = IF i \notin I!Computed(l)' THEN I!NoDay
                               ELSE IF since[l][i] = I!NoDay THEN days' ELSE since[l][i]
             /\ since[l][i] \in I!NoDay..days
  BY <1>1 DEF InterestsInv, SinceFits
<1>3. days \in Nat /\ days' \in Nat /\ I!NoDay = -1
  BY InterestsBounds DEF InterestsInv, ShelvesTyped, I!NoDay
<1>4. \A l \in Lists : \A i \in I!Items :
        /\ since'[l][i] # I!NoDay <=> i \in I!Computed(l)'
        /\ since'[l][i] \in I!NoDay..days'
  BY <1>2, <1>3
<1>5. ShelvesTyped'
  <2>1. \A l \in Lists : \A i \in I!Items : since'[l][i] \in Int
    BY <1>3, <1>4
  <2>2. since' \in [Lists -> [I!Items -> Int]]
    BY <1>1, <2>1
  <2> QED
    BY <2>2 DEF InterestsInv, ShelvesTyped
<1>6. ASSUME NEW l \in Lists, NEW row \in Shelf, Complete(l, row)
      PROVE  Complete(l, row)'
  <2>1. row.day \in Int
    BY DEF Shelf
  <2>2. \A i \in I!Items : since'[l][i] # I!NoDay /\ since'[l][i] < row.day
                             => since[l][i] # I!NoDay /\ since[l][i] < row.day
    BY <1>2, <1>3, <1>6, <2>1 DEF Complete
  <2>3. row.day \in I!NoDay..days'
    BY <1>3, <1>6, <2>1 DEF Complete
  <2> QED
    BY <1>6, <2>2, <2>3 DEF Complete
<1>7. SinceFits'
  BY <1>4 DEF SinceFits
<1>8. \A l \in Lists : shelf[l] \in Shelf /\ looked[l] \in I!NoDay..days'
  BY <1>3 DEF InterestsInv, ShelvesTyped, ShelvesFit
<1>9. ShelvesFit'
  <2>1. \A l \in Lists : Complete(l, shelf[l])' /\ Recent(shelf[l], looked[l])'
    BY <1>6, <1>8 DEF InterestsInv, ShelvesFit, Recent
  <2> QED
    BY <1>8, <2>1 DEF ShelvesFit
<1>10. \A s \in Looks : look[s].had \in Shelf /\ look[s].l \in Lists /\ look[s].day \in Int
  BY DEF InterestsInv, ShelvesTyped, Lookup
<1>11. \A s \in Looks : look[s].day \in I!NoDay..days => look[s].day \in I!NoDay..days'
  BY <1>3, <1>10
<1>12. LooksFit'
  BY <1>6, <1>10, <1>11 DEF InterestsInv, LooksFit, Recent
<1> QED
  BY <1>5, <1>7, <1>9, <1>12 DEF InterestsInv

\* Steps of looks change no list of interest.
LEMMA LooksMove ==
  ASSUME InterestsInv, UNCHANGED <<within, posed, gone, follow, days, since>>
  PROVE  /\ SinceFits'
         /\ \A l, row : Complete(l, row)' <=> Complete(l, row)
         /\ \A row, day : Recent(row, day)' <=> Recent(row, day)
         /\ \A l : I!Computed(l)' = I!Computed(l)
<1>1. \A l : I!Computed(l)' = I!Computed(l)
  BY DEF I!Computed, I!Questions, I!Others, I!InSite
<1> QED
  BY <1>1 DEF InterestsInv, SinceFits, Complete, Recent

LEMMA ListLoaded ==
  ASSUME InterestsInv, NEW s \in Looks, NEW l \in Lists, I!Load(s, l)
  PROVE  InterestsInv'
<1> SUFFICES ASSUME NEW q, q = [pc |-> IF I!Refreshes(shelf[l]) THEN "refresh" ELSE "show", l |-> l,
                                had |-> shelf[l], day |-> days, after |-> looked[l]]
             PROVE  InterestsInv'
  OBVIOUS
<1>1. /\ look' = [look EXCEPT ![s] = q]
      /\ UNCHANGED <<shelf, within, posed, gone, follow, days, since, looked, overlooked>>
  BY DEF I!Load
<1>2. /\ q \in Lookup /\ q.l = l /\ q.had = shelf[l] /\ q.day = days /\ q.after = looked[l]
      /\ q.pc = "show" => ~I!Refreshes(shelf[l])
  BY DEF Lookup, InterestsInv, ShelvesTyped
<1>3. look'[s] = q /\ \A t \in Looks \ {s} : look'[t] = look[t]
  BY <1>1 DEF InterestsInv, ShelvesTyped
<1>4. ShelvesTyped'
  BY <1>1, <1>2 DEF InterestsInv, ShelvesTyped
<1>5. Complete(l, shelf[l]) /\ Recent(shelf[l], looked[l])
  BY DEF InterestsInv, ShelvesFit
<1>6. ~I!Refreshes(shelf[l]) => Recent(shelf[l], days)
  BY InterestsBounds, <1>5 DEF I!Refreshes, I!Expired, Recent, Complete, InterestsInv, ShelvesTyped, I!NoDay
<1>7. days \in I!NoDay..days
  BY DEF InterestsInv, ShelvesTyped, I!NoDay
<1>8. LooksFit'
  BY <1>1, <1>2, <1>3, <1>5, <1>6, <1>7, LooksMove DEF InterestsInv, LooksFit
<1>9. ShelvesFit'
  BY <1>1, LooksMove DEF InterestsInv, ShelvesFit
<1> QED
  BY <1>1, <1>4, <1>8, <1>9, LooksMove DEF InterestsInv

LEMMA ListRefreshed ==
  ASSUME InterestsInv, NEW s \in Looks, I!Refresh(s)
  PROVE  InterestsInv'
<1> SUFFICES ASSUME NEW l, l = look[s].l, NEW row, row = [ids |-> I!Computed(l), day |-> days],
                    NEW q, q = [look[s] EXCEPT !.pc = "show"]
             PROVE  InterestsInv'
  OBVIOUS
<1>1. /\ look[s].pc = "refresh" /\ shelf' = [shelf EXCEPT ![l] = row]
      /\ look' = [look EXCEPT ![s] = q]
      /\ UNCHANGED <<within, posed, gone, follow, days, since, looked, overlooked>>
  BY DEF I!Refresh, InterestsInv, ShelvesTyped
<1>2. l \in Lists /\ look[s] \in Lookup /\ days \in Nat /\ I!NoDay = -1 /\ Fresh \in Nat
  BY InterestsBounds DEF InterestsInv, ShelvesTyped, Lookup, I!NoDay
<1>3. row \in Shelf /\ row.ids = I!Computed(l) /\ row.day = days
  <2>1. I!Computed(l) \subseteq I!Items
    BY DEF I!Computed, I!Questions, I!Others, I!Items, InterestsInv, ShelvesTyped
  <2> QED
    BY <1>2, <2>1 DEF Shelf
<1>4. /\ q \in Lookup /\ q.pc = "show" /\ q.l = l /\ q.had = look[s].had /\ q.day = look[s].day
      /\ q.after = look[s].after
  BY <1>2 DEF Lookup
<1>5. /\ look'[s] = q /\ \A t \in Looks \ {s} : look'[t] = look[t]
      /\ shelf'[l] = row /\ \A m \in Lists \ {l} : shelf'[m] = shelf[m]
  BY <1>1, <1>2 DEF InterestsInv, ShelvesTyped
<1>6. ShelvesTyped'
  BY <1>1, <1>3, <1>4 DEF InterestsInv, ShelvesTyped
<1>7. Complete(l, row)
  BY <1>2, <1>3 DEF Complete, InterestsInv, SinceFits
<1>8. \A day \in I!NoDay..days : Recent(row, day)
  BY <1>2, <1>3 DEF Recent
<1>9. \A m \in Lists : Recent(shelf[m], looked[m])
  BY DEF InterestsInv, ShelvesFit
<1>10. looked[l] \in I!NoDay..days
  BY <1>2 DEF InterestsInv, ShelvesFit
<1>11. ShelvesFit'
  BY <1>1, <1>5, <1>7, <1>8, <1>9, <1>10, LooksMove DEF InterestsInv, ShelvesFit
<1>12. LooksFit'
  BY <1>1, <1>2, <1>4, <1>5, <1>8, LooksMove DEF InterestsInv, LooksFit
<1> QED
  BY <1>1, <1>6, <1>11, <1>12, LooksMove DEF InterestsInv

LEMMA RefreshFails ==
  ASSUME InterestsInv, NEW s \in Looks, I!FailRefresh(s)
  PROVE  InterestsInv'
<1>1. /\ look[s] \in Lookup /\ look[s].pc = "refresh" /\ look \in [Looks -> Lookup]
      /\ look' = [look EXCEPT ![s].pc = "show", ![s].day = I!NoDay]
      /\ UNCHANGED <<shelf, within, posed, gone, follow, days, since, looked, overlooked>>
  BY DEF I!FailRefresh, InterestsInv, ShelvesTyped
<1>2. PICK k, q : k = look[s] /\ q = [k EXCEPT !.pc = "show", !.day = I!NoDay]
  OBVIOUS
<1>3. /\ q \in Lookup /\ q.pc = "show" /\ q.l = look[s].l /\ q.had = look[s].had /\ q.day = I!NoDay
      /\ q.after = look[s].after
  <2>1. I!NoDay \in Int
    BY DEF I!NoDay
  <2>2. k \in [pc : {"idle", "refresh", "show"}, l : Lists, had : Shelf, day : Int, after : Int]
    BY <1>1, <1>2 DEF Lookup
  <2>3. /\ q \in [pc : {"idle", "refresh", "show"}, l : Lists, had : Shelf, day : Int, after : Int]
        /\ q.pc = "show" /\ q.l = k.l /\ q.had = k.had /\ q.day = I!NoDay /\ q.after = k.after
    BY <1>2, <2>1, <2>2
  <2> QED
    BY <1>2, <2>3 DEF Lookup
<1>4. look'[s] = q /\ (\A t \in Looks \ {s} : look'[t] = look[t]) /\ look' \in [Looks -> Lookup]
  <2>1. PICK p : p = [look[s] EXCEPT !.pc = "show"]
    OBVIOUS
  <2>2. PICK f : f = [look EXCEPT ![s] = p]
    OBVIOUS
  <2>3. p \in Lookup /\ q = [p EXCEPT !.day = I!NoDay]
    BY <1>1, <1>2, <2>1 DEF Lookup
  <2>4. f \in [Looks -> Lookup] /\ f[s] = p /\ \A t \in Looks \ {s} : f[t] = look[t]
    BY <1>1, <2>2, <2>3
  <2>5. f = [look EXCEPT ![s].pc = "show"]
    BY <1>1, <2>1, <2>2
  <2>6. look' = [f EXCEPT ![s].day = I!NoDay]
    BY <1>1, <2>5
  <2>7. look' = [f EXCEPT ![s] = q]
    BY <2>3, <2>4, <2>6
  <2> QED
    BY <1>3, <2>4, <2>7
<1>5. ShelvesTyped'
  BY <1>1, <1>4 DEF InterestsInv, ShelvesTyped
<1>6. ShelvesFit'
  BY <1>1, LooksMove DEF InterestsInv, ShelvesFit
<1>7. I!NoDay \in I!NoDay..days
  BY DEF InterestsInv, ShelvesTyped, I!NoDay
<1>8. LooksFit'
  BY <1>1, <1>3, <1>4, <1>7, LooksMove DEF InterestsInv, LooksFit, Recent
<1> QED
  BY <1>1, <1>5, <1>6, <1>8, LooksMove DEF InterestsInv

LEMMA ListShown ==
  ASSUME InterestsInv, NEW s \in Looks, I!Show(s)
  PROVE  InterestsInv'
<1> SUFFICES ASSUME NEW k, k = look[s], NEW l, l = k.l,
                    NEW shownNow, shownNow = {i \in k.had.ids : I!Shown(l, i)},
                    NEW due, due = {i \in I!Items : /\ since[l][i] # I!NoDay
                                    /\ k.after # I!NoDay /\ since[l][i] < k.after - Fresh}
             PROVE  InterestsInv'
  OBVIOUS
<1>1. /\ k.pc = "show" /\ look' = [look EXCEPT ![s] = I!NoLook]
      /\ overlooked' = overlooked \cup {<<l, i>> : i \in due \ shownNow}
      /\ looked' = [looked EXCEPT ![l] = IF k.day > looked[l] THEN k.day ELSE looked[l]]
      /\ UNCHANGED <<shelf, within, posed, gone, follow, days, since>>
  BY DEF I!Show, InterestsInv, ShelvesTyped
<1>2. /\ k \in Lookup /\ l \in Lists /\ days \in Nat /\ I!NoDay = -1 /\ Fresh \in Nat
      /\ k.day \in Int /\ k.after \in Int /\ k.had \in Shelf
  BY InterestsBounds DEF InterestsInv, ShelvesTyped, Lookup, I!NoDay
<1>3. /\ Complete(l, k.had) /\ Recent(k.had, k.after) /\ k.day \in I!NoDay..days
      /\ Recent(shelf[l], k.day)
  BY <1>1 DEF InterestsInv, LooksFit
<1>4. due \subseteq shownNow
  <2> SUFFICES ASSUME NEW i \in due PROVE i \in shownNow
    OBVIOUS
  <2>1. /\ i \in I!Items /\ since[l][i] # I!NoDay /\ since[l][i] < k.after - Fresh
        /\ k.had.day >= k.after - Fresh /\ k.had.day # I!NoDay
    BY <1>3 DEF Recent
  <2>2. since[l][i] \in Int /\ k.had.day \in Int
    BY <1>2, <2>1 DEF InterestsInv, ShelvesTyped, Shelf
  <2>3. since[l][i] < k.had.day
    BY <1>2, <2>1, <2>2
  <2>4. i \in k.had.ids
    BY <1>3, <2>1, <2>3 DEF Complete
  <2>5. i \in I!Computed(l)
    BY <1>2, <2>1 DEF InterestsInv, SinceFits
  <2>6. I!Shown(l, i)
    BY InterestsBounds, <1>2, <2>5 DEF I!Shown, I!Computed, I!Others
  <2> QED
    BY <2>4, <2>6
<1>5. overlooked' = {}
  BY <1>1, <1>4 DEF InterestsInv
<1>6. look'[s].pc = "idle" /\ \A t \in Looks \ {s} : look'[t] = look[t]
  BY <1>1, NoLookType DEF InterestsInv, ShelvesTyped
<1>7. /\ looked[l] \in I!NoDay..days /\ looked'[l] = (IF k.day > looked[l] THEN k.day ELSE looked[l])
      /\ looked' \in [Lists -> Int] /\ \A m \in Lists \ {l} : looked'[m] = looked[m]
  BY <1>1, <1>2 DEF InterestsInv, ShelvesTyped, ShelvesFit
<1>8. ShelvesTyped'
  BY <1>1, <1>7, NoLookType DEF InterestsInv, ShelvesTyped
<1>9. looked'[l] \in I!NoDay..days /\ Recent(shelf[l], looked'[l])
  <2>1. Recent(shelf[l], looked[l])
    BY <1>2 DEF InterestsInv, ShelvesFit
  <2> QED
    BY <1>3, <1>7, <2>1
<1>10. ShelvesFit'
  BY <1>1, <1>7, <1>9, LooksMove DEF InterestsInv, ShelvesFit
<1>11. LooksFit'
  BY <1>1, <1>6, LooksMove DEF InterestsInv, LooksFit
<1> QED
  BY <1>1, <1>5, <1>8, <1>10, <1>11, LooksMove DEF InterestsInv

LEMMA InterestsStep ==
  ASSUME InterestsInv, I!Next \/ UNCHANGED interests
  PROVE  InterestsInv'
<1>1. CASE UNCHANGED interests
  <2>1. UNCHANGED <<shelf, within, posed, gone, follow, look, days, since, looked, overlooked>>
    BY <1>1 DEF interests
  <2>2. ShelvesTyped' /\ ShelvesFit' /\ LooksFit'
    BY <2>1, LooksMove DEF InterestsInv, ShelvesTyped, ShelvesFit, LooksFit
  <2> QED
    BY <2>1, <2>2, LooksMove DEF InterestsInv
<1>2. days \in 0..MaxDays /\ days' = days => days' \in 0..MaxDays /\ days' >= days
  BY InterestsBounds
<1>3. ASSUME NEW q \in Asked, I!Ask(q) \/ I!Hide(q) PROVE InterestsInv'
  BY <1>2, <1>3, ListsChange DEF I!Ask, I!Hide, I!Turn, InterestsInv, ShelvesTyped
<1>4. ASSUME NEW u \in I!Owners, NEW c \in I!Sites, I!Join(u, c) \/ I!Leave(u, c) PROVE InterestsInv'
  <2>1. u \in People
    BY InterestsBounds DEF I!Owners
  <2> QED
    BY <1>2, <1>4, <2>1, ListsChange DEF I!Join, I!Leave, I!Turn, InterestsInv, ShelvesTyped
<1>5. ASSUME NEW u \in I!Owners, NEW v \in People, I!Follow(u, v) \/ I!Unfollow(u, v) PROVE InterestsInv'
  <2>1. u \in People
    BY InterestsBounds DEF I!Owners
  <2> QED
    BY <1>2, <1>5, <2>1, ListsChange DEF I!Follow, I!Unfollow, I!Turn, InterestsInv, ShelvesTyped
<1>6. CASE I!Day
  <2>1. days' \in 0..MaxDays /\ days' >= days
    BY InterestsBounds, <1>6 DEF I!Day, InterestsInv, ShelvesTyped
  <2> QED
    BY <1>6, <2>1, ListsChange DEF I!Day, InterestsInv, ShelvesTyped
<1> QED
  BY <1>1, <1>3, <1>4, <1>5, <1>6, ListLoaded, ListRefreshed, RefreshFails, ListShown DEF I!Next

\* A look shows whatever has been of interest since more than Fresh days before the look that
\* preceded it, although it shows the list as it was before, unless computing it failed
\* (recs/indexed_layer.py).
THEOREM InterestsAlwaysRecent == CommunitySpec => []InterestsAreRecent
<1> DEFINE Inv == part = "interests" => InterestsInv
<1>1. CommunityInit => Inv
  BY InterestsInit DEF CommunityInit
<1>2. Inv /\ [CommunityNext]_communityVars => Inv'
  BY RunsAlone, InterestsStep
<1>3. Inv => InterestsAreRecent
  BY DEF InterestsInv, InterestsAreRecent, I!InterestsAreRecent
<1> QED BY <1>1, <1>2, <1>3, PTL DEF CommunitySpec

-----------------------------------------------------------------------------
(* The types of all components.                                           *)

CommunityInv ==
  /\ part = "suggestions" => SuggestionsInv
  /\ part = "delivery" => DeliveryInv
  /\ part = "commenting" => CommentsInv
  /\ part = "links" => LinksInv
  /\ part = "accounts" => AddressesInv
  /\ part = "views" => ViewsInv
  /\ part = "timeline" => TimelineInv
  /\ part = "interests" => InterestsInv
  /\ part = "channels" => ChannelsInv

LEMMA InterestsTyped == InterestsInv => I!TypeOK
  BY InterestsBounds
  DEF InterestsInv, ShelvesTyped, ShelvesFit, Complete, Shelf, Lookup, I!TypeOK, I!NoDay

LEMMA CommunityTyped == CommunityInv => AllTypesOK
<1>1. /\ SuggestionsInv => TypeOK
      /\ DeliveryInv => D!TypeOK
      /\ CommentsInv => C!TypeOK
      /\ LinksInv => L!TypeOK
      /\ AddressesInv => A!TypeOK
      /\ ViewsInv => V!TypeOK
      /\ TimelineInv => T!TypeOK
      /\ ChannelsInv => H!TypeOK
  BY DEF SuggestionsInv, DeliveryInv, CommentsInv, LinksInv, AddressesInv, ViewsInv, TimelineInv,
         ChannelsInv
<1> QED
  BY <1>1, InterestsTyped DEF CommunityInv, AllTypesOK

\* Whichever component runs, its state keeps to its types: requests hold what they may hold at
\* their step, rows refer to rows there are, counters stay within their bounds.
THEOREM TypesAlwaysOK == CommunitySpec => []AllTypesOK
<1>1. CommunityInit => CommunityInv
  <2> SUFFICES ASSUME CommunityInit PROVE CommunityInv
    OBVIOUS
  <2>1. D!Init /\ C!Init /\ L!Init /\ A!Init /\ V!Init /\ T!Init /\ I!Init
    BY DEF CommunityInit
  <2> QED
    BY <2>1, ViewsBounds, SuggestionsInit, DeliveryInit, CommentsInit, LinksInit, AddressesInit, ViewsInit,
       TimelineInit, InterestsInit, ChannelsInit DEF CommunityInv
<1>2. CommunityInv /\ [CommunityNext]_communityVars => CommunityInv'
  <2> SUFFICES ASSUME CommunityInv, [CommunityNext]_communityVars PROVE CommunityInv'
    OBVIOUS
  <2>1. ViewsInv /\ UNCHANGED viewing => ViewsInv'
    BY DEF viewing, ViewsInv, V!TypeOK, V!ViewsAccounted, V!InRun, V!Did
  <2>2. part = "suggestions" => SuggestionsInv'
    BY SuggestionsRun, SuggestionsStep DEF CommunityInv
  <2>3. /\ part = "delivery" => DeliveryInv'
        /\ part = "commenting" => CommentsInv'
        /\ part = "links" => LinksInv'
        /\ part = "accounts" => AddressesInv'
        /\ part = "views" => ViewsInv'
        /\ part = "timeline" => TimelineInv'
        /\ part = "interests" => InterestsInv'
        /\ part = "channels" => ChannelsInv'
    BY <2>1, ViewsBounds, RunsAlone, DeliveryStep, CommentsStep, LinksStep, AddressesStep, ViewsStep,
       TimelineStep, InterestsStep, ChannelsStep DEF CommunityInv
  <2>4. part' = part
    BY RunsAlone
  <2> QED
    BY <2>2, <2>3, <2>4 DEF CommunityInv
<1> QED BY <1>1, <1>2, CommunityTyped, PTL DEF CommunitySpec
=============================================================================
