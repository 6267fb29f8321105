-------------------------- MODULE PublishingProofs --------------------------
(***************************************************************************)
(* Proofs about Publishing, for any items, threads, requests and crashes,  *)
(* and about Announcing, its composition with Delivery.                    *)
(***************************************************************************)
EXTENDS Announcing, TLAPS

Active(s) == ~At(s, "idle")

-----------------------------------------------------------------------------
(* What holds however requests interleave.                                 *)

\* A creation is alone with its item; any other request works on an item that
\* exists.  Requests have numbers, and steps that fit their operation.
Requests ==
  \A s \in Slots : Active(s) =>
    /\ req[s].n \in 1..served
    /\ At(s, "archives") => req[s].op = "delete"
    /\ req[s].op = "publishBare" => Kind[req[s].item] = "answer"
    /\ IF Creates(req[s].op)
       THEN /\ ~post[req[s].item].exists
            /\ \A t \in Slots \ {s} : Active(t) => req[t].item # req[s].item
       ELSE post[req[s].item].exists

\* A living item has a text of its own; an absent one is neither published nor deleted.
Bodies ==
  \A i \in Items : /\ post[i].exists /\ ~post[i].deleted => post[i].body \in Numbers
                   /\ post[i].published \/ post[i].deleted => post[i].exists

RaceInv == TypeOK /\ Requests /\ Bodies /\ TasksArePublished

LEMMA RowTypes ==
  /\ NoRow \in Row /\ NoArchive \in [Numbers -> Texts] /\ Numbers \subseteq Texts
  /\ None \in Texts /\ Erased \in Texts
  BY DEF NoRow, Row, NoArchive, Texts, None, Erased

LEMMA IdleType == Idle \in Request /\ Idle.pc = "idle"
  <1>1. (CHOOSE i \in Items : TRUE) \in Items
    BY ConstantsAssumption
  <1>2. 0 \in 0..MaxRequests
    BY ConstantsAssumption
  <1> QED BY <1>1, <1>2, RowTypes DEF Idle, Request, Ops

LEMMA NetChangeType ==
  ASSUME NEW x \in Texts, NEW y \in Texts, NEW z \in Texts
  PROVE NetChange(x, y, z) \in Texts
  BY DEF NetChange

LEMMA RaceInit == Init => RaceInv
  BY IdleType, RowTypes, ConstantsAssumption
     DEF Init, RaceInv, TypeOK, Requests, Bodies, TasksArePublished, Active, At, NoRow

\* A request that ends without a write.
LEMMA RaceEnd ==
  ASSUME RaceInv, NEW s \in Slots, req' = [req EXCEPT ![s] = Idle],
         UNCHANGED <<post, archive, announced, ever, tasks, served, crashes>>
  PROVE RaceInv'
  <1>1. TypeOK'
    BY IdleType DEF RaceInv, TypeOK
  <1>2. Requests'
    BY IdleType DEF RaceInv, TypeOK, Requests, Active, At
  <1> QED BY <1>1, <1>2 DEF RaceInv, Bodies, TasksArePublished, AssertPublished

\* A request that commits a row of its item: only that row and its request matter.
LEMMA RaceCommit ==
  ASSUME RaceInv, NEW s \in Slots, Active(s), NEW new \in Row,
         req' = [req EXCEPT ![s] = Idle],
         post' = [post EXCEPT ![req[s].item] = new],
         archive' \in [Items -> [Numbers -> Texts]],
         ever' \in [Items -> SUBSET Numbers],
         UNCHANGED <<announced, served, crashes>>,
         tasks' \in {tasks, Queue(req[s], new)},
         new.exists,
         post[req[s].item].published => new.published,
         ~new.deleted => new.body \in Numbers
  PROVE RaceInv'
  <1>0. /\ req[s] \in Request /\ req[s].item \in Items /\ req[s].n \in Numbers
        /\ post \in [Items -> Row] /\ req \in [Slots -> Request]
        /\ post'[req[s].item] = new
    <2>1. req[s].n \in 1..served /\ served \in 0..MaxRequests
      BY DEF RaceInv, TypeOK, Requests
    <2>2. req[s].n \in Numbers
      BY <2>1, ConstantsAssumption DEF Numbers
    <2> QED BY <2>2 DEF RaceInv, TypeOK, Request
  <1>1. TypeOK'
    <2>1. Was(req[s]) \in BOOLEAN
      BY <1>0 DEF Was, Request, Row
    <2>2. tasks' \subseteq Task
      BY <1>0, <2>1 DEF RaceInv, TypeOK, Queue, Task
    <2> QED BY <1>0, <2>2, IdleType DEF RaceInv, TypeOK
  <1>2. Requests'
    <2> SUFFICES ASSUME NEW t \in Slots, Active(t)'
                 PROVE (/\ req[t].n \in 1..served
                        /\ At(t, "archives") => req[t].op = "delete"
                        /\ req[t].op = "publishBare" => Kind[req[t].item] = "answer"
                        /\ IF Creates(req[t].op)
                           THEN /\ ~post[req[t].item].exists
                                /\ \A u \in Slots \ {t} :
                                     Active(u) => req[u].item # req[t].item
                           ELSE post[req[t].item].exists)'
      BY DEF Requests
    <2>1. t # s /\ req'[t] = req[t] /\ Active(t)
      BY <1>0, IdleType DEF Active, At
    <2>2. CASE Creates(req[t].op)
      BY <1>0, <2>1, <2>2, IdleType DEF RaceInv, Requests, Active, At
    <2>3. CASE ~Creates(req[t].op)
      BY <1>0, <2>1, <2>3 DEF RaceInv, Requests, Active, At, TypeOK, Request
    <2> QED BY <2>2, <2>3
  <1>3. Bodies'
    BY <1>0 DEF RaceInv, Bodies
  <1>4. TasksArePublished'
    <2> SUFFICES ASSUME NEW t \in tasks' PROVE post'[t.item].exists /\ post'[t.item].published
      BY DEF TasksArePublished, AssertPublished
    <2>1. CASE t \in tasks
      <3>1. t.item \in Items /\ post[t.item].exists /\ post[t.item].published
        BY <2>1 DEF RaceInv, TypeOK, Task, TasksArePublished, AssertPublished
      <3> QED BY <1>0, <3>1
    <2>2. CASE t \notin tasks
      <3>1. new.published /\ t.item = req[s].item
        BY <2>2 DEF Queue
      <3> QED BY <1>0, <3>1
    <2> QED BY <2>1, <2>2
  <1> QED BY <1>1, <1>2, <1>3, <1>4 DEF RaceInv

LEMMA RaceStep ==
  ASSUME RaceInv, [Next]_vars
  PROVE RaceInv'
  <1>1. CASE UNCHANGED vars
    BY <1>1 DEF vars, store, RaceInv, TypeOK, Requests, Bodies, TasksArePublished,
       AssertPublished, Active, At
  <1>2. ASSUME NEW s \in Slots, Begin(s) PROVE RaceInv'
    <2>1. PICK op \in Ops, i \in Items :
            /\ Allowed(op, i) /\ served < MaxRequests /\ At(s, "idle")
            /\ served' = served + 1
            /\ req' = [req EXCEPT ![s] =
                 [Idle EXCEPT !.pc = IF op = "delete" THEN "archives" ELSE "commit",
                              !.op = op, !.item = i, !.n = served + 1, !.row = post[i]]]
            /\ UNCHANGED <<store, tasks, crashes>>
      BY <1>2 DEF Begin
    <2> DEFINE q == [Idle EXCEPT !.pc = IF op = "delete" THEN "archives" ELSE "commit",
                                 !.op = op, !.item = i, !.n = served + 1, !.row = post[i]]
    <2>2. served + 1 \in 0..MaxRequests /\ served + 1 \in 1..(served + 1)
          /\ 1..served \subseteq 1..(served + 1) /\ served' \in 0..MaxRequests
      BY <2>1, ConstantsAssumption DEF RaceInv, TypeOK
    <2>3. q \in Request
      BY <2>2, IdleType DEF RaceInv, TypeOK, Request
    <2>4. q.op = op /\ q.item = i /\ q.n = served + 1 /\ q.row = post[i]
          /\ (q.pc = "archives" => op = "delete") /\ q.pc # "idle"
      BY DEF Idle
    <2>5. req' = [req EXCEPT ![s] = q] /\ req \in [Slots -> Request] /\ post' = post
      BY <2>1 DEF RaceInv, TypeOK, store
    <2> HIDE DEF q
    <2>6. TypeOK'
      BY <2>1, <2>2, <2>3, <2>5 DEF RaceInv, TypeOK, store
    <2>7. op = "publishBare" => Kind[i] = "answer"
      BY <2>1 DEF Allowed
    <2>8. Creates(op) => /\ ~post[i].exists
                         /\ \A t \in Slots : ~At(t, "idle") => req[t].item # i
      BY <2>1 DEF Allowed
    <2>9. ~Creates(op) => post[i].exists
      BY <2>1 DEF Allowed
    <2>10. Requests'
      <3> SUFFICES ASSUME NEW t \in Slots, Active(t)'
                   PROVE (/\ req[t].n \in 1..served
                          /\ At(t, "archives") => req[t].op = "delete"
                          /\ req[t].op = "publishBare" => Kind[req[t].item] = "answer"
                          /\ IF Creates(req[t].op)
                             THEN /\ ~post[req[t].item].exists
                                  /\ \A u \in Slots \ {t} :
                                       Active(u) => req[u].item # req[t].item
                             ELSE post[req[t].item].exists)'
        BY DEF Requests
      <3>1. CASE t = s
        BY <2>1, <2>2, <2>4, <2>5, <2>7, <2>8, <2>9, <3>1 DEF Active, At
      <3>2. CASE t # s
        <4>1. req'[t] = req[t] /\ Active(t)
          BY <2>5, <3>2 DEF Active, At
        <4>2. CASE Creates(req[t].op)
          <5>1. post[i].exists \/ Creates(op)
            BY <2>9
          <5>2. req[t].item # i
            BY <2>8, <4>1, <4>2, <5>1 DEF RaceInv, Requests, Active
          <5> QED BY <2>1, <2>2, <2>4, <2>5, <3>2, <4>1, <4>2, <5>2
                 DEF RaceInv, Requests, Active, At
        <4>3. CASE ~Creates(req[t].op)
          BY <2>1, <2>2, <2>5, <3>2, <4>1, <4>3 DEF RaceInv, Requests, Active, At
        <4> QED BY <4>2, <4>3
      <3> QED BY <3>1, <3>2
    <2> QED BY <2>1, <2>6, <2>10 DEF RaceInv, Bodies, TasksArePublished, AssertPublished, store
  <1>3. ASSUME NEW s \in Slots, ReadArchives(s) PROVE RaceInv'
    <2> DEFINE q == [req[s] EXCEPT !.archive = archive[req[s].item], !.pc = "commit"]
    <2>1. /\ req' = [req EXCEPT ![s] = q] /\ At(s, "archives")
          /\ UNCHANGED <<store, tasks, served, crashes>>
      BY <1>3 DEF ReadArchives, RaceInv, TypeOK
    <2>2. q \in Request /\ q.op = req[s].op /\ q.item = req[s].item /\ q.n = req[s].n
          /\ q.pc = "commit"
      BY DEF RaceInv, TypeOK, Request
    <2> HIDE DEF q
    <2>3. TypeOK'
      BY <2>1, <2>2 DEF RaceInv, TypeOK, store
    <2>4. Requests'
      BY <2>1, <2>2 DEF RaceInv, TypeOK, Requests, Active, At, store
    <2> QED BY <2>1, <2>3, <2>4 DEF RaceInv, Bodies, TasksArePublished, AssertPublished, store
  <1>4. ASSUME NEW s \in Slots, CommitCreate(s) PROVE RaceInv'
    <2> DEFINE new == [NoRow EXCEPT !.exists = TRUE, !.body = req[s].n,
                                    !.published = (req[s].op = "createPublished")]
    <2>1. req[s].n \in Numbers /\ req[s].item \in Items
      BY <1>4, ConstantsAssumption DEF CommitCreate, RaceInv, TypeOK, Requests, Active, At,
         Request, Numbers
    <2>2. new \in Row /\ new.exists /\ new.body = req[s].n
      BY <2>1, RowTypes DEF Row, NoRow
    <2>3. ~post[req[s].item].published
      BY <1>4, <2>1 DEF CommitCreate, RaceInv, Requests, Bodies, Active, At
    <2>4. ever' \in [Items -> SUBSET Numbers]
      BY <1>4, <2>1 DEF CommitCreate, RaceInv, TypeOK
    <2>5. Active(s)
      BY <1>4 DEF CommitCreate, Active, At
    <2>6. /\ post' = [post EXCEPT ![req[s].item] = new] /\ tasks' = Queue(req[s], new)
          /\ req' = [req EXCEPT ![s] = Idle]
          /\ UNCHANGED <<archive, announced, served, crashes>>
      BY <1>4 DEF CommitCreate, Finish
    <2>7. archive' \in [Items -> [Numbers -> Texts]]
      BY <2>6 DEF RaceInv, TypeOK
    <2> HIDE DEF new
    <2> QED BY <2>1, <2>2, <2>3, <2>4, <2>5, <2>6, <2>7, RaceCommit
  <1>5. ASSUME NEW s \in Slots, CommitDraft(s) PROVE RaceInv'
    <2> DEFINE new == Drafted(req[s])
    <2>1. Active(s) /\ ~Creates(req[s].op)
      BY <1>5 DEF CommitDraft, Active, At, Creates
    <2>2. req[s].n \in Numbers /\ req[s].item \in Items /\ post[req[s].item] \in Row
          /\ post[req[s].item].exists
      BY <2>1, ConstantsAssumption DEF RaceInv, TypeOK, Requests, Request, Numbers
    <2>3. new \in Row /\ new.exists /\ new.published = post[req[s].item].published
          /\ new.deleted = post[req[s].item].deleted /\ new.body = post[req[s].item].body
      BY <2>2, RowTypes DEF Drafted, Row
    <2>4. ~new.deleted => new.body \in Numbers
      BY <2>2, <2>3 DEF RaceInv, Bodies
    <2>5. /\ post' = [post EXCEPT ![req[s].item] = new] /\ tasks' = Queue(req[s], new)
          /\ req' = [req EXCEPT ![s] = Idle]
          /\ UNCHANGED <<archive, ever, announced, served, crashes>>
      BY <1>5 DEF CommitDraft, Finish
    <2>6. archive' \in [Items -> [Numbers -> Texts]] /\ ever' \in [Items -> SUBSET Numbers]
      BY <2>5 DEF RaceInv, TypeOK
    <2> HIDE DEF new
    <2> QED BY <2>1, <2>2, <2>3, <2>4, <2>5, <2>6, RaceCommit
  <1>6. ASSUME NEW s \in Slots, CommitPublish(s) PROVE RaceInv'
    <2> DEFINE new == Published(req[s])
    <2>1. Active(s) /\ ~Creates(req[s].op)
      BY <1>6 DEF CommitPublish, Active, At, Creates
    <2>2. req[s].n \in Numbers /\ req[s].item \in Items /\ post[req[s].item] \in Row
          /\ post[req[s].item].exists /\ req[s] \in Request
      BY <2>1, ConstantsAssumption DEF RaceInv, TypeOK, Requests, Request, Numbers
    <2>3. NetChange(None, req[s].row.draft, post[req[s].item].draft) \in Texts
      BY <2>2, RowTypes, NetChangeType DEF Row, Request
    <2>4. new \in Row /\ new.exists /\ new.published
          /\ new.deleted = post[req[s].item].deleted
          /\ new.body = (IF req[s].op = "publish" THEN req[s].n ELSE post[req[s].item].body)
      BY <2>2, <2>3, RowTypes DEF Published, Row
    <2>5. ~new.deleted => new.body \in Numbers
      BY <2>2, <2>4 DEF RaceInv, Bodies
    <2>6. new.body \in Numbers
      <3>1. CASE req[s].op = "publish"
        BY <2>2, <2>4, <3>1
      <3>2. CASE req[s].op = "publishBare"
        <4>1. ~post[req[s].item].deleted
          BY <1>6, <2>1, <3>2 DEF CommitPublish, Readable, RaceInv, Requests
        <4> QED BY <2>4, <2>5, <4>1
      <3> QED BY <1>6, <3>1, <3>2 DEF CommitPublish
    <2>7. /\ post' = [post EXCEPT ![req[s].item] = new] /\ tasks' = Queue(req[s], new)
          /\ req' = [req EXCEPT ![s] = Idle]
          /\ archive' = [archive EXCEPT ![req[s].item] = Archived(req[s])]
          /\ ever' = [ever EXCEPT ![req[s].item] = @ \cup {new.body}]
          /\ UNCHANGED <<announced, served, crashes>>
      BY <1>6 DEF CommitPublish, Finish
    <2>8. Archived(req[s]) \in [Numbers -> Texts]
      BY <2>2 DEF Archived, RaceInv, TypeOK, Request, Row
    <2>9. archive' \in [Items -> [Numbers -> Texts]]
      BY <2>7, <2>8 DEF RaceInv, TypeOK
    <2> HIDE DEF new
    <2>10. ever' \in [Items -> SUBSET Numbers]
      BY <2>6, <2>7 DEF RaceInv, TypeOK
    <2> QED BY <2>1, <2>2, <2>4, <2>5, <2>7, <2>9, <2>10, RaceCommit
  <1>7. ASSUME NEW s \in Slots, CommitDrop(s) PROVE RaceInv'
    <2> DEFINE p == post[req[s].item]
               new == [p EXCEPT !.draft = NetChange(None, req[s].row.draft, @)]
    <2>1. Active(s) /\ ~Creates(req[s].op)
      BY <1>7 DEF CommitDrop, Active, At, Creates
    <2>2. req[s].item \in Items /\ p \in Row /\ p.exists /\ req[s] \in Request
      BY <2>1 DEF RaceInv, TypeOK, Requests, Request
    <2>3. NetChange(None, req[s].row.draft, p.draft) \in Texts
      BY <2>2, RowTypes, NetChangeType DEF Row, Request
    <2>4. new \in Row /\ new.exists /\ new.published = p.published
          /\ new.deleted = p.deleted /\ new.body = p.body
      BY <2>2, <2>3 DEF Row
    <2>5. ~new.deleted => new.body \in Numbers
      BY <2>2, <2>4 DEF RaceInv, Bodies
    <2>6. /\ post' = [post EXCEPT ![req[s].item] = new] /\ tasks' = tasks
          /\ req' = [req EXCEPT ![s] = Idle]
          /\ UNCHANGED <<archive, ever, announced, served, crashes>>
      BY <1>7 DEF CommitDrop, Finish
    <2>7. archive' \in [Items -> [Numbers -> Texts]] /\ ever' \in [Items -> SUBSET Numbers]
      BY <2>6 DEF RaceInv, TypeOK
    <2> HIDE DEF new
    <2> QED BY <2>1, <2>2, <2>4, <2>5, <2>6, <2>7, RaceCommit
  <1>8. ASSUME NEW s \in Slots, CommitDelete(s) PROVE RaceInv'
    <2> DEFINE p == post[req[s].item]
               new == [p EXCEPT !.deleted = TRUE,
                                !.body = NetChange(Erased, req[s].row.body, @),
                                !.draft = NetChange(Erased, req[s].row.draft, @)]
    <2>1. Active(s) /\ ~Creates(req[s].op)
      BY <1>8 DEF CommitDelete, Active, At, Creates
    <2>2. req[s].item \in Items /\ p \in Row /\ p.exists /\ req[s] \in Request
      BY <2>1 DEF RaceInv, TypeOK, Requests, Request
    <2>3. /\ NetChange(Erased, req[s].row.body, p.body) \in Texts
          /\ NetChange(Erased, req[s].row.draft, p.draft) \in Texts
      BY <2>2, RowTypes, NetChangeType DEF Row, Request
    <2>4. new \in Row /\ new.exists /\ new.published = p.published /\ new.deleted
      BY <2>2, <2>3 DEF Row
    <2>5. /\ post' = [post EXCEPT ![req[s].item] = new] /\ tasks' = tasks
          /\ req' = [req EXCEPT ![s] = Idle]
          /\ archive' = [archive EXCEPT ![req[s].item] = ErasedArchive(req[s])]
          /\ UNCHANGED <<ever, announced, served, crashes>>
      BY <1>8, <2>2 DEF CommitDelete, Finish, RaceInv, TypeOK
    <2>6. ErasedArchive(req[s]) \in [Numbers -> Texts]
      <3>1. \A n \in Numbers : archive[req[s].item][n] \in Texts /\ req[s].archive[n] \in Texts
        BY <2>2 DEF RaceInv, TypeOK, Request
      <3> QED BY <3>1, RowTypes, NetChangeType DEF ErasedArchive
    <2>7. archive' \in [Items -> [Numbers -> Texts]] /\ ever' \in [Items -> SUBSET Numbers]
      BY <2>5, <2>6 DEF RaceInv, TypeOK
    <2> HIDE DEF new
    <2> QED BY <2>1, <2>2, <2>4, <2>5, <2>7, RaceCommit
  <1>9. ASSUME NEW s \in Slots, Abort(s) PROVE RaceInv'
    BY <1>9, RaceEnd DEF Abort, store
  <1>10. ASSUME NEW t \in tasks, RunTask(t) \/ FailTask(t) PROVE RaceInv'
    <2>1. /\ tasks' \subseteq tasks /\ announced' \in [Items -> Nat]
          /\ UNCHANGED <<post, archive, ever, req, served, crashes>>
      BY <1>10 DEF RunTask, FailTask, store, RaceInv, TypeOK, Task
    <2> QED BY <2>1 DEF RaceInv, TypeOK, Requests, Bodies, TasksArePublished,
            AssertPublished, Active, At
  <1>11. ASSUME Crash PROVE RaceInv'
    <2>1. crashes' \in 0..MaxCrashes
      BY <1>11, ConstantsAssumption DEF Crash, RaceInv, TypeOK
    <2>2. TypeOK'
      BY <1>11, <2>1, IdleType DEF Crash, store, RaceInv, TypeOK
    <2> QED BY <1>11, <2>2, IdleType DEF Crash, store, RaceInv, Requests, Bodies,
            TasksArePublished, AssertPublished, Active, At
  <1> QED BY <1>1, <1>2, <1>3, <1>4, <1>5, <1>6, <1>7, <1>8, <1>9, <1>10, <1>11 DEF Next

LEMMA RaceAlways == Spec => []RaceInv
  <1>1. Init => RaceInv
    BY RaceInit
  <1>2. RaceInv /\ [Next]_vars => RaceInv'
    BY RaceStep
  <1> QED BY <1>1, <1>2, PTL DEF Spec

\* Every reachable state is well typed; in particular "[DELETED]" is never
\* published as a text.
THEOREM TypeCorrect == Spec => []TypeOK
  <1>1. RaceInv => TypeOK
    BY DEF RaceInv
  <1> QED BY <1>1, RaceAlways, PTL

\* The assertion at the head of the background tasks never fails.
THEOREM TaskAssertHolds == Spec => []TasksArePublished
  <1>1. RaceInv => TasksArePublished
    BY DEF RaceInv
  <1> QED BY <1>1, RaceAlways, PTL

\* What is published stays published.
LEMMA PublishedStays ==
  ASSUME RaceInv, [Next]_vars
  PROVE  \A i \in Items : post[i].published => post'[i].published
  <1> SUFFICES ASSUME NEW i \in Items, post[i].published PROVE post'[i].published
    OBVIOUS
  <1>0. post \in [Items -> Row] /\ post[i].exists
    BY DEF RaceInv, TypeOK, Bodies
  <1>1. ASSUME NEW s \in Slots, CommitCreate(s) PROVE post'[i].published
    <2>1. req[s].item # i
      BY <1>0, <1>1 DEF CommitCreate, RaceInv, Requests, Active, At
    <2> QED BY <1>0, <1>1, <2>1 DEF CommitCreate
  <1>2. ASSUME NEW s \in Slots, CommitDraft(s) \/ CommitPublish(s)
        PROVE post'[i].published
    <2>1. Drafted(req[s]).published = post[req[s].item].published
      BY <1>2 DEF Drafted, RaceInv, TypeOK, Request, Row
    <2>2. Published(req[s]).published = TRUE
      BY <1>2 DEF Published, RaceInv, TypeOK, Request, Row
    <2>3. \/ post' = [post EXCEPT ![req[s].item] = Drafted(req[s])]
          \/ post' = [post EXCEPT ![req[s].item] = Published(req[s])]
      BY <1>2 DEF CommitDraft, CommitPublish
    <2> QED BY <1>0, <2>1, <2>2, <2>3
  <1>3. ASSUME NEW s \in Slots, CommitDrop(s) \/ CommitDelete(s)
        PROVE post'[i].published
    BY <1>0, <1>3 DEF CommitDrop, CommitDelete, Row
  <1>4. CASE UNCHANGED post
    BY <1>4
  <1>5. ASSUME NEW s \in Slots, Begin(s) \/ ReadArchives(s) \/ Abort(s)
        PROVE UNCHANGED post
    BY <1>5 DEF Begin, ReadArchives, Abort, store
  <1>6. ASSUME NEW t \in tasks, RunTask(t) \/ FailTask(t) PROVE UNCHANGED post
    BY <1>6 DEF RunTask, FailTask, store
  <1>7. Crash \/ UNCHANGED vars => UNCHANGED post
    BY DEF Crash, vars, store
  <1> QED BY <1>1, <1>2, <1>3, <1>4, <1>5, <1>6, <1>7 DEF Next

\* is_published is never reverted, whatever overlaps and whenever it crashes.
THEOREM NeverUnpublished == Spec => StaysPublished
  <1> DEFINE Stays == \A i \in Items : post[i].published => post'[i].published
  <1>1. RaceInv /\ [Next]_vars => [Stays]_vars
    BY PublishedStays
  <1> QED BY <1>1, RaceAlways, PTL DEF Spec, StaysPublished

-----------------------------------------------------------------------------
(* What holds when requests on one item do not overlap.                    *)

\* A request is alone with its item, so what it loaded is still there and its
\* archive row is still to be written.
Alone ==
  \A s, t \in Slots :
    /\ Active(s) /\ Active(t) /\ req[s].item = req[t].item
    /\ req[s].item \in IsolatedItems
    => s = t
Current ==
  \A s \in Slots : Active(s) /\ req[s].item \in IsolatedItems =>
    /\ req[s].row = post[req[s].item]
    /\ At(s, "commit") /\ req[s].op = "delete" => req[s].archive = archive[req[s].item]
    /\ archive[req[s].item][req[s].n] = None

\* Requests to come have archived nothing.
Unwritten == \A i \in IsolatedItems, n \in Numbers : n > served => archive[i][n] = None

\* What was not published has never been public or announced; the task that will
\* announce an item is the only one, and it has not yet been announced.
Unseen ==
  \A i \in IsolatedItems : ~post[i].published => announced[i] = 0 /\ ever[i] = {}
OneTask ==
  /\ \A i \in IsolatedItems : announced[i] \in 0..1
  /\ \A t \in tasks : ~t.was /\ t.item \in IsolatedItems => announced[t.item] = 0
  /\ \A t, u \in tasks :
       ~t.was /\ ~u.was /\ t.item = u.item /\ t.item \in IsolatedItems => t = u

Kept(row, arch, pub) ==
  ~row.deleted => \A x \in pub : x = row.body \/ \E n \in Numbers : arch[n] = x
Blank(i, row, arch) ==
  Kind[i] = "answer" /\ row.deleted =>
    /\ row.body \in {None, Erased} /\ row.draft \in {None, Erased}
    /\ \A n \in Numbers : arch[n] \in {None, Erased}
Texted ==
  \A i \in IsolatedItems : Kept(post[i], archive[i], ever[i]) /\ Blank(i, post[i], archive[i])

IsolatedInv ==
  RaceInv /\ Alone /\ Current /\ Unwritten /\ Unseen /\ OneTask /\ Texted

LEMMA IsolatedInit == Init => IsolatedInv
  <1>1. Init => RaceInv
    BY RaceInit
  <1> QED BY <1>1, IdleType, RowTypes, ConstantsAssumption
     DEF Init, IsolatedInv, Alone, Current, Unwritten, Unseen, OneTask, Texted, Kept, Blank,
         Active, At, NoRow, NoArchive

\* A request on its own writes a row, its archive and its history.
LEMMA IsolatedCommit ==
  ASSUME IsolatedInv, RaceInv', NEW s \in Slots, Active(s),
         req[s].item \in IsolatedItems,
         NEW new \in Row, NEW arch \in [Numbers -> Texts], NEW pub \in SUBSET Numbers,
         req' = [req EXCEPT ![s] = Idle],
         post' = [post EXCEPT ![req[s].item] = new],
         archive' = [archive EXCEPT ![req[s].item] = arch],
         ever' = [ever EXCEPT ![req[s].item] = pub],
         UNCHANGED <<announced, served, crashes>>,
         tasks' \in {tasks, Queue(req[s], new)},
         post[req[s].item].published => new.published,
         ~new.published => pub = {},
         Kept(new, arch, pub),
         Blank(req[s].item, new, arch),
         \A n \in Numbers : n > served => arch[n] = None
  PROVE IsolatedInv'
  <1>0. /\ req \in [Slots -> Request] /\ req[s].item \in Items
        /\ post \in [Items -> Row] /\ ever \in [Items -> SUBSET Numbers]
        /\ archive \in [Items -> [Numbers -> Texts]] /\ tasks \subseteq Task
        /\ announced \in [Items -> Nat]
    BY DEF IsolatedInv, RaceInv, TypeOK, Request
  <1>1. \A t \in Slots : Active(t)' => /\ t # s /\ Active(t) /\ req'[t] = req[t]
                                       /\ req[t].item # req[s].item
    BY <1>0, IdleType DEF IsolatedInv, Alone, Active, At, Request
  <1>2. \A i \in IsolatedItems : i # req[s].item =>
          post'[i] = post[i] /\ archive'[i] = archive[i] /\ ever'[i] = ever[i]
    BY <1>0, ConstantsAssumption
  <1>3. /\ post'[req[s].item] = new /\ archive'[req[s].item] = arch
        /\ ever'[req[s].item] = pub
    BY <1>0
  <1>4. Alone'
    BY <1>1 DEF IsolatedInv, Alone
  <1>5. Current'
    BY <1>1, <1>2 DEF IsolatedInv, Current, At
  <1>6. Unwritten'
    BY <1>2, <1>3 DEF IsolatedInv, Unwritten
  <1>7. Unseen'
    BY <1>2, <1>3 DEF IsolatedInv, Unseen
  <1>8. OneTask'
    <2>1. CASE tasks' = tasks
      BY <2>1 DEF IsolatedInv, OneTask
    <2>2. CASE tasks' # tasks
      <3> DEFINE k == [item |-> req[s].item, was |-> Was(req[s]), n |-> req[s].n]
      <3>1. tasks' = tasks \cup {k}
        BY <2>2 DEF Queue
      <3>2. k.item = req[s].item /\ k.was = post[req[s].item].published
        BY DEF Was, IsolatedInv, Current
      <3>3. ~k.was => announced[k.item] = 0 /\ \A t \in tasks : t.item # k.item
        BY <1>0, <3>2 DEF IsolatedInv, Unseen, RaceInv, TasksArePublished, AssertPublished
      <3> HIDE DEF k
      <3> QED BY <3>1, <3>3 DEF IsolatedInv, OneTask
    <2> QED BY <2>1, <2>2
  <1>9. Texted'
    BY <1>2, <1>3 DEF IsolatedInv, Texted, Kept, Blank
  <1> QED BY <1>4, <1>5, <1>6, <1>7, <1>8, <1>9 DEF IsolatedInv

\* A request on another item changes nothing the isolated ones depend on.
LEMMA ElsewhereCommit ==
  ASSUME IsolatedInv, RaceInv', NEW s \in Slots, Active(s),
         req[s].item \notin IsolatedItems,
         req' = [req EXCEPT ![s] = Idle],
         \A i \in IsolatedItems :
           post'[i] = post[i] /\ archive'[i] = archive[i] /\ ever'[i] = ever[i],
         UNCHANGED <<announced, served>>,
         \A t \in tasks' : t \in tasks \/ t.item = req[s].item
  PROVE IsolatedInv'
  <1>1. \A t \in Slots : Active(t)' => t # s /\ Active(t) /\ req'[t] = req[t]
    BY IdleType DEF IsolatedInv, RaceInv, TypeOK, Active, At
  <1>2. Alone'
    BY <1>1 DEF IsolatedInv, Alone
  <1>3. Current'
    BY <1>1 DEF IsolatedInv, Current, At
  <1>4. Unwritten' /\ Unseen' /\ Texted'
    BY DEF IsolatedInv, Unwritten, Unseen, Texted, Kept, Blank
  <1>5. OneTask'
    BY DEF IsolatedInv, OneTask
  <1> QED BY <1>2, <1>3, <1>4, <1>5 DEF IsolatedInv

\* A request, or all of them, ends without a write; tasks may be lost.
LEMMA IsolatedEnd ==
  ASSUME IsolatedInv, RaceInv',
         \A t \in Slots : Active(t)' => Active(t) /\ req'[t] = req[t],
         tasks' \subseteq tasks, UNCHANGED <<store, served>>
  PROVE IsolatedInv'
  <1>1. Alone' /\ Current'
    BY DEF IsolatedInv, Alone, Current, At, store
  <1>2. Unwritten' /\ Unseen' /\ OneTask' /\ Texted'
    BY DEF IsolatedInv, Unwritten, Unseen, OneTask, Texted, Kept, Blank, store
  <1> QED BY <1>1, <1>2 DEF IsolatedInv

LEMMA IsolatedStep ==
  ASSUME IsolatedInv, RaceInv', [Next]_vars
  PROVE IsolatedInv'
  <1>0. /\ req \in [Slots -> Request] /\ post \in [Items -> Row]
        /\ archive \in [Items -> [Numbers -> Texts]] /\ ever \in [Items -> SUBSET Numbers]
        /\ tasks \subseteq Task /\ announced \in [Items -> Nat] /\ served \in 0..MaxRequests
    BY DEF IsolatedInv, RaceInv, TypeOK
  <1>1. CASE UNCHANGED vars
    <2>1. \A t \in Slots : Active(t)' => Active(t) /\ req'[t] = req[t]
      BY <1>1 DEF vars, Active, At
    <2> QED BY <1>1, <2>1, IsolatedEnd DEF vars
  <1>2. ASSUME NEW s \in Slots, Begin(s) PROVE IsolatedInv'
    <2>1. PICK op \in Ops, i \in Items :
            /\ Allowed(op, i) /\ served < MaxRequests /\ At(s, "idle")
            /\ i \in IsolatedItems => Isolated(i)
            /\ served' = served + 1
            /\ req' = [req EXCEPT ![s] =
                 [Idle EXCEPT !.pc = IF op = "delete" THEN "archives" ELSE "commit",
                              !.op = op, !.item = i, !.n = served + 1, !.row = post[i]]]
            /\ UNCHANGED <<store, tasks, crashes>>
      BY <1>2 DEF Begin
    <2> DEFINE q == [Idle EXCEPT !.pc = IF op = "delete" THEN "archives" ELSE "commit",
                                 !.op = op, !.item = i, !.n = served + 1, !.row = post[i]]
    <2>2. q.op = op /\ q.item = i /\ q.n = served + 1 /\ q.row = post[i]
          /\ (q.pc = "commit" => op # "delete")
      BY DEF Idle
    <2>3. req' = [req EXCEPT ![s] = q]
      BY <2>1
    <2> HIDE DEF q
    <2>4. /\ req'[s] = q
          /\ \A t \in Slots : t # s => req'[t] = req[t]
          /\ ~Active(s)
          /\ \A t \in Slots : Active(t) /\ i \in IsolatedItems => req[t].item # i
      BY <1>0, <2>1, <2>3 DEF Isolated, Active
    <2>5. Alone'
      BY <2>2, <2>4 DEF IsolatedInv, Alone, Active, At
    <2>6. i \in IsolatedItems => archive[i][served + 1] = None
      <3>1. served + 1 \in Numbers /\ served + 1 > served
        BY <1>0, <2>1, ConstantsAssumption DEF Numbers
      <3> QED BY <3>1 DEF IsolatedInv, Unwritten
    <2>7. Current'
      <3> SUFFICES ASSUME NEW t \in Slots, Active(t)', req'[t].item \in IsolatedItems
                   PROVE (/\ req[t].row = post[req[t].item]
                          /\ At(t, "commit") /\ req[t].op = "delete"
                               => req[t].archive = archive[req[t].item]
                          /\ archive[req[t].item][req[t].n] = None)'
        BY DEF Current
      <3>1. CASE t = s
        BY <2>1, <2>2, <2>4, <2>6, <3>1 DEF At, store
      <3>2. CASE t # s
        BY <2>1, <2>4, <3>2 DEF IsolatedInv, Current, Active, At, store
      <3> QED BY <3>1, <3>2
    <2>8. Unwritten'
      BY <1>0, <2>1 DEF IsolatedInv, Unwritten, store, Numbers
    <2>9. Unseen' /\ OneTask' /\ Texted'
      BY <2>1 DEF IsolatedInv, Unseen, OneTask, Texted, Kept, Blank, store
    <2> QED BY <2>5, <2>7, <2>8, <2>9 DEF IsolatedInv
  <1>3. ASSUME NEW s \in Slots, ReadArchives(s) PROVE IsolatedInv'
    <2> DEFINE q == [req[s] EXCEPT !.archive = archive[req[s].item], !.pc = "commit"]
    <2>1. /\ req' = [req EXCEPT ![s] = q] /\ Active(s)
          /\ UNCHANGED <<store, tasks, served, crashes>>
      BY <1>3, <1>0 DEF ReadArchives, Active, At
    <2>2. q.op = req[s].op /\ q.item = req[s].item /\ q.n = req[s].n /\ q.row = req[s].row
          /\ q.archive = archive[req[s].item]
      BY <1>0 DEF Request
    <2> HIDE DEF q
    <2>3. /\ req'[s] = q
          /\ \A t \in Slots : t # s => req'[t] = req[t]
      BY <1>0, <2>1
    <2>4. Alone'
      BY <2>1, <2>2, <2>3 DEF IsolatedInv, Alone, Active, At
    <2>5. Current'
      BY <2>1, <2>2, <2>3 DEF IsolatedInv, Current, Active, At, store
    <2> QED BY <2>1, <2>4, <2>5
        DEF IsolatedInv, Unwritten, Unseen, OneTask, Texted, Kept, Blank, store
  <1>4. ASSUME NEW s \in Slots, CommitCreate(s) \/ CommitDraft(s) \/ CommitPublish(s)
                                  \/ CommitDrop(s) \/ CommitDelete(s)
        PROVE IsolatedInv'
    <2> PICK q \in Request : q = req[s]
      BY <1>0
    <2>0. CASE q.item \notin IsolatedItems
      <3>1. /\ Active(s) /\ req' = [req EXCEPT ![s] = Idle]
            /\ UNCHANGED <<announced, served>>
            /\ \A t \in tasks' : t \in tasks \/ t.item = q.item
        BY <1>4 DEF CommitCreate, CommitDraft, CommitPublish, CommitDrop, CommitDelete,
           Finish, Active, At, Queue
      <3>2. \A j \in Items : j # q.item =>
              post'[j] = post[j] /\ archive'[j] = archive[j] /\ ever'[j] = ever[j]
        BY <1>0, <1>4 DEF CommitCreate, CommitDraft, CommitPublish, CommitDrop, CommitDelete
      <3> QED BY <2>0, <3>1, <3>2, ElsewhereCommit, ConstantsAssumption
    <2> SUFFICES ASSUME q.item \in IsolatedItems PROVE IsolatedInv'
      BY <2>0
    <2> DEFINE i == q.item
    <2>1. /\ Active(s) /\ q.row = post[i] /\ i \in Items /\ post[i] \in Row
          /\ q.n \in Numbers /\ archive[i][q.n] = None /\ ~(q.n > served)
          /\ q.pc = "commit" /\ (q.op = "delete" => q.archive = archive[i])
          /\ archive[i] \in [Numbers -> Texts] /\ ever[i] \in SUBSET Numbers
      <3>1. At(s, "commit") /\ Active(s)
        BY <1>4 DEF CommitCreate, CommitDraft, CommitPublish, CommitDrop, CommitDelete,
           Active, At
      <3>2. q.n \in 1..served
        BY <3>1 DEF IsolatedInv, RaceInv, Requests
      <3>3. q.n \in Numbers /\ ~(q.n > served)
        BY <1>0, <3>2, ConstantsAssumption DEF Numbers
      <3>4. i \in Items
        BY DEF Request
      <3>5. /\ q.row = post[i] /\ archive[i][q.n] = None
            /\ q.op = "delete" => q.archive = archive[i]
        BY <3>1 DEF IsolatedInv, Current
      <3> QED BY <1>0, <3>1, <3>3, <3>4, <3>5 DEF At
    <2>2. \A n \in Numbers : n > served => archive[i][n] = None
      BY <2>1 DEF IsolatedInv, Unwritten
    <2>3. /\ Kept(post[i], archive[i], ever[i]) /\ Blank(i, post[i], archive[i])
          /\ ~post[i].published => ever[i] = {}
      BY <2>1 DEF IsolatedInv, Texted, Unseen
    <2>4. archive = [archive EXCEPT ![i] = archive[i]] /\ ever = [ever EXCEPT ![i] = ever[i]]
      BY <1>0, <2>1
    <2>5. \A new \in Row, arch \in [Numbers -> Texts], pub \in SUBSET Numbers :
            /\ req' = [req EXCEPT ![s] = Idle]
            /\ post' = [post EXCEPT ![i] = new]
            /\ archive' = [archive EXCEPT ![i] = arch]
            /\ ever' = [ever EXCEPT ![i] = pub]
            /\ UNCHANGED <<announced, served, crashes>>
            /\ tasks' \in {tasks, Queue(q, new)}
            /\ post[i].published => new.published
            /\ ~new.published => pub = {}
            /\ Kept(new, arch, pub)
            /\ Blank(i, new, arch)
            /\ \A n \in Numbers : n > served => arch[n] = None
            => IsolatedInv'
      BY <2>1, IsolatedCommit
    <2>6. NoRow \in Row /\ None \in Texts /\ Erased \in Texts /\ q.n \in Texts
          /\ None \notin Numbers /\ None # Erased
      BY <2>1, RowTypes DEF Numbers, None, Erased
    <2>7. CASE CommitCreate(s)
      <3> DEFINE new == [NoRow EXCEPT !.exists = TRUE, !.body = q.n,
                                      !.published = (q.op = "createPublished")]
                 pub == IF new.published THEN {q.n} ELSE {}
      <3>1. new \in Row /\ new.body = q.n /\ ~new.deleted /\ pub \in SUBSET Numbers
        BY <2>1, <2>6 DEF Row, NoRow
      <3>2. ~post[i].published
        BY <2>1, <2>7 DEF CommitCreate, IsolatedInv, RaceInv, Requests, Bodies
      <3>3. Kept(new, archive[i], pub) /\ Blank(i, new, archive[i])
        BY <3>1 DEF Kept, Blank
      <3>4. /\ req' = [req EXCEPT ![s] = Idle] /\ UNCHANGED <<announced, served, crashes>>
            /\ post' = [post EXCEPT ![i] = new] /\ archive' = archive
            /\ ever' = [ever EXCEPT ![i] = pub] /\ tasks' = Queue(q, new)
        BY <2>7 DEF CommitCreate, Finish
      <3>5. ~new.published => pub = {}
        OBVIOUS
      <3> HIDE DEF new, pub
      <3> QED BY <2>1, <2>2, <2>4, <2>5, <3>1, <3>2, <3>3, <3>4, <3>5
    <2>8. CASE CommitDraft(s)
      <3> DEFINE new == Drafted(q)
      <3>1. new \in Row /\ new.published = post[i].published
            /\ new.deleted = post[i].deleted /\ new.body = post[i].body
        BY <2>1, <2>6 DEF Drafted, Row
      <3>2. Kept(new, archive[i], ever[i])
        BY <2>3, <3>1 DEF Kept
      <3>3. Blank(i, new, archive[i])
        BY <2>8, <3>1 DEF Blank, CommitDraft, Readable
      <3>4. /\ req' = [req EXCEPT ![s] = Idle] /\ UNCHANGED <<announced, served, crashes>>
            /\ post' = [post EXCEPT ![i] = new] /\ archive' = archive
            /\ ever' = ever /\ tasks' = Queue(q, new)
        BY <2>8 DEF CommitDraft, Finish
      <3>5. /\ archive' = [archive EXCEPT ![i] = archive[i]]
            /\ ever' = [ever EXCEPT ![i] = ever[i]]
            /\ ~new.published => ever[i] = {}
            /\ post[i].published => new.published
        BY <2>3, <2>4, <3>1, <3>4
      <3> HIDE DEF new, i
      <3> QED BY <2>1, <2>2, <2>5, <3>1, <3>2, <3>3, <3>4, <3>5
    <2>9. CASE CommitPublish(s)
      <3> DEFINE new == Published(q)
                 arch == Archived(q)
                 pub == ever[i] \cup {new.body}
      <3>1. /\ new \in Row /\ new.published /\ new.deleted = post[i].deleted
            /\ new.body = (IF q.op = "publish" THEN q.n ELSE post[i].body)
        <4>1. NetChange(None, q.row.draft, post[i].draft) \in Texts
          BY <2>1, <2>6, NetChangeType DEF Row
        <4> QED BY <2>1, <2>6, <4>1 DEF Published, Row
      <3>2. arch = (IF post[i].published THEN [archive[i] EXCEPT ![q.n] = post[i].body]
                                        ELSE archive[i])
        BY <2>1 DEF Archived
      <3>3. arch \in [Numbers -> Texts]
        BY <2>1, <3>2 DEF Row
      <3>4. /\ req' = [req EXCEPT ![s] = Idle] /\ UNCHANGED <<announced, served, crashes>>
            /\ post' = [post EXCEPT ![i] = new]
            /\ archive' = [archive EXCEPT ![i] = arch]
            /\ ever' = [ever EXCEPT ![i] = pub] /\ tasks' = Queue(q, new)
        BY <1>0, <2>1, <2>9 DEF CommitPublish, Finish
      <3>5. pub \in SUBSET Numbers
        <4>1. ever'[i] = pub /\ ever' \in [Items -> SUBSET Numbers]
          BY <1>0, <2>1, <3>4 DEF RaceInv, TypeOK
        <4> QED BY <2>1, <4>1
      <3>6. Blank(i, new, arch)
        BY <2>9, <3>1 DEF Blank, CommitPublish, Readable
      <3>7. \A n \in Numbers : n > served => arch[n] = None
        BY <2>1, <2>2, <3>2
      <3>8. Kept(new, arch, pub)
        <4> SUFFICES ASSUME ~new.deleted, NEW x \in ever[i]
                     PROVE \E n \in Numbers : arch[n] = x
          BY DEF Kept
        <4>1. post[i].published /\ x \in Numbers
          BY <2>1, <2>3
        <4>2. CASE x = post[i].body
          BY <2>1, <3>2, <4>1, <4>2
        <4>3. CASE x # post[i].body
          <5>1. PICK n \in Numbers : archive[i][n] = x
            BY <2>3, <3>1, <4>3 DEF Kept
          <5>2. n # q.n
            BY <2>1, <2>6, <4>1, <5>1
          <5> QED BY <2>1, <3>2, <5>1, <5>2
        <4> QED BY <4>2, <4>3
      <3> HIDE DEF new, arch, pub
      <3> QED BY <2>1, <2>5, <3>1, <3>3, <3>4, <3>5, <3>6, <3>7, <3>8
    <2>10. CASE CommitDrop(s)
      <3> DEFINE new == [post[i] EXCEPT !.draft = NetChange(None, q.row.draft, @)]
      <3>1. NetChange(None, q.row.draft, post[i].draft) = None
        BY <2>1 DEF NetChange
      <3>2. new \in Row /\ new.published = post[i].published /\ new.draft = None
            /\ new.deleted = post[i].deleted /\ new.body = post[i].body
        BY <2>1, <2>6, <3>1 DEF Row
      <3>3. Kept(new, archive[i], ever[i]) /\ Blank(i, new, archive[i])
        BY <2>3, <3>2 DEF Kept, Blank
      <3>4. /\ req' = [req EXCEPT ![s] = Idle] /\ UNCHANGED <<announced, served, crashes>>
            /\ post' = [post EXCEPT ![i] = new] /\ archive' = archive
            /\ ever' = ever /\ tasks' = tasks
        BY <2>10 DEF CommitDrop, Finish
      <3>5. /\ archive' = [archive EXCEPT ![i] = archive[i]]
            /\ ever' = [ever EXCEPT ![i] = ever[i]]
            /\ ~new.published => ever[i] = {}
            /\ post[i].published => new.published
        BY <2>3, <2>4, <3>2, <3>4
      <3> HIDE DEF new, i
      <3> QED BY <2>1, <2>2, <2>5, <3>2, <3>3, <3>4, <3>5
    <2>11. CASE CommitDelete(s)
      <3> DEFINE new == [post[i] EXCEPT !.deleted = TRUE,
                                        !.body = NetChange(Erased, q.row.body, @),
                                        !.draft = NetChange(Erased, q.row.draft, @)]
                 arch == ErasedArchive(q)
      <3>1. /\ NetChange(Erased, q.row.body, post[i].body) = Erased
            /\ NetChange(Erased, q.row.draft, post[i].draft) = Erased
        BY <2>1 DEF NetChange
      <3>2. new \in Row /\ new.published = post[i].published /\ new.draft = Erased
            /\ new.deleted /\ new.body = Erased
        BY <2>1, <2>6, <3>1 DEF Row
      <3>3. q.archive = archive[i]
        BY <2>1, <2>11 DEF CommitDelete
      <3>4. arch = [n \in Numbers |-> IF archive[i][n] = None THEN None ELSE Erased]
        BY <3>3 DEF ErasedArchive, NetChange
      <3>5. arch \in [Numbers -> Texts]
        BY <2>6, <3>4
      <3>6. Kept(new, arch, ever[i]) /\ Blank(i, new, arch)
        BY <3>2, <3>4 DEF Kept, Blank
      <3>7. \A n \in Numbers : n > served => arch[n] = None
        BY <2>2, <3>4
      <3>8. /\ req' = [req EXCEPT ![s] = Idle] /\ UNCHANGED <<announced, served, crashes>>
            /\ post' = [post EXCEPT ![i] = new]
            /\ archive' = [archive EXCEPT ![i] = arch]
            /\ ever' = ever /\ tasks' = tasks
        BY <1>0, <2>1, <2>11 DEF CommitDelete, Finish
      <3> HIDE DEF new, arch
      <3> QED BY <2>1, <2>3, <2>4, <2>5, <3>2, <3>5, <3>6, <3>7, <3>8
    <2> QED BY <1>4, <2>7, <2>8, <2>9, <2>10, <2>11
  <1>5. ASSUME NEW s \in Slots, Abort(s) PROVE IsolatedInv'
    <2>1. \A t \in Slots : Active(t)' => Active(t) /\ req'[t] = req[t]
      BY <1>0, <1>5, IdleType DEF Abort, Active, At
    <2> QED BY <1>5, <2>1, IsolatedEnd DEF Abort
  <1>6. ASSUME NEW t \in tasks, RunTask(t) PROVE IsolatedInv'
    <2>1. t \in Task /\ t.item \in Items
      BY <1>0, <1>6 DEF Task
    <2>2. /\ tasks' = tasks \ {t} /\ post[t.item].published
          /\ announced' = [announced EXCEPT ![t.item] = IF Announces(t) THEN @ + 1 ELSE @]
          /\ UNCHANGED <<post, archive, ever, req, served, crashes>>
      BY <1>6 DEF RunTask, AssertPublished
    <2>3. OneTask'
      BY <1>0, <2>1, <2>2 DEF IsolatedInv, OneTask, Announces, Task
    <2>4. Unseen'
      BY <1>0, <2>1, <2>2 DEF IsolatedInv, Unseen
    <2> QED BY <2>2, <2>3, <2>4
        DEF IsolatedInv, Alone, Current, Active, At, Unwritten, Texted, Kept, Blank
  <1>7. ASSUME NEW t \in tasks, FailTask(t) PROVE IsolatedInv'
    <2>1. \A u \in Slots : Active(u)' => Active(u) /\ req'[u] = req[u]
      BY <1>7 DEF FailTask, Active, At
    <2> QED BY <1>7, <2>1, IsolatedEnd DEF FailTask
  <1>8. ASSUME Crash PROVE IsolatedInv'
    <2>1. \A t \in Slots : Active(t)' => Active(t) /\ req'[t] = req[t]
      BY <1>8, IdleType DEF Crash, Active, At
    <2> QED BY <1>8, <2>1, IsolatedEnd DEF Crash
  <1> QED BY <1>1, <1>2, <1>3, <1>4, <1>5, <1>6, <1>7, <1>8 DEF Next

LEMMA IsolatedAlways == Spec => []IsolatedInv
  <1>1. Init => IsolatedInv
    BY IsolatedInit
  <1>2. IsolatedInv /\ RaceInv' /\ [Next]_vars => IsolatedInv'
    BY IsolatedStep
  <1> QED BY <1>1, <1>2, RaceAlways, PTL DEF Spec

\* A publication is announced at most once, whatever tasks fail and whenever the
\* process crashes, if requests on the item do not overlap.
THEOREM AnnouncedAtMostOncePerItem == Spec => []AnnouncedOnce
  <1>1. IsolatedInv => AnnouncedOnce
    BY DEF IsolatedInv, OneTask, AnnouncedOnce
  <1> QED BY <1>1, IsolatedAlways, PTL

\* A text that has been public stays, as the body or in the archive, until the item
\* is deleted, if requests on the item do not overlap.
THEOREM PublicTextsKept == Spec => []NothingLost
  <1>1. IsolatedInv => NothingLost
    BY DEF IsolatedInv, Texted, Kept, NothingLost, InArchive
  <1> QED BY <1>1, IsolatedAlways, PTL

\* Deleting an answer leaves none of its texts, then or later, if requests on the
\* answer do not overlap.
THEOREM DeletionErasesAnswers == Spec => []AnswersErased
  <1>1. IsolatedInv => AnswersErased
    BY DEF IsolatedInv, Texted, Blank, AnswersErased, Leftovers
  <1> QED BY <1>1, IsolatedAlways, PTL

-----------------------------------------------------------------------------
(* Publishing implements Publication.                                      *)

PhaseOf(row) ==
  CASE ~row.exists -> "absent"
    [] row.exists /\ ~row.published -> "draft"
    [] OTHER -> "published"

LEMMA PhaseIs == Phase = [i \in IsolatedItems |-> PhaseOf(post[i])]
  BY DEF Phase, PhaseOf

LEMMA PhaseNextIs == Phase' = [i \in IsolatedItems |-> PhaseOf(post'[i])]
  BY DEF Phase, PhaseOf

\* A step that writes one row and announces nothing is a step of Publication.
LEMMA RowStep ==
  ASSUME NEW i \in IsolatedItems, NEW new \in Row, post \in [Items -> Row],
         post' = [post EXCEPT ![i] = new], announced' = announced,
         \/ PhaseOf(post[i]) = PhaseOf(new)
         \/ ~post[i].exists /\ new.exists
         \/ post[i].exists /\ new.exists /\ ~post[i].published /\ new.published,
         \/ new.deleted = post[i].deleted
         \/ new.deleted /\ post[i].exists /\ PhaseOf(post[i]) = PhaseOf(new)
  PROVE Promise!Next \/ UNCHANGED Promise!vars
  <1>0. IsolatedItems \subseteq Items /\ Told' = Told
    BY ConstantsAssumption DEF Told
  <1>1. /\ Phase = [j \in IsolatedItems |-> PhaseOf(post[j])]
        /\ Phase' = [j \in IsolatedItems |-> PhaseOf(post'[j])]
    BY PhaseIs, PhaseNextIs
  <1>2. Phase' = [Phase EXCEPT ![i] = PhaseOf(new)] /\ Phase[i] = PhaseOf(post[i])
    BY <1>0, <1>1
  <1>3. Gone' = [Gone EXCEPT ![i] = new.deleted] /\ Gone[i] = post[i].deleted
    BY <1>0 DEF Gone
  <1>4. CASE PhaseOf(post[i]) = PhaseOf(new)
    <2>1. Phase' = Phase
      BY <1>1, <1>2, <1>4
    <2>2. CASE new.deleted = post[i].deleted
      <3>1. Gone' = Gone
        BY <1>3, <2>2 DEF Gone
      <3> QED BY <1>0, <2>1, <3>1 DEF Promise!vars
    <2>3. CASE new.deleted /\ post[i].exists
      <3>1. Phase[i] # "absent" /\ new.deleted = TRUE
        BY <1>2, <2>3 DEF PhaseOf, Row
      <3>2. Promise!Delete(i)
        BY <1>0, <1>3, <2>1, <3>1 DEF Promise!Delete
      <3> QED BY <3>2 DEF Promise!Next
    <2> QED BY <2>2, <2>3
  <1>5. CASE PhaseOf(post[i]) # PhaseOf(new)
    <2>1. Gone' = Gone
      BY <1>3, <1>5 DEF Gone
    <2>2. CASE ~post[i].exists /\ new.exists
      <3>1. Phase[i] = "absent" /\ PhaseOf(new) \in {"draft", "published"}
        BY <1>2, <2>2 DEF PhaseOf
      <3>2. Promise!Write(i)
        BY <1>0, <1>2, <2>1, <3>1 DEF Promise!Write
      <3> QED BY <3>2 DEF Promise!Next
    <2>3. CASE post[i].exists /\ new.exists /\ ~post[i].published /\ new.published
      <3>1. Phase[i] = "draft" /\ PhaseOf(new) = "published"
        BY <1>2, <2>3 DEF PhaseOf
      <3>2. Promise!Publish(i)
        BY <1>0, <1>2, <2>1, <3>1 DEF Promise!Publish
      <3> QED BY <3>2 DEF Promise!Next
    <2> QED BY <1>5, <2>2, <2>3
  <1> QED BY <1>4, <1>5

LEMMA RefinesStep ==
  ASSUME IsolatedInv, [Next]_vars
  PROVE Promise!Next \/ UNCHANGED Promise!vars
  <1>0. /\ req \in [Slots -> Request] /\ post \in [Items -> Row]
        /\ announced \in [Items -> Nat] /\ tasks \subseteq Task
    BY DEF IsolatedInv, RaceInv, TypeOK
  <1>1. UNCHANGED <<post, announced>> => UNCHANGED Promise!vars
    BY DEF Promise!vars, Phase, Gone, Told
  <1>2. CASE UNCHANGED vars
    BY <1>1, <1>2 DEF vars, store
  <1>3. ASSUME NEW s \in Slots, Begin(s) \/ ReadArchives(s) \/ Abort(s)
        PROVE UNCHANGED Promise!vars
    BY <1>1, <1>3 DEF Begin, ReadArchives, Abort, store
  <1>4. ASSUME NEW s \in Slots, CommitCreate(s) \/ CommitDraft(s) \/ CommitPublish(s)
                                  \/ CommitDrop(s) \/ CommitDelete(s)
        PROVE Promise!Next \/ UNCHANGED Promise!vars
    <2> PICK q \in Request : q = req[s]
      BY <1>0
    <2>0. CASE q.item \notin IsolatedItems
      <3>1. \A j \in Items : j # q.item => post'[j] = post[j]
        BY <1>0, <1>4 DEF CommitCreate, CommitDraft, CommitPublish, CommitDrop, CommitDelete
      <3>2. announced' = announced /\ \A j \in IsolatedItems : post'[j] = post[j]
        BY <1>4, <2>0, <3>1, ConstantsAssumption
           DEF CommitCreate, CommitDraft, CommitPublish, CommitDrop, CommitDelete, Finish
      <3> QED BY <3>2 DEF Promise!vars, Phase, Gone, Told
    <2> SUFFICES ASSUME q.item \in IsolatedItems PROVE Promise!Next \/ UNCHANGED Promise!vars
      BY <2>0
    <2>1. /\ q.item \in Items /\ q.row = post[q.item] /\ post[q.item] \in Row
          /\ q.n \in Texts /\ None \in Texts /\ Erased \in Texts /\ NoRow \in Row
          /\ announced' = announced
          /\ IF Creates(q.op) THEN ~post[q.item].exists ELSE post[q.item].exists
      <3>1. Active(s) /\ announced' = announced
        BY <1>4 DEF CommitCreate, CommitDraft, CommitPublish, CommitDrop, CommitDelete,
           Finish, Active, At
      <3>2. q.n \in Numbers
        BY <1>0, <3>1, ConstantsAssumption
           DEF IsolatedInv, RaceInv, Requests, TypeOK, Numbers
      <3> QED BY <1>0, <3>1, <3>2, RowTypes
             DEF IsolatedInv, Current, RaceInv, Requests, Request
    <2>2. CASE CommitCreate(s)
      <3> DEFINE new == [NoRow EXCEPT !.exists = TRUE, !.body = q.n,
                                      !.published = (q.op = "createPublished")]
      <3>1. new \in Row /\ new.exists /\ ~new.deleted
        BY <2>1 DEF Row, NoRow
      <3>2. post' = [post EXCEPT ![q.item] = new] /\ ~post[q.item].exists
        BY <2>1, <2>2 DEF CommitCreate
      <3>3. ~post[q.item].deleted
        BY <2>1, <3>2 DEF IsolatedInv, RaceInv, Bodies
      <3> HIDE DEF new
      <3> QED BY <1>0, <2>1, <3>1, <3>2, <3>3, RowStep DEF Row
    <2>3. CASE CommitDraft(s)
      <3> DEFINE new == Drafted(q)
      <3>1. new \in Row /\ new.exists = post[q.item].exists
            /\ new.published = post[q.item].published /\ new.deleted = post[q.item].deleted
        BY <2>1 DEF Drafted, Row
      <3>2. post' = [post EXCEPT ![q.item] = new]
        BY <2>3 DEF CommitDraft
      <3> HIDE DEF new
      <3>3. PhaseOf(post[q.item]) = PhaseOf(new)
        BY <3>1 DEF PhaseOf
      <3> QED BY <1>0, <2>1, <3>1, <3>2, <3>3, RowStep
    <2>4. CASE CommitPublish(s)
      <3> DEFINE new == Published(q)
      <3>1. NetChange(None, q.row.draft, post[q.item].draft) \in Texts
        BY <2>1, NetChangeType DEF Row
      <3>2. new \in Row /\ new.exists = post[q.item].exists
            /\ new.published /\ new.deleted = post[q.item].deleted
        BY <2>1, <3>1 DEF Published, Row
      <3>3. post' = [post EXCEPT ![q.item] = new] /\ post[q.item].exists
        BY <2>1, <2>4 DEF CommitPublish, Creates
      <3> HIDE DEF new
      <3>4. post[q.item].published => PhaseOf(post[q.item]) = PhaseOf(new)
        BY <3>2, <3>3 DEF PhaseOf
      <3> QED BY <1>0, <2>1, <3>2, <3>3, <3>4, RowStep
    <2>5. CASE CommitDrop(s)
      <3> DEFINE new == [post[q.item] EXCEPT !.draft = NetChange(None, q.row.draft, @)]
      <3>1. NetChange(None, q.row.draft, post[q.item].draft) \in Texts
        BY <2>1, NetChangeType DEF Row
      <3>2. new \in Row /\ new.exists = post[q.item].exists
            /\ new.published = post[q.item].published /\ new.deleted = post[q.item].deleted
        BY <2>1, <3>1 DEF Row
      <3>3. post' = [post EXCEPT ![q.item] = new]
        BY <2>5 DEF CommitDrop
      <3> HIDE DEF new
      <3>4. PhaseOf(post[q.item]) = PhaseOf(new)
        BY <3>2 DEF PhaseOf
      <3> QED BY <1>0, <2>1, <3>2, <3>3, <3>4, RowStep
    <2>6. CASE CommitDelete(s)
      <3> DEFINE new == [post[q.item] EXCEPT !.deleted = TRUE,
                                             !.body = NetChange(Erased, q.row.body, @),
                                             !.draft = NetChange(Erased, q.row.draft, @)]
      <3>1. /\ NetChange(Erased, q.row.body, post[q.item].body) \in Texts
            /\ NetChange(Erased, q.row.draft, post[q.item].draft) \in Texts
        BY <2>1, NetChangeType DEF Row
      <3>2. new \in Row /\ new.exists = post[q.item].exists
            /\ new.published = post[q.item].published /\ new.deleted
        BY <2>1, <3>1 DEF Row
      <3>3. post' = [post EXCEPT ![q.item] = new] /\ post[q.item].exists
        BY <1>0, <2>1, <2>6 DEF CommitDelete, Creates
      <3> HIDE DEF new
      <3>4. PhaseOf(post[q.item]) = PhaseOf(new)
        BY <3>2 DEF PhaseOf
      <3> QED BY <1>0, <2>1, <3>2, <3>3, <3>4, RowStep
    <2> QED BY <1>4, <2>2, <2>3, <2>4, <2>5, <2>6
  <1>5. ASSUME NEW t \in tasks, RunTask(t) PROVE Promise!Next \/ UNCHANGED Promise!vars
    <2>1. /\ t \in tasks /\ t.item \in Items /\ AssertPublished(t) /\ post' = post
          /\ announced' = [announced EXCEPT ![t.item] = IF Announces(t) THEN @ + 1 ELSE @]
      BY <1>0, <1>5 DEF RunTask, Task
    <2>2. Phase' = Phase /\ Gone' = Gone
      BY <2>1 DEF Phase, Gone
    <2>0. CASE t.item \notin IsolatedItems
      <3>1. \A j \in IsolatedItems : announced'[j] = announced[j]
        BY <1>0, <2>0, <2>1, ConstantsAssumption
      <3> QED BY <2>2, <3>1 DEF Promise!vars, Told
    <2>3. CASE t.was
      BY <1>0, <1>1, <2>1, <2>3 DEF Announces
    <2>4. CASE ~t.was /\ t.item \in IsolatedItems
      <3>1. Phase[t.item] = "published"
        BY <2>1, <2>4, PhaseIs DEF AssertPublished, PhaseOf
      <3>2. announced[t.item] = 0
        BY <2>1, <2>4 DEF IsolatedInv, OneTask
      <3>3. announced' = [announced EXCEPT ![t.item] = 1]
        BY <1>0, <2>1, <2>4, <3>2 DEF Announces
      <3>4. /\ Told' = [Told EXCEPT ![t.item] = 1] /\ Told[t.item] = 0
        BY <1>0, <2>4, <3>2, <3>3, ConstantsAssumption DEF Told
      <3>5. Promise!Announce(t.item)
        BY <2>2, <3>1, <3>4 DEF Promise!Announce
      <3> QED BY <2>4, <3>5 DEF Promise!Next
    <2> QED BY <2>0, <2>3, <2>4
  <1>6. ASSUME NEW t \in tasks, FailTask(t) PROVE UNCHANGED Promise!vars
    BY <1>1, <1>6 DEF FailTask, store
  <1>7. Crash => UNCHANGED Promise!vars
    BY <1>1 DEF Crash, store
  <1> QED BY <1>2, <1>3, <1>4, <1>5, <1>6, <1>7 DEF Next

\* Publishing, its tasks, failures and crashes implement Publication for the items
\* on which requests do not overlap.
THEOREM PublishingImplementsPublication == Spec => ImplementsPublication
  <1>1. Init => Promise!Init
    <2> SUFFICES ASSUME Init PROVE Promise!Init
      OBVIOUS
    <2>1. \A i \in IsolatedItems : post[i] = NoRow /\ announced[i] = 0
      BY ConstantsAssumption DEF Init
    <2>2. ~NoRow.exists /\ NoRow.deleted = FALSE
      BY DEF NoRow
    <2>3. Phase = [i \in IsolatedItems |-> "absent"]
      BY <2>1, <2>2 DEF Phase
    <2>4. Gone = [i \in IsolatedItems |-> FALSE] /\ Told = [i \in IsolatedItems |-> 0]
      BY <2>1, <2>2 DEF Gone, Told
    <2> QED BY <2>3, <2>4 DEF Promise!Init
  <1>2. IsolatedInv /\ [Next]_vars => [Promise!Next]_(Promise!vars)
    BY RefinesStep
  <1> QED BY <1>1, <1>2, IsolatedAlways, PTL DEF Spec, ImplementsPublication, Promise!Spec

-----------------------------------------------------------------------------
(* Announcing.                                                             *)

LEMMA AnnouncingRunsPublishing == BothSpec => Spec
  <1>1. BothInit => Init
    BY DEF BothInit
  <1>2. [BothNext]_bothVars => [Next]_vars
    <2> SUFFICES ASSUME BothNext PROVE [Next]_vars
      BY DEF bothVars
    <2>1. Serve => Next
      BY DEF Serve, Next
    <2>2. ASSUME NEW t \in tasks, StartTask(t) \/ WorkOnTask(t) PROVE UNCHANGED vars
      BY <2>2 DEF StartTask, WorkOnTask
    <2>3. ASSUME NEW t \in tasks, EndTask(t) \/ LoseTask(t) PROVE Next
      BY <2>3 DEF EndTask, LoseTask, Next
    <2>4. ASSUME NEW x \in Sockets, Wire(x) PROVE UNCHANGED vars
      BY <2>4 DEF Wire
    <2>5. BothCrash => Next
      BY DEF BothCrash, Next
    <2> QED BY <2>1, <2>2, <2>3, <2>4, <2>5 DEF BothNext
  <1> QED BY <1>1, <1>2, PTL DEF BothSpec, Spec

\* What a task does to deliveries is a step of the transaction of its item.
LEMMA DeliversStep == TypeOK /\ [BothNext]_bothVars => [D!Next]_(D!deliveryVars)
  <1> SUFFICES ASSUME TypeOK, BothNext \/ UNCHANGED bothVars PROVE [D!Next]_(D!deliveryVars)
    OBVIOUS
  <1>1. UNCHANGED delivery => UNCHANGED D!deliveryVars
    BY DEF delivery, D!deliveryVars, D!counts, D!rows, D!wires
  <1>2. UNCHANGED bothVars => UNCHANGED delivery
    BY DEF bothVars
  <1>3. Serve => UNCHANGED delivery
    BY DEF Serve
  <1>4. \A t \in tasks : t.item \in D!Events
    BY AnnouncingBounds DEF TypeOK, Task, D!Events
  <1>5. ASSUME NEW t \in tasks, StartTask(t) PROVE D!Next
    BY <1>4, <1>5 DEF StartTask, D!Next
  <1>6. ASSUME NEW t \in tasks, WorkOnTask(t) PROVE D!Next
    BY <1>4, <1>6 DEF WorkOnTask, D!Next
  <1>7. ASSUME NEW t \in tasks, EndTask(t) \/ LoseTask(t) PROVE D!Next \/ UNCHANGED delivery
    BY <1>4, <1>7 DEF EndTask, LoseTask, D!Next
  <1>8. ASSUME NEW x \in Sockets, Wire(x) PROVE D!Next
    BY <1>8 DEF Wire, D!Next
  <1>9. BothCrash => D!Next
    BY DEF BothCrash, D!Next
  <1> QED BY <1>1, <1>2, <1>3, <1>5, <1>6, <1>7, <1>8, <1>9 DEF BothNext

\* The composition adds nothing to its parts: a publication, its task and the sockets is a
\* behaviour of Publishing and one of Delivery, in which tasks only follow transactions.
THEOREM AnnouncingRunsBoth == BothSpec => Spec /\ D!Spec
  <1>1. BothInit => D!Init
    BY DEF BothInit
  <1> QED BY <1>1, DeliversStep, AnnouncingRunsPublishing, TypeCorrect, PTL DEF BothSpec, D!Spec

-----------------------------------------------------------------------------
(* Every sink of an announced publication.                                 *)

\* The ids of a verb.
LEMMA IdsAre ==
  /\ \A v \in DOMAIN D!CreationEvents : D!Ids[v] = D!CreationEvents[v]
  /\ \A v \in DOMAIN D!RewardEvents : D!Ids[v] = D!RewardEvents[v]
  /\ \A v \in DOMAIN D!ReplyEvents : D!Ids[v] = D!ReplyEvents[v]
  /\ \A v \in DOMAIN D!VoteEvents : D!Ids[v] = D!VoteEvents[v]
  /\ \A v \in DOMAIN D!FollowEvents : D!Ids[v] = D!FollowEvents[v]
BY DEF D!Ids, D!Verbs, D!CreationEvents, D!RewardEvents, D!ReplyEvents, D!VoteEvents, D!FollowEvents

\* Every audience the policy names is one that the ids of the event lead to.
LEMMA PolicyReaches ==
  ASSUME NEW v \in D!Verbs, NEW a \in D!Notifies(v) \cup D!FeedAudience(v),
         a # "mentioned_users"
  PROVE  D!Reaches(a, D!Ids[v])
<1>1. CASE v \in DOMAIN D!CreationEvents
  BY <1>1, IdsAre DEF D!CreationEvents, D!Notifies, D!FeedAudience, D!EditNotifies, D!SiteNotifies,
     D!CommentNotifies, D!Comments, D!Reaches, D!ReachesAnswer, D!ReachesQuestion, D!ReachesSubmission
<1>2. CASE v \in DOMAIN D!RewardEvents
  BY <1>2, IdsAre DEF D!RewardEvents, D!Notifies, D!FeedAudience, D!EditNotifies, D!SiteNotifies,
     D!CommentNotifies, D!Comments, D!Reaches, D!ReachesAnswer, D!ReachesQuestion, D!ReachesSubmission
<1>3. CASE v \in DOMAIN D!ReplyEvents
  BY <1>3, IdsAre DEF D!ReplyEvents, D!Notifies, D!FeedAudience, D!EditNotifies, D!SiteNotifies,
     D!CommentNotifies, D!Comments, D!Reaches, D!ReachesAnswer, D!ReachesQuestion, D!ReachesSubmission
<1>4. CASE v \in DOMAIN D!VoteEvents
  BY <1>4, IdsAre DEF D!VoteEvents, D!Notifies, D!FeedAudience, D!EditNotifies, D!SiteNotifies,
     D!CommentNotifies, D!Comments, D!Reaches, D!ReachesAnswer, D!ReachesQuestion, D!ReachesSubmission
<1>5. CASE v \in DOMAIN D!FollowEvents
  BY <1>5, IdsAre DEF D!FollowEvents, D!Notifies, D!FeedAudience, D!EditNotifies, D!SiteNotifies,
     D!CommentNotifies, D!Comments, D!Reaches, D!ReachesAnswer, D!ReachesQuestion, D!ReachesSubmission
<1> QED
  BY <1>1, <1>2, <1>3, <1>4, <1>5 DEF D!Verbs

\* What has a feed audience is an Activity, whatever the request says.
LEMMA FeedsAreActivities ==
  ASSUME NEW v \in D!Verbs, D!FeedAudience(v) # {}
  PROVE  D!WritesActivity(v) /\ v \notin D!Comments
BY DEF D!FeedAudience, D!WritesActivity, D!Comments

\* The members of audiences, of which st knows the fans.
MembersOf(audiences, st) == UNION {D!Members(a, st) : a \in audiences \ {"mentioned_users"}}
NotesOf(e) == e.notes \cup e.todo

\* What an event in progress has written serves the members of its audiences who were members
\* all along, of which st knows; and those are still members.
EventFits(e, st) ==
  /\ e.pc # "none" =>
       /\ \A a \in DOMAIN Fans : st[a] \subseteq fans[a]
       /\ e.sinks \in D!Ways(e.verb)
  /\ e.pc \in {"feed", "notes"} => e.notes = {}
  /\ e.pc \in {"notes", "push", "done"} =>
       /\ e.activity <=> /\ "activity" \in e.sinks /\ D!WritesActivity(e.verb)
                         /\ e.verb \in D!Comments => e.shared
       /\ "feed" \in e.sinks => MembersOf(D!FeedAudience(e.verb), st) \subseteq e.feed
  /\ e.pc \in {"push", "done"} =>
       /\ "notification" \in e.sinks =>
            MembersOf(D!Notifies(e.verb), st) \ D!Excluded(e) \subseteq NotesOf(e)
       /\ D!ExcludesSubject(e.verb) => e.subject \notin NotesOf(e)
  /\ e.pc = "done" => e.todo = {}

DeliveryInv == D!TypeOK /\ \A n \in D!Events : EventFits(event[n], steady[n])

LEMMA EventsServed == DeliveryInv => D!EverySinkServed
BY DEF DeliveryInv, EventFits, NotesOf, MembersOf, D!EverySinkServed, D!Owed, D!Excluded

LEMMA NoEventType == D!NoEvent \in D!EventRow /\ D!NoEvent.pc = "none"
<1>1. (CHOOSE u \in Readers : TRUE) \in Readers
  BY AnnouncingBounds
<1>2. "create_question" \in D!Verbs
  BY DEF D!Verbs, D!CreationEvents
<1> QED
  BY <1>1, <1>2 DEF D!NoEvent, D!EventRow, D!AllSinks

LEMMA DeliveryInit == D!Init => DeliveryInv
<1> SUFFICES ASSUME D!Init PROVE DeliveryInv
  OBVIOUS
<1>1. D!TypeOK
  BY AnnouncingBounds, NoEventType DEF D!Init, D!TypeOK, D!Moving
<1>2. \A n \in D!Events : EventFits(event[n], steady[n])
  BY NoEventType DEF D!Init, EventFits
<1> QED
  BY <1>1, <1>2 DEF DeliveryInv

\* Audiences lose those who leave.
LEMMA MembersShrink ==
  ASSUME NEW who, NEW st, NEW st2, \A a \in DOMAIN Fans : st2[a] \subseteq st[a]
  PROVE  MembersOf(who, st2) \subseteq MembersOf(who, st)
BY DEF MembersOf, D!Members, D!Moving

\* An audience of the policy is resolved to its members, who are readers.
LEMMA Resolved ==
  ASSUME NEW v \in D!Verbs, NEW who, who = D!Notifies(v) \/ who = D!FeedAudience(v)
  PROVE  \A st : MembersOf(who, st) \subseteq D!Resolve(who, v, st)
BY PolicyReaches DEF MembersOf, D!Resolve

LEMMA ResolvedReaders ==
  ASSUME NEW v \in D!Verbs, NEW who, who = D!Notifies(v) \/ who = D!FeedAudience(v),
         NEW st, st \in [DOMAIN Fans -> SUBSET Readers]
  PROVE  D!Resolve(who, v, st) \subseteq Readers
<1>1. ~D!Reaches("mentioned_users", D!Ids[v])
  BY DEF D!Reaches
<1>2. \A a \in who : a # "mentioned_users" => D!Members(a, st) \subseteq Readers
  <2>1. \A a \in who : a \notin DOMAIN Fans /\ a # "mentioned_users" => Holder[a] \in Readers
    BY AnnouncingBounds
  <2>2. \A a \in DOMAIN Fans : st[a] \subseteq Readers
    OBVIOUS
  <2> QED
    BY <2>1, <2>2 DEF D!Members, D!Moving
<1> QED
  BY <1>1, <1>2 DEF D!Resolve

\* An event moves on; the others and their audiences stay.
LEMMA EventMoves ==
  ASSUME DeliveryInv, NEW n \in D!Events, NEW e, e \in D!EventRow, EventFits(e, steady[n]),
         event' = [event EXCEPT ![n] = e], UNCHANGED <<fans, steady>>
  PROVE  event' \in [D!Events -> D!EventRow] /\ \A m \in D!Events : EventFits(event[m], steady[m])'
<1>1. event'[n] = e /\ \A m \in D!Events \ {n} : event'[m] = event[m]
  BY DEF DeliveryInv, D!TypeOK
<1>2. \A m \in D!Events : EventFits(event'[m], steady[m])
  BY <1>1 DEF DeliveryInv
<1>3. \A m \in D!Events : EventFits(event[m], steady[m])'
  BY <1>2 DEF EventFits
<1> QED
  BY <1>3 DEF DeliveryInv, D!TypeOK

LEMMA EventsOnly ==
  ASSUME DeliveryInv, NEW n \in D!Events, NEW e, e \in D!EventRow,
         EventFits(e, steady[n]), event' = [event EXCEPT ![n] = e],
         UNCHANGED <<fans, moves, steady, queue, heard, lost, table, sock, loop, restarts>>
  PROVE  DeliveryInv'
BY EventMoves DEF DeliveryInv, D!TypeOK

LEMMA AudienceMoves ==
  ASSUME DeliveryInv, NEW a \in D!Moving, NEW u \in Readers, D!Move(a, u)
  PROVE  DeliveryInv'
<1>1. /\ moves < MaxMoves /\ moves' = moves + 1
      /\ fans' = [fans EXCEPT ![a] = IF u \in @ THEN @ \ {u} ELSE @ \cup {u}]
      /\ steady' = [n \in D!Events |-> IF event[n].pc = "none" THEN fans'
                                       ELSE [steady[n] EXCEPT ![a] = @ \ {u}]]
      /\ UNCHANGED <<event, queue, heard, lost, table, sock, loop, restarts>>
  BY DEF D!Move, D!wires
<1>2. fans' \in [D!Moving -> SUBSET Readers]
  BY <1>1 DEF DeliveryInv, D!TypeOK
<1>3. steady' \in [D!Events -> [D!Moving -> SUBSET Readers]]
  BY <1>1, <1>2 DEF DeliveryInv, D!TypeOK
<1>4. ASSUME NEW n \in D!Events
      PROVE  EventFits(event[n], steady[n])'
  <2>1. event[n].pc # "none" =>
          \A b \in DOMAIN Fans : steady'[n][b] \subseteq steady[n][b] /\ steady'[n][b] \subseteq fans'[b]
    BY <1>1 DEF DeliveryInv, D!TypeOK, EventFits, D!Moving
  <2>2. EventFits(event[n], steady[n])
    BY DEF DeliveryInv
  <2>3. event[n].pc # "none" =>
          \A who : MembersOf(who, steady'[n]) \subseteq MembersOf(who, steady[n])
    BY <2>1, MembersShrink
  <2> QED
    BY <1>1, <2>1, <2>2, <2>3 DEF EventFits, NotesOf
<1>5. MaxMoves \in Nat
  BY AnnouncingBounds
<1>6. D!TypeOK'
  BY <1>1, <1>2, <1>3, <1>5 DEF DeliveryInv, D!TypeOK
<1> QED
  BY <1>4, <1>6 DEF DeliveryInv

LEMMA EventBegins ==
  ASSUME DeliveryInv, NEW n \in D!Events, D!Begin(n)
  PROVE  DeliveryInv'
<1>1. PICK verb \in Emits[n], u \in Subjects, shared \in BOOLEAN, private \in BOOLEAN :
    /\ event[n].pc = "none"
    /\ shared => verb \in D!Comments
    /\ private => D!Asks(verb) \cap (D!SiteBound \cup {"answer_suggest_edit"}) # {}
                  /\ "article" \notin D!Ids[verb]
    /\ \E sinks \in D!Ways(verb), receivers \in D!Mentioned(verb) :
         /\ sinks = {"activity"} => shared
         /\ event' = [event EXCEPT ![n] =
              [D!NoEvent EXCEPT !.pc = IF verb = "mentioned_in_comment" THEN "push" ELSE "feed",
                              !.verb = verb, !.subject = u, !.sinks = sinks,
                              !.shared = shared, !.private = private, !.todo = receivers]]
    /\ steady' = [steady EXCEPT ![n] = fans]
    /\ UNCHANGED <<D!counts, queue, D!wires>>
  BY DEF D!Begin
<1>2. PICK sinks \in D!Ways(verb), receivers \in D!Mentioned(verb) :
        event' = [event EXCEPT ![n] =
              [D!NoEvent EXCEPT !.pc = IF verb = "mentioned_in_comment" THEN "push" ELSE "feed",
                              !.verb = verb, !.subject = u, !.sinks = sinks,
                              !.shared = shared, !.private = private, !.todo = receivers]]
  BY <1>1
<1>3. /\ steady' = [steady EXCEPT ![n] = fans]
      /\ UNCHANGED <<fans, moves, queue, heard, lost, table, sock, loop, restarts>>
  BY DEF D!Begin, D!counts, D!wires
<1> DEFINE e == [D!NoEvent EXCEPT !.pc = IF verb = "mentioned_in_comment" THEN "push" ELSE "feed",
                              !.verb = verb, !.subject = u, !.sinks = sinks,
                              !.shared = shared, !.private = private, !.todo = receivers]
<1>4. verb \in D!Verbs /\ u \in Readers /\ receivers \subseteq Readers /\ sinks \subseteq D!AllSinks
  BY AnnouncingBounds DEF D!Mentioned, D!Ways, D!AllSinks
<1>5. e \in D!EventRow
  BY <1>4, NoEventType DEF D!EventRow
<1>6. /\ e.pc = IF verb = "mentioned_in_comment" THEN "push" ELSE "feed"
      /\ e.verb = verb /\ e.subject = u /\ e.sinks = sinks /\ e.shared = shared
      /\ e.activity = FALSE /\ e.feed = {} /\ e.notes = {} /\ e.todo = receivers
  BY DEF D!NoEvent
<1>7. event'[n] = e /\ \A m \in D!Events \ {n} : event'[m] = event[m]
  BY <1>2 DEF DeliveryInv, D!TypeOK
<1> HIDE DEF e
<1>8. steady'[n] = fans /\ \A m \in D!Events \ {n} : steady'[m] = steady[m]
  BY <1>3 DEF DeliveryInv, D!TypeOK
<1>9. D!TypeOK'
  BY <1>2, <1>3, <1>5 DEF DeliveryInv, D!TypeOK, e
<1>10. EventFits(event[n], steady[n])'
  <2>1. verb = "mentioned_in_comment" =>
          /\ ~D!WritesActivity(verb) /\ D!FeedAudience(verb) = {} /\ ~D!ExcludesSubject(verb)
          /\ D!Notifies(verb) = {"mentioned_users"}
    BY DEF D!WritesActivity, D!FeedAudience, D!ExcludesSubject, D!Notifies, D!CommentNotifies, D!Comments
  <2>2. \A a \in DOMAIN Fans : steady'[n][a] \subseteq fans'[a]
    BY <1>3, <1>8
  <2>3. verb = "mentioned_in_comment" =>
          /\ MembersOf(D!FeedAudience(verb), fans) = {} /\ MembersOf(D!Notifies(verb), fans) = {}
    BY <2>1 DEF MembersOf
  <2> QED
    BY <1>6, <1>7, <1>8, <2>1, <2>2, <2>3 DEF EventFits
<1>11. ASSUME NEW m \in D!Events \ {n}
       PROVE  EventFits(event[m], steady[m])'
  <2>1. EventFits(event[m], steady[m])
    BY DEF DeliveryInv
  <2> QED
    BY <1>3, <1>7, <1>8, <2>1 DEF EventFits, NotesOf
<1> QED
  BY <1>9, <1>10, <1>11 DEF DeliveryInv

LEMMA FeedWritten ==
  ASSUME DeliveryInv, NEW n \in D!Events, D!WriteFeed(n)
  PROVE  DeliveryInv'
<1> SUFFICES ASSUME NEW e, e = event[n],
                    NEW writes \in BOOLEAN,
                    writes <=> /\ "activity" \in e.sinks /\ D!WritesActivity(e.verb)
                               /\ e.verb \in D!Comments => e.shared,
                    NEW feed, feed = IF writes /\ "feed" \in e.sinks
                                     THEN D!Resolve(D!FeedAudience(e.verb), e.verb, fans) ELSE {},
                    NEW q, q = [e EXCEPT !.pc = "notes", !.activity = writes, !.feed = feed]
             PROVE  DeliveryInv'
  OBVIOUS
<1>1. /\ e \in D!EventRow /\ EventFits(e, steady[n]) /\ e.verb \in D!Verbs
      /\ fans \in [DOMAIN Fans -> SUBSET Readers]
  BY DEF DeliveryInv, D!TypeOK, D!EventRow, D!Moving
<1>2. /\ e.pc = "feed" /\ event' = [event EXCEPT ![n] = q]
      /\ UNCHANGED <<fans, moves, steady, queue, heard, lost, table, sock, loop, restarts>>
  BY <1>1 DEF D!WriteFeed, D!Precondition, D!counts, D!wires, D!EventRow
<1>3. feed \subseteq Readers
  BY <1>1, ResolvedReaders
<1>4. q \in D!EventRow
  BY <1>1, <1>3 DEF D!EventRow
<1>5. /\ q.pc = "notes" /\ q.activity = writes /\ q.feed = feed /\ q.notes = e.notes
      /\ q.verb = e.verb /\ q.sinks = e.sinks /\ q.shared = e.shared
  BY <1>1 DEF D!EventRow
<1>6. "feed" \in e.sinks => MembersOf(D!FeedAudience(e.verb), steady[n]) \subseteq feed
  <2>1. CASE D!FeedAudience(e.verb) = {}
    BY <2>1 DEF MembersOf
  <2>2. CASE D!FeedAudience(e.verb) # {} /\ "feed" \in e.sinks
    <3>1. writes
      BY <1>1, <1>2, <2>2, FeedsAreActivities DEF EventFits, D!Ways, D!AllSinks
    <3>2. MembersOf(D!FeedAudience(e.verb), steady[n]) \subseteq MembersOf(D!FeedAudience(e.verb), fans)
      BY <1>1, <1>2, MembersShrink DEF EventFits
    <3>3. MembersOf(D!FeedAudience(e.verb), fans) \subseteq D!Resolve(D!FeedAudience(e.verb), e.verb, fans)
      BY <1>1, Resolved
    <3> QED
      BY <2>2, <3>1, <3>2, <3>3
  <2> QED
    BY <2>1, <2>2
<1>7. EventFits(q, steady[n])
  BY <1>1, <1>2, <1>5, <1>6 DEF EventFits
<1> QED
  BY <1>2, <1>4, <1>7, EventsOnly

LEMMA NotesResolved ==
  ASSUME DeliveryInv, NEW n \in D!Events, D!ResolveNotes(n)
  PROVE  DeliveryInv'
<1> SUFFICES ASSUME NEW e, e = event[n],
                    NEW todo, todo = IF "notification" \in e.sinks
                                     THEN D!Resolve(D!Notifies(e.verb), e.verb, fans) \ D!Excluded(e)
                                     ELSE {},
                    NEW q, q = [e EXCEPT !.pc = "push", !.todo = todo]
             PROVE  DeliveryInv'
  OBVIOUS
<1>1. /\ e \in D!EventRow /\ EventFits(e, steady[n]) /\ e.verb \in D!Verbs
      /\ fans \in [DOMAIN Fans -> SUBSET Readers]
  BY DEF DeliveryInv, D!TypeOK, D!EventRow, D!Moving
<1>2. /\ e.pc = "notes" /\ event' = [event EXCEPT ![n] = q]
      /\ UNCHANGED <<fans, moves, steady, queue, heard, lost, table, sock, loop, restarts>>
  BY <1>1 DEF D!ResolveNotes, D!counts, D!wires, D!EventRow
<1>3. todo \subseteq Readers
  BY <1>1, ResolvedReaders
<1>4. q \in D!EventRow
  BY <1>1, <1>3 DEF D!EventRow
<1>5. /\ q.pc = "push" /\ q.activity = e.activity /\ q.feed = e.feed /\ q.notes = e.notes
      /\ q.verb = e.verb /\ q.sinks = e.sinks /\ q.shared = e.shared /\ q.todo = todo
      /\ q.subject = e.subject
  BY <1>1 DEF D!EventRow
<1>6. "notification" \in e.sinks => MembersOf(D!Notifies(e.verb), steady[n]) \ D!Excluded(e) \subseteq todo
  <2>1. MembersOf(D!Notifies(e.verb), steady[n]) \subseteq MembersOf(D!Notifies(e.verb), fans)
    BY <1>1, <1>2, MembersShrink DEF EventFits
  <2>2. MembersOf(D!Notifies(e.verb), fans) \subseteq D!Resolve(D!Notifies(e.verb), e.verb, fans)
    BY <1>1, Resolved
  <2> QED
    BY <2>1, <2>2
<1>7. D!ExcludesSubject(e.verb) => e.subject \notin todo
  BY DEF D!Excluded
<1>8. D!Excluded(q) = D!Excluded(e)
  BY <1>5 DEF D!Excluded
<1>9. EventFits(q, steady[n])
  BY <1>1, <1>2, <1>5, <1>6, <1>7, <1>8 DEF EventFits, NotesOf
<1> QED
  BY <1>2, <1>4, <1>9, EventsOnly

LEMMA ReceiverNotified ==
  ASSUME DeliveryInv, NEW n \in D!Events, NEW u \in Readers, D!Notify(n, u)
  PROVE  DeliveryInv'
<1> SUFFICES ASSUME NEW e, e = event[n],
                    NEW q, q = [e EXCEPT !.todo = @ \ {u}, !.notes = @ \cup {u}]
             PROVE  DeliveryInv'
  OBVIOUS
<1>1. e \in D!EventRow /\ EventFits(e, steady[n])
  BY DEF DeliveryInv, D!TypeOK
<1>2. /\ e.pc = "push" /\ u \in e.todo
      /\ event' = [event EXCEPT ![n] = q]
      /\ UNCHANGED <<fans, moves, steady, heard, lost, table, sock, loop, restarts>>
      /\ queue' = [queue EXCEPT ![u] = Append(queue[u], n)] \/ queue' = queue
  BY <1>1 DEF D!Notify, D!Queued, D!counts, D!wires, D!EventRow
<1>3. q \in D!EventRow
  BY <1>1, <1>2 DEF D!EventRow
<1>4. /\ q.pc = e.pc /\ q.activity = e.activity /\ q.feed = e.feed /\ NotesOf(q) = NotesOf(e)
      /\ q.verb = e.verb /\ q.sinks = e.sinks /\ q.shared = e.shared /\ q.subject = e.subject
  BY <1>1, <1>2 DEF D!EventRow, NotesOf
<1>5. D!Excluded(q) = D!Excluded(e)
  BY <1>4 DEF D!Excluded
<1>6. EventFits(q, steady[n])
  BY <1>1, <1>2, <1>4, <1>5 DEF EventFits
<1>7. queue' \in [Readers -> Seq(D!Events)]
  <2>1. queue \in [Readers -> Seq(D!Events)] /\ Append(queue[u], n) \in Seq(D!Events)
    BY DEF DeliveryInv, D!TypeOK
  <2> QED
    BY <1>2, <2>1
<1>8. event' \in [D!Events -> D!EventRow] /\ \A m \in D!Events : EventFits(event[m], steady[m])'
  BY <1>2, <1>3, <1>6, EventMoves
<1> QED
  BY <1>2, <1>7, <1>8 DEF DeliveryInv, D!TypeOK

LEMMA EventEnds ==
  ASSUME DeliveryInv, NEW n \in D!Events, D!Commit(n) \/ D!Abort(n)
  PROVE  DeliveryInv'
<1>1. event[n] \in D!EventRow /\ EventFits(event[n], steady[n])
  BY DEF DeliveryInv, D!TypeOK
<1>2. UNCHANGED <<fans, moves, steady, queue, heard, lost, table, sock, loop, restarts>>
  BY DEF D!Commit, D!Abort, D!counts, D!wires
<1>3. CASE D!Commit(n)
  <2> SUFFICES ASSUME NEW e, e = event[n], NEW q, q = [e EXCEPT !.pc = "done"]
               PROVE  DeliveryInv'
    OBVIOUS
  <2>1. e.pc = "push" /\ e.todo = {} /\ event' = [event EXCEPT ![n] = q]
    BY <1>1, <1>3 DEF D!Commit, D!Finished, D!EventRow
  <2>2. /\ q \in D!EventRow /\ q.pc = "done" /\ q.activity = e.activity /\ q.feed = e.feed
        /\ q.todo = {} /\ NotesOf(q) = NotesOf(e) /\ q.verb = e.verb /\ q.sinks = e.sinks
        /\ q.shared = e.shared /\ q.subject = e.subject
    BY <1>1, <2>1 DEF D!EventRow, NotesOf
  <2>3. D!Excluded(q) = D!Excluded(e)
    BY <2>2 DEF D!Excluded
  <2>4. EventFits(q, steady[n])
    BY <1>1, <2>1, <2>2, <2>3 DEF EventFits
  <2> QED
    BY <1>2, <2>1, <2>2, <2>4, EventsOnly
<1>4. CASE D!Abort(n)
  <2> SUFFICES ASSUME NEW e, e = event[n], NEW q, q = D!Undone(e)
               PROVE  DeliveryInv'
    OBVIOUS
  <2>1. e.pc # "none" /\ event' = [event EXCEPT ![n] = q]
    BY <1>1, <1>4 DEF D!Abort
  <2>2. q \in D!EventRow /\ q.pc = "undone" /\ q.verb = e.verb /\ q.sinks = e.sinks
    BY <1>1 DEF D!Undone, D!EventRow
  <2>3. EventFits(q, steady[n])
    BY <1>1, <2>1, <2>2 DEF EventFits
  <2> QED
    BY <1>2, <2>1, <2>2, <2>3, EventsOnly
<1> QED
  BY <1>3, <1>4

LEMMA SocketsMove ==
  ASSUME DeliveryInv, NEW x \in Sockets, D!Connect(x) \/ D!Drop(x) \/ D!Poll(x)
  PROVE  DeliveryInv'
<1>1. UNCHANGED <<fans, moves, event, steady, restarts>>
  BY DEF D!Connect, D!Drop, D!Poll, D!counts, D!rows
<1>2. \A n \in D!Events : EventFits(event[n], steady[n])'
  BY <1>1 DEF DeliveryInv, EventFits, NotesOf
<1>3. SocketOf[x] \in Readers
  BY AnnouncingBounds
<1>4. CASE D!Connect(x) \/ D!Drop(x)
  BY <1>1, <1>2, <1>3, <1>4 DEF D!Connect, D!Drop, DeliveryInv, D!TypeOK
<1>5. CASE D!Poll(x)
  <2>1. /\ queue[SocketOf[x]] \in Seq(D!Events) /\ queue[SocketOf[x]] # <<>>
        /\ heard[SocketOf[x]] \in Seq(D!Events)
    BY <1>3, <1>5 DEF D!Poll, DeliveryInv, D!TypeOK
  <2>2. Head(queue[SocketOf[x]]) \in D!Events /\ Tail(queue[SocketOf[x]]) \in Seq(D!Events)
    BY <2>1
  <2>3. Append(heard[SocketOf[x]], Head(queue[SocketOf[x]])) \in Seq(D!Events)
    BY <2>1, <2>2
  <2>4. /\ queue' \in [Readers -> Seq(D!Events)]
        /\ heard' \in [Readers -> Seq(D!Events)] /\ lost' \in [Readers -> SUBSET D!Events]
    <3>1. /\ queue' = [queue EXCEPT ![SocketOf[x]] = Tail(@)]
          /\ \/ heard' = heard
             \/ heard' = [heard EXCEPT ![SocketOf[x]] = Append(@, Head(queue[SocketOf[x]]))]
          /\ \/ lost' = lost
             \/ lost' = [lost EXCEPT ![SocketOf[x]] = @ \cup {Head(queue[SocketOf[x]])}]
      BY <1>5, Zenon DEF D!Poll
    <3>2. /\ queue \in [Readers -> Seq(D!Events)] /\ heard \in [Readers -> Seq(D!Events)]
          /\ lost \in [Readers -> SUBSET D!Events]
      BY DEF DeliveryInv, D!TypeOK
    <3>3. queue' \in [Readers -> Seq(D!Events)]
      BY <1>3, <2>2, <3>1, <3>2
    <3>4. heard' \in [Readers -> Seq(D!Events)]
      BY <1>3, <2>3, <3>1, <3>2
    <3>5. lost' \in [Readers -> SUBSET D!Events]
      <4>1. lost[SocketOf[x]] \cup {Head(queue[SocketOf[x]])} \in SUBSET D!Events
        BY <1>3, <2>2, <3>2
      <4> QED
        BY <1>3, <3>1, <3>2, <4>1
    <3> QED
      BY <3>3, <3>4, <3>5
  <2>5. /\ table' \in [Readers -> Sockets \cup {D!NoSocket}] /\ loop' \subseteq Sockets
        /\ sock' \in [Sockets -> {"new", "open", "dead"}]
    BY <1>3, <1>5 DEF D!Poll, D!LoopEnded, DeliveryInv, D!TypeOK
  <2>6. D!TypeOK'
    BY <1>1, <2>4, <2>5 DEF DeliveryInv, D!TypeOK
  <2> QED
    BY <1>2, <2>6 DEF DeliveryInv
<1> QED
  BY <1>4, <1>5

LEMMA ProcessRestarts ==
  ASSUME DeliveryInv, D!Restart
  PROVE  DeliveryInv'
<1>1. /\ restarts < MaxRestarts /\ restarts' = restarts + 1
      /\ event' = [n \in D!Events |->
           IF event[n].pc \in {"feed", "notes", "push"} THEN D!Undone(event[n]) ELSE event[n]]
      /\ sock' = [x \in Sockets |-> IF sock[x] = "open" THEN "dead" ELSE sock[x]]
      /\ table' = [u \in Readers |-> D!NoSocket] /\ loop' = {}
      /\ UNCHANGED <<fans, moves, steady, queue, heard, lost>>
  BY DEF D!Restart
<1>2. ASSUME NEW n \in D!Events, NEW e, e = event[n], NEW q, q = D!Undone(e)
      PROVE  /\ e \in D!EventRow /\ EventFits(e, steady[n]) /\ q \in D!EventRow
             /\ e.pc # "none" => EventFits(q, steady[n])
  <2>1. e \in D!EventRow /\ EventFits(e, steady[n])
    BY <1>2 DEF DeliveryInv, D!TypeOK
  <2>2. q \in D!EventRow /\ q.pc = "undone" /\ q.verb = e.verb /\ q.sinks = e.sinks
    BY <1>2, <2>1 DEF D!Undone, D!EventRow
  <2> QED
    BY <2>1, <2>2 DEF EventFits
<1>3. \A n \in D!Events : event'[n] \in D!EventRow /\ EventFits(event'[n], steady[n])
  BY <1>1, <1>2
<1>4. \A n \in D!Events : EventFits(event[n], steady[n])'
  BY <1>1, <1>3 DEF EventFits
<1>5. event' \in [D!Events -> D!EventRow]
  BY <1>1, <1>3
<1>6. D!TypeOK'
  BY AnnouncingBounds, <1>1, <1>5 DEF DeliveryInv, D!TypeOK
<1> QED
  BY <1>4, <1>6 DEF DeliveryInv

LEMMA DeliveryStep ==
  ASSUME DeliveryInv, [D!Next]_(D!deliveryVars)
  PROVE  DeliveryInv'
<1>1. CASE UNCHANGED D!deliveryVars
  BY <1>1 DEF D!deliveryVars, D!counts, D!rows, D!wires, DeliveryInv, D!TypeOK, EventFits, NotesOf
<1> QED
  BY <1>1, AudienceMoves, EventBegins, FeedWritten, NotesResolved, ReceiverNotified, EventEnds, SocketsMove,
     ProcessRestarts DEF D!Next

LEMMA DeliveryAlways == D!Spec => []DeliveryInv
<1> QED BY DeliveryInit, DeliveryStep, PTL DEF D!Spec

-----------------------------------------------------------------------------
(* Sockets.                                                                *)

SocketsTyped ==
  /\ queue \in [Readers -> Seq(D!Events)] /\ lost \in [Readers -> SUBSET D!Events]
  /\ table \in [Readers -> Sockets \cup {D!NoSocket}]
  /\ sock \in [Sockets -> {"new", "open", "dead"}]

\* The socket registered for a reader is one of theirs.  Of a reader who has connected only
\* once, the loop runs on the registered socket, until it has lost a message, and as long as
\* that socket is open.
ReaderFits(u) ==
  /\ table[u] # D!NoSocket => table[u] \in D!Connected(u)
  /\ (\A x, y \in D!Connected(u) : x = y) =>
       /\ \A x \in loop : SocketOf[x] = u => table[u] # D!NoSocket /\ lost[u] = {}
       /\ \A m, n \in lost[u] : m = n
       /\ lost[u] # {} => \E x \in D!Connected(u) : sock[x] = "dead"
       /\ \A x \in D!Connected(u) : sock[x] = "open" => x \in loop /\ table[u] = x

SocketsInv ==
  /\ SocketsTyped
  /\ \A x \in loop : x \in Sockets /\ sock[x] # "new"
  /\ \A u \in Readers : ReaderFits(u)

LEMMA SocketsInit == D!Init => SocketsInv
  BY AnnouncingBounds DEF D!Init, SocketsInv, SocketsTyped, ReaderFits, D!Connected, D!NoSocket

\* What leaves the sockets and the lost messages alone.
LEMMA SocketsKept ==
  ASSUME SocketsInv, UNCHANGED <<lost, table, sock, loop>>, queue' \in [Readers -> Seq(D!Events)]
  PROVE  SocketsInv'
  <1>1. \A u \in Readers : UNCHANGED D!Connected(u)
    BY DEF D!Connected
  <1>2. \A u \in Readers : ReaderFits(u)'
    BY <1>1 DEF SocketsInv, ReaderFits
  <1> QED BY <1>2 DEF SocketsInv, SocketsTyped, D!Events

LEMMA SocketsConnect ==
  ASSUME SocketsInv, NEW x \in Sockets, D!Connect(x)
  PROVE  SocketsInv'
  <1> DEFINE u == SocketOf[x]
  <1>0. u \in Readers
    BY AnnouncingBounds
  <1>1. SocketsTyped' /\ \A y \in loop' : y \in Sockets /\ sock'[y] # "new"
    BY AnnouncingBounds, <1>0 DEF D!Connect, D!counts, D!rows, SocketsInv, SocketsTyped, D!Events
  <1>2. \A v \in Readers : D!Connected(v)' = IF v = u THEN D!Connected(v) \cup {x} ELSE D!Connected(v)
    BY DEF D!Connect, D!Connected, SocketsInv, SocketsTyped
  <1>3. x \notin D!Connected(u)
    BY DEF D!Connect, D!Connected
  <1>4. /\ table' = [table EXCEPT ![u] = x] /\ sock' = [sock EXCEPT ![x] = "open"]
        /\ loop' = loop \cup {x} /\ UNCHANGED lost
        /\ table \in [Readers -> Sockets \cup {D!NoSocket}]
        /\ sock \in [Sockets -> {"new", "open", "dead"}]
    BY DEF D!Connect, SocketsInv, SocketsTyped
  <1>5. ReaderFits(u)'
    <2>1. table'[u] = x /\ x \in Sockets /\ x # D!NoSocket /\ D!Connected(u)' = D!Connected(u) \cup {x}
      BY <1>0, <1>2, <1>4, AnnouncingBounds
    <2>2. (\A y, z \in D!Connected(u)' : y = z) => D!Connected(u) = {}
      BY <1>3, <2>1
    <2>3. D!Connected(u) = {} => lost[u] = {}
      BY <1>0 DEF SocketsInv, ReaderFits
    <2> QED BY <1>0, <1>4, <2>1, <2>2, <2>3 DEF ReaderFits
  <1>6. ASSUME NEW v \in Readers, v # u PROVE ReaderFits(v)'
    <2>1. /\ table'[v] = table[v] /\ lost'[v] = lost[v] /\ D!Connected(v)' = D!Connected(v)
          /\ x \notin D!Connected(v)
      BY <1>0, <1>2, <1>4, <1>6 DEF D!Connected
    <2>2. \A y \in D!Connected(v) : y \in Sockets /\ sock'[y] = sock[y]
      BY <1>4, <2>1 DEF D!Connected
    <2>3. \A y \in loop' : SocketOf[y] = v => y \in loop
      BY <1>4, <1>6
    <2>4. ReaderFits(v)
      BY DEF SocketsInv
    <2> QED BY <1>4, <2>1, <2>2, <2>3, <2>4 DEF ReaderFits
  <1> QED BY <1>1, <1>5, <1>6 DEF SocketsInv

LEMMA SocketsPoll ==
  ASSUME SocketsInv, NEW x \in Sockets, D!Poll(x)
  PROVE  SocketsInv'
  <1> DEFINE u == SocketOf[x]
  <1>0. u \in Readers /\ x \in loop /\ x \in D!Connected(u)
    BY AnnouncingBounds DEF D!Poll, SocketsInv, D!Connected
  <1>1. Head(queue[u]) \in D!Events /\ queue' \in [Readers -> Seq(D!Events)]
    BY <1>0 DEF D!Poll, SocketsInv, SocketsTyped
  <1>2. UNCHANGED sock /\ \A v \in Readers : UNCHANGED D!Connected(v)
    BY DEF D!Poll, D!Connected
  <1>3. CASE UNCHANGED <<lost, table, loop>>
    BY <1>1, <1>2, <1>3, SocketsKept
  <1>4. CASE /\ table[u] # D!NoSocket /\ sock[table[u]] = "dead"
             /\ lost' = [lost EXCEPT ![u] = @ \cup {Head(queue[u])}]
             /\ table' = [table EXCEPT ![u] = D!NoSocket] /\ loop' = loop \ {x}
    <2>1. SocketsTyped' /\ \A y \in loop' : y \in Sockets /\ sock'[y] # "new"
      BY <1>0, <1>1, <1>2, <1>4 DEF SocketsInv, SocketsTyped, D!Events
    <2>2. \A y \in loop : SocketOf[y] = u => y \in D!Connected(u)
      BY <1>0 DEF SocketsInv, D!Connected
    <2>3. table[u] \in D!Connected(u)
      BY <1>0, <1>4 DEF SocketsInv, ReaderFits
    <2>4. ReaderFits(u)'
      <3>1. table'[u] = D!NoSocket /\ lost'[u] = lost[u] \cup {Head(queue[u])}
        BY <1>0, <1>4 DEF SocketsInv, SocketsTyped
      <3>2. (\A y, z \in D!Connected(u) : y = z) =>
              lost[u] = {} /\ \A y \in D!Connected(u) : y = x /\ sock[y] = "dead"
        BY <1>0, <1>4, <2>3 DEF SocketsInv, ReaderFits, D!Connected
      <3> QED BY <1>0, <1>2, <1>4, <2>2, <2>3, <3>1, <3>2 DEF ReaderFits
    <2>5. ASSUME NEW v \in Readers, v # u PROVE ReaderFits(v)'
      <3>1. table'[v] = table[v] /\ lost'[v] = lost[v] /\ ReaderFits(v)
        BY <1>4, <2>5 DEF SocketsInv, SocketsTyped
      <3>2. x \notin D!Connected(v)
        BY <2>5 DEF D!Connected
      <3> QED BY <1>2, <1>4, <3>1, <3>2 DEF ReaderFits
    <2> QED BY <2>1, <2>4, <2>5 DEF SocketsInv
  <1>5. CASE /\ table[u] = D!NoSocket
             /\ lost' = [lost EXCEPT ![u] = @ \cup {Head(queue[u])}]
             /\ UNCHANGED <<table, loop>>
    <2>1. SocketsTyped' /\ \A y \in loop' : y \in Sockets /\ sock'[y] # "new"
      BY <1>0, <1>1, <1>2, <1>5 DEF SocketsInv, SocketsTyped, D!Events
    <2>2. ~\A y, z \in D!Connected(u) : y = z
      BY <1>0, <1>5 DEF SocketsInv, ReaderFits
    <2>3. ReaderFits(u)'
      BY <1>0, <1>2, <1>5, <2>2 DEF ReaderFits
    <2>4. ASSUME NEW v \in Readers, v # u PROVE ReaderFits(v)'
      BY <1>2, <1>5, <2>4 DEF SocketsInv, SocketsTyped, ReaderFits
    <2> QED BY <2>1, <2>3, <2>4 DEF SocketsInv
  <1> QED BY <1>3, <1>4, <1>5 DEF D!Poll, D!LoopEnded

LEMMA SocketsStep == SocketsInv /\ [D!Next]_(D!deliveryVars) => SocketsInv'
  <1> SUFFICES ASSUME SocketsInv, D!Next \/ UNCHANGED D!deliveryVars PROVE SocketsInv'
    OBVIOUS
  <1> USE DEF D!wires
  <1>1. queue \in [Readers -> Seq(D!Events)]
    BY DEF SocketsInv, SocketsTyped
  <1>2. CASE UNCHANGED <<queue, D!wires>>
    BY <1>1, <1>2, SocketsKept
  <1>3. ASSUME NEW n \in D!Events,
               D!Begin(n) \/ D!WriteFeed(n) \/ D!ResolveNotes(n) \/ D!Commit(n) \/ D!Abort(n)
        PROVE  UNCHANGED <<queue, D!wires>>
    BY <1>3 DEF D!Begin, D!WriteFeed, D!ResolveNotes, D!Commit, D!Abort
  <1>4. ASSUME NEW n \in D!Events, NEW u \in Readers, D!Notify(n, u) PROVE SocketsInv'
    <2>1. UNCHANGED D!wires /\ (queue' = [queue EXCEPT ![u] = D!Queued(u, n)] \/ UNCHANGED queue)
      BY <1>4, Zenon DEF D!Notify
    <2>2. D!Queued(u, n) \in Seq(D!Events)
      BY <1>1, <1>4 DEF D!Queued
    <2> QED BY <1>1, <2>1, <2>2, SocketsKept
  <1>5. ASSUME NEW a \in D!Moving, NEW u \in Readers, D!Move(a, u) PROVE UNCHANGED <<queue, D!wires>>
    BY <1>5 DEF D!Move
  <1>6. ASSUME NEW x \in Sockets, D!Connect(x) PROVE SocketsInv'
    BY <1>6, SocketsConnect
  <1>7. ASSUME NEW x \in Sockets, D!Drop(x) PROVE SocketsInv'
    <2>1. \A u \in Readers : UNCHANGED D!Connected(u)
      BY <1>7 DEF D!Drop, D!Connected, SocketsInv, SocketsTyped
    <2>2. /\ sock' \in [Sockets -> {"new", "open", "dead"}]
          /\ \A y \in Sockets : sock[y] # "new" => sock'[y] # "new"
          /\ \A y \in Sockets : (sock'[y] = "open" => sock[y] = "open")
          /\ \A y \in Sockets : (sock[y] = "dead" => sock'[y] = "dead")
      BY <1>7 DEF D!Drop, SocketsInv, SocketsTyped
    <2>3. UNCHANGED <<queue, lost, table, loop>>
      BY <1>7 DEF D!Drop
    <2>4. \A u \in Readers : \A y \in D!Connected(u) : y \in Sockets
      BY DEF D!Connected
    <2>5. \A u \in Readers : ReaderFits(u)'
      BY <2>1, <2>2, <2>3, <2>4 DEF SocketsInv, ReaderFits
    <2> QED BY <2>2, <2>3, <2>5 DEF SocketsInv, SocketsTyped, D!Events
  <1>8. ASSUME NEW x \in Sockets, D!Poll(x) PROVE SocketsInv'
    BY <1>8, SocketsPoll
  <1>9. D!Restart => SocketsInv'
    <2> SUFFICES ASSUME D!Restart PROVE SocketsInv'
      OBVIOUS
    <2>1. \A u \in Readers : UNCHANGED D!Connected(u)
      BY DEF D!Restart, D!Connected, SocketsInv, SocketsTyped
    <2>2. SocketsTyped' /\ loop' = {}
      BY DEF D!Restart, SocketsInv, SocketsTyped, D!Events
    <2>3. ASSUME NEW u \in Readers PROVE ReaderFits(u)'
      <3>1. table'[u] = D!NoSocket /\ lost'[u] = lost[u]
        BY DEF D!Restart
      <3>2. \A x \in D!Connected(u) : sock'[x] # "open" /\ (sock[x] = "dead" => sock'[x] = "dead")
        BY DEF D!Restart, D!Connected
      <3> QED BY <2>1, <2>2, <3>1, <3>2 DEF SocketsInv, ReaderFits
    <2> QED BY <2>2, <2>3 DEF SocketsInv
  <1> QED BY <1>2, <1>3, <1>4, <1>5, <1>6, <1>7, <1>8, <1>9 DEF D!Next, D!deliveryVars

LEMMA SocketsAlways == D!Spec => []SocketsInv
  BY SocketsInit, SocketsStep, PTL DEF D!Spec

-----------------------------------------------------------------------------
(* Messages.                                                               *)

\* A Notification is written once, and none is left where nothing has been resolved.
NotesFit(e) ==
  /\ e.notes \cap e.todo = {}
  /\ e.pc \notin {"push", "done"} => e.notes = {}

\* One place for each message of one reader; and who is sent what.
Tidy(u) ==
  /\ D!NoRepeats(queue[u]) /\ D!NoRepeats(heard[u])
  /\ D!Waiting(u) \cap D!Received(u) = {} /\ lost[u] \cap (D!Waiting(u) \cup D!Received(u)) = {}
Right(e, u, sent) ==
  /\ sent => D!Due(e, u) \/ e.pc = "undone"
  /\ D!Due(e, u) => sent \/ RedisFails

MessagesInv ==
  /\ \A n \in D!Events : NotesFit(event[n])
  /\ \A u \in Readers : Tidy(u)
  /\ \A u \in Readers, n \in D!Events : Right(event[n], u, D!Sent(u, n))

LEMMA MessagesAreAccounted == MessagesInv => D!MessagesAccounted
  BY DEF MessagesInv, Tidy, Right, D!MessagesAccounted

LEMMA MessagesInit == D!Init => MessagesInv
  BY DEF D!Init, D!NoEvent, MessagesInv, NotesFit, Tidy, Right, D!Waiting, D!Received,
     D!NoRepeats, D!Sent, D!Due

\* What is due depends on the event, and who was sent it on the queues.
LEMMA RightIsState ==
  ASSUME \A u \in Readers : Tidy(u)', \A n \in D!Events : NotesFit(event'[n]),
         \A u \in Readers, n \in D!Events : Right(event'[n], u, D!Sent(u, n)')
  PROVE  MessagesInv'
  <1>1. (\A n \in D!Events : NotesFit(event[n]))'
    BY DEF NotesFit
  <1>2. (\A u \in Readers, n \in D!Events : Right(event[n], u, D!Sent(u, n)))'
    BY DEF Right, D!Due
  <1> QED BY <1>1, <1>2 DEF MessagesInv

\* An event whose messages stay what they were.
Turns(e, f) ==
  /\ NotesFit(f)
  /\ \/ f.pc = "undone"
     \/ e.pc # "undone" /\ f.notes = e.notes /\ f.verb = e.verb /\ f.private = e.private
     \/ e.pc # "undone" /\ e.notes = {} /\ f.notes = {}

\* Events move on, and messages stay where they are.
LEMMA MessagesStay ==
  ASSUME MessagesInv, UNCHANGED <<queue, heard, lost>>,
         \A n \in D!Events : event'[n] = event[n] \/ Turns(event[n], event'[n])
  PROVE  MessagesInv'
  <1>1. \A n \in D!Events : NotesFit(event'[n])
    BY DEF MessagesInv, Turns
  <1>2. \A u \in Readers : UNCHANGED <<D!Waiting(u), D!Received(u)>>
    BY DEF D!Waiting, D!Received
  <1>3. \A u \in Readers, n \in D!Events : D!Sent(u, n)' <=> D!Sent(u, n)
    BY <1>2 DEF D!Sent
  <1>4. \A u \in Readers : Tidy(u)'
    BY <1>2 DEF Tidy, MessagesInv
  <1>5. ASSUME NEW u \in Readers, NEW n \in D!Events
        PROVE  Right(event'[n], u, D!Sent(u, n)')
    <2>1. Right(event[n], u, D!Sent(u, n))
      BY DEF MessagesInv
    <2>2. CASE event'[n] = event[n]
      BY <1>3, <2>1, <2>2 DEF Right
    <2>3. CASE Turns(event[n], event'[n])
      BY <1>3, <2>1, <2>3 DEF Turns, NotesFit, Right, D!Due
    <2> QED BY <2>2, <2>3
  <1> QED BY <1>1, <1>4, <1>5, RightIsState

Elements(s) == {s[k] : k \in 1..Len(s)}

LEMMA ElementsAre ==
  ASSUME NEW u \in Readers
  PROVE  /\ D!Waiting(u) = Elements(queue[u]) /\ D!Waiting(u)' = Elements(queue'[u])
         /\ D!Received(u) = Elements(heard[u]) /\ D!Received(u)' = Elements(heard'[u])
  BY DEF Elements, D!Waiting, D!Received

\* A sequence without repetitions that is read at its head, or continued with something new.
LEMMA NoRepeatsTail ==
  ASSUME NEW T, NEW s \in Seq(T), s # <<>>, D!NoRepeats(s)
  PROVE  /\ D!NoRepeats(Tail(s)) /\ Head(s) \in Elements(s)
         /\ Elements(Tail(s)) = Elements(s) \ {Head(s)}
  <1>1. Len(s) \in Nat \ {0} /\ Len(Tail(s)) = Len(s) - 1 /\ Head(s) = s[1]
    OBVIOUS
  <1>2. \A k \in 1..Len(Tail(s)) : Tail(s)[k] = s[k + 1]
    OBVIOUS
  <1>3. D!NoRepeats(Tail(s))
    <2> SUFFICES ASSUME NEW j \in 1..Len(Tail(s)), NEW k \in 1..Len(Tail(s)), Tail(s)[j] = Tail(s)[k]
                 PROVE  j = k
      BY DEF D!NoRepeats
    <2>1. j + 1 \in 1..Len(s) /\ k + 1 \in 1..Len(s) /\ s[j + 1] = s[k + 1]
      BY <1>1, <1>2
    <2>2. j + 1 = k + 1
      BY <2>1 DEF D!NoRepeats
    <2> QED BY <2>2
  <1>4. ASSUME NEW x \in Elements(Tail(s)) PROVE x \in Elements(s) /\ x # Head(s)
    <2>1. PICK k \in 1..Len(Tail(s)) : x = Tail(s)[k]
      BY <1>4 DEF Elements
    <2>2. k + 1 \in 1..Len(s) /\ 1 \in 1..Len(s) /\ x = s[k + 1] /\ k + 1 # 1
      BY <1>1, <1>2, <2>1
    <2> QED BY <1>1, <2>2 DEF D!NoRepeats, Elements
  <1>5. ASSUME NEW x \in Elements(s), x # Head(s) PROVE x \in Elements(Tail(s))
    <2>1. PICK k \in 1..Len(s) : x = s[k]
      BY <1>5 DEF Elements
    <2>2. k - 1 \in 1..Len(Tail(s)) /\ k = (k - 1) + 1
      BY <1>1, <1>5, <2>1
    <2>3. Tail(s)[k - 1] = x
      BY <1>2, <2>1, <2>2
    <2> QED BY <2>2, <2>3 DEF Elements
  <1>6. Head(s) \in Elements(s)
    BY <1>1 DEF Elements
  <1> QED BY <1>3, <1>4, <1>5, <1>6

LEMMA NoRepeatsAppend ==
  ASSUME NEW T, NEW s \in Seq(T), NEW x \in T, D!NoRepeats(s), x \notin Elements(s)
  PROVE  D!NoRepeats(Append(s, x)) /\ Elements(Append(s, x)) = Elements(s) \cup {x}
  <1>1. /\ Len(s) \in Nat /\ Len(Append(s, x)) = Len(s) + 1
        /\ Append(s, x)[Len(s) + 1] = x /\ \A k \in 1..Len(s) : Append(s, x)[k] = s[k]
    OBVIOUS
  <1>2. \A k \in 1..(Len(s) + 1) : k \in 1..Len(s) \/ k = Len(s) + 1
    BY <1>1
  <1>3. D!NoRepeats(Append(s, x))
    BY <1>1, <1>2 DEF D!NoRepeats, Elements
  <1>4. Elements(s) \subseteq Elements(Append(s, x)) /\ x \in Elements(Append(s, x))
    BY <1>1 DEF Elements
  <1>5. Elements(Append(s, x)) \subseteq Elements(s) \cup {x}
    BY <1>1, <1>2 DEF Elements
  <1> QED BY <1>3, <1>4, <1>5

LEMMA MessagesPushed ==
  ASSUME DeliveryInv, MessagesInv, NEW n \in D!Events, NEW u \in Readers, D!Notify(n, u)
  PROVE  MessagesInv'
  <1> SUFFICES ASSUME NEW e, e = event[n],
                      NEW q, q = [e EXCEPT !.todo = @ \ {u}, !.notes = @ \cup {u}],
                      NEW may \in BOOLEAN, may <=> D!Renders(e.verb, e.private, u \in Insiders)
               PROVE  MessagesInv'
    OBVIOUS
  <1>1. e \in D!EventRow /\ NotesFit(e) /\ event \in [D!Events -> D!EventRow]
    BY DEF DeliveryInv, MessagesInv, D!TypeOK
  <1>2. /\ e.pc = "push" /\ u \in e.todo /\ event' = [event EXCEPT ![n] = q] /\ UNCHANGED <<heard, lost>>
        /\ \/ may /\ queue' = [queue EXCEPT ![u] = Append(queue[u], n)]
           \/ (RedisFails \/ ~may) /\ queue' = queue
    BY <1>1 DEF D!Notify, D!Queued, D!wires, D!EventRow
  <1>3. /\ q.pc = "push" /\ q.notes = e.notes \cup {u} /\ q.todo = e.todo \ {u}
        /\ q.verb = e.verb /\ q.private = e.private
    BY <1>1, <1>2 DEF D!EventRow
  <1>4. u \notin e.notes /\ ~D!Due(e, u) /\ ~D!Sent(u, n)
    BY <1>1, <1>2 DEF NotesFit, D!Due, MessagesInv, Right
  <1>5. event'[n] = q /\ \A m \in D!Events \ {n} : event'[m] = event[m]
    BY <1>1, <1>2
  <1>6. \A m \in D!Events : NotesFit(event'[m])
    <2>1. NotesFit(q)
      BY <1>1, <1>3 DEF NotesFit
    <2> QED BY <1>5, <2>1 DEF MessagesInv
  <1>7. /\ \A v \in Readers \ {u} : D!Due(q, v) <=> D!Due(e, v)
        /\ D!Due(q, u) <=> may
    BY <1>3 DEF D!Due
  <1>8. ASSUME NEW v \in Readers \ {u}
        PROVE  Tidy(v)' /\ \A m \in D!Events : Right(event'[m], v, D!Sent(v, m)')
    <2>1. UNCHANGED <<queue[v], heard[v], lost[v]>>
      BY <1>2 DEF DeliveryInv, D!TypeOK
    <2>2. UNCHANGED <<D!Waiting(v), D!Received(v)>>
      BY <2>1 DEF D!Waiting, D!Received
    <2>3. Tidy(v)' /\ \A m \in D!Events : D!Sent(v, m)' <=> D!Sent(v, m)
      BY <2>1, <2>2 DEF Tidy, D!Sent, MessagesInv
    <2>4. \A m \in D!Events : Right(event'[m], v, D!Sent(v, m))
      <3>1. Right(q, v, D!Sent(v, n))
        BY <1>2, <1>3, <1>7 DEF MessagesInv, Right
      <3> QED BY <1>5, <3>1 DEF MessagesInv
    <2> QED BY <2>3, <2>4 DEF Right
  <1>9. CASE (RedisFails \/ ~may) /\ queue' = queue
    <2>1. UNCHANGED <<D!Waiting(u), D!Received(u)>>
      BY <1>2, <1>9 DEF D!Waiting, D!Received
    <2>2. Tidy(u)' /\ \A m \in D!Events : D!Sent(u, m)' <=> D!Sent(u, m)
      BY <1>2, <1>9, <2>1 DEF Tidy, D!Sent, MessagesInv
    <2>3. \A m \in D!Events : Right(event'[m], u, D!Sent(u, m)')
      <3>1. Right(q, u, D!Sent(u, n))
        BY <1>4, <1>7, <1>9 DEF Right
      <3> QED BY <1>5, <2>2, <3>1 DEF MessagesInv, Right
    <2> QED BY <1>6, <1>8, <2>2, <2>3, RightIsState
  <1>10. CASE may /\ queue' = [queue EXCEPT ![u] = Append(queue[u], n)]
    <2>1. queue[u] \in Seq(D!Events) /\ queue'[u] = Append(queue[u], n)
      BY <1>10 DEF DeliveryInv, D!TypeOK
    <2>2. n \notin D!Waiting(u) /\ D!NoRepeats(queue[u])
      BY <1>4 DEF D!Sent, MessagesInv, Tidy
    <2>3. D!NoRepeats(queue'[u]) /\ D!Waiting(u)' = D!Waiting(u) \cup {n}
      <3>1. n \notin Elements(queue[u])
        BY <2>2, ElementsAre
      <3>2. /\ D!NoRepeats(Append(queue[u], n))
            /\ Elements(Append(queue[u], n)) = Elements(queue[u]) \cup {n}
        BY <2>1, <2>2, <3>1, NoRepeatsAppend
      <3>3. D!Waiting(u) = Elements(queue[u]) /\ D!Waiting(u)' = Elements(queue'[u])
        BY ElementsAre
      <3> QED BY <2>1, <3>2, <3>3
    <2>4. UNCHANGED <<D!Received(u), heard[u], lost[u]>>
      BY <1>2 DEF D!Received
    <2>5. Tidy(u)' /\ \A m \in D!Events : D!Sent(u, m)' <=> D!Sent(u, m) \/ m = n
      BY <1>4, <2>3, <2>4 DEF Tidy, D!Sent, MessagesInv
    <2>6. \A m \in D!Events : Right(event'[m], u, D!Sent(u, m)')
      <3>1. Right(q, u, TRUE)
        BY <1>7, <1>10 DEF Right
      <3> QED BY <1>5, <2>5, <3>1 DEF MessagesInv, Right
    <2> QED BY <1>6, <1>8, <2>5, <2>6, RightIsState
  <1> QED BY <1>2, <1>9, <1>10

LEMMA MessagesPolled ==
  ASSUME DeliveryInv, MessagesInv, NEW x \in Sockets, D!Poll(x)
  PROVE  MessagesInv'
  <1> SUFFICES ASSUME NEW u, u = SocketOf[x], NEW h, h = Head(queue[u]) PROVE MessagesInv'
    OBVIOUS
  <1>1. /\ u \in Readers /\ queue[u] \in Seq(D!Events) /\ heard[u] \in Seq(D!Events)
        /\ queue[u] # <<>> /\ queue' = [queue EXCEPT ![u] = Tail(@)] /\ UNCHANGED event
        /\ h \in D!Events
    BY AnnouncingBounds DEF D!Poll, D!rows, DeliveryInv, D!TypeOK
  <1>2. \/ heard' = [heard EXCEPT ![u] = Append(@, h)] /\ UNCHANGED lost
        \/ lost' = [lost EXCEPT ![u] = @ \cup {h}] /\ UNCHANGED heard
    BY DEF D!Poll
  <1>3. /\ queue \in [Readers -> Seq(D!Events)] /\ heard \in [Readers -> Seq(D!Events)]
        /\ lost \in [Readers -> SUBSET D!Events]
    BY DEF DeliveryInv, D!TypeOK
  <1>4. Tidy(u)
    BY <1>1 DEF MessagesInv
  <1>5. queue'[u] = Tail(queue[u])
    BY <1>1, <1>3
  <1>6. D!NoRepeats(queue'[u]) /\ D!Waiting(u)' = D!Waiting(u) \ {h} /\ h \in D!Waiting(u)
    BY <1>1, <1>4, <1>5, NoRepeatsTail, ElementsAre DEF Tidy
  <1>7. Tidy(u)' /\ \A m \in D!Events : D!Sent(u, m)' <=> D!Sent(u, m)
    <2>1. CASE heard' = [heard EXCEPT ![u] = Append(@, h)] /\ UNCHANGED lost
      <3>1. heard'[u] = Append(heard[u], h) /\ h \notin D!Received(u) /\ D!NoRepeats(heard[u])
        BY <1>1, <1>3, <1>4, <1>6, <2>1 DEF Tidy
      <3>2. D!NoRepeats(heard'[u]) /\ D!Received(u)' = D!Received(u) \cup {h}
        <4>1. D!Received(u) = Elements(heard[u]) /\ D!Received(u)' = Elements(heard'[u])
          BY <1>1, ElementsAre
        <4>2. h \notin Elements(heard[u])
          BY <3>1, <4>1
        <4>3. /\ D!NoRepeats(Append(heard[u], h))
              /\ Elements(Append(heard[u], h)) = Elements(heard[u]) \cup {h}
          BY <1>1, <3>1, <4>2, NoRepeatsAppend
        <4> QED BY <3>1, <4>1, <4>3
      <3> QED BY <1>4, <1>6, <2>1, <3>2 DEF Tidy, D!Sent
    <2>2. CASE lost' = [lost EXCEPT ![u] = @ \cup {h}] /\ UNCHANGED heard
      <3>1. lost'[u] = lost[u] \cup {h} /\ UNCHANGED D!Received(u)
        BY <1>1, <1>3, <2>2 DEF D!Received
      <3> QED BY <1>4, <1>6, <2>2, <3>1 DEF Tidy, D!Sent
    <2> QED BY <1>2, <2>1, <2>2
  <1>8. ASSUME NEW v \in Readers, v # u
        PROVE  Tidy(v)' /\ \A m \in D!Events : D!Sent(v, m)' <=> D!Sent(v, m)
    <2>1. UNCHANGED <<queue[v], heard[v], lost[v]>>
      BY <1>1, <1>2, <1>3, <1>8
    <2>2. UNCHANGED <<D!Waiting(v), D!Received(v)>>
      BY <2>1 DEF D!Waiting, D!Received
    <2> QED BY <2>1, <2>2 DEF Tidy, D!Sent, MessagesInv
  <1>9. \A v \in Readers, m \in D!Events : Right(event'[m], v, D!Sent(v, m)')
    BY <1>1, <1>7, <1>8 DEF MessagesInv, Right
  <1> QED BY <1>1, <1>7, <1>8, <1>9, RightIsState DEF MessagesInv

\* A transaction begins with nobody notified.
LEMMA EventStarts ==
  ASSUME NEW n \in D!Events, D!Begin(n)
  PROVE  \E q : event' = [event EXCEPT ![n] = q] /\ q.notes = {} /\ q.pc \in {"feed", "push"}
  <1>1. PICK verb \in Emits[n], u \in Subjects, shared \in BOOLEAN, private \in BOOLEAN :
      /\ event[n].pc = "none"
      /\ shared => verb \in D!Comments
      /\ private => D!Asks(verb) \cap (D!SiteBound \cup {"answer_suggest_edit"}) # {}
                    /\ "article" \notin D!Ids[verb]
      /\ \E sinks \in D!Ways(verb), receivers \in D!Mentioned(verb) :
           /\ sinks = {"activity"} => shared
           /\ event' = [event EXCEPT ![n] =
                [D!NoEvent EXCEPT !.pc = IF verb = "mentioned_in_comment" THEN "push" ELSE "feed",
                                !.verb = verb, !.subject = u, !.sinks = sinks,
                                !.shared = shared, !.private = private, !.todo = receivers]]
      /\ steady' = [steady EXCEPT ![n] = fans]
      /\ UNCHANGED <<D!counts, queue, D!wires>>
    BY DEF D!Begin
  <1>2. PICK sinks \in D!Ways(verb), receivers \in D!Mentioned(verb) :
          event' = [event EXCEPT ![n] =
                [D!NoEvent EXCEPT !.pc = IF verb = "mentioned_in_comment" THEN "push" ELSE "feed",
                                !.verb = verb, !.subject = u, !.sinks = sinks,
                                !.shared = shared, !.private = private, !.todo = receivers]]
    BY <1>1
  <1> DEFINE q ==
    [D!NoEvent EXCEPT !.pc = IF verb = "mentioned_in_comment" THEN "push" ELSE "feed",
                      !.verb = verb, !.subject = u, !.sinks = sinks,
                      !.shared = shared, !.private = private, !.todo = receivers]
  <1>3. q.notes = {} /\ q.pc \in {"feed", "push"}
    BY DEF D!NoEvent
  <1> QED BY <1>2, <1>3

LEMMA MessagesStep ==
  ASSUME DeliveryInv, MessagesInv, [D!Next]_(D!deliveryVars)
  PROVE  MessagesInv'
  <1>1. event \in [D!Events -> D!EventRow]
    BY DEF DeliveryInv, D!TypeOK
  <1>2. CASE UNCHANGED <<event, queue, heard, lost>>
    BY <1>2, MessagesStay
  <1>3. ASSUME NEW n \in D!Events, D!Begin(n) PROVE MessagesInv'
    <2>1. UNCHANGED <<queue, heard, lost>> /\ event[n].pc = "none"
      BY <1>3 DEF D!Begin, D!wires
    <2>2. PICK q : event' = [event EXCEPT ![n] = q] /\ q.notes = {}
      BY <1>3, EventStarts
    <2>3. event[n].notes = {}
      BY <2>1 DEF MessagesInv, NotesFit
    <2>4. \A m \in D!Events : event'[m] = event[m] \/ Turns(event[m], event'[m])
      BY <1>1, <2>1, <2>2, <2>3 DEF Turns, NotesFit
    <2> QED BY <2>1, <2>4, MessagesStay
  <1>4. ASSUME NEW n \in D!Events, D!WriteFeed(n) \/ D!ResolveNotes(n) PROVE MessagesInv'
    <2>1. UNCHANGED <<queue, heard, lost>> /\ event[n].pc \in {"feed", "notes"}
      BY <1>4 DEF D!WriteFeed, D!ResolveNotes, D!wires
    <2>2. event[n].notes = {}
      BY <2>1 DEF MessagesInv, NotesFit
    <2>3. event'[n].notes = event[n].notes
      BY <1>1, <1>4 DEF D!WriteFeed, D!ResolveNotes, D!EventRow
    <2>4. \A m \in D!Events \ {n} : event'[m] = event[m]
      BY <1>1, <1>4 DEF D!WriteFeed, D!ResolveNotes
    <2>5. Turns(event[n], event'[n])
      BY <2>1, <2>2, <2>3 DEF Turns, NotesFit
    <2> QED BY <2>1, <2>4, <2>5, MessagesStay
  <1>5. ASSUME NEW n \in D!Events, D!Commit(n) \/ D!Abort(n) PROVE MessagesInv'
    <2>1. UNCHANGED <<queue, heard, lost>>
      BY <1>5 DEF D!Commit, D!Abort, D!wires
    <2>2. event[n] \in D!EventRow /\ NotesFit(event[n])
      BY <1>1 DEF MessagesInv
    <2>3. \A m \in D!Events \ {n} : event'[m] = event[m]
      BY <1>1, <1>5 DEF D!Commit, D!Abort
    <2>4. Turns(event[n], event'[n])
      <3>1. D!Commit(n) => /\ event'[n] = [event[n] EXCEPT !.pc = "done"] /\ event[n].pc = "push"
        BY <1>1 DEF D!Commit, D!Finished, D!EventRow
      <3>2. D!Abort(n) => event'[n] = D!Undone(event[n])
        BY <1>1 DEF D!Abort
      <3> QED BY <1>5, <2>2, <3>1, <3>2 DEF Turns, NotesFit, D!Undone, D!EventRow
    <2> QED BY <2>1, <2>3, <2>4, MessagesStay
  <1>6. D!Restart => MessagesInv'
    <2> SUFFICES ASSUME D!Restart PROVE MessagesInv'
      OBVIOUS
    <2>1. UNCHANGED <<queue, heard, lost>>
      BY DEF D!Restart
    <2>2. \A m \in D!Events : event'[m] = event[m] \/ event'[m] = D!Undone(event[m])
      BY <1>1 DEF D!Restart
    <2>3. \A m \in D!Events : Turns(event[m], D!Undone(event[m]))
      BY <1>1 DEF Turns, NotesFit, D!Undone, D!EventRow
    <2> QED BY <2>1, <2>2, <2>3, MessagesStay
  <1>7. ASSUME NEW x \in Sockets, D!Connect(x) \/ D!Drop(x) PROVE UNCHANGED <<event, queue, heard, lost>>
    BY <1>7 DEF D!Connect, D!Drop, D!rows
  <1>8. ASSUME NEW a \in D!Moving, NEW u \in Readers, D!Move(a, u)
        PROVE  UNCHANGED <<event, queue, heard, lost>>
    BY <1>8 DEF D!Move, D!wires
  <1>9. UNCHANGED D!deliveryVars => UNCHANGED <<event, queue, heard, lost>>
    BY DEF D!deliveryVars, D!rows, D!wires
  <1> QED
    BY <1>2, <1>3, <1>4, <1>5, <1>6, <1>7, <1>8, <1>9, MessagesPushed, MessagesPolled DEF D!Next

LEMMA MessagesAlways == D!Spec => []MessagesInv
  <1> QED BY DeliveryAlways, MessagesInit, MessagesStep, PTL DEF D!Spec

-----------------------------------------------------------------------------
(* The task of a publication is the transaction of its event.              *)

\* A request leaves the tasks there are, and announces an isolated item only if the item
\* was not published.
LEMMA TasksAdded ==
  ASSUME IsolatedInv, Serve
  PROVE  /\ tasks \subseteq tasks' /\ UNCHANGED announced
         /\ \A t \in tasks' \ tasks :
              Announces(t) /\ t.item \in IsolatedItems => ~post[t.item].published
  <1>1. PICK s \in Slots :
          \/ Begin(s) \/ ReadArchives(s)
          \/ CommitCreate(s) \/ CommitDraft(s) \/ CommitPublish(s)
          \/ CommitDrop(s) \/ CommitDelete(s) \/ Abort(s)
    BY DEF Serve
  <1>2. CASE Begin(s) \/ ReadArchives(s) \/ Abort(s) \/ CommitDrop(s) \/ CommitDelete(s)
    BY <1>2 DEF Begin, ReadArchives, Abort, CommitDrop, CommitDelete, Finish, store
  <1>3. CASE CommitCreate(s) \/ CommitDraft(s) \/ CommitPublish(s)
    <2>1. Active(s) /\ UNCHANGED announced /\ \E row : tasks' = Queue(req[s], row)
      BY <1>3 DEF CommitCreate, CommitDraft, CommitPublish, Finish, Active, At
    <2>2. PICK row : tasks' = Queue(req[s], row)
      BY <2>1
    <2>3. \/ tasks' = tasks
          \/ tasks' = tasks \cup {[item |-> req[s].item, was |-> Was(req[s]), n |-> req[s].n]}
      BY <2>2 DEF Queue
    <2>4. req[s].item \in IsolatedItems => Was(req[s]) = post[req[s].item].published
      BY <2>1 DEF IsolatedInv, Current, Was
    <2> QED BY <2>1, <2>3, <2>4 DEF Announces
  <1> QED BY <1>1, <1>2, <1>3

Stages == {"feed", "notes", "push"}
OneTaskFor(i) ==
  /\ announced[i] = IF event[i].pc = "done" THEN 1 ELSE 0
  /\ event[i].pc \in Stages => \E t \in tasks : t.item = i /\ Announces(t)
  /\ \A t \in tasks : t.item = i /\ Announces(t) => event[i].pc \notin {"done", "undone"}
  /\ event[i].pc # "none" => post[i].published

LEMMA OneTaskForEach == OneTaskPerEvent <=> \A i \in IsolatedItems : OneTaskFor(i)
  BY DEF OneTaskPerEvent, OneTaskFor, Stages

LEMMA OneTaskInit == BothInit => OneTaskPerEvent
  BY ConstantsAssumption, AnnouncingBounds
     DEF BothInit, Init, D!Init, D!NoEvent, D!Events, OneTaskPerEvent

\* The task of a publication begins and takes on its transaction: it stays queued.
LEMMA TaskWorks ==
  ASSUME IsolatedInv, DeliveryInv, OneTaskPerEvent, NEW t \in tasks, StartTask(t) \/ WorkOnTask(t)
  PROVE  OneTaskPerEvent'
  <1>1. UNCHANGED <<post, tasks, announced>>
    BY DEF StartTask, WorkOnTask, vars, store
  <1>2. t.item \in D!Events /\ event \in [D!Events -> D!EventRow] /\ IsolatedItems \subseteq D!Events
    BY AnnouncingBounds, ConstantsAssumption
       DEF D!Events, DeliveryInv, D!TypeOK, IsolatedInv, RaceInv, TypeOK, Task
  <1>3. \A i \in D!Events \ {t.item} : event'[i] = event[i]
    <2>1. CASE StartTask(t)
      <3>1. \E q : event' = [event EXCEPT ![t.item] = q]
        BY <1>2, <2>1, EventStarts DEF StartTask
      <3> QED BY <1>2, <3>1
    <2>2. CASE WorkOnTask(t)
      BY <1>2, <2>2 DEF WorkOnTask, D!WriteFeed, D!ResolveNotes, D!Notify
    <2> QED BY <2>1, <2>2
  <1>4. CASE StartTask(t)
    <2>1. Announces(t) /\ post[t.item].published /\ event[t.item].pc = "none"
      BY <1>4 DEF StartTask, AssertPublished, D!Begin
    <2>2. event'[t.item].pc \in Stages
      <3>1. D!Begin(t.item)
        BY <1>4 DEF StartTask
      <3> QED BY <1>2, <3>1, EventStarts DEF Stages
    <2>3. ASSUME NEW i \in IsolatedItems PROVE OneTaskFor(i)'
      <3>1. CASE i = t.item
        BY <1>1, <2>1, <2>2, <2>3, <3>1, OneTaskForEach DEF OneTaskFor, Announces, Stages
      <3>2. CASE i # t.item
        BY <1>1, <1>2, <1>3, <2>3, <3>2, OneTaskForEach DEF OneTaskFor, Announces
      <3> QED BY <3>1, <3>2
    <2> QED BY <2>3 DEF OneTaskPerEvent, OneTaskFor, Stages
  <1>5. CASE WorkOnTask(t)
    <2>1. event[t.item].pc \in Stages /\ event'[t.item].pc \in Stages
      <3>1. /\ D!WriteFeed(t.item) => event[t.item].pc = "feed" /\ event'[t.item].pc = "notes"
            /\ D!ResolveNotes(t.item) => event[t.item].pc = "notes" /\ event'[t.item].pc = "push"
        BY <1>2 DEF D!WriteFeed, D!ResolveNotes, D!EventRow
      <3>2. ASSUME NEW u \in Readers, D!Notify(t.item, u)
            PROVE  event[t.item].pc = "push" /\ event'[t.item].pc = "push"
        BY <1>2, <3>2 DEF D!Notify, D!EventRow
      <3> QED BY <1>5, <3>1, <3>2 DEF WorkOnTask, Stages
    <2>2. ASSUME NEW i \in IsolatedItems PROVE OneTaskFor(i)'
      <3>1. CASE i = t.item
        BY <1>1, <2>1, <2>2, <3>1, OneTaskForEach DEF OneTaskFor, Announces, Stages
      <3>2. CASE i # t.item
        BY <1>1, <1>2, <1>3, <2>2, <3>2, OneTaskForEach DEF OneTaskFor, Announces
      <3> QED BY <3>1, <3>2
    <2> QED BY <2>2 DEF OneTaskPerEvent, OneTaskFor, Stages
  <1> QED BY <1>4, <1>5

\* A task ends, and with it the transaction it is.
LEMMA TaskEnds ==
  ASSUME IsolatedInv, DeliveryInv, OneTaskPerEvent, NEW t \in tasks, EndTask(t) \/ LoseTask(t)
  PROVE  OneTaskPerEvent'
  <1>1. tasks' = tasks \ {t} /\ UNCHANGED post
    BY DEF EndTask, LoseTask, RunTask, FailTask, store
  <1>2. /\ t.item \in D!Events /\ event \in [D!Events -> D!EventRow]
        /\ IsolatedItems \subseteq D!Events /\ announced \in [D!Events -> Nat]
    BY AnnouncingBounds, ConstantsAssumption
       DEF D!Events, DeliveryInv, D!TypeOK, IsolatedInv, RaceInv, TypeOK, Task
  <1>3. CASE ~Announces(t)
    <2>1. UNCHANGED <<event, announced>>
      BY <1>2, <1>3 DEF EndTask, LoseTask, RunTask, FailTask, delivery, store
    <2>2. ASSUME NEW i \in IsolatedItems PROVE OneTaskFor(i)'
      <3>1. OneTaskFor(i)
        BY OneTaskForEach
      <3> QED BY <1>1, <1>3, <2>1, <3>1 DEF OneTaskFor, Announces
    <2> QED BY <2>2 DEF OneTaskPerEvent, OneTaskFor, Stages
  <1>4. CASE Announces(t)
    <2>1. /\ event[t.item].pc \in Stages
          /\ \/ event'[t.item].pc = "done" /\ announced' = [announced EXCEPT ![t.item] = @ + 1]
             \/ event'[t.item].pc = "undone" /\ announced' = announced
      <3>1. CASE EndTask(t)
        <4>1. D!Commit(t.item) /\ announced' = [announced EXCEPT ![t.item] = @ + 1]
          BY <1>4, <3>1 DEF EndTask, RunTask
        <4>2. event[t.item].pc = "push" /\ event'[t.item].pc = "done"
          BY <1>2, <4>1 DEF D!Commit, D!Finished, D!EventRow
        <4> QED BY <4>1, <4>2 DEF Stages
      <3>2. CASE LoseTask(t)
        <4>1. D!Abort(t.item) /\ announced' = announced
          BY <1>4, <3>2 DEF LoseTask, FailTask, store
        <4>2. event[t.item].pc \in Stages /\ event'[t.item].pc = "undone"
          BY <1>2, <4>1 DEF D!Abort, D!Undone, D!EventRow, Stages
        <4> QED BY <4>1, <4>2
      <3> QED BY <3>1, <3>2
    <2>2. \A i \in D!Events \ {t.item} : event'[i] = event[i]
      BY <1>2, <1>4 DEF EndTask, LoseTask, D!Commit, D!Abort
    <2>3. ASSUME NEW i \in IsolatedItems PROVE OneTaskFor(i)'
      <3>0. OneTaskFor(i)
        BY OneTaskForEach
      <3>1. CASE i = t.item
        <4>1. \A u \in tasks' : ~(u.item = i /\ Announces(u))
          BY <1>1, <1>4, <2>3, <3>1 DEF IsolatedInv, OneTask, Announces
        <4>2. announced[i] = 0 /\ post[i].published
          BY <2>1, <3>0, <3>1 DEF OneTaskFor, Stages
        <4>3. announced'[i] = IF event'[i].pc = "done" THEN 1 ELSE 0
          BY <1>2, <2>1, <3>1, <4>2
        <4> QED BY <1>1, <2>1, <3>1, <4>1, <4>2, <4>3 DEF OneTaskFor, Announces, Stages
      <3>2. CASE i # t.item
        <4>1. event'[i] = event[i] /\ announced'[i] = announced[i]
          BY <1>2, <2>1, <2>2, <2>3, <3>2
        <4> QED BY <1>1, <3>0, <3>2, <4>1 DEF OneTaskFor, Announces
      <3> QED BY <3>1, <3>2
    <2> QED BY <2>3 DEF OneTaskPerEvent, OneTaskFor, Stages
  <1> QED BY <1>3, <1>4

LEMMA OneTaskStep ==
  ASSUME IsolatedInv, DeliveryInv, OneTaskPerEvent, [BothNext]_bothVars
  PROVE  OneTaskPerEvent'
  <1>1. CASE Serve
    <2>1. UNCHANGED event
      BY <1>1 DEF Serve, delivery
    <2>2. \A i \in Items : post[i].published => post'[i].published
      <3>1. Next
        BY <1>1 DEF Serve, Next
      <3> QED BY <3>1, PublishedStays DEF IsolatedInv
    <2>3. ASSUME NEW i \in IsolatedItems PROVE OneTaskFor(i)'
      <3>1. OneTaskFor(i) /\ i \in Items
        BY OneTaskForEach, ConstantsAssumption
      <3>2. announced'[i] = announced[i] /\ tasks \subseteq tasks'
        BY <1>1, TasksAdded
      <3>3. \A t \in tasks' : t.item = i /\ Announces(t) => t \in tasks \/ event[i].pc = "none"
        BY <1>1, <2>3, <3>1, TasksAdded DEF OneTaskFor
      <3> QED BY <2>1, <2>2, <3>1, <3>2, <3>3 DEF OneTaskFor, Announces
    <2> QED BY <2>3 DEF OneTaskPerEvent, OneTaskFor, Stages
  <1>2. ASSUME NEW x \in Sockets, Wire(x) PROVE OneTaskPerEvent'
    BY <1>2 DEF Wire, D!Connect, D!Drop, D!Poll, D!rows, vars, store, OneTaskPerEvent, Announces
  <1>3. CASE BothCrash
    <2>1. tasks' = {} /\ UNCHANGED <<post, announced>>
      BY <1>3 DEF BothCrash, Crash, store
    <2>2. IsolatedItems \subseteq D!Events /\ event \in [D!Events -> D!EventRow]
      BY AnnouncingBounds, ConstantsAssumption DEF D!Events, DeliveryInv, D!TypeOK
    <2>3. \A i \in D!Events :
            event'[i].pc = IF event[i].pc \in Stages THEN "undone" ELSE event[i].pc
      BY <1>3, <2>2 DEF BothCrash, D!Restart, D!Undone, D!EventRow, Stages
    <2>4. ASSUME NEW i \in IsolatedItems PROVE OneTaskFor(i)'
      <3>1. OneTaskFor(i)
        BY OneTaskForEach
      <3>2. event'[i].pc = IF event[i].pc \in Stages THEN "undone" ELSE event[i].pc
        BY <2>2, <2>3
      <3> QED BY <2>1, <3>1, <3>2 DEF OneTaskFor, Stages
    <2> QED BY <2>4 DEF OneTaskPerEvent, OneTaskFor, Stages
  <1>4. CASE UNCHANGED bothVars
    BY <1>4 DEF bothVars, vars, store, delivery, OneTaskPerEvent, Announces
  <1> QED BY <1>1, <1>2, <1>3, <1>4, TaskWorks, TaskEnds DEF BothNext

LEMMA OneTaskAlways == BothSpec => []OneTaskPerEvent
  <1> QED BY AnnouncingRunsBoth, IsolatedAlways, DeliveryAlways, OneTaskInit, OneTaskStep, PTL
      DEF BothSpec

\* From the request to the screens.  On an item on which requests do not overlap the task of a
\* publication is the one transaction of its event, and the item counts as announced exactly
\* when that has committed; then everyone who followed all along has a feed row and every
\* subscriber a Notification, and their messages wait, were received, or were lost with a dead
\* socket, each once; the only socket of a reader is served as long as it is open.  Whatever
\* requests, tasks and sockets do in between, and whenever the process dies.
THEOREM PublicationAlwaysServed == BothSpec => []PublicationServed
  <1>1. DeliveryInv => D!EverySinkServed
    BY EventsServed
  <1>2. MessagesInv => D!MessagesAccounted
    BY MessagesAreAccounted
  <1>3. SocketsInv => D!OneSocketLosesOne
    BY DEF SocketsInv, ReaderFits, D!OneSocketLosesOne
  <1>4. OneTaskPerEvent /\ DeliveryInv /\ MessagesInv /\ SocketsInv => PublicationServed
    BY <1>1, <1>2, <1>3 DEF PublicationServed
  <1> QED BY <1>4, OneTaskAlways, AnnouncingRunsBoth, DeliveryAlways, MessagesAlways,
             SocketsAlways, PTL
=============================================================================
