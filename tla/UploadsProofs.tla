--------------------------- MODULE UploadsProofs ---------------------------
(***************************************************************************)
(* Proofs about Uploads, for any users, pictures, lock keys and threads,   *)
(* and any assignment of keys to pictures; and about Usages, for any texts *)
(* and readers.                                                            *)
(***************************************************************************)
EXTENDS Images, FiniteSetTheorems, SumTheorems, TLAPS

-----------------------------------------------------------------------------
(* Types.                                                                  *)

LEMMA IdleType == Idle \in Request /\ Idle.pc = "idle"
  <1>1. (CHOOSE u \in Users : TRUE) \in Users
    BY ConstantsAssumption
  <1>2. (CHOOSE p \in Pictures : TRUE) \in Pictures
    BY ConstantsAssumption
  <1> QED BY <1>1, <1>2 DEF Idle, Request

\* What a new request is.
LEMMA BeginType ==
  ASSUME NEW s \in Slots, TypeOK, NoDebt, Begin(s)
  PROVE \E q \in Request :
          /\ req' = [req EXCEPT ![s] = q] /\ UNCHANGED <<store, lock, crashes, history>>
          /\ req[s].pc = "idle" /\ served < MaxRequests /\ served' = served + 1
          /\ q.pc = "lock" /\ q.coins = coins[q.user] /\ ~q.new
          /\ q.user \in IsolatedUsers => ~Working(q.user)
  <1>1. PICK u \in Users, p \in Pictures :
          /\ u \in IsolatedUsers => ~Working(u)
          /\ req' = [req EXCEPT ![s] = [Idle EXCEPT !.pc = "lock", !.user = u,
                                                    !.pic = p, !.coins = coins[u]]]
    BY DEF Begin
  <1> DEFINE q == [Idle EXCEPT !.pc = "lock", !.user = u, !.pic = p, !.coins = coins[u]]
  <1>2. coins[u] \in Nat
    BY DEF TypeOK, NoDebt
  <1>3. q \in Request /\ q.pc = "lock" /\ q.user = u /\ q.coins = coins[u] /\ ~q.new
    BY <1>2, IdleType DEF Request, Idle
  <1>4. req' = [req EXCEPT ![s] = q]
    BY <1>1
  <1> HIDE DEF q
  <1> QED BY <1>1, <1>3, <1>4 DEF Begin, At

LEMMA TypeInit == Init => TypeOK
  BY IdleType, ConstantsAssumption DEF Init, TypeOK

LEMMA EndType ==
  ASSUME NEW s \in Slots, TypeOK, End(s)
  PROVE (lock \in [Keys -> Slots \union {Free}] /\ req \in [Slots -> Request])'
        /\ UNCHANGED <<served, crashes>>
  BY IdleType DEF End, ReleasedBy, TypeOK

LEMMA TypeStep ==
  ASSUME TypeOK, NoDebt, [Next]_vars
  PROVE TypeOK'
  <1>1. CASE UNCHANGED vars
    BY <1>1 DEF TypeOK, vars, store, history
  <1>2. CASE Crash
    BY <1>2, IdleType, ConstantsAssumption DEF Crash, TypeOK, store, history
  <1>3. ASSUME NEW u \in Users, Elsewhere(u) PROVE TypeOK'
    BY <1>3, ConstantsAssumption DEF Elsewhere, Booked, TypeOK
  <1>4. ASSUME NEW s \in Slots, Begin(s) PROVE TypeOK'
    BY <1>4, BeginType, ConstantsAssumption DEF TypeOK, store, history
  <1>5. ASSUME NEW s \in Slots, LockSha(s) PROVE TypeOK'
    BY <1>5, ConstantsAssumption DEF LockSha, TypeOK, store, history, Request
  <1>6. ASSUME NEW s \in Slots, ExistsWithSha(s) PROVE TypeOK'
    <2>1. CASE End(s)
      BY <1>6, <2>1, EndType DEF ExistsWithSha, TypeOK, store, history
    <2>2. CASE ~End(s)
      BY <1>6, <2>2 DEF ExistsWithSha, TypeOK, store, history, Request
    <2> QED BY <2>1, <2>2
  <1>7. ASSUME NEW s \in Slots, PutImage(s) PROVE TypeOK'
    BY <1>7 DEF PutImage, Put, TypeOK, history, Request
  <1>8. ASSUME NEW s \in Slots, CommitUpload(s) PROVE TypeOK'
    <2>1. req[s] \in Request
      BY DEF TypeOK
    <2>2. /\ rows' \in [Pictures -> Nat] /\ coins' \in [Users -> Int]
          /\ charges' \in [Pictures -> Nat] /\ book' \in [Users -> Int]
      BY <1>8, <2>1 DEF CommitUpload, Charged, Booked, UPLOAD_IMAGE_COST, TypeOK, Request
    <2> QED BY <1>8, <2>2, EndType DEF CommitUpload, TypeOK
  <1>9. ASSUME NEW s \in Slots, Abort(s) PROVE TypeOK'
    BY <1>9, EndType DEF Abort, TypeOK, store, history
  <1> QED BY <1>1, <1>2, <1>3, <1>4, <1>5, <1>6, <1>7, <1>8, <1>9 DEF Next

-----------------------------------------------------------------------------
(* What holds however requests interleave.                                 *)

\* A request past lock_sha holds the lock of its picture.
LocksHeld ==
  \A s \in Slots : req[s].pc \in {"check", "put", "commit"}
                    => lock[Key[req[s].pic]] = s

\* Nothing is known of the picture before the lock is held.
Unknown == \A s \in Slots : req[s].pc \in {"lock", "check"} => ~req[s].new

\* What a request found when it looked for the picture is still so.
StillSo ==
  \A s \in Slots : req[s].pc \in {"put", "commit"}
                    => (req[s].new <=> rows[req[s].pic] = 0)

\* A request that will charge has checked the balance it will write.
Covered ==
  \A s \in Slots : req[s].pc \in {"put", "commit"} /\ req[s].new
                    => req[s].coins >= UPLOAD_IMAGE_COST

\* A request that will commit the first row has stored the object.
PutFirst ==
  \A s \in Slots : At(s, "commit") /\ req[s].new => req[s].pic \in stored

RequestInv == LocksHeld /\ Unknown /\ StillSo /\ Covered /\ PutFirst

RaceInv == TypeOK /\ NoDebt /\ RequestInv /\ PaidByTheFirst /\ RowsHaveObjects

LEMMA RaceInit == Init => RaceInv
  <1> SUFFICES ASSUME Init PROVE RaceInv
    OBVIOUS
  <1>1. RequestInv
    BY IdleType DEF Init, RequestInv, LocksHeld, Unknown, StillSo, Covered, PutFirst, At
  <1> QED BY <1>1, TypeInit, ConstantsAssumption
          DEF Init, RaceInv, NoDebt, PaidByTheFirst, RowsHaveObjects

\* The end of a request takes away nobody else's lock.
LEMMA EndKeepsLocks ==
  ASSUME NEW s \in Slots, TypeOK, LocksHeld, End(s)
  PROVE LocksHeld' /\ req'[s].pc = "idle" /\ \A t \in Slots \ {s} : req'[t] = req[t]
  BY IdleType, ConstantsAssumption DEF End, ReleasedBy, TypeOK, LocksHeld, Request

LEMMA RaceStep ==
  ASSUME RaceInv, [Next]_vars
  PROVE RaceInv'
  <1>0. TypeOK' /\ TypeOK /\ req \in [Slots -> Request]
    BY TypeStep DEF RaceInv, TypeOK
  <1>1. CASE UNCHANGED vars
    BY <1>0, <1>1 DEF vars, store, history, RaceInv, NoDebt, RequestInv, LocksHeld,
       Unknown, StillSo, Covered, PutFirst, PaidByTheFirst, RowsHaveObjects, At
  <1>2. CASE Crash
    BY <1>0, <1>2, IdleType DEF Crash, store, history, RaceInv, NoDebt, RequestInv,
       LocksHeld, Unknown, StillSo, Covered, PutFirst, PaidByTheFirst, RowsHaveObjects, At
  <1>3. ASSUME NEW u \in Users, Elsewhere(u) PROVE RaceInv'
    <2>1. NoDebt'
      BY <1>0, <1>3, ConstantsAssumption DEF Elsewhere, RaceInv, NoDebt, TypeOK
    <2> QED BY <1>0, <1>3, <2>1 DEF Elsewhere, RaceInv, RequestInv, LocksHeld,
         Unknown, StillSo, Covered, PutFirst, PaidByTheFirst, RowsHaveObjects, At
  <1>4. ASSUME NEW s \in Slots, Begin(s) PROVE RaceInv'
    <2>1. PICK q \in Request :
            /\ req' = [req EXCEPT ![s] = q] /\ UNCHANGED <<store, lock, crashes, history>>
            /\ q.pc = "lock" /\ ~q.new
      BY <1>4, BeginType DEF RaceInv
    <2>2. RequestInv'
      BY <1>0, <2>1 DEF RaceInv, RequestInv, LocksHeld, Unknown, StillSo, Covered, PutFirst, At, store
    <2> QED BY <1>0, <2>1, <2>2 DEF store, history, RaceInv, NoDebt,
         PaidByTheFirst, RowsHaveObjects
  <1>5. ASSUME NEW s \in Slots, LockSha(s) PROVE RaceInv'
    <2>1. /\ lock[Key[req[s].pic]] = Free /\ lock' = [lock EXCEPT ![Key[req[s].pic]] = s]
          /\ req' = [req EXCEPT ![s].pc = "check"]
          /\ UNCHANGED <<store, history>>
      BY <1>5 DEF LockSha, Lockable
    <2>2. req'[s].pc = "check" /\ req'[s].pic = req[s].pic /\ ~req'[s].new
          /\ \A t \in Slots \ {s} : req'[t] = req[t]
      BY <1>0, <1>5, <2>1 DEF Request, LockSha, At, RaceInv, RequestInv, Unknown
    <2>3. Key[req[s].pic] \in Keys /\ \A t \in Slots : Key[req[t].pic] \in Keys
      BY <1>0, ConstantsAssumption DEF Request
    <2>4. LocksHeld'
      <3>1. \A t \in Slots \ {s} : req[t].pc \in {"check", "put", "commit"}
              => lock[Key[req[t].pic]] = t /\ Key[req[t].pic] # Key[req[s].pic]
        BY <2>1, ConstantsAssumption DEF RaceInv, RequestInv, LocksHeld
      <3> QED BY <1>0, <2>1, <2>2, <2>3, <3>1 DEF LocksHeld, TypeOK
    <2>5. (Unknown /\ StillSo /\ Covered /\ PutFirst)'
      BY <2>1, <2>2 DEF RaceInv, RequestInv, Unknown, StillSo, Covered, PutFirst, At, store
    <2> QED BY <1>0, <2>1, <2>4, <2>5 DEF store, history, RaceInv, RequestInv, NoDebt,
         PaidByTheFirst, RowsHaveObjects
  <1>6. ASSUME NEW s \in Slots, ExistsWithSha(s) PROVE RaceInv'
    <2>1. UNCHANGED <<store, history>> /\ At(s, "check")
      BY <1>6 DEF ExistsWithSha
    <2>2. (NoDebt /\ PaidByTheFirst /\ RowsHaveObjects)'
      BY <2>1 DEF store, history, RaceInv, NoDebt, PaidByTheFirst, RowsHaveObjects
    <2>3. CASE End(s)
      <3>1. RequestInv'
        BY <1>0, <2>1, <2>3, EndKeepsLocks
           DEF RaceInv, RequestInv, Unknown, StillSo, Covered, PutFirst, At, store
      <3> QED BY <1>0, <2>2, <3>1 DEF RaceInv
    <2>4. CASE /\ req' = [req EXCEPT ![s].pc = "commit"] /\ UNCHANGED lock
               /\ ~IsNew(req[s].pic)
      <3>1. /\ req'[s].pc = "commit" /\ req'[s].pic = req[s].pic
            /\ req'[s].new = req[s].new /\ ~req[s].new
            /\ \A t \in Slots \ {s} : req'[t] = req[t]
        BY <1>0, <2>1, <2>4 DEF Request, RaceInv, RequestInv, Unknown, At
      <3>2. LocksHeld'
        <4>1. lock' = lock /\ req[s].pc = "check" /\ LocksHeld
          BY <2>1, <2>4 DEF RaceInv, RequestInv, At
        <4> QED BY <3>1, <4>1 DEF LocksHeld
      <3>3. Unknown' /\ Covered' /\ PutFirst'
        BY <2>1, <3>1 DEF RaceInv, RequestInv, Unknown, Covered, PutFirst, At, store
      <3>4. StillSo'
        BY <2>1, <2>4, <3>1 DEF RaceInv, RequestInv, StillSo, store, IsNew
      <3> QED BY <1>0, <2>2, <3>2, <3>3, <3>4 DEF RaceInv, RequestInv
    <2>5. CASE /\ req' = [req EXCEPT ![s].pc = "put", ![s].new = TRUE] /\ UNCHANGED lock
               /\ IsNew(req[s].pic) /\ Affordable(req[s])
      <3>1. /\ req'[s].pc = "put" /\ req'[s].pic = req[s].pic /\ req'[s].new
            /\ req'[s].coins = req[s].coins
            /\ \A t \in Slots \ {s} : req'[t] = req[t]
        BY <1>0, <2>5 DEF Request
      <3>2. LocksHeld'
        <4>1. lock' = lock /\ req[s].pc = "check" /\ LocksHeld
          BY <2>1, <2>5 DEF RaceInv, RequestInv, At
        <4> QED BY <3>1, <4>1 DEF LocksHeld
      <3>3. Unknown' /\ PutFirst'
        BY <2>1, <3>1 DEF RaceInv, RequestInv, Unknown, PutFirst, At, store
      <3>4. StillSo'
        BY <2>1, <2>5, <3>1 DEF RaceInv, RequestInv, StillSo, store, IsNew
      <3>5. Covered'
        BY <2>5, <3>1 DEF RaceInv, RequestInv, Covered, Affordable
      <3> QED BY <1>0, <2>2, <3>2, <3>3, <3>4, <3>5 DEF RaceInv, RequestInv
    <2> QED BY <1>6, <2>3, <2>4, <2>5 DEF ExistsWithSha
  <1>7. ASSUME NEW s \in Slots, PutImage(s) PROVE RaceInv'
    <2>1. /\ At(s, "put") /\ stored' = stored \union {req[s].pic}
          /\ req' = [req EXCEPT ![s].pc = "commit"]
          /\ UNCHANGED <<rows, coins, lock, charges>>
      BY <1>7 DEF PutImage, Put, history
    <2>2. /\ req'[s].pc = "commit" /\ req'[s].pic = req[s].pic /\ req'[s].new = req[s].new
          /\ req'[s].coins = req[s].coins
          /\ \A t \in Slots \ {s} : req'[t] = req[t]
      BY <1>0, <2>1 DEF Request
    <2>3. LocksHeld'
      BY <2>1, <2>2 DEF RaceInv, RequestInv, LocksHeld, At
    <2>4. (Unknown /\ StillSo /\ Covered)'
      BY <2>1, <2>2 DEF RaceInv, RequestInv, Unknown, StillSo, Covered, At
    <2>5. PutFirst'
      BY <2>1, <2>2 DEF RaceInv, RequestInv, PutFirst, At
    <2>6. (NoDebt /\ PaidByTheFirst /\ RowsHaveObjects)'
      BY <2>1 DEF RaceInv, NoDebt, PaidByTheFirst, RowsHaveObjects
    <2> QED BY <1>0, <2>3, <2>4, <2>5, <2>6 DEF RaceInv, RequestInv
  <1>8. ASSUME NEW s \in Slots, CommitUpload(s) PROVE RaceInv'
    <2> DEFINE p == req[s].pic
    <2>1. /\ At(s, "commit") /\ End(s) /\ stored' = stored
          /\ rows' = [rows EXCEPT ![p] = @ + 1]
          /\ coins' = IF req[s].new
                      THEN [coins EXCEPT ![req[s].user] = req[s].coins - UPLOAD_IMAGE_COST]
                      ELSE coins
          /\ charges' = IF req[s].new THEN [charges EXCEPT ![p] = @ + 1] ELSE charges
      BY <1>8 DEF CommitUpload, Charged
    <2>2. p \in Pictures /\ req[s].user \in Users /\ req[s].coins \in Nat
      BY <1>0 DEF Request
    <2>3. LocksHeld' /\ req'[s].pc = "idle" /\ \A t \in Slots \ {s} : req'[t] = req[t]
      BY <1>0, <2>1, EndKeepsLocks DEF RaceInv, RequestInv
    <2>4. (req[s].new <=> rows[p] = 0) /\ (req[s].new => p \in stored)
          /\ (req[s].new => req[s].coins >= UPLOAD_IMAGE_COST)
      BY <2>1 DEF RaceInv, RequestInv, StillSo, PutFirst, Covered, At
    <2>5. \A t \in Slots \ {s} : req[t].pc \in {"put", "commit"} => req[t].pic # p
      BY <2>1 DEF RaceInv, RequestInv, LocksHeld, At
    <2>6. StillSo'
      <3>1. \A t \in Slots : req[t].pic \in Pictures
        BY <1>0 DEF Request
      <3> HIDE DEF p
      <3> QED BY <1>0, <2>1, <2>3, <2>5, <3>1 DEF RaceInv, RequestInv, StillSo, TypeOK
    <2>7. (Unknown /\ Covered /\ PutFirst)'
      BY <2>1, <2>3 DEF RaceInv, RequestInv, Unknown, Covered, PutFirst, At
    <2>8. NoDebt'
      BY <1>0, <2>1, <2>2, <2>4 DEF RaceInv, NoDebt, TypeOK, UPLOAD_IMAGE_COST
    <2>9. (PaidByTheFirst /\ RowsHaveObjects)'
      <3>1. rows[p] > 0 => p \in stored
        BY <2>2 DEF RaceInv, RowsHaveObjects
      <3>2. charges[p] = IF rows[p] > 0 THEN 1 ELSE 0
        BY <2>2 DEF RaceInv, PaidByTheFirst
      <3>3. rows \in [Pictures -> Nat] /\ charges \in [Pictures -> Nat]
        BY <1>0 DEF TypeOK
      <3> HIDE DEF p
      <3>4. p \in stored
        BY <2>2, <2>4, <3>1, <3>3
      <3>5. charges'[p] = 1 /\ rows'[p] > 0
            /\ \A i \in Pictures \ {p} : charges'[i] = charges[i] /\ rows'[i] = rows[i]
        BY <2>1, <2>2, <2>4, <3>2, <3>3
      <3> QED BY <2>1, <3>4, <3>5 DEF RaceInv, PaidByTheFirst, RowsHaveObjects
    <2> QED BY <1>0, <2>3, <2>6, <2>7, <2>8, <2>9 DEF RaceInv, RequestInv
  <1>9. ASSUME NEW s \in Slots, Abort(s) PROVE RaceInv'
    <2>1. RequestInv'
      BY <1>0, <1>9, EndKeepsLocks
         DEF Abort, RaceInv, RequestInv, Unknown, StillSo, Covered, PutFirst, At, store
    <2> QED BY <1>0, <1>9, <2>1 DEF Abort, store, history, RaceInv, NoDebt,
         PaidByTheFirst, RowsHaveObjects
  <1> QED BY <1>1, <1>2, <1>3, <1>4, <1>5, <1>6, <1>7, <1>8, <1>9 DEF Next

LEMMA RaceAlways == Spec => []RaceInv
  <1>1. Init => RaceInv
    BY RaceInit
  <1>2. RaceInv /\ [Next]_vars => RaceInv'
    BY RaceStep
  <1> QED BY <1>1, <1>2, PTL DEF Spec

\* Every reachable state is well typed: in particular no request ever loads a
\* negative balance.
THEOREM TypeCorrect == Spec => []TypeOK
  <1>1. RaceInv => TypeOK
    BY DEF RaceInv
  <1> QED BY <1>1, RaceAlways, PTL

\* However uploads overlap, fail and crash, and whichever pictures share a lock
\* key, exactly one of the accepted uploads of a picture has paid for it.
THEOREM PaidByTheFirstOnly == Spec => []PaidByTheFirst
  <1>1. RaceInv => PaidByTheFirst
    BY DEF RaceInv
  <1> QED BY <1>1, RaceAlways, PTL

\* A committed row never points at an object that was not stored.
THEOREM RowsAlwaysHaveObjects == Spec => []RowsHaveObjects
  <1>1. RaceInv => RowsHaveObjects
    BY DEF RaceInv
  <1> QED BY <1>1, RaceAlways, PTL

\* No upload brings a user into debt, whatever was spent while it waited.
THEOREM NeverInDebt == Spec => []NoDebt
  <1>1. RaceInv => NoDebt
    BY DEF RaceInv
  <1> QED BY <1>1, RaceAlways, PTL

\* The end of a request gives back its key and touches nobody else's.
LEMMA EndGivesBack ==
  ASSUME NEW s \in Slots, TypeOK, NobodyWaitsInVain, End(s)
  PROVE  NobodyWaitsInVain'
  <1> SUFFICES ASSUME NEW k \in Keys, lock'[k] # Free
               PROVE  req'[lock'[k]].pc \in {"check", "put", "commit"} /\ Key[req'[lock'[k]].pic] = k
    BY DEF NobodyWaitsInVain
  <1>1. lock[k] # s /\ lock'[k] = lock[k] /\ lock[k] \in Slots
    BY DEF End, ReleasedBy, TypeOK
  <1>2. req'[lock[k]] = req[lock[k]]
    BY <1>1 DEF End, TypeOK
  <1> QED BY <1>1, <1>2 DEF NobodyWaitsInVain

LEMMA LocksStep ==
  ASSUME RaceInv, NobodyWaitsInVain, [Next]_vars
  PROVE  NobodyWaitsInVain'
  <1>0. TypeOK /\ req \in [Slots -> Request] /\ lock \in [Keys -> Slots \cup {Free}]
    BY DEF RaceInv, TypeOK
  <1>1. CASE UNCHANGED <<req, lock>>
    BY <1>1 DEF NobodyWaitsInVain
  <1>2. CASE Crash
    BY <1>2 DEF Crash, NobodyWaitsInVain
  <1>3. ASSUME NEW s \in Slots, Begin(s) PROVE NobodyWaitsInVain'
    <2>1. \A t \in Slots \ {s} : req'[t] = req[t]
      BY <1>0, <1>3 DEF Begin
    <2>2. UNCHANGED lock /\ req[s].pc = "idle"
      BY <1>3 DEF Begin, At
    <2>3. \A k \in Keys : lock[k] # Free => lock[k] \in Slots \ {s}
      BY <1>0, <2>2 DEF NobodyWaitsInVain
    <2> QED BY <2>1, <2>2, <2>3 DEF NobodyWaitsInVain
  <1>4. ASSUME NEW s \in Slots, LockSha(s) PROVE NobodyWaitsInVain'
    <2>1. /\ req[s].pc = "lock" /\ lock' = [lock EXCEPT ![Key[req[s].pic]] = s]
          /\ req'[s].pc = "check" /\ req'[s].pic = req[s].pic
          /\ \A t \in Slots \ {s} : req'[t] = req[t]
      BY <1>0, <1>4 DEF LockSha, At, Request
    <2>2. \A k \in Keys : k # Key[req[s].pic] => lock'[k] = lock[k]
      BY <1>0, <2>1
    <2>3. \A k \in Keys : k = Key[req[s].pic] => lock'[k] = s
      BY <1>0, <2>1
    <2>4. \A k \in Keys : lock[k] # Free => lock[k] \in Slots \ {s}
      BY <1>0, <2>1 DEF NobodyWaitsInVain
    <2> QED BY <2>1, <2>2, <2>3, <2>4 DEF NobodyWaitsInVain
  <1>5. ASSUME NEW s \in Slots, End(s) PROVE NobodyWaitsInVain'
    BY <1>0, <1>5, EndGivesBack
  <1>6. ASSUME NEW s \in Slots, ExistsWithSha(s) \/ PutImage(s), ~End(s)
        PROVE  NobodyWaitsInVain'
    <2>1. /\ UNCHANGED lock /\ req'[s].pc \in {"put", "commit"} /\ req'[s].pic = req[s].pic
          /\ \A t \in Slots \ {s} : req'[t] = req[t]
      BY <1>0, <1>6 DEF ExistsWithSha, PutImage, Request
    <2> QED BY <1>0, <2>1 DEF NobodyWaitsInVain
  <1>7. ASSUME NEW s \in Slots, CommitUpload(s) \/ Abort(s) PROVE End(s)
    BY <1>7 DEF CommitUpload, Abort
  <1>8. (\E u \in Users : Elsewhere(u)) \/ UNCHANGED vars => UNCHANGED <<req, lock>>
    BY DEF Elsewhere, vars
  <1> QED BY <1>1, <1>2, <1>3, <1>4, <1>5, <1>6, <1>7, <1>8 DEF Next

\* A key that is taken belongs to a request that is past the lock, so that whoever waits
\* waits for someone who goes on: however uploads overlap, are refused, fail or die, no lock
\* is left behind, and no two requests wait for each other.
THEOREM LocksGivenBack == Spec => []NobodyWaitsInVain
  <1>1. Init => NobodyWaitsInVain
    BY DEF Init, NobodyWaitsInVain
  <1> QED BY <1>1, LocksStep, RaceAlways, PTL DEF Spec

-----------------------------------------------------------------------------
(* What holds for users whose requests do not overlap.                     *)

OnePerUser ==
  \A s, t \in Slots :
    /\ ~At(s, "idle") /\ ~At(t, "idle")
    /\ req[s].user = req[t].user /\ req[s].user \in IsolatedUsers
    => s = t

BalanceCurrent ==
  \A s \in Slots : ~At(s, "idle") /\ req[s].user \in IsolatedUsers
                      => req[s].coins = coins[req[s].user]

IsolatedInv == OnePerUser /\ BalanceCurrent /\ BalanceExact

\* Ends and queries leave the remaining requests with what they know.
LEMMA OthersKeep ==
  ASSUME IsolatedInv, NEW s \in Slots, UNCHANGED <<coins, book>>,
         \A t \in Slots \ {s} : req'[t] = req[t],
         req'[s].pc # "idle" => req[s].pc # "idle" /\ req'[s].user = req[s].user
                                /\ req'[s].coins = req[s].coins
  PROVE IsolatedInv'
  BY DEF IsolatedInv, OnePerUser, BalanceCurrent, BalanceExact, At

LEMMA IsolatedStep ==
  ASSUME RaceInv, IsolatedInv, [Next]_vars
  PROVE IsolatedInv'
  <1>0. TypeOK /\ req \in [Slots -> Request] /\ LocksHeld /\ NoDebt
        /\ coins \in [Users -> Int] /\ book \in [Users -> Int]
    BY DEF RaceInv, RequestInv, TypeOK
  <1>1. CASE UNCHANGED vars
    BY <1>1 DEF vars, store, history, IsolatedInv, OnePerUser, BalanceCurrent,
             BalanceExact, At
  <1>2. CASE Crash
    BY <1>2, IdleType DEF Crash, store, history, IsolatedInv, OnePerUser, BalanceCurrent,
       BalanceExact, At
  <1>3. ASSUME NEW u \in Users, Elsewhere(u) PROVE IsolatedInv'
    <2>1. PICK n \in Balances :
            coins' = [coins EXCEPT ![u] = n] /\ book' = Booked(u, n - coins[u])
      BY <1>3 DEF Elsewhere
    <2>2. req' = req /\ (u \in IsolatedUsers => ~Working(u))
      BY <1>3 DEF Elsewhere
    <2>3. BalanceExact'
      BY <1>0, <2>1, ConstantsAssumption DEF IsolatedInv, BalanceExact, Booked
    <2>4. BalanceCurrent'
      BY <1>0, <2>1, <2>2 DEF IsolatedInv, BalanceCurrent, Working, At, Request
    <2>5. OnePerUser'
      BY <2>2 DEF IsolatedInv, OnePerUser, At
    <2> QED BY <2>3, <2>4, <2>5 DEF IsolatedInv
  <1>4. ASSUME NEW s \in Slots, Begin(s) PROVE IsolatedInv'
    <2>1. PICK q \in Request :
            /\ req' = [req EXCEPT ![s] = q] /\ UNCHANGED <<store, lock, crashes, history>>
            /\ q.coins = coins[q.user]
            /\ q.user \in IsolatedUsers => ~Working(q.user)
      BY <1>0, <1>4, BeginType
    <2> QED BY <1>0, <2>1 DEF store, history, IsolatedInv, OnePerUser, BalanceCurrent,
         BalanceExact, Working, At
  <1>5. ASSUME NEW s \in Slots, LockSha(s) PROVE IsolatedInv'
    BY <1>0, <1>5, OthersKeep DEF LockSha, At, store, history, Request
  <1>6. ASSUME NEW s \in Slots, ExistsWithSha(s) PROVE IsolatedInv'
    <2>1. UNCHANGED <<coins, book>> /\ req[s].pc # "idle"
      BY <1>6 DEF ExistsWithSha, store, history, At
    <2>2. CASE End(s)
      BY <1>0, <2>1, <2>2, EndKeepsLocks, OthersKeep
    <2>3. CASE \/ req' = [req EXCEPT ![s].pc = "commit"]
               \/ req' = [req EXCEPT ![s].pc = "put", ![s].new = TRUE]
      <3>1. req'[s].user = req[s].user /\ req'[s].coins = req[s].coins
            /\ \A t \in Slots \ {s} : req'[t] = req[t]
        BY <1>0, <2>3 DEF Request
      <3> QED BY <2>1, <3>1, OthersKeep
    <2> QED BY <1>6, <2>2, <2>3 DEF ExistsWithSha
  <1>7. ASSUME NEW s \in Slots, PutImage(s) PROVE IsolatedInv'
    BY <1>0, <1>7, OthersKeep DEF PutImage, At, history, Request
  <1>8. ASSUME NEW s \in Slots, CommitUpload(s) PROVE IsolatedInv'
    <2> DEFINE u == req[s].user
    <2>1. /\ At(s, "commit") /\ End(s) /\ u \in Users /\ req[s].coins \in Nat
          /\ coins' = IF req[s].new
                      THEN [coins EXCEPT ![u] = req[s].coins - UPLOAD_IMAGE_COST]
                      ELSE coins
          /\ book' = IF req[s].new THEN Booked(u, 0 - UPLOAD_IMAGE_COST) ELSE book
      BY <1>0, <1>8 DEF CommitUpload, Charged, Request
    <2>2. req'[s].pc = "idle" /\ \A t \in Slots \ {s} : req'[t] = req[t]
      BY <1>0, <2>1, EndKeepsLocks
    <2>3. u \in IsolatedUsers => req[s].coins = coins[u]
      BY <2>1 DEF IsolatedInv, BalanceCurrent, At
    <2>4. \A t \in Slots \ {s} : req[t].pc # "idle" /\ req[t].user \in IsolatedUsers
                                   => req[t].user # u
      BY <2>1 DEF IsolatedInv, OnePerUser, At
    <2>5. \A t \in Slots : req[t].user \in Users
      BY <1>0 DEF Request
    <2> HIDE DEF u
    <2>6. BalanceExact'
      BY <1>0, <2>1, <2>3, ConstantsAssumption
         DEF IsolatedInv, BalanceExact, Booked, UPLOAD_IMAGE_COST
    <2>7. BalanceCurrent'
      BY <1>0, <2>1, <2>2, <2>4, <2>5 DEF IsolatedInv, BalanceCurrent, At
    <2>8. OnePerUser'
      BY <2>2 DEF IsolatedInv, OnePerUser, At
    <2> QED BY <2>6, <2>7, <2>8 DEF IsolatedInv
  <1>9. ASSUME NEW s \in Slots, Abort(s) PROVE IsolatedInv'
    BY <1>0, <1>9, EndKeepsLocks, OthersKeep DEF Abort, store, history
  <1> QED BY <1>1, <1>2, <1>3, <1>4, <1>5, <1>6, <1>7, <1>8, <1>9 DEF Next

\* The balance of a user whose requests come one at a time is what uploads and the
\* other components add up to, however the uploads of others overlap with it.
THEOREM BalancesExact == Spec => []BalanceExact
  <1>1. Init => IsolatedInv
    BY IdleType DEF Init, IsolatedInv, OnePerUser, BalanceCurrent, BalanceExact, At
  <1>2. RaceInv /\ IsolatedInv /\ [Next]_vars => IsolatedInv'
    BY IsolatedStep
  <1>3. IsolatedInv => BalanceExact
    BY DEF IsolatedInv
  <1> QED BY <1>1, <1>2, <1>3, RaceAlways, PTL DEF Spec
-----------------------------------------------------------------------------
(* Usages.                                                                 *)

\* What FoldFunction adds up.
LEMMA AgedAdds ==
  ASSUME DOMAIN aged = Used, IsFiniteSet(Used), aged \in [Used -> Int]
  PROVE  \E g : Adds(g, aged, Used) /\ U!FoldFunction(+, 0, aged) = g[Used]
<1>1. PICK g : Adds(g, aged, Used)
  BY SumExists
<1> DEFINE Step(f) == f = [s \in SUBSET Used |->
      IF s = {} THEN 0 ELSE aged[First(s)] + f[s \ {First(s)}]]
<1>2. ASSUME NEW f PROVE Step(f) <=> Adds(f, aged, Used)
  BY DEF Adds
<1>3. U!FoldFunction(+, 0, aged) = (CHOOSE f : Step(f))[Used]
  BY DEF U!FoldFunction, U!FoldFunctionOnSet, U!MapThenFoldSet, First
<1>4. Adds(CHOOSE f : Step(f), aged, Used)
  <2>1. Step(g)
    BY <1>1, <1>2
  <2>2. Step(CHOOSE f : Step(f))
    <3> HIDE DEF Step
    <3> QED BY <2>1
  <2> HIDE DEF Step
  <2> QED BY <1>2, <2>2
<1> HIDE DEF Step
<1> QED BY <1>3, <1>4

Check == [todo : SUBSET Used, all : SUBSET Used, failed : SUBSET Used]

UsesTyped ==
  /\ uploads \subseteq Users \X Used \X {"figure", "avatar"}
  /\ held \in [Works \X U!Columns -> SUBSET Used]
  /\ stage \in [Works -> {"none", "draft", "public", "deleted"}]
  /\ offer \in [Works -> {"none", "pending", "accepted"}]
  /\ flags \subseteq Used /\ found \subseteq Used /\ silent \subseteq Used
  /\ visit \in [Visits -> Check]
  /\ reports \in [Used -> Nat] /\ aged \in [Used -> 0..MaxAged]
  /\ writes \in 0..MaxWrites

\* A key stands for one report more than have expired, unless none told of it.
FlagsCount ==
  \A p \in Used :
    /\ reports[p] <= aged[p] + (IF p \in flags THEN 1 ELSE 0)
    /\ p \in flags => reports[p] > 0 \/ p \in silent

\* What is looked at was misdeclared, and what has been looked at was reported.
VisitsFit ==
  \A t \in Visits :
    /\ visit[t].todo \cup visit[t].failed \subseteq visit[t].all
    /\ \A p \in visit[t].all :
         /\ <<Writer, p, "avatar">> \in uploads
         /\ p \in visit[t].todo \cup visit[t].failed \/ reports[p] > 0 \/ p \in silent

ReportsFit ==
  /\ \A p \in Used : reports[p] > 0 => <<Writer, p, "avatar">> \in uploads
  /\ \A p \in found : reports[p] > 0 \/ p \in silent

UsesInv == UsesTyped /\ FlagsCount /\ VisitsFit /\ ReportsFit

\* A thread that looks at nothing.
LEMMA NoVisitFits ==
  /\ U!NoVisit \in Check
  /\ U!NoVisit.all = {} /\ U!NoVisit.todo = {} /\ U!NoVisit.failed = {}
BY DEF U!NoVisit, Check

\* At first nothing is looked at.
LEMMA UsesInit == U!Init => UsesInv
<1> SUFFICES ASSUME U!Init PROVE UsesInv
  OBVIOUS
<1>1. UsesTyped
  BY NoVisitFits, UsagesBounds DEF U!Init, UsesTyped
<1>2. FlagsCount /\ ReportsFit
  BY DEF U!Init, FlagsCount, ReportsFit
<1>3. VisitsFit
  BY NoVisitFits DEF U!Init, VisitsFit
<1> QED BY <1>1, <1>2, <1>3 DEF UsesInv

\* What is uploaded and written touches no check.
LEMMA UsesWritten ==
  ASSUME UsesInv, UNCHANGED <<flags, visit, reports, aged, silent, found>>,
         uploads \subseteq uploads',
         uploads' \subseteq Users \X Used \X {"figure", "avatar"},
         held' \in [Works \X U!Columns -> SUBSET Used],
         stage' \in [Works -> {"none", "draft", "public", "deleted"}],
         offer' \in [Works -> {"none", "pending", "accepted"}], writes' \in 0..MaxWrites
  PROVE  UsesInv'
<1>1. UsesTyped'
  BY DEF UsesInv, UsesTyped
<1>2. FlagsCount'
  BY DEF UsesInv, FlagsCount
<1>3. VisitsFit'
  BY DEF UsesInv, VisitsFit
<1>4. ReportsFit'
  BY DEF UsesInv, ReportsFit
<1> QED BY <1>1, <1>2, <1>3, <1>4 DEF UsesInv

\* The bounds on what is written are kept.
LEMMA WritesFit ==
  ASSUME UsesInv, writes < IF U!Unserved THEN MaxWrites ELSE MaxWatched, writes' = writes + 1
  PROVE  writes' \in 0..MaxWrites
<1>1. writes < MaxWrites \/ writes < MaxWatched
  OBVIOUS
<1>2. writes \in 0..MaxWrites
  BY DEF UsesInv, UsesTyped
<1> QED BY <1>1, <1>2, UsagesBounds

\* Texts are written, archived, suggested and erased.
LEMMA UsesTexts ==
  ASSUME UsesInv, NEW w \in Works, NEW body \in SUBSET Used,
         \/ U!Create(w, body) \/ U!SaveDraft(w, body) \/ U!Publish(w, body) \/ U!Suggest(w, body)
         \/ U!DropDraft(w) \/ U!Accept(w) \/ U!Delete(w)
  PROVE  UsesInv'
<1>0. /\ held \in [Works \X U!Columns -> SUBSET Used] /\ body \in SUBSET Used
      /\ stage \in [Works -> {"none", "draft", "public", "deleted"}]
      /\ offer \in [Works -> {"none", "pending", "accepted"}]
      /\ uploads \subseteq Users \X Used \X {"figure", "avatar"}
  BY UsagesBounds DEF UsesInv, UsesTyped
<1>1. \A c \in U!Columns : <<w, c>> \in Works \X U!Columns /\ held[<<w, c>>] \in SUBSET Used
  BY <1>0
<1>2. {"body", "draft", "archive", "suggestion", "diff base"} \subseteq U!Columns
  BY DEF U!Columns
<1>3. U!Archived(w) \in SUBSET Used
  BY <1>1, <1>2 DEF U!Archived
<1>4. ASSUME NEW b \in SUBSET Used PROVE U!Rewritten(w, b) \in [Works \X U!Columns -> SUBSET Used]
  BY <1>0, <1>3, <1>4 DEF U!Rewritten
<1>5. ASSUME U!Create(w, body) PROVE UsesInv'
  <2>1. PICK s \in {"public", "draft"} : stage' = [stage EXCEPT ![w] = s]
    BY <1>5 DEF U!Create
  <2>2. held' = [held EXCEPT ![<<w, "body">>] = body] /\ U!Moves(<<uploads, offer>>)
    BY <1>5 DEF U!Create
  <2>3. /\ UNCHANGED <<flags, visit, reports, aged, silent, found>> /\ writes' \in 0..MaxWrites
       /\ uploads' = uploads /\ offer' = offer
    <3>1. /\ UNCHANGED <<flags, visit, reports, aged, silent, found>>
          /\ uploads' = uploads /\ offer' = offer
      BY <2>2 DEF U!Moves, U!checks
    <3>2. writes < (IF U!Unserved THEN MaxWrites ELSE MaxWatched) /\ writes' = writes + 1
      BY <2>2 DEF U!Moves
    <3> QED BY <3>1, <3>2, WritesFit
  <2>4. held' \in [Works \X U!Columns -> SUBSET Used]
    BY <1>0, <2>2
  <2>5. stage' \in [Works -> {"none", "draft", "public", "deleted"}]
    BY <1>0, <2>1
  <2> QED BY <1>0, <2>2, <2>3, <2>4, <2>5, UsesWritten
<1>6. ASSUME U!SaveDraft(w, body) \/ U!DropDraft(w) PROVE UsesInv'
  <2>1. PICK b \in SUBSET Used :
          held' = [held EXCEPT ![<<w, "draft">>] = b] /\ U!Moves(<<uploads, stage, offer>>)
    BY <1>0, <1>6 DEF U!SaveDraft, U!DropDraft
  <2>2. /\ UNCHANGED <<flags, visit, reports, aged, silent, found>> /\ writes' \in 0..MaxWrites
       /\ uploads' = uploads /\ stage' = stage /\ offer' = offer
    <3>1. /\ UNCHANGED <<flags, visit, reports, aged, silent, found>>
          /\ uploads' = uploads /\ stage' = stage /\ offer' = offer
      BY <2>1 DEF U!Moves, U!checks
    <3>2. writes < (IF U!Unserved THEN MaxWrites ELSE MaxWatched) /\ writes' = writes + 1
      BY <2>1 DEF U!Moves
    <3> QED BY <3>1, <3>2, WritesFit
  <2>3. held' \in [Works \X U!Columns -> SUBSET Used]
    BY <1>0, <2>1
  <2> QED BY <1>0, <2>1, <2>2, <2>3, UsesWritten
<1>7. ASSUME U!Publish(w, body) PROVE UsesInv'
  <2>1. /\ held' = U!Rewritten(w, body) /\ U!Moves(<<uploads, offer>>)
        /\ stage' = [stage EXCEPT ![w] = IF stage[w] = "draft" THEN "public" ELSE stage[w]]
    BY <1>7 DEF U!Publish
  <2>2. /\ UNCHANGED <<flags, visit, reports, aged, silent, found>> /\ writes' \in 0..MaxWrites
       /\ uploads' = uploads /\ offer' = offer
    <3>1. /\ UNCHANGED <<flags, visit, reports, aged, silent, found>>
          /\ uploads' = uploads /\ offer' = offer
      BY <2>1 DEF U!Moves, U!checks
    <3>2. writes < (IF U!Unserved THEN MaxWrites ELSE MaxWatched) /\ writes' = writes + 1
      BY <2>1 DEF U!Moves
    <3> QED BY <3>1, <3>2, WritesFit
  <2>3. stage' \in [Works -> {"none", "draft", "public", "deleted"}]
    BY <1>0, <2>1
  <2> QED BY <1>0, <1>4, <2>1, <2>2, <2>3, UsesWritten
<1>8. ASSUME U!Suggest(w, body) PROVE UsesInv'
  <2>1. /\ held' = [held EXCEPT ![<<w, "suggestion">>] = body]
        /\ offer' = [offer EXCEPT ![w] = "pending"] /\ U!Moves(<<uploads, stage>>)
    BY <1>8 DEF U!Suggest
  <2>2. /\ UNCHANGED <<flags, visit, reports, aged, silent, found>> /\ writes' \in 0..MaxWrites
       /\ uploads' = uploads /\ stage' = stage
    <3>1. /\ UNCHANGED <<flags, visit, reports, aged, silent, found>>
          /\ uploads' = uploads /\ stage' = stage
      BY <2>1 DEF U!Moves, U!checks
    <3>2. writes < (IF U!Unserved THEN MaxWrites ELSE MaxWatched) /\ writes' = writes + 1
      BY <2>1 DEF U!Moves
    <3> QED BY <3>1, <3>2, WritesFit
  <2>3. held' \in [Works \X U!Columns -> SUBSET Used]
    BY <1>0, <2>1
  <2>4. offer' \in [Works -> {"none", "pending", "accepted"}]
    BY <1>0, <2>1
  <2> QED BY <1>0, <2>1, <2>2, <2>3, <2>4, UsesWritten
<1>9. ASSUME U!Accept(w) PROVE UsesInv'
  <2>1. /\ held' = [U!Rewritten(w, held[<<w, "suggestion">>])
                      EXCEPT ![<<w, "diff base">>] = held[<<w, "body">>]]
        /\ offer' = [offer EXCEPT ![w] = "accepted"] /\ stage' = [stage EXCEPT ![w] = "public"]
        /\ U!Moves(uploads)
    BY <1>9 DEF U!Accept
  <2>2. /\ UNCHANGED <<flags, visit, reports, aged, silent, found>> /\ writes' \in 0..MaxWrites
       /\ uploads' = uploads
    <3>1. /\ UNCHANGED <<flags, visit, reports, aged, silent, found>>
          /\ uploads' = uploads
      BY <2>1 DEF U!Moves, U!checks
    <3>2. writes < (IF U!Unserved THEN MaxWrites ELSE MaxWatched) /\ writes' = writes + 1
      BY <2>1 DEF U!Moves
    <3> QED BY <3>1, <3>2, WritesFit
  <2>3. U!Rewritten(w, held[<<w, "suggestion">>]) \in [Works \X U!Columns -> SUBSET Used]
    BY <1>1, <1>2, <1>4
  <2>4. held' \in [Works \X U!Columns -> SUBSET Used]
    BY <1>1, <1>2, <2>1, <2>3
  <2>5. offer' \in [Works -> {"none", "pending", "accepted"}]
        /\ stage' \in [Works -> {"none", "draft", "public", "deleted"}]
    BY <1>0, <2>1
  <2> QED BY <1>0, <2>1, <2>2, <2>4, <2>5, UsesWritten
<1>10. ASSUME U!Delete(w) PROVE UsesInv'
  <2>1. /\ held' = [held EXCEPT ![<<w, "body">>] = {}, ![<<w, "draft">>] = {},
                                ![<<w, "archive">>] = {}]
        /\ stage' = [stage EXCEPT ![w] = "deleted"] /\ U!Moves(<<uploads, offer>>)
    BY <1>10 DEF U!Delete
  <2>2. /\ UNCHANGED <<flags, visit, reports, aged, silent, found>> /\ writes' \in 0..MaxWrites
       /\ uploads' = uploads /\ offer' = offer
    <3>1. /\ UNCHANGED <<flags, visit, reports, aged, silent, found>>
          /\ uploads' = uploads /\ offer' = offer
      BY <2>1 DEF U!Moves, U!checks
    <3>2. writes < (IF U!Unserved THEN MaxWrites ELSE MaxWatched) /\ writes' = writes + 1
      BY <2>1 DEF U!Moves
    <3> QED BY <3>1, <3>2, WritesFit
  <2>3. held' \in [Works \X U!Columns -> SUBSET Used]
    BY <1>0, <2>1
  <2>4. stage' \in [Works -> {"none", "draft", "public", "deleted"}]
    BY <1>0, <2>1
  <2> QED BY <1>0, <2>1, <2>2, <2>3, <2>4, UsesWritten
<1> QED BY <1>5, <1>6, <1>7, <1>8, <1>9, <1>10

\* Pictures are uploaded and set as faces.
LEMMA UsesPictures ==
  ASSUME UsesInv, NEW p \in Used,
         \/ \E u \in Users, purpose \in U!Purposes : U!Upload(u, p, purpose)
         \/ \E c \in {"avatar", "gif avatar"} : "user" \in Works /\ U!SetAvatar(c, p)
  PROVE  UsesInv'
<1>0. /\ held \in [Works \X U!Columns -> SUBSET Used]
      /\ stage \in [Works -> {"none", "draft", "public", "deleted"}]
      /\ offer \in [Works -> {"none", "pending", "accepted"}]
      /\ uploads \subseteq Users \X Used \X {"figure", "avatar"}
  BY DEF UsesInv, UsesTyped
<1>1. ASSUME NEW u \in Users, NEW purpose \in U!Purposes, U!Upload(u, p, purpose) PROVE UsesInv'
  <2>1. uploads' = uploads \cup {<<u, p, purpose>>} /\ U!Moves(U!texts)
    BY <1>1 DEF U!Upload
  <2>2. /\ UNCHANGED <<flags, visit, reports, aged, silent, found>> /\ writes' \in 0..MaxWrites
       /\ held' = held /\ stage' = stage /\ offer' = offer
    <3>1. /\ UNCHANGED <<flags, visit, reports, aged, silent, found>>
          /\ held' = held /\ stage' = stage /\ offer' = offer
      BY <2>1 DEF U!Moves, U!checks, U!texts
    <3>2. writes < (IF U!Unserved THEN MaxWrites ELSE MaxWatched) /\ writes' = writes + 1
      BY <2>1 DEF U!Moves
    <3> QED BY <3>1, <3>2, WritesFit
  <2>3. uploads' \subseteq Users \X Used \X {"figure", "avatar"}
    <3>1. <<u, p, purpose>> \in Users \X Used \X {"figure", "avatar"}
      BY DEF U!Purposes
    <3> QED BY <1>0, <2>1, <3>1
  <2> QED BY <1>0, <2>1, <2>2, <2>3, UsesWritten
<1>2. ASSUME NEW c \in {"avatar", "gif avatar"}, "user" \in Works, U!SetAvatar(c, p) PROVE UsesInv'
  <2>1. held' = [held EXCEPT ![<<"user", c>>] = {p}] /\ U!Moves(<<uploads, stage, offer>>)
    BY <1>2 DEF U!SetAvatar
  <2>2. /\ UNCHANGED <<flags, visit, reports, aged, silent, found>> /\ writes' \in 0..MaxWrites
       /\ uploads' = uploads /\ stage' = stage /\ offer' = offer
    <3>1. /\ UNCHANGED <<flags, visit, reports, aged, silent, found>>
          /\ uploads' = uploads /\ stage' = stage /\ offer' = offer
      BY <2>1 DEF U!Moves, U!checks
    <3>2. writes < (IF U!Unserved THEN MaxWrites ELSE MaxWatched) /\ writes' = writes + 1
      BY <2>1 DEF U!Moves
    <3> QED BY <3>1, <3>2, WritesFit
  <2>3. held' \in [Works \X U!Columns -> SUBSET Used]
    BY <1>0, <2>1
  <2> QED BY <1>0, <2>1, <2>2, <2>3, UsesWritten
<1> QED BY <1>1, <1>2

\* A check that is begun, goes on, is over or is cut off.
LEMMA UsesVisits ==
  ASSUME UsesInv, NEW t \in Visits,
         \/ U!LookAtArticle(t) \/ U!ServeArticle(t) \/ U!Interrupt(t)
         \/ \E p \in Used : U!CheckPicture(t, p)
  PROVE  UsesInv'
<1>0. UsesTyped /\ visit[t] \in Check /\ visit \in [Visits -> Check]
  BY DEF UsesInv, UsesTyped
<1>1. ASSUME U!LookAtArticle(t) PROVE UsesInv'
  <2>1. PICK wrong : wrong = U!misdeclared_avatars(Writer, held[<<"article", "body">>])
    OBVIOUS
  <2>2. /\ visit' = [visit EXCEPT ![t].todo = wrong, ![t].all = wrong] /\ visit[t] = U!NoVisit
        /\ "article" \in Works
        /\ UNCHANGED <<uploads, held, stage, offer, writes, flags, reports, aged, silent, found>>
    BY <1>1, <2>1 DEF U!LookAtArticle, U!texts
  <2>3. wrong \in SUBSET Used /\ \A p \in wrong : <<Writer, p, "avatar">> \in uploads
    <3>1. <<"article", "body">> \in Works \X U!Columns
      BY <2>2 DEF U!Columns
    <3> QED BY <1>0, <2>1, <3>1 DEF U!misdeclared_avatars, UsesTyped
  <2>4. /\ visit' \in [Visits -> Check] /\ visit'[t].all = wrong /\ visit'[t].todo = wrong
        /\ visit'[t].failed = {} /\ \A s \in Visits \ {t} : visit'[s] = visit[s]
    BY <1>0, <2>2, <2>3, NoVisitFits DEF Check
  <2>5. UsesTyped'
    BY <2>2, <2>4 DEF UsesInv, UsesTyped
  <2>6. VisitsFit'
    BY <2>2, <2>3, <2>4 DEF UsesInv, VisitsFit
  <2>7. FlagsCount' /\ ReportsFit'
    BY <2>2 DEF UsesInv, FlagsCount, ReportsFit
  <2> QED BY <2>5, <2>6, <2>7 DEF UsesInv
<1>2. ASSUME U!ServeArticle(t) \/ U!Interrupt(t) PROVE UsesInv'
  <2>1. /\ visit' = [visit EXCEPT ![t] = U!NoVisit]
        /\ UNCHANGED <<uploads, held, stage, offer, writes, flags, reports, aged, silent>>
        /\ \/ found' = found
           \/ visit[t].todo = {} /\ found' = found \cup (visit[t].all \ visit[t].failed)
    BY <1>2 DEF U!ServeArticle, U!Interrupt, U!texts
  <2>2. /\ visit' \in [Visits -> Check] /\ visit'[t] = U!NoVisit
        /\ \A s \in Visits \ {t} : visit'[s] = visit[s]
    BY <1>0, <2>1, NoVisitFits
  <2>3. found' \subseteq Used /\ \A p \in found' : reports[p] > 0 \/ p \in silent
    BY <1>0, <2>1 DEF UsesInv, UsesTyped, Check, VisitsFit, ReportsFit
  <2>4. UsesTyped'
    BY <2>1, <2>2, <2>3 DEF UsesInv, UsesTyped
  <2>5. VisitsFit'
    BY <2>1, <2>2, NoVisitFits DEF UsesInv, VisitsFit
  <2>6. FlagsCount' /\ ReportsFit'
    BY <2>1, <2>3 DEF UsesInv, FlagsCount, ReportsFit
  <2> QED BY <2>4, <2>5, <2>6 DEF UsesInv
<1>3. ASSUME NEW p \in Used, U!CheckPicture(t, p) PROVE UsesInv'
  <2>1. /\ p \in visit[t].todo /\ p \in visit[t].all /\ <<Writer, p, "avatar">> \in uploads
        /\ reports \in [Used -> Nat] /\ aged \in [Used -> 0..MaxAged] /\ MaxAged \in Nat
        /\ UNCHANGED <<uploads, held, stage, offer, writes, aged, found>>
    BY <1>3, UsagesBounds DEF U!CheckPicture, U!texts, UsesInv, UsesTyped, VisitsFit
  <2>2. CASE /\ flags' = flags \cup {p} /\ silent' = silent
             /\ reports' = [reports EXCEPT ![p] = reports[p] + U!NewlyReported(p)]
             /\ visit' = [visit EXCEPT ![t].todo = visit[t].todo \ {p}]
    <3>1. U!NewlyReported(p) = (IF p \in flags THEN 0 ELSE 1)
      BY DEF U!NewlyReported
    <3>2. /\ reports' \in [Used -> Nat] /\ reports'[p] = reports[p] + (IF p \in flags THEN 0 ELSE 1)
          /\ \A q \in Used \ {p} : reports'[q] = reports[q]
      BY <2>1, <2>2, <3>1
    <3>3. /\ visit' \in [Visits -> Check] /\ visit'[t].all = visit[t].all
          /\ visit'[t].todo = visit[t].todo \ {p} /\ visit'[t].failed = visit[t].failed
          /\ \A s \in Visits \ {t} : visit'[s] = visit[s]
      BY <1>0, <2>2 DEF Check
    <3>4. \A q \in Used : reports[q] > 0 => reports'[q] > 0
      BY <2>1, <3>2
    <3>5. reports'[p] > 0 \/ p \in silent
      BY <2>1, <3>2 DEF UsesInv, FlagsCount
    <3>6. FlagsCount'
      <4>1. \A q \in Used \ {p} : (q \in flags' <=> q \in flags) /\ reports'[q] = reports[q]
        BY <2>2, <3>2
      <4>2. reports'[p] <= aged[p] + 1
        BY <2>1, <3>2 DEF UsesInv, FlagsCount
      <4>3. p \in flags'
        BY <2>2
      <4> QED BY <2>1, <2>2, <3>5, <4>1, <4>2, <4>3 DEF UsesInv, FlagsCount
    <3>7. VisitsFit'
      <4>1. ASSUME NEW s \in Visits
            PROVE  /\ visit'[s].todo \cup visit'[s].failed \subseteq visit'[s].all
                   /\ \A q \in visit'[s].all :
                        /\ <<Writer, q, "avatar">> \in uploads
                        /\ q \in visit'[s].todo \cup visit'[s].failed \/ reports'[q] > 0 \/ q \in silent
        <5>1. /\ visit'[s].all = visit[s].all /\ visit'[s].failed = visit[s].failed
              /\ visit'[s].todo \subseteq visit[s].todo /\ visit[s].todo \ {p} \subseteq visit'[s].todo
              /\ visit[s].all \subseteq Used
          BY <1>0, <3>3 DEF Check
        <5> QED BY <3>4, <3>5, <5>1 DEF UsesInv, VisitsFit
      <4> QED BY <2>1, <2>2, <4>1 DEF VisitsFit
    <3>8. ReportsFit'
      <4>1. \A q \in Used : reports'[q] > 0 => <<Writer, q, "avatar">> \in uploads
        BY <2>1, <3>2 DEF UsesInv, ReportsFit
      <4>2. \A q \in found : reports'[q] > 0 \/ q \in silent
        BY <1>0, <3>4 DEF UsesInv, UsesTyped, ReportsFit
      <4> QED BY <2>1, <2>2, <4>1, <4>2 DEF ReportsFit
    <3>9. UsesTyped'
      BY <2>1, <2>2, <3>2, <3>3 DEF UsesInv, UsesTyped
    <3> QED BY <3>6, <3>7, <3>8, <3>9 DEF UsesInv
  <2>3. CASE /\ visit' = [visit EXCEPT ![t].todo = visit[t].todo \ {p},
                                       ![t].failed = visit[t].failed \cup {p}]
             /\ \/ flags' = flags /\ silent' = silent
                \/ p \notin flags /\ flags' = flags \cup {p} /\ silent' = silent \cup {p}
             /\ reports' = reports
    <3>1. /\ visit' \in [Visits -> Check] /\ visit'[t].all = visit[t].all
          /\ visit'[t].todo = visit[t].todo \ {p} /\ visit'[t].failed = visit[t].failed \cup {p}
          /\ \A s \in Visits \ {t} : visit'[s] = visit[s]
      BY <1>0, <2>1, <2>3 DEF Check
    <3>2. silent \subseteq silent' /\ silent' \subseteq Used /\ flags' \subseteq Used
      BY <1>0, <2>3 DEF UsesTyped
    <3>3. FlagsCount'
      BY <2>1, <2>3, <3>2 DEF UsesInv, FlagsCount
    <3>4. VisitsFit'
      <4>1. ASSUME NEW s \in Visits
            PROVE  /\ visit'[s].todo \cup visit'[s].failed \subseteq visit'[s].all
                   /\ \A q \in visit'[s].all :
                        /\ <<Writer, q, "avatar">> \in uploads
                        /\ q \in visit'[s].todo \cup visit'[s].failed \/ reports[q] > 0 \/ q \in silent'
        <5>1. /\ visit'[s].all = visit[s].all
              /\ visit[s].todo \cup visit[s].failed \subseteq visit'[s].todo \cup visit'[s].failed
          BY <3>1
        <5>2. visit'[s].todo \cup visit'[s].failed \subseteq visit'[s].all
          BY <2>1, <3>1 DEF UsesInv, VisitsFit
        <5> QED BY <3>2, <5>1, <5>2 DEF UsesInv, VisitsFit
      <4> QED BY <2>1, <2>3, <4>1 DEF VisitsFit
    <3>5. ReportsFit'
      BY <2>1, <2>3, <3>2 DEF UsesInv, ReportsFit
    <3>6. UsesTyped'
      BY <2>1, <2>3, <3>1, <3>2 DEF UsesInv, UsesTyped
    <3> QED BY <3>3, <3>4, <3>5, <3>6 DEF UsesInv
  <2> QED BY <1>3, <2>2, <2>3 DEF U!CheckPicture
<1> QED BY <1>1, <1>2, <1>3

\* No one of them exceeds the sum.
LEMMA AgedGrows ==
  ASSUME NEW p \in Used, NEW v \in [Used -> Nat], NEW g, Adds(g, v, Used), IsFiniteSet(Used)
  PROVE  v[p] <= g[Used] /\ g[Used] \in Int
<1>1. v \in [Used -> Int]
  OBVIOUS
<1> DEFINE z == [q \in Used |-> 0]
           k == [s \in SUBSET Used |-> 0]
<1>2. z \in [Used -> Int] /\ (\A q \in Used : z[q] <= v[q]) /\ k[Used \ {p}] = 0
  OBVIOUS
<1>3. Adds(k, z, Used)
  BY FirstIn DEF Adds
<1> HIDE DEF z, k
<1>4. k[Used \ {p}] <= g[Used \ {p}]
  BY <1>1, <1>2, <1>3, SumMonotone
<1>5. g[Used] = v[p] + g[Used \ {p}]
  BY <1>1, SumWithout
<1>6. g[Used \ {p}] \in Int
  BY <1>1, SumTyped
<1> QED BY <1>2, <1>4, <1>5, <1>6

\* A key that expires leaves its picture one more report.
LEMMA UsesExpire == ASSUME UsesInv, NEW p \in Used, U!ExpireFlag(p) PROVE UsesInv'
<1>1. /\ p \in flags /\ flags' = flags \ {p} /\ aged' = [aged EXCEPT ![p] = aged[p] + 1]
      /\ UNCHANGED <<uploads, held, stage, offer, writes, visit, reports, silent, found>>
  BY DEF U!ExpireFlag, U!texts
<1>2. /\ aged \in [Used -> 0..MaxAged] /\ aged \in [Used -> Nat] /\ aged \in [Used -> Int]
      /\ DOMAIN aged = Used /\ MaxAged \in Nat /\ reports \in [Used -> Nat]
  BY UsagesBounds DEF UsesInv, UsesTyped
<1>3. aged[p] + 1 \in 0..MaxAged
  <2>1. PICK g : Adds(g, aged, Used) /\ U!FoldFunction(+, 0, aged) = g[Used]
    BY <1>2, UsagesBounds, AgedAdds
  <2>2. g[Used] < MaxAged
    BY <2>1 DEF U!ExpireFlag
  <2>3. Adds(g, aged, Used)
    BY <2>1
  <2>4. aged[p] <= g[Used] /\ g[Used] \in Int
    BY <1>2, <2>3, UsagesBounds, AgedGrows
  <2> QED BY <1>2, <2>2, <2>4
<1>4. /\ aged' \in [Used -> 0..MaxAged] /\ aged'[p] = aged[p] + 1
      /\ \A q \in Used \ {p} : aged'[q] = aged[q]
  BY <1>1, <1>2, <1>3
<1>5. UsesTyped'
  BY <1>1, <1>4 DEF UsesInv, UsesTyped
<1>6. FlagsCount'
  <2>1. \A q \in Used \ {p} : (q \in flags' <=> q \in flags) /\ aged'[q] = aged[q]
    BY <1>1, <1>4
  <2>2. reports[p] <= aged'[p] /\ p \notin flags'
    BY <1>1, <1>2, <1>4 DEF UsesInv, FlagsCount
  <2>3. reports[p] <= aged'[p] + 0
    BY <1>2, <1>4, <2>2
  <2> QED BY <1>1, <2>1, <2>2, <2>3 DEF UsesInv, FlagsCount
<1>7. VisitsFit' /\ ReportsFit'
  BY <1>1 DEF UsesInv, VisitsFit, ReportsFit
<1> QED BY <1>5, <1>6, <1>7 DEF UsesInv

\* Every step keeps the invariant.
LEMMA UsesStep == UsesInv /\ (U!Next \/ UNCHANGED uses) => UsesInv'
<1> SUFFICES ASSUME UsesInv, U!Next \/ UNCHANGED uses PROVE UsesInv'
  OBVIOUS
<1>1. CASE UNCHANGED uses
  <2>1. UNCHANGED <<uploads, held, stage, offer, flags, visit, reports, aged, silent, found, writes>>
    BY <1>1 DEF uses
  <2> QED BY <2>1 DEF UsesInv, UsesTyped, FlagsCount, VisitsFit, ReportsFit
<1>2. CASE U!Next
  <2>1. CASE \E w \in Works, body \in Bodies :
                \/ U!Create(w, body) \/ U!SaveDraft(w, body)
                \/ U!Publish(w, body) \/ U!Suggest(w, body)
    BY <2>1, UsagesBounds, UsesTexts
  <2>2. CASE \E w \in Works : U!DropDraft(w) \/ U!Accept(w) \/ U!Delete(w)
    <3>1. {} \in SUBSET Used
      OBVIOUS
    <3> QED BY <2>2, <3>1, UsesTexts
  <2>3. CASE \E u \in Users, p \in Used, purpose \in U!Purposes : U!Upload(u, p, purpose)
    BY <2>3, UsesPictures
  <2>4. CASE \E c \in {"avatar", "gif avatar"}, p \in Used : "user" \in Works /\ U!SetAvatar(c, p)
    BY <2>4, UsesPictures
  <2>5. CASE \E t \in Visits : \/ U!LookAtArticle(t) \/ U!ServeArticle(t) \/ U!Interrupt(t)
                               \/ \E p \in Used : U!CheckPicture(t, p)
    BY <2>5, UsesVisits
  <2>6. CASE \E p \in Used : U!ExpireFlag(p)
    BY <2>6, UsesExpire
  <2> QED BY <1>2, <2>1, <2>2, <2>3, <2>4, <2>5, <2>6 DEF U!Next
<1> QED BY <1>1, <1>2

\* It implies what readers and authors are promised.
LEMMA UsesHold == UsesInv => U!TypeOK /\ U!UsagesHold
<1> SUFFICES ASSUME UsesInv PROVE U!TypeOK /\ U!UsagesHold
  OBVIOUS
<1>1. U!TypeOK
  BY DEF UsesInv, UsesTyped, VisitsFit, Check, U!TypeOK, U!Purposes
<1>2. U!OrphansAreNotShown
  <2>1. U!Shown \subseteq U!REFERENCE_COLUMNS
    BY DEF U!Shown, U!Columns, U!REFERENCE_COLUMNS
  <2> QED BY <2>1 DEF U!OrphansAreNotShown, U!find_orphans, U!find_usages
<1>3. U!ReportedOnce
  <2>1. \A p \in Used : reports[p] <= 1 + aged[p]
    BY UsagesBounds DEF UsesInv, UsesTyped, FlagsCount
  <2> QED BY <2>1 DEF UsesInv, ReportsFit, U!ReportedOnce
<1> QED BY <1>1, <1>2, <1>3 DEF U!UsagesHold

\* However texts are written, suggested and erased, no picture that a reader is shown
\* counts as an orphan; and however readers overlap, expire and fail, a misdeclared
\* picture is reported once per key, by someone, and only when it was declared so.
THEOREM UsagesAlwaysHold == ImagesSpec => []UsagesHold
<1> DEFINE Inv == part = "usages" => UsesInv
<1>1. ImagesInit => Inv
  BY UsesInit DEF ImagesInit
<1>2. Inv /\ [ImagesNext]_<<part, vars, uses>> => Inv'
  BY UsesStep DEF ImagesNext, RunUploads, RunUsages
<1>3. Inv => UsagesHold
  BY UsesHold DEF UsagesHold
<1> QED BY <1>1, <1>2, <1>3, PTL DEF ImagesSpec

\* Whatever a behaviour of Images runs, it is a behaviour of Uploads as well, of which
\* the theorems above then hold.
THEOREM ImagesRunUploads == ImagesSpec => Spec
<1>1. ImagesInit => Init
  BY DEF ImagesInit
<1>2. [ImagesNext]_<<part, vars, uses>> => [Next]_vars
  BY DEF ImagesNext, RunUploads, RunUsages
<1> QED BY <1>1, <1>2, PTL DEF ImagesSpec, Spec
=============================================================================
