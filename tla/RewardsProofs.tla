--------------------------- MODULE RewardsProofs ---------------------------
(***************************************************************************)
(* Proofs about Rewards, for any users, rewards, threads and requests.     *)
(***************************************************************************)
EXTENDS Rewards, TLAPS

-----------------------------------------------------------------------------
(* Types.                                                                  *)

LEMMA IdleType == Idle \in Request
  <1>1. Someone \in Users
    BY ConstantsAssumption DEF Someone
  <1>2. (CHOOSE r \in Rewards : TRUE) \in Rewards
    BY ConstantsAssumption
  <1> QED BY <1>1, <1>2 DEF Idle, Request, Steps, Ops, NoRow, Row

LEMMA NoRowType == NoRow \in Row
  <1>1. Someone \in Users
    BY ConstantsAssumption DEF Someone
  <1> QED BY <1>1 DEF NoRow, Row

LEMMA TypeInit == Init => TypeOK
  BY IdleType, NoRowType, ConstantsAssumption DEF Init, TypeOK

\* What a request becomes at its next step is a request.
LEMMA LearnType ==
  ASSUME TypeOK, NEW s \in Slots, NEW q \in Request, Learn(s, q)
  PROVE TypeOK'
  BY DEF Learn, TypeOK, store, history

LEMMA StartType ==
  ASSUME TypeOK, NEW s \in Slots, NEW q \in Request, Start(s, q)
  PROVE TypeOK'
  BY ConstantsAssumption DEF Start, TypeOK, store, history

\* The balance a request loads is a natural number because no user is in debt.
LEMMA TypeStep ==
  ASSUME TypeOK, NoDebt, [Next]_vars
  PROVE TypeOK'
  <1>1. CASE UNCHANGED vars
    BY <1>1 DEF TypeOK, vars, store, history
  <1>2. ASSUME NEW r \in Rewards, Expire(r) PROVE TypeOK'
    BY <1>2 DEF Expire, TypeOK, history
  <1>3. ASSUME NEW r \in Rewards, ConditionChanges(r) PROVE TypeOK'
    BY <1>3 DEF ConditionChanges, TypeOK
  <1>4. ASSUME NEW s \in Slots, BeginCreate(s) PROVE TypeOK'
    <2>1. PICK u \in Users, v \in Users, r \in Rewards, n \in Amounts, c \in BOOLEAN :
            Start(s, [pc |-> "user", op |-> "create", user |-> u, id |-> r, coins |-> 0,
                      row |-> [NoRow EXCEPT !.made = TRUE, !.giver = u, !.receiver = v,
                                            !.amount = n, !.conditional = c]])
      BY <1>4 DEF BeginCreate
    <2>2. [NoRow EXCEPT !.made = TRUE, !.giver = u, !.receiver = v,
                        !.amount = n, !.conditional = c] \in Row
      BY NoRowType, ConstantsAssumption DEF Row
    <2>3. [pc |-> "user", op |-> "create", user |-> u, id |-> r, coins |-> 0,
           row |-> [NoRow EXCEPT !.made = TRUE, !.giver = u, !.receiver = v,
                                 !.amount = n, !.conditional = c]] \in Request
      BY <2>2 DEF Request, Steps, Ops
    <2> QED BY <2>1, <2>3, StartType
  <1>5. ASSUME NEW s \in Slots, BeginPayout(s) PROVE TypeOK'
    <2>1. PICK u \in Users, r \in Rewards, op \in {"claim", "refund"} :
            Start(s, [Idle EXCEPT !.pc = IF op = "claim" THEN "reward" ELSE "user",
                                  !.op = op, !.user = u, !.id = r])
      BY <1>5 DEF BeginPayout
    <2>2. [Idle EXCEPT !.pc = IF op = "claim" THEN "reward" ELSE "user",
                       !.op = op, !.user = u, !.id = r] \in Request
      BY IdleType DEF Request, Steps, Ops
    <2> QED BY <2>1, <2>2, StartType
  <1>6. ASSUME NEW s \in Slots, ReadReward(s) PROVE TypeOK'
    <2>1. PICK q \in Request : Learn(s, q)
      BY <1>6, IdleType DEF ReadReward, TypeOK, Request, Steps
    <2> QED BY <2>1, LearnType
  <1>7. ASSUME NEW s \in Slots, ReadUser(s) PROVE TypeOK'
    <2>1. req[s] \in Request /\ coins[req[s].user] \in Nat
      BY DEF TypeOK, NoDebt, Request
    <2>2. PICK q \in Request : Learn(s, q)
      BY <1>7, <2>1, IdleType DEF ReadUser, Request, Steps, Ops
    <2> QED BY <2>2, LearnType
  <1>8. ASSUME NEW s \in Slots, ReadCondition(s) PROVE TypeOK'
    <2>1. PICK q \in Request : Learn(s, q)
      BY <1>8, IdleType DEF ReadCondition, TypeOK, Request, Steps
    <2> QED BY <2>1, LearnType
  <1>9. ASSUME NEW s \in Slots, CommitCreate(s) PROVE TypeOK'
    BY <1>9, IdleType DEF CommitCreate, Charged, Finish, TypeOK, Request, Row
  <1>10. ASSUME NEW s \in Slots, CommitPayout(s) PROVE TypeOK'
    BY <1>10, IdleType DEF CommitPayout, Marked, Paid, Finish, TypeOK, Request, Row
  <1>11. ASSUME NEW s \in Slots, Abort(s) PROVE TypeOK'
    BY <1>11, IdleType, LearnType DEF Abort
  <1> QED BY <1>1, <1>2, <1>3, <1>4, <1>5, <1>6, <1>7, <1>8, <1>9, <1>10, <1>11 DEF Next

-----------------------------------------------------------------------------
(* What holds however requests interleave.                                 *)

\* A request about to charge the giver has checked the balance it will write.
ChargeCovered ==
  \A s \in Slots : req[s].op = "create" /\ At(s, "commit")
                    => req[s].coins >= req[s].row.amount

\* A reward is created by one request only, which makes a row of its own.
CreatesFresh ==
  \A s \in Slots : req[s].op = "create" /\ ~At(s, "idle")
    => /\ ~reward[req[s].id].made /\ req[s].row.made
       /\ \A t \in Slots \ {s} :
            req[t].op = "create" /\ ~At(t, "idle") => req[t].id # req[s].id

\* What a claim has loaded about its reward is still so: rows never change.
RowCurrent ==
  \A s \in Slots : req[s].op = "claim" /\ req[s].pc \in {"user", "condition", "commit"}
    => reward[req[s].id].made /\ reward[req[s].id] = req[s].row

\* A claim of a conditional reward is about to be paid after the condition held.
ConditionSeen ==
  \A s \in Slots : req[s].op = "claim" /\ At(s, "commit") /\ req[s].row.conditional
    => everMet[req[s].id]

MetRemembered == \A r \in Rewards : met[r] => everMet[r]
ClaimedExists == \A r \in Rewards : claims[r] > 0 => reward[r].made

\* Only payouts load the reward, only claims look at the condition.
Paths ==
  \A s \in Slots : /\ At(s, "reward") => req[s].op # "create"
                   /\ At(s, "condition") => req[s].op = "claim"

RequestInv == Paths /\ ChargeCovered /\ CreatesFresh /\ RowCurrent /\ ConditionSeen

RaceInv == TypeOK /\ NoDebt /\ RequestInv
           /\ MetRemembered /\ ClaimedExists /\ ClaimsAreEarned

LEMMA RaceInit == Init => RaceInv
  <1> SUFFICES ASSUME Init PROVE RaceInv
    OBVIOUS
  <1>1. TypeOK
    BY TypeInit
  <1>2. NoDebt
    BY ConstantsAssumption DEF Init, NoDebt
  <1>3. RequestInv
    BY DEF Init, RequestInv, Paths, ChargeCovered, CreatesFresh, RowCurrent, ConditionSeen, At, Idle
  <1>4. MetRemembered /\ ClaimedExists /\ ClaimsAreEarned
    BY DEF Init, MetRemembered, ClaimedExists, ClaimsAreEarned
  <1> QED BY <1>1, <1>2, <1>3, <1>4 DEF RaceInv

\* A query leaves the tables alone, so only what the request has learnt matters.
LEMMA LearnKeeps ==
  ASSUME RaceInv, TypeOK', NEW s \in Slots, NEW q \in Request, Learn(s, q),
         q.pc = "reward" => q.op # "create", q.pc = "condition" => q.op = "claim",
         q.op = "create" /\ q.pc = "commit" => q.coins >= q.row.amount,
         q.op = "create" /\ q.pc # "idle"
           => req[s].op = "create" /\ ~At(s, "idle") /\ q.id = req[s].id
              /\ q.row = req[s].row,
         q.op = "claim" /\ q.pc \in {"user", "condition", "commit"}
           => reward[q.id].made /\ reward[q.id] = q.row,
         q.op = "claim" /\ q.pc = "commit" /\ q.row.conditional => everMet[q.id]
  PROVE RaceInv'
  <1>1. req' = [req EXCEPT ![s] = q] /\ req \in [Slots -> Request]
        /\ UNCHANGED <<reward, met, coins, claims, everMet>>
    BY DEF Learn, store, history, RaceInv, TypeOK
  <1>2. ChargeCovered' /\ Paths'
    BY <1>1 DEF RaceInv, RequestInv, ChargeCovered, Paths, At
  <1>3. CreatesFresh'
    BY <1>1 DEF RaceInv, RequestInv, CreatesFresh, At
  <1>4. RowCurrent'
    BY <1>1 DEF RaceInv, RequestInv, RowCurrent, At
  <1>5. ConditionSeen'
    BY <1>1 DEF RaceInv, RequestInv, ConditionSeen, At
  <1>6. (NoDebt /\ MetRemembered /\ ClaimedExists /\ ClaimsAreEarned)'
    BY <1>1 DEF RaceInv, NoDebt, MetRemembered, ClaimedExists, ClaimsAreEarned
  <1> QED BY <1>2, <1>3, <1>4, <1>5, <1>6 DEF RaceInv, RequestInv

LEMMA RaceStep ==
  ASSUME RaceInv, [Next]_vars
  PROVE RaceInv'
  <1>0. TypeOK'
    BY TypeStep DEF RaceInv
  <1>1. CASE UNCHANGED vars
    BY <1>0, <1>1 DEF vars, store, history, RaceInv, NoDebt, RequestInv, Paths, ChargeCovered,
       CreatesFresh, RowCurrent, ConditionSeen, MetRemembered, ClaimedExists,
       ClaimsAreEarned, At
  <1>2. ASSUME NEW r \in Rewards, Expire(r) PROVE RaceInv'
    BY <1>0, <1>2 DEF Expire, history, RaceInv, NoDebt, RequestInv, Paths, ChargeCovered,
       CreatesFresh, RowCurrent, ConditionSeen, MetRemembered, ClaimedExists,
       ClaimsAreEarned, At
  <1>3. ASSUME NEW r \in Rewards, ConditionChanges(r) PROVE RaceInv'
    <2>1. \A i \in Rewards : everMet[i] => everMet'[i]
      BY <1>3 DEF ConditionChanges, RaceInv, TypeOK
    <2>2. MetRemembered'
      BY <1>3 DEF ConditionChanges, RaceInv, TypeOK, MetRemembered
    <2>3. ConditionSeen'
      BY <1>3, <2>1 DEF ConditionChanges, RaceInv, TypeOK, Request, RequestInv,
         ConditionSeen, At
    <2>4. ClaimsAreEarned'
      BY <1>3, <2>1 DEF ConditionChanges, RaceInv, ClaimsAreEarned
    <2> QED BY <1>0, <1>3, <2>2, <2>3, <2>4 DEF ConditionChanges, RaceInv, NoDebt,
         RequestInv, Paths, ChargeCovered, CreatesFresh, RowCurrent, ClaimedExists, At
  <1>4. ASSUME NEW s \in Slots, BeginCreate(s) PROVE RaceInv'
    <2>1. PICK u \in Users, v \in Users, r \in Rewards, n \in Amounts, c \in BOOLEAN :
            /\ ~reward[r].made
            /\ \A t \in Slots : req[t].pc # "idle" /\ req[t].op = "create" => req[t].id # r
            /\ Start(s, [pc |-> "user", op |-> "create", user |-> u, id |-> r, coins |-> 0,
                      row |-> [NoRow EXCEPT !.made = TRUE, !.giver = u, !.receiver = v,
                                            !.amount = n, !.conditional = c]])
      BY <1>4 DEF BeginCreate
    <2> DEFINE w == [NoRow EXCEPT !.made = TRUE, !.giver = u, !.receiver = v,
                                  !.amount = n, !.conditional = c]
               q == [pc |-> "user", op |-> "create", user |-> u, id |-> r, coins |-> 0,
                     row |-> w]
    <2>2. /\ req' = [req EXCEPT ![s] = q] /\ req \in [Slots -> Request]
          /\ UNCHANGED <<reward, met, coins, claims, everMet>>
      BY <2>1 DEF Start, store, history, RaceInv, TypeOK
    <2>3. q.op = "create" /\ q.pc = "user" /\ q.id = r /\ q.row.made
      BY DEF NoRow
    <2> HIDE DEF q
    <2>4. Paths' /\ ChargeCovered' /\ RowCurrent' /\ ConditionSeen'
      BY <2>2, <2>3 DEF RaceInv, RequestInv, Paths, ChargeCovered, RowCurrent,
         ConditionSeen, At
    <2>5. CreatesFresh'
      BY <2>1, <2>2, <2>3 DEF RaceInv, RequestInv, CreatesFresh, At
    <2>6. (NoDebt /\ MetRemembered /\ ClaimedExists /\ ClaimsAreEarned)'
      BY <2>2 DEF RaceInv, NoDebt, MetRemembered, ClaimedExists, ClaimsAreEarned
    <2> QED BY <1>0, <2>4, <2>5, <2>6 DEF RaceInv, RequestInv
  <1>5. ASSUME NEW s \in Slots, BeginPayout(s) PROVE RaceInv'
    <2>1. PICK u \in Users, r \in Rewards, op \in {"claim", "refund"} :
            Start(s, [Idle EXCEPT !.pc = IF op = "claim" THEN "reward" ELSE "user",
                                  !.op = op, !.user = u, !.id = r])
      BY <1>5 DEF BeginPayout
    <2> DEFINE q == [Idle EXCEPT !.pc = IF op = "claim" THEN "reward" ELSE "user",
                                 !.op = op, !.user = u, !.id = r]
    <2>2. /\ req' = [req EXCEPT ![s] = q] /\ req \in [Slots -> Request]
          /\ UNCHANGED <<reward, met, coins, claims, everMet>>
      BY <2>1 DEF Start, store, history, RaceInv, TypeOK
    <2>3. q.op \in {"claim", "refund"} /\ q.pc \in {"reward", "user"} /\ (q.op = "claim" => q.pc = "reward")
      BY DEF Idle
    <2> HIDE DEF q
    <2>4. RequestInv'
      BY <2>2, <2>3 DEF RaceInv, RequestInv, Paths, ChargeCovered, CreatesFresh,
         RowCurrent, ConditionSeen, At
    <2>6. (NoDebt /\ MetRemembered /\ ClaimedExists /\ ClaimsAreEarned)'
      BY <2>2 DEF RaceInv, NoDebt, MetRemembered, ClaimedExists, ClaimsAreEarned
    <2> QED BY <1>0, <2>4, <2>6 DEF RaceInv
  <1>6. ASSUME NEW s \in Slots, ReadReward(s) PROVE RaceInv'
    <2>1. req[s] \in Request /\ reward[req[s].id] \in Row /\ req[s].op # "create"
      BY <1>6 DEF RaceInv, TypeOK, Request, RequestInv, Paths, ReadReward
    <2>2. CASE MayPay(req[s], reward[req[s].id])
      <3> DEFINE q == [req[s] EXCEPT !.row = reward[req[s].id],
                         !.pc = IF req[s].op = "claim" THEN "user" ELSE "commit"]
      <3>1. q \in Request /\ Learn(s, q)
        BY <1>6, <2>1, <2>2 DEF ReadReward, Request, Steps
      <3>2. q.op # "create" /\ q.row = reward[q.id] /\ q.row.made
            /\ q.pc = (IF q.op = "claim" THEN "user" ELSE "commit")
        BY <2>1, <2>2 DEF MayPay, Request
      <3> HIDE DEF q
      <3> QED BY <1>0, <3>1, <3>2, LearnKeeps
    <2>3. CASE ~MayPay(req[s], reward[req[s].id])
      <3>1. Learn(s, Idle) /\ Idle.pc = "idle"
        BY <1>6, <2>3 DEF ReadReward, Idle
      <3> QED BY <1>0, <3>1, IdleType, LearnKeeps
    <2> QED BY <2>2, <2>3
  <1>7. ASSUME NEW s \in Slots, ReadUser(s) PROVE RaceInv'
    <2>1. req[s] \in Request /\ coins[req[s].user] \in Nat
      BY DEF RaceInv, TypeOK, NoDebt, Request
    <2>2. CASE Affordable(req[s], coins[req[s].user]) /\ OnTime(req[s])
      <3>1. PICK step \in {"commit", "reward", "condition"} :
              /\ Learn(s, [req[s] EXCEPT !.coins = coins[req[s].user], !.pc = step])
              /\ req[s].op = "claim" /\ step = "commit" => ~req[s].row.conditional
              /\ step = "reward" => req[s].op = "refund"
              /\ step = "condition" => req[s].op = "claim"
        BY <1>7, <2>1, <2>2 DEF ReadUser, Request, Ops, Row
      <3> DEFINE q == [req[s] EXCEPT !.coins = coins[req[s].user], !.pc = step]
      <3>2. q \in Request
        BY <2>1 DEF Request, Steps
      <3>3. At(s, "user")
        BY <1>7 DEF ReadUser
      <3>4. q.op = req[s].op /\ q.id = req[s].id /\ q.row = req[s].row
            /\ q.coins = coins[req[s].user] /\ q.pc = step
        BY <2>1 DEF Request
      <3> HIDE DEF q
      <3>5. q.op = "create" => q.coins >= q.row.amount
        BY <2>2, <3>4 DEF Affordable
      <3>6. q.op = "claim" => reward[q.id].made /\ reward[q.id] = q.row
        BY <3>3, <3>4 DEF RaceInv, RequestInv, RowCurrent, At
      <3> QED BY <1>0, <3>1, <3>2, <3>3, <3>4, <3>5, <3>6, LearnKeeps DEF q, At
    <2>3. CASE ~(Affordable(req[s], coins[req[s].user]) /\ OnTime(req[s]))
      <3>1. Learn(s, Idle) /\ Idle.pc = "idle"
        BY <1>7, <2>3 DEF ReadUser, Idle
      <3> QED BY <1>0, <3>1, IdleType, LearnKeeps
    <2> QED BY <2>2, <2>3
  <1>8. ASSUME NEW s \in Slots, ReadCondition(s) PROVE RaceInv'
    <2>1. req[s] \in Request /\ At(s, "condition") /\ req[s].op = "claim"
      BY <1>8 DEF RaceInv, TypeOK, RequestInv, Paths, ReadCondition
    <2>2. CASE Condition(req[s].id)
      <3> DEFINE q == [req[s] EXCEPT !.pc = "commit"]
      <3>1. q \in Request /\ Learn(s, q)
        BY <1>8, <2>1, <2>2 DEF ReadCondition, Request, Steps
      <3>2. q.op = "claim" /\ q.pc = "commit" /\ q.id = req[s].id /\ q.row = req[s].row
        BY <2>1 DEF Request
      <3>3. everMet[req[s].id]
        BY <2>1, <2>2 DEF Condition, RaceInv, MetRemembered, Request
      <3>4. reward[req[s].id].made /\ reward[req[s].id] = req[s].row
        BY <2>1 DEF RaceInv, RequestInv, RowCurrent, At
      <3> HIDE DEF q
      <3> QED BY <1>0, <3>1, <3>2, <3>3, <3>4, LearnKeeps
    <2>3. CASE ~Condition(req[s].id)
      <3>1. Learn(s, Idle) /\ Idle.pc = "idle"
        BY <1>8, <2>3 DEF ReadCondition, Idle
      <3> QED BY <1>0, <3>1, IdleType, LearnKeeps
    <2> QED BY <2>2, <2>3
  <1>9. ASSUME NEW s \in Slots, CommitCreate(s) PROVE RaceInv'
    <2> PICK q \in Request : q = req[s]
      BY DEF RaceInv, TypeOK
    <2>1. /\ q.op = "create" /\ q.pc = "commit"
          /\ reward' = [reward EXCEPT ![q.id] = q.row]
          /\ coins' = [coins EXCEPT ![q.user] = q.coins - q.row.amount]
          /\ req' = [req EXCEPT ![s] = Idle]
          /\ UNCHANGED <<met, claims, everMet>>
      BY <1>9 DEF CommitCreate, Charged, Finish, At
    <2>2. /\ ~reward[q.id].made /\ q.row.made /\ q.coins >= q.row.amount
          /\ \A t \in Slots \ {s} : req[t].op = "create" /\ req[t].pc # "idle"
                                   => req[t].id # q.id
      BY <2>1 DEF RaceInv, RequestInv, CreatesFresh, ChargeCovered, At
    <2>3. Idle.pc = "idle" /\ req \in [Slots -> Request] /\ reward \in [Rewards -> Row]
          /\ coins \in [Users -> Int] /\ claims \in [Rewards -> Nat]
      BY DEF Idle, RaceInv, TypeOK
    <2>4. NoDebt'
      BY <2>1, <2>2, <2>3 DEF RaceInv, NoDebt, Request, Row
    <2>5. Paths' /\ ChargeCovered'
      BY <2>1, <2>3 DEF RaceInv, RequestInv, Paths, ChargeCovered, At
    <2>6. CreatesFresh'
      BY <2>1, <2>2, <2>3 DEF RaceInv, RequestInv, CreatesFresh, At, Request
    <2>7. RowCurrent'
      BY <2>1, <2>2, <2>3 DEF RaceInv, RequestInv, RowCurrent, At, Request
    <2>8. ConditionSeen'
      BY <2>1, <2>3 DEF RaceInv, RequestInv, ConditionSeen, At
    <2>9. MetRemembered' /\ ClaimedExists'
      BY <2>1, <2>2, <2>3 DEF RaceInv, MetRemembered, ClaimedExists, Request
    <2>10. ClaimsAreEarned'
      BY <2>1, <2>2, <2>3 DEF RaceInv, ClaimsAreEarned, ClaimedExists, Request
    <2> QED BY <1>0, <2>4, <2>5, <2>6, <2>7, <2>8, <2>9, <2>10 DEF RaceInv, RequestInv
  <1>10. ASSUME NEW s \in Slots, CommitPayout(s) PROVE RaceInv'
    <2> PICK q \in Request : q = req[s]
      BY DEF RaceInv, TypeOK
    <2>1. /\ q.op \in {"claim", "refund"} /\ q.pc = "commit"
          /\ reward' = [reward EXCEPT ![q.id] = reward[q.id]]
          /\ coins' = [coins EXCEPT ![q.user] = q.coins + q.row.amount]
          /\ claims' = [claims EXCEPT ![q.id] = IF q.op = "claim" THEN @ + 1 ELSE @]
          /\ req' = [req EXCEPT ![s] = Idle]
          /\ UNCHANGED <<met, everMet>>
      BY <1>10 DEF CommitPayout, Marked, Paid, Finish, At
    <2>2. Idle.pc = "idle" /\ req \in [Slots -> Request] /\ reward \in [Rewards -> Row]
          /\ coins \in [Users -> Int] /\ claims \in [Rewards -> Nat]
      BY DEF Idle, RaceInv, TypeOK
    <2>3. reward' = reward
      BY <2>1, <2>2 DEF Request
    <2>4. NoDebt'
      BY <2>1, <2>2 DEF RaceInv, NoDebt, Request, Row
    <2>5. RequestInv'
      BY <2>1, <2>2, <2>3 DEF RaceInv, RequestInv, Paths, ChargeCovered, CreatesFresh,
         RowCurrent, ConditionSeen, At
    <2>6. q.op = "claim" => reward[q.id].made /\ reward[q.id] = q.row
                            /\ (q.row.conditional => everMet[q.id])
      BY <2>1 DEF RaceInv, RequestInv, RowCurrent, ConditionSeen, At
    <2>7. MetRemembered' /\ ClaimedExists' /\ ClaimsAreEarned'
      BY <2>1, <2>2, <2>3, <2>6 DEF RaceInv, MetRemembered, ClaimedExists,
         ClaimsAreEarned, Request
    <2> QED BY <1>0, <2>4, <2>5, <2>7 DEF RaceInv
  <1>11. ASSUME NEW s \in Slots, Abort(s) PROVE RaceInv'
    <2>1. Learn(s, Idle) /\ Idle.pc = "idle"
      BY <1>11 DEF Abort, Idle
    <2> QED BY <1>0, <2>1, IdleType, LearnKeeps
  <1> QED BY <1>1, <1>2, <1>3, <1>4, <1>5, <1>6, <1>7, <1>8, <1>9, <1>10, <1>11 DEF Next

LEMMA RaceAlways == Spec => []RaceInv
  <1>1. Init => RaceInv
    BY RaceInit
  <1>2. RaceInv /\ [Next]_vars => RaceInv'
    BY RaceStep
  <1> QED BY <1>1, <1>2, PTL DEF Spec

\* Every reachable state is well typed: in particular no request ever loads a
\* negative balance.
THEOREM TypeCorrect == Spec => []TypeOK
  <1>1. RaceInv => TypeOK
    BY DEF RaceInv
  <1> QED BY <1>1, RaceAlways, PTL

\* No interleaving of requests brings a user into debt.
THEOREM NeverInDebt == Spec => []NoDebt
  <1>1. RaceInv => NoDebt
    BY DEF RaceInv
  <1> QED BY <1>1, RaceAlways, PTL

\* The receiver of a conditional reward is paid only if the condition has held.
THEOREM ClaimsEarned == Spec => []ClaimsAreEarned
  <1>1. RaceInv => ClaimsAreEarned
    BY DEF RaceInv
  <1> QED BY <1>1, RaceAlways, PTL

-----------------------------------------------------------------------------
(* What holds for users whose requests do not overlap.                     *)

\* The request has loaded the principal.
Loaded(s) == \/ req[s].pc \in {"condition", "commit"}
             \/ (req[s].pc = "reward" /\ req[s].op # "claim")

OnePerUser ==
  \A s, t \in Slots :
    /\ ~At(s, "idle") /\ ~At(t, "idle")
    /\ req[s].user = req[t].user /\ req[s].user \in IsolatedUsers
    => s = t

BalanceCurrent ==
  \A s \in Slots : Loaded(s) /\ req[s].user \in IsolatedUsers
                      => req[s].coins = coins[req[s].user]

IsolatedInv == TypeOK /\ OnePerUser /\ BalanceCurrent /\ BalanceExact

\* A request that goes on keeps its user, and the balance it had loaded.
LEMMA LearnKeepsBalance ==
  ASSUME IsolatedInv, TypeOK', NEW s \in Slots, NEW q \in Request, Learn(s, q),
         q.pc # "idle" => ~At(s, "idle") /\ q.user = req[s].user,
         /\ q.pc \in {"condition", "commit"} \/ (q.pc = "reward" /\ q.op # "claim")
         /\ q.user \in IsolatedUsers
         => q.coins = coins[q.user]
  PROVE IsolatedInv'
  <1>1. /\ req' = [req EXCEPT ![s] = q] /\ req \in [Slots -> Request]
        /\ UNCHANGED <<coins, book>>
    BY DEF Learn, store, history, IsolatedInv, TypeOK
  <1>2. OnePerUser'
    BY <1>1 DEF IsolatedInv, OnePerUser, At
  <1>3. BalanceCurrent'
    BY <1>1 DEF IsolatedInv, BalanceCurrent, Loaded
  <1> QED BY <1>1, <1>2, <1>3 DEF IsolatedInv, BalanceExact

\* A new request has loaded nothing yet, and is the only one of its user.
LEMMA StartKeepsBalance ==
  ASSUME IsolatedInv, TypeOK', NEW s \in Slots, NEW q \in Request, Start(s, q),
         q.pc = "user" \/ (q.pc = "reward" /\ q.op = "claim")
  PROVE IsolatedInv'
  <1>1. /\ req' = [req EXCEPT ![s] = q] /\ req \in [Slots -> Request]
        /\ UNCHANGED <<coins, book>>
        /\ q.user \in IsolatedUsers =>
             \A t \in Slots : req[t].pc = "idle" \/ req[t].user # q.user
    BY DEF Start, Isolated, store, history, IsolatedInv, TypeOK
  <1>2. OnePerUser'
    BY <1>1 DEF IsolatedInv, OnePerUser, At
  <1>3. BalanceCurrent'
    BY <1>1 DEF IsolatedInv, BalanceCurrent, Loaded
  <1> QED BY <1>1, <1>2, <1>3 DEF IsolatedInv, BalanceExact

LEMMA IsolatedStep ==
  ASSUME IsolatedInv, TypeOK', [Next]_vars
  PROVE IsolatedInv'
  <1>1. CASE UNCHANGED vars
    BY <1>1 DEF vars, store, history, IsolatedInv, OnePerUser, BalanceCurrent,
             BalanceExact, Loaded, At
  <1>2. ASSUME NEW r \in Rewards, Expire(r) \/ ConditionChanges(r) PROVE IsolatedInv'
    BY <1>2 DEF Expire, ConditionChanges, history, IsolatedInv, OnePerUser,
       BalanceCurrent, BalanceExact, Loaded, At
  <1>4. ASSUME NEW s \in Slots, BeginCreate(s) PROVE IsolatedInv'
    <2>1. PICK u \in Users, v \in Users, r \in Rewards, n \in Amounts, c \in BOOLEAN :
            Start(s, [pc |-> "user", op |-> "create", user |-> u, id |-> r, coins |-> 0,
                      row |-> [NoRow EXCEPT !.made = TRUE, !.giver = u, !.receiver = v,
                                            !.amount = n, !.conditional = c]])
      BY <1>4 DEF BeginCreate
    <2>2. [NoRow EXCEPT !.made = TRUE, !.giver = u, !.receiver = v,
                        !.amount = n, !.conditional = c] \in Row
      BY NoRowType, ConstantsAssumption DEF Row
    <2>3. [pc |-> "user", op |-> "create", user |-> u, id |-> r, coins |-> 0,
           row |-> [NoRow EXCEPT !.made = TRUE, !.giver = u, !.receiver = v,
                                 !.amount = n, !.conditional = c]] \in Request
      BY <2>2 DEF Request, Steps, Ops
    <2> QED BY <2>1, <2>3, StartKeepsBalance
  <1>5. ASSUME NEW s \in Slots, BeginPayout(s) PROVE IsolatedInv'
    <2>1. PICK u \in Users, r \in Rewards, op \in {"claim", "refund"} :
            Start(s, [Idle EXCEPT !.pc = IF op = "claim" THEN "reward" ELSE "user",
                                  !.op = op, !.user = u, !.id = r])
      BY <1>5 DEF BeginPayout
    <2> DEFINE q == [Idle EXCEPT !.pc = IF op = "claim" THEN "reward" ELSE "user",
                                 !.op = op, !.user = u, !.id = r]
    <2>2. q \in Request
      BY IdleType DEF Request, Steps, Ops
    <2>3. q.pc = "user" \/ (q.pc = "reward" /\ q.op = "claim")
      BY DEF Idle
    <2> QED BY <2>1, <2>2, <2>3, StartKeepsBalance
  <1>6. ASSUME NEW s \in Slots, ReadReward(s) PROVE IsolatedInv'
    <2>1. req[s] \in Request /\ reward[req[s].id] \in Row /\ At(s, "reward")
      BY <1>6 DEF IsolatedInv, TypeOK, Request, ReadReward
    <2>2. PICK q \in Request :
            /\ Learn(s, q)
            /\ q.pc # "idle" => q.user = req[s].user /\ q.op = req[s].op
                                /\ q.coins = req[s].coins
                                /\ q.pc = (IF req[s].op = "claim" THEN "user" ELSE "commit")
      <3> DEFINE q == [req[s] EXCEPT !.row = reward[req[s].id],
                         !.pc = IF req[s].op = "claim" THEN "user" ELSE "commit"]
      <3>1. CASE MayPay(req[s], reward[req[s].id])
        <4>1. q \in Request /\ Learn(s, q)
          BY <1>6, <2>1, <3>1 DEF ReadReward, Request, Steps
        <4>2. q.user = req[s].user /\ q.op = req[s].op /\ q.coins = req[s].coins
              /\ q.pc = (IF req[s].op = "claim" THEN "user" ELSE "commit")
          BY <2>1 DEF Request
        <4> HIDE DEF q
        <4> QED BY <4>1, <4>2
      <3>2. CASE ~MayPay(req[s], reward[req[s].id])
        <4>1. Learn(s, Idle) /\ Idle.pc = "idle"
          BY <1>6, <3>2 DEF ReadReward, Idle
        <4> QED BY <4>1, IdleType
      <3> QED BY <3>1, <3>2
    <2>3. CASE q.pc = "idle"
      BY <2>2, <2>3, LearnKeepsBalance
    <2>4. CASE q.pc # "idle" /\ req[s].op = "claim"
      BY <2>1, <2>2, <2>4, LearnKeepsBalance DEF At
    <2>5. CASE q.pc # "idle" /\ req[s].op # "claim"
      <3>1. req[s].user \in IsolatedUsers => req[s].coins = coins[req[s].user]
        BY <2>1, <2>5 DEF IsolatedInv, BalanceCurrent, Loaded, At
      <3> QED BY <2>1, <2>2, <2>5, <3>1, LearnKeepsBalance DEF At
    <2> QED BY <2>3, <2>4, <2>5
  <1>7. ASSUME NEW s \in Slots, ReadUser(s) PROVE IsolatedInv'
    <2>1. req[s] \in Request /\ At(s, "user")
      BY <1>7 DEF IsolatedInv, TypeOK, ReadUser
    <2>2. CASE Affordable(req[s], coins[req[s].user]) /\ OnTime(req[s])
      <3>1. PICK step \in Steps \ {"idle"} :
              Learn(s, [req[s] EXCEPT !.coins = coins[req[s].user], !.pc = step])
        BY <1>7, <2>2 DEF ReadUser, Steps
      <3> DEFINE q == [req[s] EXCEPT !.coins = coins[req[s].user], !.pc = step]
      <3>2. q.user = req[s].user /\ q.coins = coins[q.user]
        BY <2>1 DEF Request
      <3>3. req' = [req EXCEPT ![s] = q]
        BY <3>1 DEF Learn
      <3>4. q \in Request
        BY <3>3, <2>1 DEF TypeOK, IsolatedInv
      <3> HIDE DEF q
      <3> QED BY <2>1, <3>1, <3>2, <3>4, LearnKeepsBalance DEF At, q
    <2>3. CASE ~(Affordable(req[s], coins[req[s].user]) /\ OnTime(req[s]))
      <3>1. Learn(s, Idle) /\ Idle.pc = "idle"
        BY <1>7, <2>3 DEF ReadUser, Idle
      <3> QED BY <3>1, IdleType, LearnKeepsBalance
    <2> QED BY <2>2, <2>3
  <1>8. ASSUME NEW s \in Slots, ReadCondition(s) PROVE IsolatedInv'
    <2>1. req[s] \in Request /\ At(s, "condition")
      BY <1>8 DEF IsolatedInv, TypeOK, ReadCondition
    <2>2. CASE Condition(req[s].id)
      <3> DEFINE q == [req[s] EXCEPT !.pc = "commit"]
      <3>1. q \in Request /\ Learn(s, q)
        BY <1>8, <2>1, <2>2 DEF ReadCondition, Request, Steps
      <3>2. q.user = req[s].user /\ q.coins = req[s].coins /\ q.pc = "commit"
        BY <2>1 DEF Request
      <3>3. req[s].user \in IsolatedUsers => req[s].coins = coins[req[s].user]
        BY <2>1 DEF IsolatedInv, BalanceCurrent, Loaded, At
      <3> HIDE DEF q
      <3> QED BY <2>1, <3>1, <3>2, <3>3, LearnKeepsBalance DEF At
    <2>3. CASE ~Condition(req[s].id)
      <3>1. Learn(s, Idle) /\ Idle.pc = "idle"
        BY <1>8, <2>3 DEF ReadCondition, Idle
      <3> QED BY <3>1, IdleType, LearnKeepsBalance
    <2> QED BY <2>2, <2>3
  <1>9. ASSUME NEW s \in Slots, CommitCreate(s) \/ CommitPayout(s) PROVE IsolatedInv'
    <2> PICK q \in Request : q = req[s]
      BY DEF IsolatedInv, TypeOK
    <2>1. q.pc = "commit" /\ (q.user \in IsolatedUsers => q.coins = coins[q.user])
      BY <1>9 DEF CommitCreate, CommitPayout, IsolatedInv, BalanceCurrent, Loaded, At
    <2>2. PICK n \in Int : /\ coins' = [coins EXCEPT ![q.user] = q.coins + n]
                           /\ book' = [book EXCEPT ![q.user] = @ + n]
      <3>1. q.row.amount \in Int /\ 0 - q.row.amount \in Int
            /\ q.coins - q.row.amount = q.coins + (0 - q.row.amount)
            /\ book[q.user] - q.row.amount = book[q.user] + (0 - q.row.amount)
        BY DEF Request, Row, IsolatedInv, TypeOK
      <3> QED BY <1>9, <3>1 DEF CommitCreate, CommitPayout, Charged, Paid
    <2>3. req' = [req EXCEPT ![s] = Idle] /\ Idle.pc = "idle"
      BY <1>9 DEF CommitCreate, CommitPayout, Finish, Idle
    <2>4. req \in [Slots -> Request] /\ coins \in [Users -> Int] /\ book \in [Users -> Int]
      BY DEF IsolatedInv, TypeOK
    <2>5. BalanceExact'
      BY <2>1, <2>2, <2>4, ConstantsAssumption DEF IsolatedInv, BalanceExact, Request
    <2>6. \A t \in Slots \ {s} :
            req[t].pc # "idle" /\ req[t].user \in IsolatedUsers => req[t].user # q.user
      BY <2>1 DEF IsolatedInv, OnePerUser, At
    <2>7. BalanceCurrent'
      BY <2>2, <2>3, <2>4, <2>6 DEF IsolatedInv, BalanceCurrent, Loaded, Request
    <2>8. OnePerUser'
      BY <2>3, <2>4 DEF IsolatedInv, OnePerUser, At
    <2> QED BY <2>5, <2>7, <2>8 DEF IsolatedInv
  <1>11. ASSUME NEW s \in Slots, Abort(s) PROVE IsolatedInv'
    <2>1. Learn(s, Idle) /\ Idle.pc = "idle"
      BY <1>11 DEF Abort, Idle
    <2> QED BY <2>1, IdleType, LearnKeepsBalance
  <1> QED BY <1>1, <1>2, <1>4, <1>5, <1>6, <1>7, <1>8, <1>9, <1>11 DEF Next

\* The balance of a user whose requests come one at a time is what the requests
\* answered with success add up to, however the other users' requests overlap.
THEOREM BalancesExact == Spec => []BalanceExact
  <1>1. Init => IsolatedInv
    BY TypeInit, ConstantsAssumption
       DEF Init, IsolatedInv, OnePerUser, BalanceCurrent, BalanceExact, Loaded, At, Idle
  <1>2. IsolatedInv /\ TypeOK' /\ [Next]_vars => IsolatedInv'
    BY IsolatedStep
  <1>3. IsolatedInv => BalanceExact
    BY DEF IsolatedInv
  <1> QED BY <1>1, <1>2, <1>3, TypeCorrect, PTL DEF Spec
=============================================================================
