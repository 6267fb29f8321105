------------------------------ MODULE Rewards ------------------------------
(***************************************************************************)
(* Rewards: a giver puts coins aside for a receiver, who claims them while *)
(* the reward has not expired and its condition holds; the giver may take  *)
(* them back.  services/rewards.py and crud/crud_reward.py.                *)
(*                                                                         *)
(* Requests run concurrently and each is one transaction: every Read*      *)
(* action is one query, Commit* is the flush together with the commit, and *)
(* the principal's balance is written back as a literal computed from what *)
(* the request had loaded.                                                 *)
(***************************************************************************)
EXTENDS Integers, FiniteSets

CONSTANTS
  Users,        \* accounts
  Rewards,      \* identities of the rewards that may be created
  Amounts,      \* coin amounts a giver may offer
  InitCoins,    \* InitCoins[u]: coins of u when the behaviour starts
  Slots,        \* threads that may be serving a request
  MaxRequests,  \* bound on the requests a behaviour contains
  IsolatedUsers \* users whose requests happen never to overlap

ASSUME ConstantsAssumption ==
  /\ Users # {} /\ Rewards # {}
  /\ Amounts \subseteq Nat \ {0}    \* RewardCreate rejects anything else
  /\ InitCoins \in [Users -> Nat]
  /\ MaxRequests \in Nat
  /\ IsolatedUsers \subseteq Users

VARIABLES
  reward,   \* reward[r]: the Reward row
  expired,  \* expired[r]: expired_at has passed
  met,      \* met[r]: an answer to the question is readable by the giver
  coins,    \* coins[u]: u.remaining_coins
  req,      \* req[s]: the request thread s is serving, with what it has read
  served,   \* requests started so far
  book,     \* history: the coins every user should have, change by change
  claims,   \* history: claims of r answered with success
  refunds,  \* history: refunds of r answered with success
  everMet   \* history: the condition of r has held at some time

store == <<reward, expired, met, coins>>
history == <<book, claims, refunds, everMet>>
vars == <<store, req, served, history>>

Row == [made : BOOLEAN, giver : Users, receiver : Users, amount : Nat,
        conditional : BOOLEAN, claimed : BOOLEAN, refunded : BOOLEAN]

Someone == CHOOSE u \in Users : TRUE
NoRow == [made |-> FALSE, giver |-> Someone, receiver |-> Someone, amount |-> 0,
          conditional |-> FALSE, claimed |-> FALSE, refunded |-> FALSE]

Ops == {"create", "claim", "refund"}
Steps == {"idle", "user", "reward", "condition", "commit"}

Request == [pc : Steps, op : Ops, user : Users, id : Rewards,
            row : Row,     \* the reward as loaded, or the one asked for
            coins : Nat]   \* the principal's balance, as loaded

Idle == [pc |-> "idle", op |-> "claim", user |-> Someone,
         id |-> CHOOSE r \in Rewards : TRUE, row |-> NoRow, coins |-> 0]

Init ==
  /\ reward = [r \in Rewards |-> NoRow]
  /\ expired = [r \in Rewards |-> FALSE]
  /\ met = [r \in Rewards |-> FALSE]
  /\ coins = InitCoins
  /\ req = [s \in Slots |-> Idle]
  /\ served = 0
  /\ book = InitCoins
  /\ claims = [r \in Rewards |-> 0]
  /\ refunds = [r \in Rewards |-> 0]
  /\ everMet = [r \in Rewards |-> FALSE]

-----------------------------------------------------------------------------
(* The world around the requests.                                          *)

\* expired_at passes.
Expire(r) ==
  /\ reward[r].made /\ ~expired[r]
  /\ expired' = [expired EXCEPT ![r] = TRUE]
  /\ UNCHANGED <<reward, met, coins, req, served, history>>

\* Somebody publishes, hides or deletes an answer, or the giver leaves the site;
\* the question is there before the reward.
ConditionChanges(r) ==
  /\ reward[r].made => reward[r].conditional
  /\ met' = [met EXCEPT ![r] = ~met[r]]
  /\ everMet' = [everMet EXCEPT ![r] = TRUE]
  /\ UNCHANGED <<reward, expired, coins, req, served, book, claims, refunds>>

-----------------------------------------------------------------------------
(* The queries of a request, in the order the handlers issue them.         *)

At(s, step) == req[s].pc = step

Isolated(u) == \A t \in Slots : req[t].pc = "idle" \/ req[t].user # u

Start(s, q) ==
  /\ At(s, "idle") /\ served < MaxRequests
  /\ q.user \in IsolatedUsers => Isolated(q.user)
  /\ req' = [req EXCEPT ![s] = q]
  /\ served' = served + 1
  /\ UNCHANGED <<store, history>>

Learn(s, q) ==
  /\ req' = [req EXCEPT ![s] = q]
  /\ UNCHANGED <<store, served, history>>

\* create_reward with the id the row will get; a giver may name himself.
BeginCreate(s) ==
  \E u, v \in Users, r \in Rewards, n \in Amounts, c \in BOOLEAN :
    /\ ~reward[r].made
    /\ \A t \in Slots : req[t].pc # "idle" /\ req[t].op = "create" => req[t].id # r
    /\ Start(s, [pc |-> "user", op |-> "create", user |-> u, id |-> r, coins |-> 0,
                 row |-> [NoRow EXCEPT !.made = TRUE, !.giver = u, !.receiver = v,
                                       !.amount = n, !.conditional = c]])

\* claim_reward loads the reward first, refund_reward the principal.
BeginPayout(s) ==
  \E u \in Users, r \in Rewards, op \in {"claim", "refund"} :
    Start(s, [Idle EXCEPT !.pc = IF op = "claim" THEN "reward" ELSE "user",
                          !.op = op, !.user = u, !.id = r])

\* The checks made on the row as loaded.
MayPay(q, row) ==
  /\ row.made
  /\ q.user = IF q.op = "claim" THEN row.receiver ELSE row.giver
  /\ ~row.claimed
  /\ ~row.refunded

ReadReward(s) ==
  LET q == req[s]
      row == reward[q.id]
  IN
  /\ At(s, "reward")
  /\ Learn(s, IF MayPay(q, row)
              THEN [q EXCEPT !.row = row,
                             !.pc = IF q.op = "claim" THEN "user" ELSE "commit"]
              ELSE Idle)

\* create_reward checks the balance it has just loaded.
Affordable(q, balance) == q.op = "create" => balance >= q.row.amount

\* claim_reward compares expired_at with the clock; refund_reward does not.
OnTime(q) == q.op = "claim" => ~expired[q.id]

\* ctx.get_current_active_user(), and the checks that follow it.
ReadUser(s) ==
  LET q == req[s]
      balance == coins[q.user]
      next == CASE q.op = "create" -> "commit"
                [] q.op = "refund" -> "reward"
                [] OTHER -> IF q.row.conditional THEN "condition" ELSE "commit"
  IN
  /\ At(s, "user")
  /\ Learn(s, IF Affordable(q, balance) /\ OnTime(q)
              THEN [q EXCEPT !.coins = balance, !.pc = next]
              ELSE Idle)

\* Mutant: the condition is evaluated but not insisted on.
ConditionAnyway(r) == TRUE

\* Some answer to the question can be read by the giver.
Condition(r) == met[r]

ReadCondition(s) ==
  LET q == req[s] IN
  /\ At(s, "condition")
  /\ Learn(s, IF Condition(q.id) THEN [q EXCEPT !.pc = "commit"] ELSE Idle)

\* Mutant: nobody is charged.
ChargedNothing(q) == q.coins

\* coins.deduct_coins and award_coins: literals from the loaded balance.
Charged(q) == q.coins - q.row.amount
Paid(q) == q.coins + q.row.amount

Finish(s) == req' = [req EXCEPT ![s] = Idle] /\ UNCHANGED served

CommitCreate(s) ==
  LET q == req[s] IN
  /\ At(s, "commit") /\ q.op = "create"
  /\ reward' = [reward EXCEPT ![q.id] = q.row]
  /\ coins' = [coins EXCEPT ![q.user] = Charged(q)]
  /\ book' = [book EXCEPT ![q.user] = @ - q.row.amount]
  /\ Finish(s)
  /\ UNCHANGED <<expired, met, claims, refunds, everMet>>

\* Sets claimed_at or refunded_at, then db.refresh(reward) before any flush: the
\* session does not autoflush, so the row is reloaded and the mark is gone.
Marked(q) == reward[q.id]

CommitPayout(s) ==
  LET q == req[s] IN
  /\ At(s, "commit") /\ q.op \in {"claim", "refund"}
  /\ reward' = [reward EXCEPT ![q.id] = Marked(q)]
  /\ coins' = [coins EXCEPT ![q.user] = Paid(q)]
  /\ book' = [book EXCEPT ![q.user] = @ + q.row.amount]
  /\ claims' = [claims EXCEPT ![q.id] = IF q.op = "claim" THEN @ + 1 ELSE @]
  /\ refunds' = [refunds EXCEPT ![q.id] = IF q.op = "refund" THEN @ + 1 ELSE @]
  /\ Finish(s)
  /\ UNCHANGED <<expired, met, everMet>>

\* An exception (the receiver cannot answer there, the client's receiver does
\* not exist, a failed notification): rolled back.
Abort(s) ==
  /\ ~At(s, "idle")
  /\ Learn(s, Idle)

Next ==
  \/ \E r \in Rewards : Expire(r) \/ ConditionChanges(r)
  \/ \E s \in Slots :
       \/ BeginCreate(s) \/ BeginPayout(s)
       \/ ReadReward(s) \/ ReadUser(s) \/ ReadCondition(s)
       \/ CommitCreate(s) \/ CommitPayout(s) \/ Abort(s)

Spec == Init /\ [][Next]_vars

-----------------------------------------------------------------------------
TypeOK ==
  /\ reward \in [Rewards -> Row]
  /\ expired \in [Rewards -> BOOLEAN]
  /\ met \in [Rewards -> BOOLEAN]
  /\ coins \in [Users -> Int]
  /\ req \in [Slots -> Request]
  /\ served \in 0..MaxRequests
  /\ book \in [Users -> Int]
  /\ claims \in [Rewards -> Nat]
  /\ refunds \in [Rewards -> Nat]
  /\ everMet \in [Rewards -> BOOLEAN]

\* However requests of one user overlap, no balance goes below zero: what is
\* written is the checked balance less the amount, not a decrement of the row.
NoDebt == \A u \in Users : coins[u] >= 0

\* A conditional reward is paid to its receiver only if its condition has held:
\* the answers are read again by every claim, after the reward itself.
ClaimsAreEarned ==
  \A r \in Rewards : claims[r] > 0 /\ reward[r].conditional => everMet[r]

\* The balance of a user whose requests do not overlap is what creating, claiming
\* and refunding add up to, whatever the others do.
BalanceExact == \A u \in IsolatedUsers : coins[u] = book[u]

\* "The reward is already claimed", "The reward is already refunded": the coins
\* set aside for a reward leave it at most once.
PaidOutOnce == \A r \in Rewards : claims[r] + refunds[r] <= 1
-----------------------------------------------------------------------------
(* The instances that are checked: who keeps to one request at a time can  *)
(* pay for no reward of two coins, the others for one and not for two.     *)
FewCoins == [u \in Users |-> IF u \in IsolatedUsers THEN 1 ELSE 3]
=============================================================================
