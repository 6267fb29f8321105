------------------------------ MODULE DailyLink -----------------------------
(***************************************************************************)
(* The invitation link of the day: a row of the superuser's whose id is in *)
(* Redis for a day.  services/invitations.py, infra/cache.py,              *)
(* crud/crud_invitation_link.py.                                           *)
(*                                                                         *)
(* The id is put into Redis before the transaction that inserts the row    *)
(* has been committed, by every request that finds none; and nothing asks  *)
(* whether the link it names has been used up. Accounts are opened with it *)
(* one at a time here: Accounts is about what happens when they overlap.   *)
(***************************************************************************)
EXTENDS Integers

CONSTANTS
  Askers,   \* threads that may be serving a request for the link
  KeyLife, LinkLife, \* days: 1 and 7
  Quota,             \* remaining_quota of a new link: 100
  MaxRows, MaxDates  \* bounds on the rows and the days

VARIABLES
  dated,  \* dated[n]: the day row n was made, or NoDate unless it is committed
  remaining, \* remaining[n]: remaining_quota of row n
  drawn,  \* ids drawn so far
  key,    \* the id in Redis and the days it stays
  asker,  \* asker[s]: the request thread s is serving
  date,   \* today
  void,   \* history: rows that were rolled back
  dark    \* history: nights for which the id in Redis has been of no use

vars == <<dated, remaining, drawn, key, asker, date, void, dark>>

Ids == 1..MaxRows
NoDate == -1
NoKey == [id |-> 0, left |-> 0]
NoAsker == [pc |-> "idle", id |-> 0, own |-> FALSE]

Init ==
  /\ dated = [n \in Ids |-> NoDate] /\ remaining = [n \in Ids |-> Quota] /\ drawn = 0
  /\ key = NoKey /\ asker = [s \in Askers |-> NoAsker]
  /\ date = 0 /\ void = {} /\ dark = 0

\* get_or_set: what is in Redis, if anything.
Get(s) ==
  /\ asker[s].pc = "idle"
  /\ asker' = [asker EXCEPT ![s] =
       IF key.id = 0 THEN [pc |-> "create", id |-> 0, own |-> FALSE]
                     ELSE [pc |-> "show", id |-> key.id, own |-> FALSE]]
  /\ UNCHANGED <<dated, remaining, drawn, key, date, void, dark>>

\* create_invitation: the row is flushed, which draws its id.
Create(s) ==
  /\ asker[s].pc = "create" /\ drawn < MaxRows
  /\ drawn' = drawn + 1
  /\ asker' = [asker EXCEPT ![s] = [pc |-> "set", id |-> drawn + 1, own |-> TRUE]]
  /\ UNCHANGED <<dated, remaining, key, date, void, dark>>

\* Mutant: the key does not expire.
KeptForGood(n) == [id |-> n, left |-> LinkLife]

Kept(n) == [id |-> n, left |-> KeyLife]

Set(s) ==
  /\ asker[s].pc = "set"
  /\ key' = Kept(asker[s].id)
  /\ asker' = [asker EXCEPT ![s].pc = "show"]
  /\ dark' = 0
  /\ UNCHANGED <<dated, remaining, drawn, date, void>>

\* What the schema of a link says of it.
valid(n) == dated[n] >= 0 /\ date < dated[n] + LinkLife /\ remaining[n] > 0

UsedUp(n) == dated[n] >= 0 /\ remaining[n] = 0

\* The row is read again and shown, or missing; one's own is there in any case.
Show(s) ==
  LET q == asker[s] IN
  /\ q.pc = "show"
  /\ asker' = [asker EXCEPT ![s] = IF q.own THEN [q EXCEPT !.pc = "commit"] ELSE NoAsker]
  /\ UNCHANGED <<dated, remaining, drawn, key, date, void, dark>>

Commit(s) ==
  /\ asker[s].pc = "commit"
  /\ dated' = [dated EXCEPT ![asker[s].id] = date]
  /\ asker' = [asker EXCEPT ![s] = NoAsker]
  /\ UNCHANGED <<remaining, drawn, key, date, void, dark>>

\* Any failure; what is in Redis stays.
Fail(s) ==
  /\ asker[s].pc # "idle"
  /\ asker' = [asker EXCEPT ![s] = NoAsker]
  /\ void' = IF asker[s].own THEN void \cup {asker[s].id} ELSE void
  /\ UNCHANGED <<dated, remaining, drawn, key, date, dark>>

\* An account is opened with a link, which nobody asks whether it has expired.
try_consume_invitation_link_by_uuid(n) ==
  /\ dated[n] >= 0 /\ remaining[n] >= 1
  /\ remaining' = [remaining EXCEPT ![n] = @ - 1]
  /\ UNCHANGED <<dated, drawn, key, asker, date, void, dark>>

\* No request takes a day.
Tomorrow ==
  /\ date < MaxDates /\ date' = date + 1
  /\ \A s \in Askers : asker[s].pc = "idle"
  /\ key' = IF key.left <= 1 THEN NoKey ELSE [key EXCEPT !.left = @ - 1]
  /\ dark' = IF key.id # 0 /\ ~valid(key.id) THEN dark + 1 ELSE dark
  /\ UNCHANGED <<dated, remaining, drawn, asker, void>>

Next ==
  \/ \E s \in Askers : Get(s) \/ Create(s) \/ Set(s) \/ Show(s) \/ Commit(s) \/ Fail(s)
  \/ \E n \in Ids : try_consume_invitation_link_by_uuid(n)
  \/ Tomorrow

Spec == Init /\ [][Next]_vars

-----------------------------------------------------------------------------
Asker == [pc : {"idle", "create", "set", "show", "commit"}, id : 0..MaxRows, own : BOOLEAN]
TypeOK ==
  /\ dated \in [Ids -> Int] /\ remaining \in [Ids -> 0..Quota] /\ drawn \in 0..MaxRows
  /\ key \in [id : 0..MaxRows, left : Nat]
  /\ asker \in [Askers -> Asker]
  /\ date \in Nat /\ void \subseteq Ids /\ dark \in Nat

\* The link that Redis names is valid, or the request that makes it is on its way, or it
\* has been rolled back or used up; of no use it is for as long as an id is kept, at most.
\* Who has been given an id is shown a valid link, one used up, or none if its row is not
\* there: never one that has expired.
DailyLinkHolds ==
  /\ key.id # 0 => \/ valid(key.id) \/ UsedUp(key.id)
                   \/ \E s \in Askers : asker[s].own /\ asker[s].id = key.id
                   \/ key.id \in void
  /\ dark <= KeyLife
  /\ \A s \in Askers :
       LET q == asker[s] IN
       q.pc = "show" /\ ~q.own => valid(q.id) \/ UsedUp(q.id) \/ dated[q.id] = NoDate
=============================================================================
