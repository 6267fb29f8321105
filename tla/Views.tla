------------------------------- MODULE Views --------------------------------
(***************************************************************************)
(* View counters: a view is pushed on one list in Redis, and a scheduled   *)
(* task takes the whole list now and then and adds it to the counters in   *)
(* the database.                                                           *)
(* services/viewcounts.py, infra/cache.py, infra/scheduler.py.             *)
(*                                                                         *)
(* The scheduler never starts a run while the last one is going on.  The   *)
(* list is counted by object: a run looks at nothing else.                 *)
(***************************************************************************)
EXTENDS Integers, Sequences

CONSTANTS
  Objects,   \* questions, answers, articles, submissions
  MaxViews   \* bound on the views of an object

VARIABLES
  list,      \* list[o]: entries for o on the list in Redis
  counter,   \* counter[o]: the committed view count of o
  step,      \* how many operations of Order the current run has done
  batch,     \* batch[o]: entries for o the current run has read
  views,     \* history: views[o]: how often o was viewed
  late,      \* history: late[o]: entries deleted that the run had not read
  dropped    \* history: dropped[o]: entries taken by runs that failed

past == <<views, late, dropped>>
vars == <<list, counter, step, batch, past>>

Zero == [o \in Objects |-> 0]
Sum(f, g) == [o \in Objects |-> f[o] + g[o]]

Init ==
  /\ list = Zero /\ counter = Zero /\ batch = Zero /\ step = 0
  /\ views = Zero /\ late = Zero /\ dropped = Zero

\* Mutant: the list is deleted when the counters have been committed.
SafeOrder == <<"read", "commit", "delete">>

\* write_view_count_to_db.
Order == <<"read", "delete", "commit">>

Now(op) == step < Len(Order) /\ Order[step + 1] = op
Did(op) == \E n \in 1..step : Order[n] = op
Proceed == step' = IF step + 1 = Len(Order) THEN 0 ELSE step + 1

\* add_view_async.
View(o) ==
  /\ views[o] < MaxViews
  /\ views' = [views EXCEPT ![o] = @ + 1]
  /\ list' = [list EXCEPT ![o] = @ + 1]
  /\ UNCHANGED <<counter, step, batch, late, dropped>>

\* LRANGE.
Read ==
  /\ Now("read") /\ Proceed
  /\ batch' = list
  /\ UNCHANGED <<list, counter, past>>

\* DEL: "Race condition here.  But losing a few view counts is okay".
Delete ==
  /\ Now("delete") /\ Proceed
  /\ list' = Zero
  /\ late' = [o \in Objects |-> late[o] + list[o] - batch[o]]
  /\ UNCHANGED <<counter, batch, views, dropped>>

\* What _add_viewcount_to_db adds: the number of entries, as the Counter has it.
Increment(o) == batch[o]

\* All counters in one transaction; no one else writes them.
Commit ==
  /\ Now("commit") /\ Proceed
  /\ counter' = Sum(counter, [o \in Objects |-> Increment(o)])
  /\ UNCHANGED <<list, batch, past>>

\* The run fails, or the process dies: what it had deleted and not committed is
\* gone.
Fail ==
  /\ step > 0
  /\ step' = 0
  /\ dropped' = IF Did("delete") /\ ~Did("commit") THEN Sum(dropped, batch) ELSE dropped
  /\ UNCHANGED <<list, counter, batch, views, late>>

Next == (\E o \in Objects : View(o)) \/ Read \/ Delete \/ Commit \/ Fail

Spec == Init /\ [][Next]_vars

-----------------------------------------------------------------------------
TypeOK ==
  /\ list \in [Objects -> Nat] /\ counter \in [Objects -> Nat]
  /\ step \in 0..Len(Order)-1 /\ batch \in [Objects -> Nat]
  /\ views \in [Objects -> 0..MaxViews]
  /\ late \in [Objects -> Nat] /\ dropped \in [Objects -> Nat]

\* No view is counted twice, whenever a run fails, and none is lost but in the
\* race of the two Redis commands and with a failed run.
InRun(o) == IF Did("delete") /\ ~Did("commit") THEN batch[o] ELSE 0
ViewsAccounted ==
  \A o \in Objects :
    counter[o] + list[o] + InRun(o) + late[o] + dropped[o] = views[o]
=============================================================================
