---------------------------- MODULE Publication ----------------------------
(***************************************************************************)
(* What publishing promises, without requests, tasks and crashes: an item  *)
(* is written as a draft or published at once, a draft may be published,   *)
(* nothing is unpublished, and only what is published is announced, once.  *)
(***************************************************************************)
EXTENDS Naturals

CONSTANT Items
VARIABLES phase, gone, announced

vars == <<phase, gone, announced>>

Init ==
  /\ phase = [i \in Items |-> "absent"]
  /\ gone = [i \in Items |-> FALSE]
  /\ announced = [i \in Items |-> 0]

Write(i) ==
  /\ phase[i] = "absent"
  /\ \E p \in {"draft", "published"} : phase' = [phase EXCEPT ![i] = p]
  /\ UNCHANGED <<gone, announced>>

\* A deleted draft of an article can still be published.
Publish(i) ==
  /\ phase[i] = "draft"
  /\ phase' = [phase EXCEPT ![i] = "published"]
  /\ UNCHANGED <<gone, announced>>

Delete(i) ==
  /\ phase[i] # "absent"
  /\ gone' = [gone EXCEPT ![i] = TRUE]
  /\ UNCHANGED <<phase, announced>>

\* The task does not look at the deletion: it may come between the two.
Announce(i) ==
  /\ phase[i] = "published" /\ announced[i] = 0
  /\ announced' = [announced EXCEPT ![i] = 1]
  /\ UNCHANGED <<phase, gone>>

Next == \E i \in Items : Write(i) \/ Publish(i) \/ Delete(i) \/ Announce(i)

Spec == Init /\ [][Next]_vars
=============================================================================
