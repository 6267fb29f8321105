----------------------------- MODULE Suggestion -----------------------------
(***************************************************************************)
(* What readers and authors are promised about a suggestion: it is open    *)
(* until it is taken back or accepted, it may be reopened after it was     *)
(* taken back, and its text goes into the content exactly when it is       *)
(* accepted, once and for good.                                            *)
(***************************************************************************)
EXTENDS Naturals

CONSTANT Suggestions

VARIABLES
  phase,   \* phase[g]: where suggestion g stands
  uses     \* uses[g]: how often its text has been put into the content

vars == <<phase, uses>>

Init ==
  /\ phase = [g \in Suggestions |-> "absent"]
  /\ uses = [g \in Suggestions |-> 0]

Move(g, from, to) == phase[g] = from /\ phase' = [phase EXCEPT ![g] = to]

Propose(g) == Move(g, "absent", "open") /\ UNCHANGED uses
Retract(g) == Move(g, "open", "retracted") /\ UNCHANGED uses
Reopen(g) == Move(g, "retracted", "open") /\ UNCHANGED uses
Accept(g) == Move(g, "open", "accepted") /\ uses' = [uses EXCEPT ![g] = @ + 1]

Next == \E g \in Suggestions : Propose(g) \/ Retract(g) \/ Reopen(g) \/ Accept(g)

Spec == Init /\ [][Next]_vars
=============================================================================
