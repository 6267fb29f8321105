------------------------------ MODULE MCVotes ------------------------------
(* Instances of Votes for TLC. *)
EXTENDS Votes, TLC

CONSTANTS alice, bob, carol, i1, i2, i3, i4

\* alice writes everything, the others vote.
MCAuthor == [i \in Items |-> alice]

OneAnswer == i1 :> "answer"
AnswerAndQuestion == i1 :> "answer" @@ i2 :> "question"
AllCosts == i1 :> "answer" @@ i2 :> "article" @@ i3 :> "submission" @@ i4 :> "comment"

MCSiteCost == [answer |-> 2, question |-> 2, submission |-> 1]

\* What everybody's items are worth before anyone votes.
MCInitKarma == [u \in Users |->
  MapThenSumSet(LAMBDA i : CreateKarma[Kind[i]], {i \in Items : Author[i] = u})]

\* bob can pay for one first vote and not for two; carol for two.
MCInitCoins == alice :> 0 @@ bob :> 3 @@ carol :> 4
=============================================================================
