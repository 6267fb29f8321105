------------------------------ MODULE VoteBook ------------------------------
(***************************************************************************)
(* What voting promises, without requests, snapshots or cached counters: a *)
(* book of votes.  Karma and the upvote count are not kept but recomputed  *)
(* from the book, and the first vote of a user on an item, and only the    *)
(* first, moves the item's price to its author.  Votes implements this     *)
(* when requests do not overlap.                                           *)
(***************************************************************************)
EXTENDS Integers, FiniteSets, FiniteSetsExt

CONSTANTS Users, Items, Author,
          Price,     \* Price[i]: coins of a first vote on i
          Charged,   \* items whose first vote records a payment
          Base,      \* Base[i]: karma for having written i
          PerVote,   \* PerVote[i]: karma for each active vote on i
          InitCoins

VARIABLES row, deleted, hidden, coins, karma, paid

bookVars == <<row, deleted, hidden, coins, karma, paid>>

\* Karma of u according to the book.
Worth(u) ==
  MapThenSumSet(LAMBDA i : Base[i] + PerVote[i] * Cardinality({v \in Users : row[i][v] = "active"}),
                {i \in Items : Author[i] = u /\ ~deleted[i] /\ ~hidden[i]})

Init ==
  /\ row = [i \in Items |-> [u \in Users |-> "none"]]
  /\ deleted = [i \in Items |-> FALSE]
  /\ hidden = [i \in Items |-> FALSE]
  /\ coins = InitCoins
  /\ karma = [u \in Users |-> Worth(u)]
  /\ paid = [i \in Items |-> [u \in Users |-> 0]]

FirstVote(u, i) ==
  /\ u # Author[i] /\ row[i][u] = "none"
  /\ row' = [row EXCEPT ![i][u] = "active"]
  /\ IF i \in Charged
     THEN /\ coins[u] >= Price[i]
          /\ coins' = [coins EXCEPT ![u] = @ - Price[i], ![Author[i]] = @ + Price[i]]
          /\ paid' = [paid EXCEPT ![i][u] = 1]
     ELSE UNCHANGED <<coins, paid>>
  /\ UNCHANGED <<deleted, hidden>>

CancelVote(u, i) ==
  /\ row[i][u] = "active"
  /\ row' = [row EXCEPT ![i][u] = "cancelled"]
  /\ UNCHANGED <<deleted, hidden, coins, paid>>

\* Free, but refused to a voter who could not pay for a first vote.
ReviveVote(u, i) ==
  /\ row[i][u] = "cancelled"
  /\ i \in Charged => coins[u] >= Price[i]
  /\ row' = [row EXCEPT ![i][u] = "active"]
  /\ UNCHANGED <<deleted, hidden, coins, paid>>

Delete(i) ==
  /\ deleted' = [deleted EXCEPT ![i] = TRUE]
  /\ UNCHANGED <<row, hidden, coins, paid>>

SetHidden(i, b) ==
  /\ hidden' = [hidden EXCEPT ![i] = b]
  /\ UNCHANGED <<row, deleted, coins, paid>>

Next ==
  /\ \E i \in Items :
       \/ \E u \in Users : FirstVote(u, i) \/ CancelVote(u, i) \/ ReviveVote(u, i)
       \/ Delete(i)
       \/ \E b \in BOOLEAN : SetHidden(i, b)
  /\ karma' = [u \in Users |-> Worth(u)']

Spec == Init /\ [][Next]_bookVars
=============================================================================
