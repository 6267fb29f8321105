------------------------------ MODULE Payments ------------------------------
(***************************************************************************)
(* What is paid for and paid out: writing an article and creating a site   *)
(* are paid to the superuser, and passing the welcome test earns its score *)
(* once.  services/articles.py, sites.py, welcome_test.py, forms.py,       *)
(* crud/crud_coin_payment.py, crud_coin_deposit.py, coins.py.              *)
(*                                                                         *)
(* A request is one transaction.  Balances are written as numbers computed *)
(* from the rows the request has loaded; a row that a transaction has      *)
(* written, or a key it has inserted, makes others wait for its end.       *)
(***************************************************************************)
EXTENDS Integers, FiniteSets, SequencesExt

CONSTANTS
  People,     \* accounts
  Superuser,  \* the one who is paid
  Threads,    \* threads that may be serving a request
  FirstCoins, \* FirstCoins[p]: coins of p when the behaviour starts
  ArticleCost, SiteCost,
  Subdomains, \* subdomains a site may be created with
  Fields,     \* scored fields of the welcome test
  Worth,      \* Worth[f]: score per correct choice of f
  Correct,    \* Correct[f]: the correct choices of f
  Options,    \* Options[f]: the choices of f
  Multiple,   \* fields that allow several choices
  Sheets,     \* Sheets[p]: what p may fill in as form responses, each a sequence of choices per field
  MaxPayments, \* bound on the requests of a behaviour
  Careful     \* people who send one request at a time

VARIABLES
  coins,    \* coins[p]: remaining_coins
  claimed,  \* people whose row says that they have claimed the reward
  deposits, \* people with a CoinDeposit for the welcome test: ref_id is unique
  sites,    \* subdomains taken
  order,      \* order[t]: the request thread t is serving, with what it has read
  asked,    \* requests so far
  spent,    \* history: spent[p]: the price of what p has written and created
  earned    \* history: earned[p]: the deposits p has had, one by one

store == <<coins, claimed, deposits, sites>>
past == <<spent, earned>>
vars == <<store, order, asked, past>>

NoName == "none"
Free == [pc |-> "idle", op |-> "none", who |-> Superuser, name |-> NoName,
         mine |-> 0, theirs |-> 0, marked |-> FALSE, amount |-> 0]

Init ==
  /\ coins = FirstCoins
  /\ claimed = {} /\ deposits = {} /\ sites = {} /\ asked = 0
  /\ order = [t \in Threads |-> Free]
  /\ spent = [p \in People |-> 0] /\ earned = [p \in People |-> <<>>]

-----------------------------------------------------------------------------
(* The welcome test.                                                       *)

\* validate_form_response, when the form is filled in.
Valid(sheet) ==
  \A f \in Fields :
    /\ Range(sheet[f]) \subseteq Options[f]
    /\ f \in Multiple \/ Len(sheet[f]) = 1

\* create_form_response: what has been accepted as p's responses.
Filled(p) == {sheet \in Sheets[p] : Valid(sheet)}

Entries(chosen, set) == Cardinality({n \in DOMAIN chosen : chosen[n] \in set})

\* One field of compute_score_of_form_response: a wrong choice costs only where
\* several are allowed.
FieldScore(f, chosen) ==
  IF f \in Multiple
  THEN Worth[f] * (2 * Entries(chosen, Correct[f]) - Len(chosen))
  ELSE Worth[f] * Entries(chosen, Correct[f])

FullScore == MapThenSumSet(LAMBDA f : Worth[f] * Cardinality(Correct[f]), Fields)
Score(sheet) == Max({0, MapThenSumSet(LAMBDA f : FieldScore(f, sheet[f]), Fields)})

\* PASS_RATIO is 0.6.
Passes(sheet) == 10 * Score(sheet) >= 6 * FullScore

-----------------------------------------------------------------------------
(* Requests.                                                               *)

Price(op) == CASE op = "article" -> ArticleCost [] op = "site" -> SiteCost [] OTHER -> 0

\* get_current_active_user loads the row of the one who asks.
Begin(t, p) ==
  /\ order[t].pc = "idle" /\ asked < MaxPayments
  /\ p \in Careful => \A u \in Threads : order[u].pc # "idle" => order[u].who # p
  /\ asked' = asked + 1
  /\ \E op \in {"article", "site", "claim"} :
     \E name \in IF op = "site" THEN Subdomains ELSE {NoName} :
       order' = [order EXCEPT ![t] = [Free EXCEPT !.pc = "check", !.op = op, !.who = p,
                 !.name = name, !.mine = coins[p], !.marked = p \in claimed]]
  /\ UNCHANGED <<store, past>>

\* The superuser creates sites without having the coins; whoever asks has the karma.
Affords(j) == j.mine >= Price(j.op) \/ (j.op = "site" /\ j.who = Superuser)

\* The checks of create_article and create_site_for_user, and the row of the
\* superuser loaded.
CheckCreation(t) ==
  LET j == order[t] IN
  /\ j.pc = "check" /\ j.op \in {"article", "site"}
  /\ Affords(j) /\ j.name \notin sites
  /\ order' = [order EXCEPT ![t].pc = "write", ![t].theirs = coins[Superuser]]
  /\ UNCHANGED <<store, asked, past>>

Unclaimed(j) == ~j.marked

\* claim_welcome_test_rewards with one of one's own form responses.
CheckClaim(t) ==
  LET j == order[t] IN
  /\ j.pc = "check" /\ j.op = "claim"
  /\ Unclaimed(j)
  /\ \E sheet \in Filled(j.who) :
       /\ Passes(sheet)
       /\ order' = [order EXCEPT ![t].pc = "write", ![t].amount = Score(sheet)]
  /\ UNCHANGED <<store, asked, past>>

\* Rows of users a request writes; paying oneself changes nothing.
Writes(j) ==
  CASE j.op = "claim" -> {j.who}
    [] j.op # "claim" /\ j.who = Superuser -> {}
    [] OTHER -> {j.who, Superuser}

\* The rows and the subdomain are free of other transactions, and none has
\* taken the unique key meanwhile: an IntegrityError otherwise.
Waits(t) ==
  \E u \in Threads \ {t} :
    /\ order[u].pc = "commit"
    /\ Writes(order[u]) \cap Writes(order[t]) # {} \/ (order[t].op = "site" /\ order[u].name = order[t].name)

\* Mutant: deposits are told apart by more than their payee.
NoKeyTaken(j) == j.name \in sites

KeyTaken(j) == j.name \in sites \/ (j.op = "claim" /\ j.who \in deposits)

Write(t) ==
  /\ order[t].pc = "write" /\ ~Waits(t) /\ ~KeyTaken(order[t])
  /\ order' = [order EXCEPT ![t].pc = "commit"]
  /\ UNCHANGED <<store, asked, past>>

\* make_payment and make_deposit: the balances as computed from the loaded rows.
Balances(j) ==
  CASE j.op = "claim" -> [coins EXCEPT ![j.who] = j.mine + j.amount]
    [] j.op # "claim" /\ j.who = Superuser -> coins
    [] OTHER -> [coins EXCEPT ![j.who] = j.mine - Price(j.op),
                              ![Superuser] = j.theirs + Price(j.op)]

Commit(t) ==
  LET j == order[t] IN
  /\ j.pc = "commit"
  /\ coins' = Balances(j)
  /\ claimed' = IF j.op = "claim" THEN claimed \cup {j.who} ELSE claimed
  /\ deposits' = IF j.op = "claim" THEN deposits \cup {j.who} ELSE deposits
  /\ sites' = sites \cup ({j.name} \ {NoName})
  /\ spent' = [spent EXCEPT ![j.who] = @ + Price(j.op)]
  /\ earned' = IF j.op = "claim" THEN [earned EXCEPT ![j.who] = Append(@, j.amount)] ELSE earned
  /\ order' = [order EXCEPT ![t] = Free]
  /\ UNCHANGED asked

\* A check fails, something raises or the process dies before the commit.
Abort(t) ==
  /\ order[t].pc # "idle"
  /\ order' = [order EXCEPT ![t] = Free]
  /\ UNCHANGED <<store, asked, past>>

Next ==
  \E t \in Threads :
    \/ \E p \in People : Begin(t, p)
    \/ CheckCreation(t) \/ CheckClaim(t) \/ Write(t) \/ Commit(t) \/ Abort(t)

Spec == Init /\ [][Next]_vars

-----------------------------------------------------------------------------
TypeOK ==
  /\ coins \in [People -> Int] /\ claimed \cup deposits \subseteq People
  /\ sites \subseteq Subdomains /\ asked \in 0..MaxPayments
  /\ \A t \in Threads : order[t].pc \in {"idle", "check", "write", "commit"}
  /\ spent \in [People -> Nat] /\ earned \in [People -> Seq(Nat)]

\* However claims overlap, the welcome test is rewarded once, with a score that
\* passes and, when no choice was listed twice, is at most the full score.
Repeats(sheet) == \E f \in Fields : Cardinality(Range(sheet[f])) # Len(sheet[f])
RewardedOnce ==
  /\ claimed = deposits
  /\ \A p \in People :
       /\ earned[p] # <<>> <=> p \in deposits
       /\ Len(earned[p]) <= 1
       /\ \A n \in DOMAIN earned[p] :
            /\ 10 * earned[p][n] >= 6 * FullScore
            /\ (\A sheet \in Filled(p) : ~Repeats(sheet)) => earned[p][n] <= FullScore

\* No one spends more than there is, whatever overlaps; and someone who sends one
\* request at a time has paid for exactly what was written and created.
Total(s) == FoldSeq(LAMBDA x, y : x + y, 0, s)
SpendingExact ==
  \A p \in People \ {Superuser} :
    /\ coins[p] >= 0
    /\ p \in Careful => coins[p] = FirstCoins[p] - spent[p] + Total(earned[p])

\* The welcome test pays once, and nothing that is written or created is free.
PaymentsExact == RewardedOnce /\ SpendingExact
=============================================================================
