------------------------------ MODULE Accounts ------------------------------
(***************************************************************************)
(* The addresses of accounts and the codes that prove them: a code is      *)
(* mailed and kept in Redis, presented to open an account, to change the   *)
(* login address or to add another address, and used up by that.           *)
(* services/accounts.py, services/auth.py, services/me.py, security.py,    *)
(* services/invitations.py.                                                *)
(*                                                                         *)
(* A request loads its account, then looks at the code and deletes it in   *)
(* two steps of Redis, then commits.  Code number n is the n-th mailed.    *)
(***************************************************************************)
EXTENDS Integers

CONSTANTS
  People,       \* accounts, open or to be opened
  Addresses,    \* e-mail addresses
  FirstAddress, \* FirstAddress[p]: login address p starts with, or NoAddress
  Slots,        \* threads that may be serving a request
  MaxCodes,     \* bound on the codes mailed
  MaxDemands,   \* bound on the other requests
  Places,       \* accounts the invitation link is good for
  SoloPeople    \* accounts whose requests happen never to overlap

VARIABLES
  login,     \* login[p]: the address of account p, NoAddress if it is not open
  other,     \* other[p][a]: how often a is among its secondary addresses
  places,    \* remaining quota of the invitation link
  mailed,    \* mailed[n]: where code n was mailed
  code,      \* code[a]: the code Redis has for a
  used,      \* history: used[n]: committed requests that presented code n
  seen,      \* history: codes two requests have both seen before either deleted it
  shown,     \* history: shown[p]: addresses for which p has presented a code
  wanted,    \* history: wanted[p]: addresses p has had and not given up
  demand,    \* demand[s]: the request thread s is serving, with what it has read
  demands    \* requests so far, other than for codes

rows == <<login, other, places>>
past == <<used, seen, shown, wanted>>
vars == <<rows, mailed, code, past, demand, demands>>

NoAddress == "none"
Codes == 1..MaxCodes
NoCode == 0
Sent(n) == mailed[n] # NoAddress

Ops == {"mail", "open", "login", "add", "remove", "phone"}
Demand == [pc : {"idle", "register", "code", "delete", "commit"}, op : Ops, p : People,
           a : Addresses, n : Codes \cup {NoCode},
           login : Addresses \cup {NoAddress},   \* the row as loaded
           other : [Addresses -> Nat], places : 0..Places]
NoDemand == [pc |-> "idle", op |-> "mail", p |-> CHOOSE p \in People : TRUE,
             a |-> CHOOSE a \in Addresses : TRUE, n |-> NoCode, login |-> NoAddress,
             other |-> [a \in Addresses |-> 0], places |-> 0]

Init ==
  /\ login = FirstAddress
  /\ other = [p \in People |-> [a \in Addresses |-> 0]]
  /\ places = Places
  /\ mailed = [n \in Codes |-> NoAddress] /\ code = [a \in Addresses |-> NoCode]
  /\ used = [n \in Codes |-> 0] /\ seen = {}
  /\ shown = [p \in People |-> {FirstAddress[p]} \ {NoAddress}]
  /\ wanted = [p \in People |-> {FirstAddress[p]} \ {NoAddress}]
  /\ demand = [s \in Slots |-> NoDemand] /\ demands = 0

-----------------------------------------------------------------------------
(* Codes.                                                                  *)

\* send_verification_code: mailed first, then registered.
MailCode(s) ==
  \E n \in Codes, a \in Addresses :
    /\ demand[s].pc = "idle" /\ ~Sent(n) /\ \A m \in 1..n-1 : Sent(m)
    /\ mailed' = [mailed EXCEPT ![n] = a]
    /\ demand' = [demand EXCEPT ![s] = [NoDemand EXCEPT !.pc = "register", !.a = a, !.n = n]]
    /\ UNCHANGED <<rows, code, past, demands>>

\* The new code takes the place of an older one.
RegisterCode(s) ==
  LET q == demand[s] IN
  /\ q.pc = "register"
  /\ code' = [code EXCEPT ![q.a] = q.n]
  /\ demand' = [demand EXCEPT ![s] = NoDemand]
  /\ UNCHANGED <<rows, mailed, past, demands>>

Expire(a) ==
  /\ code[a] # NoCode
  /\ code' = [code EXCEPT ![a] = NoCode]
  /\ UNCHANGED <<rows, mailed, past, demand, demands>>

-----------------------------------------------------------------------------
(* Requests.                                                               *)

Solo(p) == \A t \in Slots : demand[t].pc # "idle" /\ demand[t].op # "mail" => demand[t].p # p
Taken(a) == \E p \in People : login[p] = a

\* Whether a code is asked for: not to remove an address, nor to make a secondary
\* address of the account its login address.
ByCode(op, p, a) == op # "remove" /\ ~(op = "login" /\ other[p][a] > 0)

\* What each operation checks on the account as loaded.
Admissible(op, p, a) ==
  CASE op = "open" -> login[p] = NoAddress /\ places >= 1 /\ ~Taken(a)
    [] op = "login" -> login[p] # NoAddress /\ ~Taken(a)
    [] op = "add" -> login[p] # NoAddress /\ other[p][a] = 0
    [] op = "remove" -> login[p] # NoAddress /\ other[p][a] > 0
    [] op = "phone" -> login[p] # NoAddress

Begin(s) ==
  \E op \in Ops \ {"mail"}, p \in People, a \in Addresses :
    /\ demand[s].pc = "idle" /\ demands < MaxDemands
    /\ p \in SoloPeople => Solo(p)
    /\ Admissible(op, p, a)
    /\ \E n \in IF ByCode(op, p, a) THEN {m \in Codes : mailed[m] = a} ELSE {NoCode} :
         demand' = [demand EXCEPT ![s] =
           [pc |-> IF n = NoCode THEN "commit" ELSE "code", op |-> op, p |-> p, a |-> a,
            n |-> n, login |-> login[p], other |-> other[p], places |-> places]]
    /\ demands' = demands + 1
    /\ UNCHANGED <<rows, mailed, code, past>>

LookAtCode(s) ==
  LET q == demand[s] IN
  /\ q.pc = "code" /\ code[q.a] = q.n
  /\ demand' = [demand EXCEPT ![s].pc = "delete"]
  /\ seen' = IF \E t \in Slots : demand[t].pc = "delete" /\ demand[t].n = q.n
             THEN seen \cup {q.n} ELSE seen
  /\ UNCHANGED <<rows, mailed, code, used, shown, wanted, demands>>

\* Mutant: the code is left to expire.
KeepCode(a) == code

WithoutCode(a) == [code EXCEPT ![a] = NoCode]

\* DEL of the key, whatever code is there by now.
DeleteCode(s) ==
  LET q == demand[s] IN
  /\ q.pc = "delete"
  /\ code' = WithoutCode(q.a)
  /\ demand' = [demand EXCEPT ![s].pc = "commit"]
  /\ UNCHANGED <<rows, mailed, past, demands>>

\* The whole list is written, made from the list as loaded.  The old login
\* address becomes a secondary one.
Secondary(q) ==
  CASE q.op = "login" ->
         LET left == [q.other EXCEPT ![q.a] = IF @ > 0 THEN @ - 1 ELSE 0] IN
         [left EXCEPT ![q.login] = @ + 1]
    [] q.op = "add" -> [q.other EXCEPT ![q.a] = @ + 1]
    [] q.op = "remove" -> [q.other EXCEPT ![q.a] = @ - 1]
    [] OTHER -> q.other

\* Login address and handle are unique keys.  A phone number is verified and then
\* not stored: accounts have no such column.
Commit(s) ==
  LET q == demand[s] IN
  /\ q.pc = "commit"
  /\ q.op \in {"open", "login"} => ~Taken(q.a) /\ (q.op = "open" => login[q.p] = NoAddress)
  /\ login' = IF q.op \in {"open", "login"} THEN [login EXCEPT ![q.p] = q.a] ELSE login
  /\ other' = IF q.op \in {"login", "add", "remove"}
              THEN [other EXCEPT ![q.p] = Secondary(q)] ELSE other
  /\ places' = IF q.op = "open" THEN q.places - 1 ELSE places
  /\ used' = IF q.n = NoCode THEN used ELSE [used EXCEPT ![q.n] = @ + 1]
  /\ shown' = IF q.n = NoCode \/ q.op = "phone" THEN shown
              ELSE [shown EXCEPT ![q.p] = @ \cup {q.a}]
  /\ wanted' = CASE q.op = "remove" -> [wanted EXCEPT ![q.p] = @ \ {q.a}]
                 [] q.op = "phone" -> wanted
                 [] OTHER -> [wanted EXCEPT ![q.p] = @ \cup {q.a}]
  /\ demand' = [demand EXCEPT ![s] = NoDemand]
  /\ UNCHANGED <<mailed, code, seen, demands>>

\* Refused, or any exception: rolled back, but a code that was deleted stays so.
Abort(s) ==
  /\ demand[s].pc # "idle"
  /\ demand' = [demand EXCEPT ![s] = NoDemand]
  /\ UNCHANGED <<rows, mailed, code, past, demands>>

Next ==
  \/ \E s \in Slots :
       \/ MailCode(s) \/ RegisterCode(s) \/ Begin(s) \/ LookAtCode(s)
       \/ DeleteCode(s) \/ Commit(s) \/ Abort(s)
  \/ \E a \in Addresses : Expire(a)

-----------------------------------------------------------------------------
TypeOK ==
  /\ login \in [People -> Addresses \cup {NoAddress}]
  /\ other \in [People -> [Addresses -> Nat]] /\ places \in 0..Places
  /\ mailed \in [Codes -> Addresses \cup {NoAddress}]
  /\ code \in [Addresses -> Codes \cup {NoCode}]
  /\ used \in [Codes -> Nat] /\ seen \subseteq Codes
  /\ shown \in [People -> SUBSET Addresses] /\ wanted \in [People -> SUBSET Addresses]
  /\ demand \in [Slots -> Demand] /\ demands \in 0..MaxDemands

Has(p) == ({login[p]} \ {NoAddress}) \cup {a \in Addresses : other[p][a] > 0}

\* A code is good for one request, unless two have seen it before either deleted
\* it; and whatever overlaps, every address of an account was proved with a code by
\* that account.
CodesProve ==
  /\ \A n \in Codes \ seen : used[n] <= 1
  /\ \A p \in People : Has(p) \subseteq shown[p]

\* An account whose requests do not overlap loses no address that it has not
\* removed, through changes of the login address too.
AddressesKept == \A p \in SoloPeople : wanted[p] \subseteq Has(p)

\* The addresses of an account are those it proved, once each, and has not removed.
AddressesHold == CodesProve /\ AddressesKept
=============================================================================
