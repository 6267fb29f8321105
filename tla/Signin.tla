------------------------------- MODULE Signin -------------------------------
(***************************************************************************)
(* Passwords, sessions and profiles: logging in, mailing a letter that     *)
(* lets its reader set a new password, setting it, and a user's update of  *)
(* what the account says, with the karma a profile is worth and the audit  *)
(* log.  services/auth.py, services/me.py update_me, security.py,          *)
(* crud/crud_user.py, crud/crud_audit_log.py, karma.py.                    *)
(*                                                                         *)
(* A request reads the row of its account and writes when it commits,      *)
(* columns that it changed only; a row that has been flushed is locked     *)
(* until then, so that flush, refresh and commit are one step.  Rows of    *)
(* the audit log are held back for an hour by a key in Redis, set before   *)
(* the row that it stands for is committed.  How addresses are proved is   *)
(* the subject of Accounts, bot tokens are that of Tokens.                 *)
(***************************************************************************)
EXTENDS Integers, FiniteSets

CONSTANTS
  People,       \* accounts, open or to be opened
  Retired,      \* accounts that have been made inactive, by hand
  Addresses, NoAddress,
  FirstAddress, \* FirstAddress[p]: login address p starts with, or NoAddress
  Passwords,
  Profile,      \* PROFILE_FIELDS
  Slots,        \* threads that may be serving a request
  MaxCalls,     \* bound on the requests
  SoloPeople    \* accounts whose requests happen never to overlap

VARIABLES
  account,  \* account[p]: the row of user p
  tokens,   \* accounts for which an access token has been handed out
  letters,  \* addresses for whom a letter is out whose token is good
  keys,     \* keys of the audit log in Redis
  trail,    \* what the audit log has at least one row for
  call,     \* call[s]: the request thread s is serving, with what it has read
  calls,    \* requests so far
  acts,     \* history: what was done that the audit log should tell
  failed,   \* history: keys set by a request that then failed
  strays    \* history: accounts entered, or given a password, with what was no longer theirs

past == <<acts, failed, strays>>
vars == <<account, tokens, letters, keys, trail, call, calls, past>>

Row == [email : Addresses \cup {NoAddress}, password : Passwords,
        activated : BOOLEAN, filled : SUBSET Profile, karma : Int]
SomePassword == CHOOSE w \in Passwords : TRUE
SomePerson == CHOOSE p \in People : TRUE

\* One thing that update_me changes, of those that the body may name.
Change == [what : {"profile", "password", "flags"}, to : SUBSET Profile,
           secret : Passwords, flag : BOOLEAN]
NoChange == [what |-> "profile", to |-> {}, secret |-> SomePassword, flag |-> FALSE]
Changes ==
  {[NoChange EXCEPT !.to = f] : f \in SUBSET Profile}
    \cup {[NoChange EXCEPT !.what = "password", !.secret = w] : w \in Passwords}
    \cup {[NoChange EXCEPT !.what = "flags", !.flag = b] : b \in BOOLEAN}

Ops == {"login", "recover", "reset", "update"}
Call == [pc : {"idle", "audit", "mail", "commit"}, op : Ops, p : People,
         a : Addresses \cup {NoAddress}, w : Passwords, row : Row, change : Change,
         logs : BOOLEAN]  \* whether it writes a row of the audit log

FirstRow(p) == [email |-> FirstAddress[p], password |-> SomePassword,
                activated |-> FALSE, filled |-> {}, karma |-> 0]
NoCall == [pc |-> "idle", op |-> "login", p |-> SomePerson, a |-> NoAddress,
           w |-> SomePassword, row |-> FirstRow(SomePerson), change |-> NoChange, logs |-> FALSE]

Init ==
  /\ account = [p \in People |-> FirstRow(p)]
  /\ tokens = {} /\ letters = {} /\ keys = {} /\ trail = {}
  /\ call = [s \in Slots |-> NoCall] /\ calls = 0
  /\ acts = {} /\ failed = {} /\ strays = {}

-----------------------------------------------------------------------------
(* Requests begin.                                                         *)

Idle(p) == \A t \in Slots : call[t].pc # "idle" => call[t].p # p

\* A request about account p, which is there.
Starts(s, q) ==
  /\ call[s].pc = "idle" /\ calls < MaxCalls
  /\ account[q.p].email # NoAddress
  /\ q.p \in SoloPeople => Idle(q.p)
  /\ call' = [call EXCEPT ![s] = q]
  /\ calls' = calls + 1
  /\ UNCHANGED <<account, tokens, letters, keys, trail, past>>

Asks(op, p, w) ==
  [NoCall EXCEPT !.pc = "audit", !.op = op, !.p = p, !.a = account[p].email, !.w = w,
                 !.row = account[p]]

\* authenticate, and _login_user, which refuses inactive accounts.
LoginWithPassword(s) ==
  \E p \in People \ Retired : Starts(s, Asks("login", p, account[p].password))

\* recover_password, for any address that is someone's.
RecoverPassword(s) == \E p \in People : Starts(s, Asks("recover", p, SomePassword))

\* The letter says which address it was mailed to: the account is whose it is now.
Addressed(p) == account[p].email \in letters

\* reset_password, by whoever reads the letter.
ResetPassword(s) ==
  \E p \in People \ Retired, w \in Passwords : Addressed(p) /\ Starts(s, Asks("reset", p, w))

\* update_me, with a token; of what it may change, one thing at a time.
UpdateMe(s) ==
  \E p \in tokens, change \in Changes :
    Starts(s, [Asks("update", p, SomePassword) EXCEPT !.pc = "commit", !.change = change])

-----------------------------------------------------------------------------
(* The audit log, the letter.                                              *)

Entry(q) == IF q.op = "recover" THEN <<q.op, q.p, q.a>> ELSE <<q.op, q.p>>

\* create_with_user.  Two requests that look at the same time write two rows.
Audit(s) ==
  LET q == call[s] IN
  /\ q.pc = "audit"
  /\ keys' = keys \cup {Entry(q)}
  /\ call' = [call EXCEPT ![s].pc = IF q.op = "recover" THEN "mail" ELSE "commit",
                          ![s].logs = Entry(q) \notin keys]
  /\ UNCHANGED <<account, tokens, letters, trail, calls, past>>

ExpireKey(k) ==
  /\ keys' = keys \ {k}
  /\ UNCHANGED <<account, tokens, letters, trail, call, calls, past>>

\* send_reset_password_email, before the request commits.
Mail(s) ==
  LET q == call[s] IN
  /\ q.pc = "mail"
  /\ letters' = letters \cup {q.a}
  /\ call' = [call EXCEPT ![s].pc = "commit"]
  /\ UNCHANGED <<account, tokens, keys, trail, calls, past>>

ExpireLetter(a) ==
  /\ letters' = letters \ {a}
  /\ UNCHANGED <<account, tokens, keys, trail, call, calls, past>>

-----------------------------------------------------------------------------
(* Requests end.                                                           *)

\* Fields that were changed, on top of what the row has by now.
Filled(q) ==
  LET now == account[q.p].filled IN
  (now \ (q.row.filled \ q.change.to)) \cup (q.change.to \ q.row.filled)

\* Mutant: what the profile was worth is measured after it has been assigned.
MeasuredLate(q) == account[q.p].karma

\* karma.tracked: the profile as loaded was worth so much, as refreshed it is so much.
Karma(q) == account[q.p].karma + Cardinality(Filled(q)) - Cardinality(q.row.filled)

\* The flag, appended once, or as the body has it where that differs from the row read.
Activated(q) ==
  LET now == account[q.p] IN
  IF q.op = "login" THEN now.activated \/ ~q.row.activated
  ELSE IF q.change.flag = q.row.activated THEN now.activated ELSE q.change.flag

\* What update_me assigns: the profile with what it is worth, the password, the flag.
Profiled(q) == [account[q.p] EXCEPT !.filled = Filled(q), !.karma = Karma(q)]

Changed(q) ==
  LET now == account[q.p] IN
  CASE q.change.what = "profile" -> Profiled(q)
    [] q.change.what = "password" -> [now EXCEPT !.password = q.change.secret]
    [] q.change.what = "flags" -> [now EXCEPT !.activated = Activated(q)]

Updated(q) ==
  LET now == account[q.p] IN
  CASE q.op = "login" -> [now EXCEPT !.activated = Activated(q)]
    [] q.op = "recover" -> now
    [] q.op = "reset" -> [now EXCEPT !.password = q.w]
    [] q.op = "update" -> Changed(q)

\* What q presented is not the account's any more.
Stray(q) ==
  \/ q.op = "login" /\ q.w # account[q.p].password
  \/ q.op = "reset" /\ q.a # account[q.p].email

Commit(s) ==
  LET q == call[s] IN
  /\ q.pc = "commit"
  /\ account' = [account EXCEPT ![q.p] = Updated(q)]
  /\ tokens' = IF q.op = "login" THEN tokens \cup {q.p} ELSE tokens
  /\ trail' = IF q.logs THEN trail \cup {Entry(q)} ELSE trail
  /\ acts' = IF q.op = "update" THEN acts ELSE acts \cup {Entry(q)}
  /\ strays' = IF Stray(q) THEN strays \cup {q.p} ELSE strays
  /\ call' = [call EXCEPT ![s] = NoCall]
  /\ UNCHANGED <<letters, keys, calls, failed>>

\* Any exception: rolled back, but letters and keys stay.
Abort(s) ==
  LET q == call[s] IN
  /\ q.pc # "idle"
  /\ failed' = IF q.logs THEN failed \cup {Entry(q)} ELSE failed
  /\ call' = [call EXCEPT ![s] = NoCall]
  /\ UNCHANGED <<account, tokens, letters, keys, trail, calls, acts, strays>>

\* create, for an address and a handle that are nobody's.
Free(a) == \A p \in People : account[p].email # a

OpenAccount(p, a, w) ==
  /\ account[p].email = NoAddress /\ Free(a)
  /\ account' = [account EXCEPT ![p].email = a, ![p].password = w]
  /\ UNCHANGED <<tokens, letters, keys, trail, call, calls, past>>

\* The login address is changed, to one that is proved.
UpdateLoginEmail(p, a) ==
  /\ p \in tokens /\ Free(a) /\ (p \in SoloPeople => Idle(p))
  /\ account' = [account EXCEPT ![p].email = a]
  /\ UNCHANGED <<tokens, letters, keys, trail, call, calls, past>>

Next ==
  \/ \E s \in Slots :
       \/ LoginWithPassword(s) \/ RecoverPassword(s) \/ ResetPassword(s) \/ UpdateMe(s)
       \/ Audit(s) \/ Mail(s) \/ Commit(s) \/ Abort(s)
  \/ \E k \in keys : ExpireKey(k)
  \/ \E a \in letters : ExpireLetter(a)
  \/ \E p \in People, a \in Addresses :
       \/ UpdateLoginEmail(p, a)
       \/ \E w \in Passwords : OpenAccount(p, a, w)

Spec == Init /\ [][Next]_vars

-----------------------------------------------------------------------------
TypeOK ==
  /\ account \in [People -> Row]
  /\ tokens \subseteq People \ Retired
  /\ letters \subseteq Addresses
  /\ call \in [Slots -> Call] /\ calls \in 0..MaxCalls

\* An account is entered with the password it has, and gets a new one through a
\* letter mailed to the address it has, however often it has changed both, unless
\* its requests overlap; until then a user's karma is what the profile is worth; and
\* every token, letter and reset is in the audit log, or the request that set the key
\* has yet to commit its row, or has failed.
CredentialsHold ==
  /\ strays \cap SoloPeople = {}
  /\ \A p \in SoloPeople : account[p].karma = Cardinality(account[p].filled)
  /\ acts \subseteq trail \cup failed \cup {Entry(call[s]) : s \in {t \in Slots : call[t].logs}}
=============================================================================
