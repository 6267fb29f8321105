------------------------------- MODULE Tokens -------------------------------
(***************************************************************************)
(* Access tokens of bots and their revocation.  A token is a stateless JWT *)
(* stamped with the user's bot_token_version; revoking moves the counter,  *)
(* and a token stamped before it moved is refused.  Every request compares *)
(* with a copy of the counter in Redis, filled from the row on a miss,     *)
(* dropped after the commit of a revocation and gone after a minute.       *)
(*                                                                         *)
(* Requests run concurrently; every action is one Redis command, one query *)
(* or one commit.  token_version is not modelled: nothing in the program   *)
(* moves it, so that check always succeeds, and with it that of website    *)
(* sessions.                                                               *)
(***************************************************************************)
EXTENDS Integers, FiniteSets

CONSTANTS
  Users,        \* accounts, each with a bot linked when the behaviour starts
  Codes,        \* link codes that may be issued
  Owner,        \* Owner[c]: the user who generates c
  Slots,        \* threads that may be serving a request
  MaxRequests,  \* bound on the requests a behaviour contains
  OrderedUsers  \* users whose revocations happen never to overlap

ASSUME ConstantsAssumption ==
  /\ Users # {} /\ Codes # {}
  /\ Owner \in [Codes -> Users]
  /\ MaxRequests \in Nat
  /\ OrderedUsers \subseteq Users

VARIABLES
  version,  \* version[u]: u.bot_token_version
  cache,    \* cache[u]: Redis' copy of it, or Miss
  code,     \* code[c]: the key of link code c in Redis
  tokens,   \* the tokens bots hold
  req,      \* req[s]: the request thread s is serving
  served,   \* requests started so far
  minted,   \* history: tokens minted for link code c
  late      \* history: the copy was filled from an outdated read, or not dropped

store == <<version, cache, code, tokens>>
history == <<minted, late>>
vars == <<store, req, served, history>>

Miss == -1

\* born is history: the counter when the token was minted.
Token == [user : Users, bver : Nat, born : Nat]

Steps == {"idle", "get", "row", "set", "decide", "load", "commit", "drop",
          "getdel", "mint"}

Request == [pc : Steps, op : {"use", "revoke", "claim"}, code : Codes,
            token : Token,
            website : BOOLEAN,  \* the token's user comes from the website instead
            seen : Nat,         \* the counter as current_versions returns it
            loaded : Nat,       \* the counter in the user row, as loaded
            since : Nat,        \* history: the counter when the request began
            doubt : BOOLEAN]    \* history: the copy could be outdated then

SomeToken == [user |-> CHOOSE u \in Users : TRUE, bver |-> 0, born |-> 0]
Idle == [pc |-> "idle", op |-> "use", token |-> SomeToken, website |-> FALSE,
         code |-> CHOOSE c \in Codes : TRUE, seen |-> 0, loaded |-> 0,
         since |-> 0, doubt |-> FALSE]

Init ==
  /\ version = [u \in Users |-> 0]
  /\ cache = [u \in Users |-> Miss]
  /\ code = [c \in Codes |-> "unissued"]
  /\ tokens = {[user |-> u, bver |-> 0, born |-> 0] : u \in Users}
  /\ req = [s \in Slots |-> Idle]
  /\ served = 0
  /\ minted = [c \in Codes |-> 0]
  /\ late = [u \in Users |-> FALSE]

-----------------------------------------------------------------------------
At(s, step) == req[s].pc = step
Revoking(s) == req[s].op = "revoke" /\ req[s].pc # "idle"

\* A committed revocation has yet to drop the copy.
DropPending(u) == \E s \in Slots : At(s, "drop") /\ req[s].token.user = u

\* A reader is about to store a counter that has moved since it read it.
FillPending(u) == \E s \in Slots :
  At(s, "set") /\ req[s].token.user = u /\ req[s].seen # version[u]

Stale(u) == cache[u] # Miss /\ cache[u] # version[u]

Step(s, q) == req' = [req EXCEPT ![s] = q] /\ UNCHANGED served

Start(s, q) ==
  /\ At(s, "idle") /\ served < MaxRequests
  /\ req' = [req EXCEPT ![s] = q]
  /\ served' = served + 1
  /\ UNCHANGED <<store, history>>

\* generate_link_code, from the website: the key is set, no token is minted.
Generate(c) ==
  /\ code[c] = "unissued"
  /\ code' = [code EXCEPT ![c] = "live"]
  /\ UNCHANGED <<version, cache, tokens, req, served, history>>

\* Mutant: the copy is stored without a lifetime.
NoLifetime(u) == FALSE

Lifetime(u) == cache[u] # Miss

\* Redis forgets the copy, and a code that nobody redeemed.
CacheExpires(u) ==
  /\ Lifetime(u)
  /\ cache' = [cache EXCEPT ![u] = Miss]
  /\ late' = [late EXCEPT ![u] = FALSE]
  /\ UNCHANGED <<version, code, tokens, req, served, minted>>

CodeExpires(c) ==
  /\ code[c] = "live"
  /\ code' = [code EXCEPT ![c] = "gone"]
  /\ UNCHANGED <<version, cache, tokens, req, served, history>>

-----------------------------------------------------------------------------
(* A request that presents a token, by a bot or from a website session of  *)
(* its user: deps.get_current_user_id.                                     *)

\* A website session does to the copy what a bot does, so only its revocations
\* are apart; its user's first bot token stands for the user.
Present(s) ==
  \E t \in tokens, op \in {"use", "revoke"}, w \in BOOLEAN :
    /\ w => op = "revoke" /\ t.born = 0
    /\ op = "revoke" /\ t.user \in OrderedUsers =>
         \A r \in Slots : Revoking(r) => req[r].token.user # t.user
    /\ Start(s, [Idle EXCEPT !.pc = "get", !.op = op, !.token = t, !.website = w,
                             !.since = version[t.user],
                             !.doubt = DropPending(t.user) \/ FillPending(t.user)
                                       \/ late[t.user]])

Get(s) ==
  LET q == req[s]
      copy == cache[q.token.user]
  IN
  /\ At(s, "get")
  /\ Step(s, IF copy = Miss THEN [q EXCEPT !.pc = "row"]
             ELSE [q EXCEPT !.pc = "decide", !.seen = copy])
  /\ UNCHANGED <<store, history>>

ReadRow(s) ==
  /\ At(s, "row")
  /\ Step(s, [req[s] EXCEPT !.pc = "set", !.seen = version[req[s].token.user]])
  /\ UNCHANGED <<store, history>>

\* The answer of the query is stored without looking again.
SetCopy(s) ==
  LET u == req[s].token.user IN
  /\ At(s, "set")
  /\ cache' = [cache EXCEPT ![u] = req[s].seen]
  /\ late' = [late EXCEPT ![u] = req[s].seen # version[u]]
  /\ Step(s, [req[s] EXCEPT !.pc = "decide"])
  /\ UNCHANGED <<version, code, tokens, minted>>

\* Only the tokens of bots are compared with this counter.
Refused(q) == ~q.website /\ q.token.bver < q.seen

Decide(s) ==
  LET q == req[s] IN
  /\ At(s, "decide")
  /\ Step(s, IF Refused(q) \/ q.op = "use" THEN Idle ELSE [q EXCEPT !.pc = "load"])
  /\ UNCHANGED <<store, history>>

-----------------------------------------------------------------------------
(* Revoking: the user row is loaded, the new counter is a literal.         *)

Load(s) ==
  /\ At(s, "load")
  /\ Step(s, [req[s] EXCEPT !.pc = "commit", !.loaded = version[req[s].token.user]])
  /\ UNCHANGED <<store, history>>

Bumped(q) == q.loaded + 1

\* Mutant: the copy is dropped within the transaction.
NothingAfter == "idle"

\* The after_commit listener of _forget_on_commit.
AfterCommit == "drop"

Commit(s) ==
  LET q == req[s] IN
  /\ At(s, "commit")
  /\ version' = [version EXCEPT ![q.token.user] = Bumped(q)]
  /\ Step(s, [q EXCEPT !.pc = AfterCommit])
  /\ UNCHANGED <<cache, code, tokens, history>>

Dropped(u) == Miss

Drop(s) ==
  LET u == req[s].token.user IN
  /\ At(s, "drop")
  /\ cache' = [cache EXCEPT ![u] = Dropped(u)]
  /\ late' = [late EXCEPT ![u] = FALSE]
  /\ Step(s, Idle)
  /\ UNCHANGED <<version, code, tokens, minted>>

-----------------------------------------------------------------------------
(* Redeeming a code, by a bot that knows a configured secret.              *)

Claim(s) == \E c \in Codes :
  Start(s, [Idle EXCEPT !.pc = "getdel", !.op = "claim", !.code = c])

\* Mutant: the code is read and only expires later.
LeftAlone(c) == code[c]

\* GETDEL.
Taken(c) == "gone"

GetDel(s) ==
  LET c == req[s].code IN
  /\ At(s, "getdel")
  /\ IF code[c] = "live"
     THEN /\ code' = [code EXCEPT ![c] = Taken(c)]
          /\ Step(s, [req[s] EXCEPT !.pc = "mint"])
     ELSE Step(s, Idle) /\ UNCHANGED code
  /\ UNCHANGED <<version, cache, tokens, history>>

Stamp(u) == version[u]

\* The user is loaded and the token stamped in one go.
Mint(s) ==
  LET c == req[s].code
      u == Owner[c]
  IN
  /\ At(s, "mint")
  /\ tokens' = tokens \cup {[user |-> u, bver |-> Stamp(u), born |-> version[u]]}
  /\ minted' = [minted EXCEPT ![c] = @ + 1]
  /\ Step(s, Idle)
  /\ UNCHANGED <<version, cache, code, late>>

\* An exception, an inactive user, Redis or the database down, the end of the
\* process: nothing that was not committed happens, the drop included.
Abort(s) ==
  LET u == req[s].token.user IN
  /\ ~At(s, "idle")
  /\ late' = [late EXCEPT ![u] = @ \/ (At(s, "drop") /\ Stale(u))]
  /\ Step(s, Idle)
  /\ UNCHANGED <<store, minted>>

Advance(s) ==
  \/ Get(s) \/ ReadRow(s) \/ SetCopy(s) \/ Decide(s) \/ Load(s) \/ Commit(s) \/ Drop(s)
  \/ GetDel(s) \/ Mint(s)

Next ==
  \/ \E u \in Users : CacheExpires(u)
  \/ \E c \in Codes : Generate(c) \/ CodeExpires(c)
  \/ \E s \in Slots : Present(s) \/ Claim(s) \/ Advance(s) \/ Abort(s)

Spec == Init /\ [][Next]_vars

\* Threads keep serving what they have accepted, and Redis honours lifetimes.
Fairness ==
  /\ \A s \in Slots : WF_vars(Advance(s))
  /\ \A u \in Users : WF_vars(CacheExpires(u))

FairSpec == Spec /\ Fairness

-----------------------------------------------------------------------------
TypeOK ==
  /\ version \in [Users -> Nat]
  /\ cache \in [Users -> Nat \cup {Miss}]
  /\ code \in [Codes -> {"unissued", "live", "gone"}]
  /\ tokens \subseteq Token
  /\ req \in [Slots -> Request]
  /\ served \in 0..MaxRequests
  /\ minted \in [Codes -> Nat]
  /\ late \in [Users -> BOOLEAN]

\* The copy in Redis is outdated only from the commit of a revocation to the
\* drop that follows it, or after the one race a read-through cache cannot
\* close (or a drop that was never made), until it expires.
StaleOnlyInWindow == \A u \in Users : Stale(u) => DropPending(u) \/ late[u]

\* Two bots racing on the same code are not both handed a token.
SingleUse == \A c \in Codes : minted[c] <= 1

\* A request that begins when the copy is in order decides by a counter at least
\* as new as the one of that moment, whatever is read, stored and revoked while
\* it looks: what had been revoked before it began is refused.
RevocationIsSeen ==
  \A s \in Slots :
    LET q == req[s] IN
    At(s, "decide") /\ ~q.doubt /\ q.token.user \in OrderedUsers => q.seen >= q.since

\* "A later unlink refuses this token", and only a later one: a token minted
\* since the last revocation is accepted, whatever the age of the copy.
FreshTokensWork ==
  \A s \in Slots :
    LET q == req[s]
        u == q.token.user
    IN At(s, "decide") /\ u \in OrderedUsers /\ q.token.born = version[u] => ~Refused(q)

\* "Refuse every bot token this user holds": also those minted between the load
\* and the commit of the revocation, and whichever token authorised it.
RevokesAll ==
  [][\A s \in Slots :
       LET u == req[s].token.user IN
       At(s, "commit") /\ req'[s].pc = "drop" /\ u \in OrderedUsers =>
         \A t \in tokens : t.user = u => t.bver < version'[u]]_vars

\* When requests end, the copies end up right, those filled too late included.
CopyConverges == \A u \in Users : <>[]~Stale(u)
-----------------------------------------------------------------------------
(* The instance that is checked: link codes are of a user who revokes in   *)
(* sequence.                                                               *)
OfOrdered == [c \in Codes |-> CHOOSE u \in OrderedUsers : TRUE]
=============================================================================
