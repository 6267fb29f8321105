---------------------------- MODULE TokensProofs ----------------------------
(***************************************************************************)
(* Proofs about Tokens, for any users, codes, threads and requests.        *)
(***************************************************************************)
EXTENDS Tokens, TLAPS

-----------------------------------------------------------------------------
(* Types.                                                                  *)

LEMMA IdleType == Idle \in Request
  <1>1. (CHOOSE u \in Users : TRUE) \in Users /\ (CHOOSE c \in Codes : TRUE) \in Codes
    BY ConstantsAssumption
  <1> QED BY <1>1 DEF Idle, SomeToken, Request, Steps, Token

LEMMA TypeInit == Init => TypeOK
  BY IdleType, ConstantsAssumption DEF Init, TypeOK, Token, Miss

LEMMA StartType ==
  ASSUME TypeOK, NEW s \in Slots, NEW q \in Request, Start(s, q)
  PROVE TypeOK'
  BY ConstantsAssumption DEF Start, TypeOK, store, history

LEMMA TypeStep ==
  ASSUME TypeOK, [Next]_vars
  PROVE TypeOK'
  <1>1. CASE UNCHANGED vars
    BY <1>1 DEF TypeOK, vars, store, history
  <1>2. ASSUME NEW u \in Users, CacheExpires(u) PROVE TypeOK'
    BY <1>2 DEF CacheExpires, TypeOK
  <1>3. ASSUME NEW c \in Codes, Generate(c) \/ CodeExpires(c) PROVE TypeOK'
    BY <1>3 DEF Generate, CodeExpires, TypeOK, history
  <1>4. ASSUME NEW s \in Slots, Present(s) PROVE TypeOK'
    <2>1. PICK t \in tokens, op \in {"use", "revoke"}, w \in BOOLEAN :
            Start(s, [Idle EXCEPT !.pc = "get", !.op = op, !.token = t, !.website = w,
                                  !.since = version[t.user],
                                  !.doubt = DropPending(t.user) \/ FillPending(t.user)
                                            \/ late[t.user]])
      BY <1>4 DEF Present
    <2>2. t \in Token /\ version[t.user] \in Nat
      BY DEF TypeOK, Token
    <2>3. (DropPending(t.user) \/ FillPending(t.user) \/ late[t.user]) \in BOOLEAN
      BY DEF DropPending, FillPending, TypeOK, Token
    <2>4. [Idle EXCEPT !.pc = "get", !.op = op, !.token = t, !.website = w,
                       !.since = version[t.user],
                       !.doubt = DropPending(t.user) \/ FillPending(t.user)
                                 \/ late[t.user]] \in Request
      BY <2>2, <2>3, IdleType DEF Request, Steps
    <2> QED BY <2>1, <2>4, StartType
  <1>5. ASSUME NEW s \in Slots, Claim(s) PROVE TypeOK'
    <2>1. PICK c \in Codes :
            Start(s, [Idle EXCEPT !.pc = "getdel", !.op = "claim", !.code = c])
      BY <1>5 DEF Claim
    <2>2. [Idle EXCEPT !.pc = "getdel", !.op = "claim", !.code = c] \in Request
      BY IdleType DEF Request, Steps
    <2> QED BY <2>1, <2>2, StartType
  <1>6. ASSUME NEW s \in Slots, Advance(s) PROVE TypeOK'
    <2>1. req[s] \in Request /\ version[req[s].token.user] \in Nat
      BY DEF TypeOK, Request, Token
    <2>2. CASE Get(s)
      <3>1. cache[req[s].token.user] # Miss => cache[req[s].token.user] \in Nat
        BY <2>1 DEF TypeOK, Request, Token
      <3> QED BY <2>1, <2>2, <3>1 DEF Get, Step, TypeOK, Request, Steps, store, history
    <2>3. CASE ReadRow(s)
      BY <2>1, <2>3 DEF ReadRow, Step, TypeOK, Request, Steps, store, history
    <2>4. CASE SetCopy(s)
      BY <2>1, <2>4 DEF SetCopy, Step, TypeOK, Request, Steps
    <2>5. CASE Decide(s)
      <3>1. PICK q \in Request : Step(s, q)
        BY <2>1, <2>5, IdleType DEF Decide, Request, Steps
      <3> QED BY <2>5, <3>1 DEF Decide, Step, TypeOK, store, history
    <2>6. CASE Load(s)
      BY <2>1, <2>6 DEF Load, Step, TypeOK, Request, Steps, store, history
    <2>7. CASE Commit(s)
      <3>1. req[s].loaded + 1 \in Nat /\ [req[s] EXCEPT !.pc = "drop"] \in Request
        BY <2>1 DEF Request, Steps
      <3>2. version' \in [Users -> Nat]
        BY <2>7, <3>1 DEF Commit, Bumped, TypeOK
      <3> QED BY <2>7, <3>1, <3>2 DEF Commit, AfterCommit, Step, TypeOK, history
    <2>8. CASE Drop(s)
      <3>1. cache' \in [Users -> Nat \cup {Miss}] /\ late' \in [Users -> BOOLEAN]
        BY <2>8 DEF Drop, Dropped, TypeOK
      <3> QED BY <2>8, <3>1, IdleType DEF Drop, Step, TypeOK
    <2>9. CASE GetDel(s)
      BY <2>1, <2>9, IdleType DEF GetDel, Taken, Step, TypeOK, Request, Steps, history
    <2>10. CASE Mint(s)
      <3>1. Owner[req[s].code] \in Users
        BY <2>1, ConstantsAssumption DEF Request
      <3>2. version[Owner[req[s].code]] \in Nat
        BY <3>1 DEF TypeOK
      <3> QED BY <2>1, <2>10, <3>1, <3>2, IdleType DEF Mint, Stamp, Step, TypeOK, Request, Token
    <2> QED BY <1>6, <2>2, <2>3, <2>4, <2>5, <2>6, <2>7, <2>8, <2>9, <2>10 DEF Advance
  <1>7. ASSUME NEW s \in Slots, Abort(s) PROVE TypeOK'
    BY <1>7, IdleType DEF Abort, Stale, At, Step, TypeOK, Request, Token, store
  <1> QED BY <1>1, <1>2, <1>3, <1>4, <1>5, <1>6, <1>7 DEF Next

\* Every reachable state is well typed: a counter read is one that was written.
THEOREM TypeCorrect == Spec => []TypeOK
  <1>1. Init => TypeOK
    BY TypeInit
  <1>2. TypeOK /\ [Next]_vars => TypeOK'
    BY TypeStep
  <1> QED BY <1>1, <1>2, PTL DEF Spec

-----------------------------------------------------------------------------
(* The strengthenings that make the invariants inductive.                  *)

\* A code that is being redeemed, or has been, is gone.
CodesSpent ==
  \A c \in Codes :
    code[c] # "gone" => /\ minted[c] = 0
                        /\ \A s \in Slots : At(s, "mint") => req[s].code # c

\* A code is in the hands of one request at a time, before any token is minted.
OneRedeemer ==
  \A s \in Slots : At(s, "mint") =>
    /\ minted[req[s].code] = 0
    /\ \A t \in Slots \ {s} : At(t, "mint") => req[t].code # req[s].code

RaceInv == TypeOK /\ StaleOnlyInWindow /\ CodesSpent /\ OneRedeemer /\ SingleUse

LEMMA RaceInit == Init => RaceInv
  <1> SUFFICES ASSUME Init PROVE RaceInv
    OBVIOUS
  <1>1. TypeOK
    BY TypeInit
  <1>2. StaleOnlyInWindow
    BY DEF Init, StaleOnlyInWindow, Stale
  <1>3. CodesSpent /\ OneRedeemer /\ SingleUse
    BY DEF Init, CodesSpent, OneRedeemer, SingleUse, At, Idle
  <1> QED BY <1>1, <1>2, <1>3 DEF RaceInv

\* A step of another request leaves a pending drop pending.
LEMMA DropStaysPending ==
  ASSUME TypeOK, NEW s \in Slots, NEW q, req' = [req EXCEPT ![s] = q], ~At(s, "drop"),
         NEW u \in Users, DropPending(u)
  PROVE DropPending(u)'
  <1>1. PICK r \in Slots : At(r, "drop") /\ req[r].token.user = u
    BY DEF DropPending
  <1>2. r # s /\ req'[r] = req[r]
    BY <1>1 DEF TypeOK
  <1> QED BY <1>1, <1>2 DEF DropPending, At

\* As long as neither the copy nor the counter nor a pending drop changes.
LEMMA WindowKept ==
  ASSUME TypeOK, StaleOnlyInWindow, NEW s \in Slots, NEW q,
         req' = [req EXCEPT ![s] = q], ~At(s, "drop"), UNCHANGED <<version, cache, late>>
  PROVE StaleOnlyInWindow'
  <1>1. SUFFICES ASSUME NEW u \in Users, Stale(u)' PROVE DropPending(u)' \/ late'[u]
    BY DEF StaleOnlyInWindow
  <1>2. DropPending(u) \/ late[u]
    BY <1>1 DEF StaleOnlyInWindow, Stale
  <1> QED BY <1>2, DropStaysPending

LEMMA WindowStep ==
  ASSUME TypeOK, StaleOnlyInWindow, [Next]_vars
  PROVE StaleOnlyInWindow'
  <1>1. CASE UNCHANGED vars
    BY <1>1 DEF StaleOnlyInWindow, Stale, DropPending, At, vars, store, history
  <1>2. ASSUME NEW u \in Users, CacheExpires(u) PROVE StaleOnlyInWindow'
    BY <1>2 DEF CacheExpires, StaleOnlyInWindow, Stale, DropPending, At, TypeOK
  <1>3. ASSUME NEW c \in Codes, Generate(c) \/ CodeExpires(c) PROVE StaleOnlyInWindow'
    BY <1>3 DEF Generate, CodeExpires, StaleOnlyInWindow, Stale, DropPending, At, history
  <1>4. ASSUME NEW s \in Slots, Present(s) \/ Claim(s) PROVE StaleOnlyInWindow'
    <2>1. PICK q : Start(s, q)
      BY <1>4 DEF Present, Claim
    <2> QED BY <2>1, WindowKept DEF Start, At, store, history
  <1>5. ASSUME NEW s \in Slots,
               Get(s) \/ ReadRow(s) \/ Decide(s) \/ Load(s) \/ GetDel(s) \/ Mint(s)
        PROVE StaleOnlyInWindow'
    <2>1. PICK q : Step(s, q)
      BY <1>5 DEF Get, ReadRow, Decide, Load, GetDel, Mint
    <2>2. ~At(s, "drop") /\ UNCHANGED <<version, cache, late>>
      BY <1>5 DEF Get, ReadRow, Decide, Load, GetDel, Mint, At, store, history
    <2> QED BY <2>1, <2>2, WindowKept DEF Step
  <1>6. ASSUME NEW s \in Slots, SetCopy(s) PROVE StaleOnlyInWindow'
    <2>1. SUFFICES ASSUME NEW u \in Users, Stale(u)' PROVE DropPending(u)' \/ late'[u]
      BY DEF StaleOnlyInWindow
    <2>2. CASE u = req[s].token.user
      BY <1>6, <2>1, <2>2 DEF SetCopy, Stale, TypeOK
    <2>3. CASE u # req[s].token.user
      <3>1. DropPending(u) \/ late[u]
        BY <1>6, <2>1, <2>3 DEF SetCopy, Stale, StaleOnlyInWindow, TypeOK
      <3>2. ~At(s, "drop") /\ late'[u] = late[u]
        BY <1>6, <2>3 DEF SetCopy, At, TypeOK
      <3> QED BY <1>6, <3>1, <3>2, DropStaysPending DEF SetCopy, Step
    <2> QED BY <2>2, <2>3
  <1>7. ASSUME NEW s \in Slots, Commit(s) PROVE StaleOnlyInWindow'
    <2>1. SUFFICES ASSUME NEW u \in Users, Stale(u)' PROVE DropPending(u)' \/ late'[u]
      BY DEF StaleOnlyInWindow
    <2>2. CASE u = req[s].token.user
      <3>1. req'[s].pc = "drop" /\ req'[s].token.user = u
        BY <1>7, <2>2 DEF Commit, AfterCommit, Step, TypeOK, Request
      <3> QED BY <3>1 DEF DropPending, At
    <2>3. CASE u # req[s].token.user
      <3>1. DropPending(u) \/ late[u]
        BY <1>7, <2>1, <2>3 DEF Commit, Stale, StaleOnlyInWindow, TypeOK
      <3>2. ~At(s, "drop") /\ late' = late
        BY <1>7 DEF Commit, At, history
      <3> QED BY <1>7, <3>1, <3>2, DropStaysPending DEF Commit, Step
    <2> QED BY <2>2, <2>3
  <1>8. ASSUME NEW s \in Slots, Drop(s) PROVE StaleOnlyInWindow'
    <2>1. SUFFICES ASSUME NEW u \in Users, Stale(u)' PROVE DropPending(u)' \/ late'[u]
      BY DEF StaleOnlyInWindow
    <2>2. u # req[s].token.user
      BY <1>8, <2>1 DEF Drop, Dropped, Stale, TypeOK
    <2>3. DropPending(u) \/ late[u]
      BY <1>8, <2>1, <2>2 DEF Drop, Stale, StaleOnlyInWindow, TypeOK
    <2>4. late'[u] = late[u]
      BY <1>8, <2>2 DEF Drop, TypeOK
    <2>5. DropPending(u) => DropPending(u)'
      BY <1>8, <2>2 DEF Drop, Step, DropPending, At, TypeOK
    <2> QED BY <2>3, <2>4, <2>5
  <1>9. ASSUME NEW s \in Slots, Abort(s) PROVE StaleOnlyInWindow'
    <2>1. SUFFICES ASSUME NEW u \in Users, Stale(u)' PROVE DropPending(u)' \/ late'[u]
      BY DEF StaleOnlyInWindow
    <2>2. Stale(u) /\ (DropPending(u) \/ late[u])
      BY <1>9, <2>1 DEF Abort, Stale, StaleOnlyInWindow, store
    <2>3. late[u] => late'[u]
      BY <1>9 DEF Abort, TypeOK
    <2>4. CASE At(s, "drop") /\ req[s].token.user = u
      BY <1>9, <2>2, <2>4 DEF Abort, TypeOK
    <2>5. CASE ~(At(s, "drop") /\ req[s].token.user = u)
      BY <1>9, <2>2, <2>3, <2>5 DEF Abort, Step, DropPending, At, TypeOK
    <2> QED BY <2>4, <2>5
  <1> QED BY <1>1, <1>2, <1>3, <1>4, <1>5, <1>6, <1>7, <1>8, <1>9 DEF Next, Advance

\* A step that leaves the codes and the count alone, and redeems nothing.
LEMMA CodesKept ==
  ASSUME TypeOK, CodesSpent, OneRedeemer, SingleUse, NEW s \in Slots,
         req'[s].pc # "mint", \A t \in Slots \ {s} : req'[t] = req[t],
         UNCHANGED <<code, minted>>
  PROVE (CodesSpent /\ OneRedeemer /\ SingleUse)'
  BY DEF CodesSpent, OneRedeemer, SingleUse, At, TypeOK

LEMMA CodesStep ==
  ASSUME TypeOK, CodesSpent, OneRedeemer, SingleUse, [Next]_vars
  PROVE (CodesSpent /\ OneRedeemer /\ SingleUse)'
  <1> DEFINE Goal == (CodesSpent /\ OneRedeemer /\ SingleUse)'
  <1>1. CASE UNCHANGED vars
    BY <1>1 DEF CodesSpent, OneRedeemer, SingleUse, At, vars, store, history
  <1>2. ASSUME NEW u \in Users, CacheExpires(u) PROVE Goal
    BY <1>2 DEF CacheExpires, CodesSpent, OneRedeemer, SingleUse, At
  <1>3. ASSUME NEW c \in Codes, Generate(c) \/ CodeExpires(c) PROVE Goal
    BY <1>3 DEF Generate, CodeExpires, CodesSpent, OneRedeemer, SingleUse, At, TypeOK, history
  <1>4. ASSUME NEW s \in Slots, Present(s) PROVE Goal
    <2>1. req'[s].pc = "get" /\ \A t \in Slots \ {s} : req'[t] = req[t]
      BY <1>4, IdleType DEF Present, Start, TypeOK, Request
    <2>2. UNCHANGED <<code, minted>>
      BY <1>4 DEF Present, Start, store, history
    <2> QED BY <2>1, <2>2, CodesKept
  <1>5. ASSUME NEW s \in Slots, Claim(s) PROVE Goal
    <2>1. req'[s].pc = "getdel" /\ \A t \in Slots \ {s} : req'[t] = req[t]
      BY <1>5, IdleType DEF Claim, Start, TypeOK, Request
    <2>2. UNCHANGED <<code, minted>>
      BY <1>5 DEF Claim, Start, store, history
    <2> QED BY <2>1, <2>2, CodesKept
  <1>6. ASSUME NEW s \in Slots,
               Get(s) \/ ReadRow(s) \/ SetCopy(s) \/ Decide(s) \/ Load(s) \/ Commit(s) \/ Drop(s)
               \/ Abort(s)
        PROVE Goal
    <2>1. req'[s].pc # "mint" /\ \A t \in Slots \ {s} : req'[t] = req[t]
      <3>1. req[s] \in Request /\ Idle.pc = "idle"
        BY DEF TypeOK, Idle
      <3>2. CASE Get(s)
        BY <3>1, <3>2 DEF Get, Step, TypeOK, Request
      <3>3. CASE ReadRow(s)
        BY <3>1, <3>3 DEF ReadRow, Step, TypeOK, Request
      <3>4. CASE SetCopy(s)
        BY <3>1, <3>4 DEF SetCopy, Step, TypeOK, Request
      <3>7. CASE Decide(s)
        BY <3>1, <3>7 DEF Decide, Step, TypeOK, Request
      <3>8. CASE Load(s)
        BY <3>1, <3>8 DEF Load, Step, TypeOK, Request
      <3>5. CASE Commit(s)
        BY <3>1, <3>5 DEF Commit, AfterCommit, Step, TypeOK, Request
      <3>6. CASE Drop(s) \/ Abort(s)
        BY <3>1, <3>6 DEF Drop, Abort, Step, TypeOK
      <3> QED BY <1>6, <3>2, <3>3, <3>4, <3>5, <3>6, <3>7, <3>8
    <2>2. UNCHANGED <<code, minted>>
      BY <1>6 DEF Get, ReadRow, SetCopy, Decide, Load, Commit, Drop, Abort, store, history
    <2> QED BY <2>1, <2>2, CodesKept
  <1>7. ASSUME NEW s \in Slots, GetDel(s) PROVE Goal
    <2>1. CASE code[req[s].code] = "live"
      <3>1. minted[req[s].code] = 0 /\ \A t \in Slots : At(t, "mint") => req[t].code # req[s].code
        BY <2>1 DEF CodesSpent, TypeOK, Request
      <3>2. req'[s].pc = "mint" /\ req'[s].code = req[s].code
            /\ \A t \in Slots \ {s} : req'[t] = req[t]
        BY <1>7, <2>1 DEF GetDel, Step, TypeOK, Request
      <3>3. code' = [code EXCEPT ![req[s].code] = "gone"] /\ minted' = minted
        BY <1>7, <2>1 DEF GetDel, Taken, history
      <3> QED BY <3>1, <3>2, <3>3 DEF CodesSpent, OneRedeemer, SingleUse, At, TypeOK
    <2>2. CASE code[req[s].code] # "live"
      <3>1. Step(s, Idle) /\ UNCHANGED <<code, minted>> /\ Idle.pc # "mint"
        BY <1>7, <2>2 DEF GetDel, history, Idle
      <3> QED BY <3>1, CodesKept DEF Step, TypeOK
    <2> QED BY <2>1, <2>2
  <1>8. ASSUME NEW s \in Slots, Mint(s) PROVE Goal
    <2>1. code[req[s].code] = "gone" /\ minted[req[s].code] = 0 /\ At(s, "mint")
      BY <1>8 DEF Mint, CodesSpent, OneRedeemer, TypeOK, Request
    <2>2. minted' = [minted EXCEPT ![req[s].code] = 1] /\ code' = code
      BY <1>8, <2>1 DEF Mint
    <2>3. req'[s].pc = "idle" /\ \A t \in Slots \ {s} : req'[t] = req[t]
      BY <1>8 DEF Mint, Step, TypeOK, Idle
    <2> QED BY <2>1, <2>2, <2>3 DEF CodesSpent, OneRedeemer, SingleUse, At, TypeOK
  <1> QED BY <1>1, <1>2, <1>3, <1>4, <1>5, <1>6, <1>7, <1>8 DEF Next, Advance

LEMMA RaceInvariant == Spec => []RaceInv
  <1>1. Init => RaceInv
    BY RaceInit
  <1>2. RaceInv /\ [Next]_vars => RaceInv'
    BY TypeStep, WindowStep, CodesStep DEF RaceInv
  <1> QED BY <1>1, <1>2, PTL DEF Spec

\* The copy in Redis is outdated only between a commit and its drop, or after a
\* fill that was too late or a drop that was lost.
THEOREM OutdatedOnlyInWindow == Spec => []StaleOnlyInWindow
  <1>1. RaceInv => StaleOnlyInWindow
    BY DEF RaceInv
  <1> QED BY <1>1, RaceInvariant, PTL

\* However claims of one code overlap, at most one token is minted for it.
THEOREM CodesAreSingleUse == Spec => []SingleUse
  <1>1. RaceInv => SingleUse
    BY DEF RaceInv
  <1> QED BY <1>1, RaceInvariant, PTL

-----------------------------------------------------------------------------
(* Users whose revocations do not overlap.                                 *)

\* Claims present no token, and only revocations load the user row.
Paths ==
  \A s \in Slots : /\ req[s].pc \in {"get", "row", "set", "decide"} => req[s].op # "claim"
                   /\ req[s].pc \in {"load", "commit", "drop"} => req[s].op = "revoke"

Mine(s, u) == req[s].token.user = u

\* One revocation of the user at a time, whose loaded counter is therefore current.
OneRevocation(u) ==
  \A s \in Slots : Revoking(s) /\ Mine(s, u) =>
    /\ At(s, "commit") => req[s].loaded = version[u]
    /\ \A t \in Slots \ {s} : Revoking(t) => ~Mine(t, u)

\* A token carries the counter of the moment it was minted.
StampedRight(t) == t.bver = t.born /\ t.born <= version[t.user]

Stamped(u) ==
  /\ \A t \in tokens : t.user = u => StampedRight(t)
  /\ \A s \in Slots : Mine(s, u) => StampedRight(req[s].token)

\* Nobody has a counter from the future.
NoneAhead(u) ==
  /\ cache[u] <= version[u]
  /\ \A s \in Slots : Mine(s, u) /\ req[s].pc \in {"set", "decide"} => req[s].seen <= version[u]

\* What a request that began in order will read is as new as its beginning.
InOrder(s, u) ==
  /\ req[s].since <= version[u]
  /\ req[s].pc \in {"set", "decide"} => req[s].seen >= req[s].since
  /\ At(s, "get") => /\ cache[u] # Miss => cache[u] >= req[s].since
                     /\ \A t \in Slots : Mine(t, u) /\ At(t, "set") => req[t].seen >= req[s].since

ReadsInOrder(u) ==
  \A s \in Slots : /\ Mine(s, u) /\ ~req[s].doubt
                   /\ req[s].pc \in {"get", "row", "set", "decide"}
                   => InOrder(s, u)

Ordered(u) == OneRevocation(u) /\ Stamped(u) /\ NoneAhead(u) /\ ReadsInOrder(u)

OrderedInv == TypeOK /\ Paths /\ \A u \in OrderedUsers : Ordered(u)

LEMMA OrderedInit == Init => OrderedInv
  <1> SUFFICES ASSUME Init PROVE OrderedInv
    OBVIOUS
  <1>1. TypeOK
    BY TypeInit
  <1>2. Paths
    BY DEF Init, Paths, Idle
  <1>3. ASSUME NEW u \in OrderedUsers PROVE Ordered(u)
    <2>1. u \in Users
      BY ConstantsAssumption
    <2>2. OneRevocation(u) /\ ReadsInOrder(u)
      BY DEF Init, OneRevocation, ReadsInOrder, Revoking, Idle
    <2>3. Stamped(u)
      BY <1>1, <2>1 DEF Init, Stamped, StampedRight, Mine, Idle, SomeToken
    <2>4. NoneAhead(u)
      BY <2>1 DEF Init, NoneAhead, Miss, Idle
    <2> QED BY <2>2, <2>3, <2>4 DEF Ordered
  <1> QED BY <1>1, <1>2, <1>3 DEF OrderedInv

\* A request goes back to idle, or keeps whose token it is about and its history.
Keeps(s) == /\ req'[s].token = req[s].token /\ req'[s].op = req[s].op
            /\ req'[s].since = req[s].since /\ req'[s].doubt = req[s].doubt

LEMMA StepKeeps ==
  ASSUME TypeOK, NEW s \in Slots, Advance(s) \/ Abort(s)
  PROVE /\ req'[s] = Idle \/ (Keeps(s) /\ ~At(s, "idle"))
        /\ \A t \in Slots \ {s} : req'[t] = req[t]
  <1>1. req[s] \in Request
    BY DEF TypeOK
  <1>2. CASE Get(s)
    BY <1>1, <1>2 DEF Get, Step, Keeps, At, TypeOK, Request
  <1>8. CASE ReadRow(s)
    BY <1>1, <1>8 DEF ReadRow, Step, Keeps, At, TypeOK, Request
  <1>3. CASE SetCopy(s)
    BY <1>1, <1>3 DEF SetCopy, Step, Keeps, At, TypeOK, Request
  <1>4. CASE Decide(s)
    BY <1>1, <1>4 DEF Decide, Step, Keeps, At, TypeOK, Request
  <1>9. CASE Load(s)
    BY <1>1, <1>9 DEF Load, Step, Keeps, At, TypeOK, Request
  <1>5. CASE Commit(s)
    BY <1>1, <1>5 DEF Commit, AfterCommit, Step, Keeps, At, TypeOK, Request
  <1>6. CASE GetDel(s)
    BY <1>1, <1>6 DEF GetDel, Step, Keeps, At, TypeOK, Request
  <1>7. CASE Drop(s) \/ Mint(s) \/ Abort(s)
    BY <1>7 DEF Drop, Mint, Abort, Step, TypeOK
  <1> QED BY <1>2, <1>3, <1>4, <1>5, <1>6, <1>7, <1>8, <1>9 DEF Advance

\* How a request begins.
LEMMA PresentFresh ==
  ASSUME TypeOK, NEW s \in Slots, Present(s)
  PROVE LET q == req'[s] IN
        /\ UNCHANGED <<version, cache, tokens>>
        /\ At(s, "idle") /\ \A t \in Slots \ {s} : req'[t] = req[t]
        /\ q.pc = "get" /\ q.op # "claim" /\ q.token \in tokens /\ q.since = version[q.token.user]
        /\ ~q.doubt => /\ ~DropPending(q.token.user) /\ ~FillPending(q.token.user)
                       /\ ~late[q.token.user]
        /\ q.op = "revoke" /\ q.token.user \in OrderedUsers =>
             \A r \in Slots : Revoking(r) => req[r].token.user # q.token.user
  <1>1. PICK t \in tokens, op \in {"use", "revoke"}, w \in BOOLEAN :
          /\ op = "revoke" /\ t.user \in OrderedUsers =>
               \A r \in Slots : Revoking(r) => req[r].token.user # t.user
          /\ Start(s, [Idle EXCEPT !.pc = "get", !.op = op, !.token = t, !.website = w,
                                   !.since = version[t.user],
                                   !.doubt = DropPending(t.user) \/ FillPending(t.user)
                                             \/ late[t.user]])
    BY DEF Present
  <1> DEFINE q == [Idle EXCEPT !.pc = "get", !.op = op, !.token = t, !.website = w,
                               !.since = version[t.user],
                               !.doubt = DropPending(t.user) \/ FillPending(t.user)
                                         \/ late[t.user]]
  <1>2. /\ q.pc = "get" /\ q.op = op /\ q.token = t /\ q.since = version[t.user]
        /\ q.doubt = (DropPending(t.user) \/ FillPending(t.user) \/ late[t.user])
    BY IdleType DEF Request
  <1>3. Start(s, q)
    BY <1>1
  <1> HIDE DEF q
  <1>4. req'[s] = q /\ \A r \in Slots \ {s} : req'[r] = req[r]
    BY <1>3 DEF Start, TypeOK
  <1> QED BY <1>1, <1>2, <1>3, <1>4 DEF Start, store

LEMMA ClaimFresh ==
  ASSUME TypeOK, NEW s \in Slots, Claim(s)
  PROVE /\ UNCHANGED <<version, cache, tokens>>
        /\ At(s, "idle") /\ \A t \in Slots \ {s} : req'[t] = req[t]
        /\ req'[s].pc = "getdel" /\ req'[s].token = SomeToken
  <1>1. PICK c \in Codes : Start(s, [Idle EXCEPT !.pc = "getdel", !.op = "claim", !.code = c])
    BY DEF Claim
  <1> DEFINE q == [Idle EXCEPT !.pc = "getdel", !.op = "claim", !.code = c]
  <1>2. q.pc = "getdel" /\ q.token = SomeToken
    BY DEF Idle
  <1> HIDE DEF q
  <1>3. Start(s, q)
    BY <1>1 DEF q
  <1> QED BY <1>2, <1>3 DEF Start, TypeOK, store

\* Where a request goes from each step, as far as the counters are concerned.
LEMMA StepPaths ==
  ASSUME TypeOK, NEW s \in Slots, Advance(s) \/ Abort(s)
  PROVE /\ req'[s].pc # "get"
        /\ req'[s].pc \in {"row", "set", "decide"} => req[s].pc \in {"get", "row", "set"}
        /\ req'[s].pc = "load" => At(s, "decide") /\ req[s].op # "use"
        /\ req'[s].pc = "commit" => Load(s)
        /\ req'[s].pc = "drop" => At(s, "commit") /\ Commit(s)
        /\ Commit(s) \/ UNCHANGED version
  <1>1. req[s] \in Request /\ Idle.pc = "idle"
    BY DEF TypeOK, Idle
  <1>2. CASE Get(s)
    BY <1>1, <1>2 DEF Get, Step, At, TypeOK, Request, store
  <1>3. CASE ReadRow(s)
    BY <1>1, <1>3 DEF ReadRow, Step, At, TypeOK, Request, store
  <1>4. CASE SetCopy(s)
    BY <1>1, <1>4 DEF SetCopy, Step, At, TypeOK, Request
  <1>5. CASE Decide(s)
    BY <1>1, <1>5 DEF Decide, Step, At, TypeOK, Request, store
  <1>6. CASE Load(s)
    BY <1>1, <1>6 DEF Load, Step, At, TypeOK, Request, store
  <1>7. CASE Commit(s)
    BY <1>1, <1>7 DEF Commit, AfterCommit, Step, At, TypeOK, Request
  <1>8. CASE Drop(s)
    BY <1>1, <1>8 DEF Drop, Step, At, TypeOK
  <1>9. CASE GetDel(s)
    BY <1>1, <1>9 DEF GetDel, Step, At, TypeOK, Request
  <1>10. CASE Mint(s) \/ Abort(s)
    BY <1>1, <1>10 DEF Mint, Abort, Step, At, TypeOK, store
  <1> QED BY <1>2, <1>3, <1>4, <1>5, <1>6, <1>7, <1>8, <1>9, <1>10 DEF Advance

LEMMA OneRevocationStep ==
  ASSUME TypeOK, Paths, NEW u \in OrderedUsers, OneRevocation(u), [Next]_vars
  PROVE OneRevocation(u)'
  <1>1. CASE UNCHANGED vars
    BY <1>1 DEF OneRevocation, Revoking, Mine, At, vars, store, history
  <1>2. ASSUME NEW v \in Users, CacheExpires(v) PROVE OneRevocation(u)'
    BY <1>2 DEF CacheExpires, OneRevocation, Revoking, Mine, At
  <1>3. ASSUME NEW c \in Codes, Generate(c) \/ CodeExpires(c) PROVE OneRevocation(u)'
    BY <1>3 DEF Generate, CodeExpires, OneRevocation, Revoking, Mine, At
  <1>4. ASSUME NEW s \in Slots, Present(s) PROVE OneRevocation(u)'
    BY <1>4, PresentFresh DEF OneRevocation, Revoking, Mine, At
  <1>5. ASSUME NEW s \in Slots, Claim(s) PROVE OneRevocation(u)'
    <2>1. req'[s].op = "claim"
      BY <1>5, IdleType DEF Claim, Start, TypeOK, Request
    <2> QED BY <1>5, <2>1, ClaimFresh DEF OneRevocation, Revoking, Mine, At
  <1>6. ASSUME NEW s \in Slots, Advance(s) \/ Abort(s) PROVE OneRevocation(u)'
    <2>1. /\ Revoking(s)' => Revoking(s) /\ req'[s].token = req[s].token
          /\ \A t \in Slots \ {s} : req'[t] = req[t]
      <3>1. Idle.pc = "idle"
        BY DEF Idle
      <3> QED BY <1>6, <3>1, StepKeeps DEF Revoking, Keeps, At
    <2>2. CASE Commit(s) /\ Mine(s, u)
      <3>1. Revoking(s)
        BY <2>2 DEF Commit, At, Paths, Revoking
      <3>2. ~At(s, "commit")'
        BY <2>2 DEF Commit, AfterCommit, Step, At, TypeOK, Request
      <3> QED BY <2>1, <2>2, <3>1, <3>2 DEF OneRevocation, Revoking, Mine, At
    <2>3. CASE Commit(s) /\ ~Mine(s, u)
      <3>1. version'[u] = version[u] /\ ~Mine(s, u)'
        BY <2>3 DEF Commit, Step, Mine, TypeOK, Request
      <3> QED BY <2>1, <3>1 DEF OneRevocation, Revoking, Mine, At
    <2>4. CASE ~Commit(s)
      <3>1. version' = version /\ (At(s, "commit")' => Load(s))
        BY <1>6, <2>4, StepPaths DEF At
      <3>2. Load(s) /\ Mine(s, u) => req'[s].loaded = version[u]
        BY DEF Load, Mine, Step, TypeOK, Request
      <3> QED BY <2>1, <3>1, <3>2 DEF OneRevocation, Revoking, Mine, At
    <2> QED BY <2>2, <2>3, <2>4
  <1> QED BY <1>1, <1>2, <1>3, <1>4, <1>5, <1>6 DEF Next

\* Committing a revocation moves the counter of an ordered user by exactly one.
LEMMA CommitMoves ==
  ASSUME TypeOK, Paths, NEW u \in OrderedUsers, OneRevocation(u), NEW s \in Slots, Commit(s)
  PROVE version'[u] = IF Mine(s, u) THEN version[u] + 1 ELSE version[u]
  <1>1. u \in Users
    BY ConstantsAssumption
  <1>2. Mine(s, u) => req[s].loaded = version[u]
    BY DEF Commit, Paths, OneRevocation, Revoking, Mine, At
  <1> QED BY <1>1, <1>2 DEF Commit, Bumped, Mine, TypeOK

\* The counter of an ordered user never goes back.
LEMMA VersionGrows ==
  ASSUME TypeOK, Paths, NEW u \in OrderedUsers, OneRevocation(u), [Next]_vars
  PROVE version'[u] >= version[u]
  <1>1. version[u] \in Nat
    BY ConstantsAssumption DEF TypeOK
  <1>2. CASE UNCHANGED version
    BY <1>1, <1>2
  <1>3. ASSUME NEW s \in Slots, Commit(s) PROVE version'[u] >= version[u]
    BY <1>1, <1>3, CommitMoves
  <1>4. UNCHANGED version \/ \E s \in Slots : Commit(s)
    <2>1. CASE UNCHANGED vars
      BY <2>1 DEF vars, store
    <2>2. ASSUME NEW v \in Users, CacheExpires(v) PROVE UNCHANGED version
      BY <2>2 DEF CacheExpires
    <2>3. ASSUME NEW c \in Codes, Generate(c) \/ CodeExpires(c) PROVE UNCHANGED version
      BY <2>3 DEF Generate, CodeExpires
    <2>4. ASSUME NEW s \in Slots, Present(s) \/ Claim(s) PROVE UNCHANGED version
      BY <2>4, PresentFresh, ClaimFresh
    <2>5. ASSUME NEW s \in Slots, Advance(s) \/ Abort(s) PROVE UNCHANGED version \/ Commit(s)
      BY <2>5, StepPaths
    <2> QED BY <2>1, <2>2, <2>3, <2>4, <2>5 DEF Next
  <1> QED BY <1>2, <1>3, <1>4

LEMMA PathsStep ==
  ASSUME TypeOK, Paths, [Next]_vars
  PROVE Paths'
  <1>1. CASE UNCHANGED vars
    BY <1>1 DEF Paths, vars
  <1>2. ASSUME NEW v \in Users, CacheExpires(v) PROVE Paths'
    BY <1>2 DEF CacheExpires, Paths
  <1>3. ASSUME NEW c \in Codes, Generate(c) \/ CodeExpires(c) PROVE Paths'
    BY <1>3 DEF Generate, CodeExpires, Paths
  <1>4. ASSUME NEW s \in Slots, Present(s) \/ Claim(s) PROVE Paths'
    <2>1. /\ req'[s].pc = "getdel" \/ (req'[s].pc = "get" /\ req'[s].op # "claim")
          /\ \A t \in Slots \ {s} : req'[t] = req[t]
      <3>1. CASE Present(s)
        BY <1>4, <3>1, PresentFresh
      <3>2. CASE Claim(s)
        BY <3>2, ClaimFresh
      <3> QED BY <1>4, <3>1, <3>2
    <2> QED BY <2>1 DEF Paths
  <1>5. ASSUME NEW s \in Slots, Advance(s) \/ Abort(s) PROVE Paths'
    <2>1. CASE req'[s] = Idle
      <3>1. Idle.pc = "idle"
        BY DEF Idle
      <3> QED BY <1>5, <2>1, <3>1, StepKeeps DEF Paths
    <2>2. CASE req'[s] # Idle
      <3>1. req'[s].op = req[s].op /\ req[s].op \in {"use", "revoke", "claim"}
        BY <1>5, <2>2, StepKeeps DEF Keeps, TypeOK, Request
      <3>2. req'[s].pc \in {"row", "set", "decide"} => req[s].pc \in {"get", "row", "set"}
        BY <1>5, <2>2, StepPaths
      <3>3. req'[s].pc = "get" => FALSE
        BY <1>5, <2>2, StepPaths
      <3>4. req'[s].pc \in {"commit", "drop"} => req[s].pc \in {"load", "commit"}
        BY <1>5, StepPaths DEF Load, At
      <3>5. req'[s].pc = "load" => req[s].pc = "decide" /\ req[s].op # "use"
        BY <1>5, StepPaths DEF At
      <3> QED BY <1>5, <3>1, <3>2, <3>3, <3>4, <3>5, StepKeeps DEF Paths
    <2> QED BY <2>1, <2>2
  <1> QED BY <1>1, <1>2, <1>3, <1>4, <1>5 DEF Next

LEMMA StampedStep ==
  ASSUME TypeOK, Paths, NEW u \in OrderedUsers, OneRevocation(u), Stamped(u), [Next]_vars
  PROVE Stamped(u)'
  <1> DEFINE Right(t) == t.bver = t.born /\ t.born <= version'[t.user]
  <1>1. version[u] \in Nat /\ version'[u] \in Nat /\ version'[u] >= version[u]
    BY VersionGrows, TypeStep, ConstantsAssumption DEF TypeOK
  <1>2. SomeToken.user \in Users /\ SomeToken.bver = 0 /\ SomeToken.born = 0 /\ SomeToken \in Token
    <2>1. (CHOOSE v \in Users : TRUE) \in Users
      BY ConstantsAssumption
    <2> QED BY <2>1 DEF SomeToken, Token
  <1>3. ASSUME NEW t \in Token, t.user = u, StampedRight(t) PROVE Right(t)
    BY <1>1, <1>3 DEF StampedRight, Token
  <1>4. SomeToken.user = u => Right(SomeToken)
    BY <1>1, <1>2 DEF StampedRight
  <1>5. \A t \in tokens : t.user = u => Right(t)
    BY <1>3 DEF Stamped, TypeOK
  <1>6. \A s \in Slots : Mine(s, u) => Right(req[s].token)
    BY <1>3 DEF Stamped, TypeOK, Mine, Request
  <1>7. \A t \in tokens' : t.user = u => Right(t)
    <2>1. CASE UNCHANGED tokens
      BY <1>5, <2>1
    <2>2. ASSUME NEW s \in Slots, Mint(s) PROVE \A t \in tokens' : t.user = u => Right(t)
      BY <1>1, <1>5, <2>2 DEF Mint, Stamp, StampedRight
    <2>3. UNCHANGED tokens \/ \E s \in Slots : Mint(s)
      <3>1. CASE UNCHANGED vars
        BY <3>1 DEF vars, store
      <3>2. ASSUME NEW v \in Users, CacheExpires(v) PROVE UNCHANGED tokens
        BY <3>2 DEF CacheExpires
      <3>3. ASSUME NEW c \in Codes, Generate(c) \/ CodeExpires(c) PROVE UNCHANGED tokens
        BY <3>3 DEF Generate, CodeExpires
      <3>4. ASSUME NEW s \in Slots, Present(s) \/ Claim(s) PROVE UNCHANGED tokens
        BY <3>4, PresentFresh, ClaimFresh
      <3>5. ASSUME NEW s \in Slots, Advance(s) \/ Abort(s) PROVE UNCHANGED tokens \/ Mint(s)
        BY <3>5 DEF Advance, Abort, Get, ReadRow, SetCopy, Decide, Load, Commit, Drop, GetDel, store
      <3> QED BY <3>1, <3>2, <3>3, <3>4, <3>5 DEF Next
    <2> QED BY <2>1, <2>2, <2>3
  <1>8. \A s \in Slots : Mine(s, u)' => Right(req'[s].token)
    <2>1. CASE UNCHANGED req
      BY <1>6, <2>1 DEF Mine
    <2>2. ASSUME NEW s \in Slots, Present(s) PROVE \A r \in Slots : Mine(r, u)' => Right(req'[r].token)
      BY <1>5, <1>6, <2>2, PresentFresh DEF Mine
    <2>3. ASSUME NEW s \in Slots, Claim(s) PROVE \A r \in Slots : Mine(r, u)' => Right(req'[r].token)
      BY <1>4, <1>6, <2>3, ClaimFresh DEF Mine
    <2>4. ASSUME NEW s \in Slots, Advance(s) \/ Abort(s)
          PROVE \A r \in Slots : Mine(r, u)' => Right(req'[r].token)
      <3>1. Idle.token = SomeToken
        BY DEF Idle
      <3> QED BY <1>4, <1>6, <2>4, <3>1, StepKeeps DEF Mine, Keeps
    <2> QED BY <2>1, <2>2, <2>3, <2>4 DEF Next, vars, CacheExpires, Generate, CodeExpires
  <1> QED BY <1>7, <1>8 DEF Stamped, StampedRight, Mine

\* What a request has seen comes from the copy, the row, or its last step.
LEMMA SeenFrom ==
  ASSUME TypeOK, NEW s \in Slots, Advance(s) \/ Abort(s), req'[s].pc \in {"set", "decide"}
  PROVE LET v == req[s].token.user IN
        /\ Keeps(s) /\ UNCHANGED version
        /\ \/ At(s, "row") /\ req'[s].pc = "set" /\ req'[s].seen = version[v]
           \/ /\ At(s, "get") /\ cache[v] # Miss
              /\ req'[s].pc = "decide" /\ req'[s].seen = cache[v]
           \/ At(s, "set") /\ req'[s].pc = "decide" /\ req'[s].seen = req[s].seen
  <1>1. req[s] \in Request /\ Idle.pc = "idle"
    BY DEF TypeOK, Idle
  <1>2. req'[s] # Idle
    BY <1>1
  <1>3. Keeps(s)
    BY <1>2, StepKeeps
  <1>4. UNCHANGED version
    BY <1>1, StepPaths DEF Commit, AfterCommit, Step, TypeOK, Request
  <1>5. CASE Get(s)
    BY <1>1, <1>3, <1>4, <1>5 DEF Get, Step, At, TypeOK, Request
  <1>6. CASE ReadRow(s)
    BY <1>1, <1>3, <1>4, <1>6 DEF ReadRow, Step, At, TypeOK, Request
  <1>7. CASE SetCopy(s)
    BY <1>1, <1>3, <1>4, <1>7 DEF SetCopy, Step, At, TypeOK, Request
  <1>8. CASE Decide(s)
    BY <1>1, <1>8 DEF Decide, Step, TypeOK, Request
  <1>9. CASE Load(s)
    BY <1>1, <1>9 DEF Load, Step, TypeOK, Request
  <1>10. CASE Commit(s)
    BY <1>1, <1>10 DEF Commit, AfterCommit, Step, TypeOK, Request
  <1>11. CASE GetDel(s)
    BY <1>1, <1>11 DEF GetDel, Step, TypeOK, Request
  <1>12. CASE Drop(s) \/ Mint(s) \/ Abort(s)
    BY <1>1, <1>12 DEF Drop, Mint, Abort, Step, TypeOK
  <1> QED BY <1>5, <1>6, <1>7, <1>8, <1>9, <1>10, <1>11, <1>12 DEF Advance

\* The copy is dropped, stays, or is what a request has just stored.
LEMMA CopyFrom ==
  ASSUME TypeOK, NEW u \in Users, [Next]_vars
  PROVE \/ cache'[u] \in {cache[u], Miss}
        \/ \E s \in Slots : At(s, "set") /\ Mine(s, u) /\ cache'[u] = req[s].seen
  <1>1. CASE UNCHANGED vars
    BY <1>1 DEF vars, store
  <1>2. ASSUME NEW v \in Users, CacheExpires(v) PROVE cache'[u] \in {cache[u], Miss}
    BY <1>2 DEF CacheExpires, TypeOK
  <1>3. ASSUME NEW c \in Codes, Generate(c) \/ CodeExpires(c) PROVE UNCHANGED cache
    BY <1>3 DEF Generate, CodeExpires
  <1>4. ASSUME NEW s \in Slots, Present(s) \/ Claim(s) PROVE UNCHANGED cache
    BY <1>4, PresentFresh, ClaimFresh
  <1>5. ASSUME NEW s \in Slots, Drop(s) PROVE cache'[u] \in {cache[u], Miss}
    BY <1>5 DEF Drop, Dropped, TypeOK
  <1>6. ASSUME NEW s \in Slots, SetCopy(s)
        PROVE cache'[u] = cache[u] \/ (At(s, "set") /\ Mine(s, u) /\ cache'[u] = req[s].seen)
    BY <1>6 DEF SetCopy, Mine, TypeOK
  <1>7. ASSUME NEW s \in Slots,
               Get(s) \/ ReadRow(s) \/ Decide(s) \/ Load(s) \/ Commit(s) \/ GetDel(s) \/ Mint(s)
               \/ Abort(s)
        PROVE UNCHANGED cache
    BY <1>7 DEF Get, ReadRow, Decide, Load, Commit, GetDel, Mint, Abort, store
  <1> QED BY <1>1, <1>2, <1>3, <1>4, <1>5, <1>6, <1>7 DEF Next, Advance

LEMMA NoneAheadStep ==
  ASSUME TypeOK, Paths, NEW u \in OrderedUsers, OneRevocation(u), NoneAhead(u), [Next]_vars
  PROVE NoneAhead(u)'
  <1>1. /\ u \in Users /\ version[u] \in Nat /\ version'[u] \in Nat /\ version'[u] >= version[u]
        /\ cache[u] \in Nat \cup {Miss} /\ Miss = -1
    BY VersionGrows, TypeStep, ConstantsAssumption DEF TypeOK, Miss
  <1>2. ASSUME NEW s \in Slots, req[s].seen <= version[u] PROVE req[s].seen <= version'[u]
    BY <1>1, <1>2 DEF TypeOK, Request
  <1>3. cache'[u] <= version'[u]
    BY <1>1, <1>2, CopyFrom DEF NoneAhead, At
  <1>4. ASSUME NEW r \in Slots, UNCHANGED req \/ req'[r] = req[r], Mine(r, u)', req'[r].pc \in {"set", "decide"}
        PROVE req'[r].seen <= version'[u]
    BY <1>2, <1>4 DEF NoneAhead, Mine
  <1>5. CASE UNCHANGED req
    BY <1>3, <1>4, <1>5 DEF NoneAhead
  <1>6. ASSUME NEW s \in Slots, Present(s) \/ Claim(s) PROVE NoneAhead(u)'
    <2>1. req'[s].pc \in {"get", "getdel"} /\ \A t \in Slots \ {s} : req'[t] = req[t]
      BY <1>6, PresentFresh, ClaimFresh
    <2> QED BY <1>3, <1>4, <2>1 DEF NoneAhead
  <1>7. ASSUME NEW s \in Slots, Advance(s) \/ Abort(s) PROVE NoneAhead(u)'
    <2>1. Mine(s, u)' /\ req'[s].pc \in {"set", "decide"} => req'[s].seen <= version'[u]
      BY <1>1, <1>7, SeenFrom DEF NoneAhead, Keeps, Mine, At
    <2> QED BY <1>3, <1>4, <1>7, <2>1, StepKeeps DEF NoneAhead
  <1> QED BY <1>5, <1>6, <1>7 DEF Next, vars, CacheExpires, Generate, CodeExpires

LEMMA ReadsInOrderStep ==
  ASSUME TypeOK, Paths, StaleOnlyInWindow, NEW u \in OrderedUsers,
         OneRevocation(u), ReadsInOrder(u), [Next]_vars
  PROVE ReadsInOrder(u)'
  <1>1. /\ u \in Users /\ version[u] \in Nat /\ version'[u] \in Nat /\ version'[u] >= version[u]
        /\ cache[u] \in Nat \cup {Miss}
    BY VersionGrows, TypeStep, ConstantsAssumption DEF TypeOK
  <1>2. \A s \in Slots : req[s].since \in Nat /\ req[s].seen \in Nat
    BY DEF TypeOK, Request
  <1> DEFINE InQuestion(r) == /\ Mine(r, u) /\ ~req[r].doubt
                             /\ req[r].pc \in {"get", "row", "set", "decide"}
  \* A request that does not move stays in order, whatever the others store.
  <1>3. ASSUME NEW r \in Slots, req'[r] = req[r], InQuestion(r),
               \A t \in Slots : Mine(t, u)' /\ req'[t].pc = "set" =>
                  \/ req'[t].seen = version[u]
                  \/ req'[t] = req[t]
        PROVE InOrder(r, u)'
    <2>1. InOrder(r, u)
      BY <1>3 DEF ReadsInOrder
    <2>2. req[r].since <= version'[u]
      BY <1>1, <1>2, <2>1 DEF InOrder
    <2>3. At(r, "get") => \A t \in Slots : Mine(t, u)' /\ req'[t].pc = "set" => req'[t].seen >= req[r].since
      BY <1>1, <1>2, <1>3, <2>1 DEF InOrder, Mine, At
    <2>4. At(r, "get") => (cache'[u] # Miss => cache'[u] >= req[r].since)
      BY <1>1, <2>1, CopyFrom DEF InOrder
    <2> QED BY <1>3, <2>1, <2>2, <2>3, <2>4 DEF InOrder, At
  <1>4. CASE UNCHANGED req
    BY <1>3, <1>4 DEF ReadsInOrder, Mine
  <1>5. ASSUME NEW s \in Slots, Present(s) PROVE ReadsInOrder(u)'
    <2>1. /\ UNCHANGED <<version, cache>>
          /\ req'[s].pc = "get" /\ \A t \in Slots \ {s} : req'[t] = req[t]
      BY <1>5, PresentFresh
    <2>2. ASSUME Mine(s, u)', ~req'[s].doubt PROVE InOrder(s, u)'
      <3>1. /\ req'[s].since = version[u] /\ ~FillPending(u)
            /\ ~DropPending(u) /\ ~late[u]
        BY <1>5, <2>2, PresentFresh DEF Mine
      <3>2. ~Stale(u)
        BY <1>1, <3>1 DEF StaleOnlyInWindow
      <3> QED BY <1>1, <2>1, <3>1, <3>2 DEF InOrder, FillPending, Stale, At, Mine
    <2>3. ASSUME NEW r \in Slots \ {s}, InQuestion(r) PROVE InOrder(r, u)'
      BY <1>3, <2>1, <2>3
    <2> QED BY <2>1, <2>2, <2>3 DEF ReadsInOrder, Mine
  <1>6. ASSUME NEW s \in Slots, Claim(s) PROVE ReadsInOrder(u)'
    <2>1. req'[s].pc = "getdel" /\ \A t \in Slots \ {s} : req'[t] = req[t]
      BY <1>6, ClaimFresh
    <2>2. ASSUME NEW r \in Slots \ {s}, InQuestion(r) PROVE InOrder(r, u)'
      BY <1>3, <2>1, <2>2
    <2> QED BY <2>1, <2>2 DEF ReadsInOrder, Mine
  <1>7. ASSUME NEW s \in Slots, Advance(s) \/ Abort(s) PROVE ReadsInOrder(u)'
    <2>1. \A t \in Slots \ {s} : req'[t] = req[t]
      BY <1>7, StepKeeps
    <2>2. Mine(s, u)' /\ req'[s].pc = "set" => req'[s].seen = version[u]
      BY <1>7, SeenFrom DEF Keeps, Mine
    <2>3. ASSUME NEW r \in Slots \ {s}, InQuestion(r) PROVE InOrder(r, u)'
      BY <1>3, <2>1, <2>2, <2>3
    <2>4. ASSUME Mine(s, u)', ~req'[s].doubt, req'[s].pc \in {"get", "row", "set", "decide"}
          PROVE InOrder(s, u)'
      <3>1. req'[s].pc # "get" /\ req[s].pc \in {"get", "row", "set"}
        BY <1>7, <2>4, StepPaths
      <3>2. Keeps(s)
        <4>1. Idle.pc = "idle"
          BY DEF Idle
        <4> QED BY <1>7, <2>4, <4>1, StepKeeps
      <3>3. InOrder(s, u) /\ req'[s].since <= version'[u]
        BY <1>1, <1>2, <2>4, <3>1, <3>2 DEF ReadsInOrder, InOrder, Keeps, Mine
      <3>4. req'[s].pc \in {"set", "decide"} => req'[s].seen >= req'[s].since
        BY <1>1, <1>2, <1>7, <2>4, <3>2, <3>3, SeenFrom DEF InOrder, Keeps, Mine, At
      <3> QED BY <3>1, <3>3, <3>4 DEF InOrder, At
    <2> QED BY <2>1, <2>3, <2>4 DEF ReadsInOrder, Mine
  <1> QED BY <1>4, <1>5, <1>6, <1>7 DEF Next, vars, CacheExpires, Generate, CodeExpires

LEMMA OrderedInvariant == Spec => []OrderedInv
  <1>1. Init => OrderedInv
    BY OrderedInit
  <1>2. RaceInv /\ OrderedInv /\ [Next]_vars => OrderedInv'
    BY TypeStep, PathsStep, OneRevocationStep, StampedStep, NoneAheadStep, ReadsInOrderStep
       DEF OrderedInv, Ordered, RaceInv
  <1> QED BY <1>1, <1>2, RaceInvariant, PTL DEF Spec

\* A request that begins when the copy is in order sees every revocation made
\* before it began, whatever is read, stored and revoked meanwhile.
THEOREM RevocationsAreSeen == Spec => []RevocationIsSeen
  <1>1. OrderedInv => RevocationIsSeen
    BY DEF OrderedInv, Ordered, ReadsInOrder, InOrder, RevocationIsSeen, Mine, At
  <1> QED BY <1>1, OrderedInvariant, PTL

\* A token minted since the last revocation is accepted.
THEOREM FreshTokensAccepted == Spec => []FreshTokensWork
  <1>1. ASSUME OrderedInv, NEW s \in Slots, At(s, "decide"), req[s].token.user \in OrderedUsers,
               req[s].token.born = version[req[s].token.user]
        PROVE ~Refused(req[s])
    <2> DEFINE u == req[s].token.user
    <2>1. req[s].seen <= version[u] /\ req[s].token.bver = version[u]
      BY <1>1 DEF OrderedInv, Ordered, NoneAhead, Stamped, StampedRight, Mine, At
    <2>2. req[s].seen \in Nat /\ version[u] \in Nat
      BY <1>1 DEF OrderedInv, TypeOK, Request, Token
    <2> QED BY <2>1, <2>2 DEF Refused
  <1>2. OrderedInv => FreshTokensWork
    BY <1>1 DEF FreshTokensWork
  <1> QED BY <1>2, OrderedInvariant, PTL

\* A revocation refuses every bot token its user holds when it commits.
THEOREM RevocationsAreComplete == Spec => RevokesAll
  <1> DEFINE A == \A s \in Slots :
                    LET u == req[s].token.user IN
                    At(s, "commit") /\ req'[s].pc = "drop" /\ u \in OrderedUsers =>
                      \A t \in tokens : t.user = u => t.bver < version'[u]
  <1>1. ASSUME OrderedInv, [Next]_vars, NEW s \in Slots, At(s, "commit"), req'[s].pc = "drop",
               req[s].token.user \in OrderedUsers, NEW t \in tokens, t.user = req[s].token.user
        PROVE t.bver < version'[req[s].token.user]
    <2> DEFINE u == req[s].token.user
    <2>1. Commit(s)
      <3>1. req'[s] # req[s]
        BY <1>1 DEF At
      <3> QED BY <1>1, <3>1, StepPaths, StepKeeps, PresentFresh, ClaimFresh
              DEF Next, vars, CacheExpires, Generate, CodeExpires, OrderedInv
    <2>2. version'[u] = version[u] + 1
      BY <1>1, <2>1, CommitMoves DEF OrderedInv, Ordered, Mine
    <2>3. t.bver <= version[u]
      BY <1>1 DEF OrderedInv, Ordered, Stamped, StampedRight
    <2>4. t.bver \in Nat /\ version[u] \in Nat
      BY <1>1 DEF OrderedInv, TypeOK, Token, Request
    <2> QED BY <2>2, <2>3, <2>4
  <1>2. OrderedInv /\ [Next]_vars => A
    BY <1>1
  <1>3. OrderedInv /\ [Next]_vars => [A]_vars
    BY <1>2
  <1> QED BY <1>3, OrderedInvariant, PTL DEF Spec, RevokesAll
=============================================================================
