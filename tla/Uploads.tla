------------------------------ MODULE Uploads ------------------------------
(***************************************************************************)
(* Image uploads: a picture is stored in the bucket under the hash of its  *)
(* sanitised bytes, its first upload costs coins, later ones are free and  *)
(* only leave a row.  services/uploads.py and crud/crud_upload.py.         *)
(*                                                                         *)
(* Requests run concurrently, each is one transaction, and a transaction-  *)
(* scoped advisory lock keeps those of one picture apart.  The bucket is   *)
(* no part of the transaction.  Uploads refused before the lock (karma,    *)
(* size, not an image) change nothing and are left out.                    *)
(***************************************************************************)
EXTENDS Integers

CONSTANTS
  Users,        \* accounts
  Pictures,     \* sha256 of sanitised bytes
  Keys,         \* advisory lock keys
  Key,          \* Key[p]: advisory_key(p), the first 60 bits; may collide
  InitCoins,    \* InitCoins[u]: coins of u when the behaviour starts
  Balances,     \* balances other components may leave behind
  Slots,        \* threads that may be serving a request
  Free,         \* the holder of a lock nobody holds
  MaxRequests,  \* bound on the requests a behaviour contains
  MaxCrashes,   \* bound on the crashes a behaviour contains
  IsolatedUsers \* users whose requests happen never to overlap

ASSUME ConstantsAssumption ==
  /\ Users # {} /\ Pictures # {}
  /\ Key \in [Pictures -> Keys]
  /\ InitCoins \in [Users -> Nat]
  /\ Free \notin Slots
  /\ Balances \subseteq Nat
  /\ MaxRequests \in Nat /\ MaxCrashes \in Nat
  /\ IsolatedUsers \subseteq Users

VARIABLES
  stored,   \* the objects in the bucket
  rows,     \* rows[p]: number of Upload rows of picture p
  coins,    \* coins[u]: u.remaining_coins
  lock,     \* lock[k]: the thread whose transaction holds advisory lock k
  req,      \* req[s]: the request thread s is serving, with what it has read
  served,   \* requests started so far
  crashes,  \* crashes so far
  charges,  \* history: committed uploads of p that were charged
  book      \* history: what the coins of IsolatedUsers should be, change by change

store == <<stored, rows, coins>>
history == <<charges, book>>
vars == <<store, lock, req, served, crashes, history>>

UPLOAD_IMAGE_COST == 2

Request == [pc : {"idle", "lock", "check", "put", "commit"},
            user : Users, pic : Pictures,
            coins : Nat,      \* the uploader's balance, as loaded
            new : BOOLEAN]    \* is_new

Idle == [pc |-> "idle", user |-> CHOOSE u \in Users : TRUE,
         pic |-> CHOOSE p \in Pictures : TRUE, coins |-> 0, new |-> FALSE]

Init ==
  /\ stored = {}
  /\ rows = [p \in Pictures |-> 0]
  /\ coins = InitCoins
  /\ lock = [k \in Keys |-> Free]
  /\ req = [s \in Slots |-> Idle]
  /\ served = 0
  /\ crashes = 0
  /\ charges = [p \in Pictures |-> 0]
  /\ book = InitCoins

-----------------------------------------------------------------------------
At(s, step) == req[s].pc = step

Booked(u, n) == IF u \in IsolatedUsers THEN [book EXCEPT ![u] = @ + n] ELSE book

Working(u) == \E t \in Slots : req[t].pc # "idle" /\ req[t].user = u

\* get_current_active_user loads the uploader; the balance is not read again,
\* however long the lock is waited for.
Begin(s) ==
  /\ At(s, "idle") /\ served < MaxRequests
  /\ \E u \in Users, p \in Pictures :
       /\ u \in IsolatedUsers => ~Working(u)
       /\ req' = [req EXCEPT ![s] = [Idle EXCEPT !.pc = "lock", !.user = u,
                                                 !.pic = p, !.coins = coins[u]]]
  /\ served' = served + 1
  /\ UNCHANGED <<store, lock, crashes, history>>

\* Mutant: the lock is asked for and not waited for.
LockableAnyway(s) == TRUE

Lockable(s) == lock[Key[req[s].pic]] = Free

\* lock_sha: pg_advisory_xact_lock waits until no transaction holds the key.
LockSha(s) ==
  /\ At(s, "lock") /\ Lockable(s)
  /\ lock' = [lock EXCEPT ![Key[req[s].pic]] = s]
  /\ req' = [req EXCEPT ![s].pc = "check"]
  /\ UNCHANGED <<store, served, crashes, history>>

\* Mutant: the locks belong to the session and outlive the transaction.
KeptBy(s) == lock

\* The end of a transaction gives its advisory locks back.
ReleasedBy(s) == [k \in Keys |-> IF lock[k] = s THEN Free ELSE lock[k]]

End(s) ==
  /\ lock' = ReleasedBy(s)
  /\ req' = [req EXCEPT ![s] = Idle]
  /\ UNCHANGED <<served, crashes>>

\* not exists_with_sha: no transaction has committed a row of the picture.
IsNew(p) == rows[p] = 0

Affordable(q) == q.coins >= UPLOAD_IMAGE_COST

ExistsWithSha(s) ==
  LET q == req[s] IN
  /\ At(s, "check")
  /\ \/ /\ ~IsNew(q.pic)
        /\ req' = [req EXCEPT ![s].pc = "commit"]
        /\ UNCHANGED <<lock, served, crashes>>
     \/ /\ IsNew(q.pic) /\ Affordable(q)
        /\ req' = [req EXCEPT ![s].pc = "put", ![s].new = TRUE]
        /\ UNCHANGED <<lock, served, crashes>>
     \/ /\ IsNew(q.pic) /\ ~Affordable(q)
        /\ End(s)
  /\ UNCHANGED <<store, history>>

\* Mutant: the object is to be stored after the row.
NothingPut(p) == stored

\* object_storage.put_image: at once, whatever becomes of the transaction.
Put(p) == stored \union {p}

PutImage(s) ==
  /\ At(s, "put")
  /\ stored' = Put(req[s].pic)
  /\ req' = [req EXCEPT ![s].pc = "commit"]
  /\ UNCHANGED <<rows, coins, lock, served, crashes, history>>

\* coins.deduct_coins: a literal computed from the balance as loaded.
Charged(q) == q.coins - UPLOAD_IMAGE_COST

\* The row is inserted in both branches; the uploader's row is written, with the
\* charge, only when the picture was new.
CommitUpload(s) ==
  LET q == req[s] IN
  /\ At(s, "commit")
  /\ rows' = [rows EXCEPT ![q.pic] = @ + 1]
  /\ coins' = IF q.new THEN [coins EXCEPT ![q.user] = Charged(q)] ELSE coins
  /\ charges' = IF q.new THEN [charges EXCEPT ![q.pic] = @ + 1] ELSE charges
  /\ book' = IF q.new THEN Booked(q.user, 0 - UPLOAD_IMAGE_COST) ELSE book
  /\ End(s)
  /\ UNCHANGED stored

\* An exception, also one of the object store: rolled back.
Abort(s) ==
  /\ ~At(s, "idle")
  /\ End(s)
  /\ UNCHANGED <<store, history>>

-----------------------------------------------------------------------------
(* What is not an upload.                                                  *)

\* The process dies: PostgreSQL rolls back and releases, the bucket keeps.
Crash ==
  /\ crashes < MaxCrashes
  /\ crashes' = crashes + 1
  /\ req' = [s \in Slots |-> Idle]
  /\ lock' = [k \in Keys |-> Free]
  /\ UNCHANGED <<store, served, history>>

\* A request of another component commits a balance of u: votes, rewards, posts.
Elsewhere(u) ==
  /\ u \in IsolatedUsers => ~Working(u)
  /\ \E n \in Balances :
       /\ coins' = [coins EXCEPT ![u] = n]
       /\ book' = Booked(u, n - coins[u])
  /\ UNCHANGED <<stored, rows, lock, req, served, crashes, charges>>

Next ==
  \/ Crash
  \/ \E u \in Users : Elsewhere(u)
  \/ \E s \in Slots :
       \/ Begin(s) \/ LockSha(s) \/ ExistsWithSha(s)
       \/ PutImage(s) \/ CommitUpload(s) \/ Abort(s)

\* A thread goes on with its request; PostgreSQL grants a lock in the order of
\* arrival, so a lock that is free again and again is granted in the end.
Fairness ==
  \A s \in Slots :
    /\ WF_vars(ExistsWithSha(s) \/ PutImage(s) \/ CommitUpload(s))
    /\ SF_vars(LockSha(s))

Spec == Init /\ [][Next]_vars /\ Fairness

-----------------------------------------------------------------------------
TypeOK ==
  /\ stored \subseteq Pictures
  /\ rows \in [Pictures -> Nat]
  /\ coins \in [Users -> Int]
  /\ lock \in [Keys -> Slots \union {Free}]
  /\ req \in [Slots -> Request]
  /\ served \in 0..MaxRequests
  /\ crashes \in 0..MaxCrashes
  /\ charges \in [Pictures -> Nat]
  /\ book \in [Users -> Int]

\* crud_upload.lock_sha: check, charge and insert are one critical section, so a
\* picture is paid for by exactly one of its accepted uploads, however many
\* requests carry it at once, fail halfway or die with the process.
PaidByTheFirst ==
  \A p \in Pictures : charges[p] = IF rows[p] > 0 THEN 1 ELSE 0

\* "PUT before the row, never the reverse": no committed row points at an object
\* that was never stored, whatever failed in between.
RowsHaveObjects == \A p \in Pictures : rows[p] > 0 => p \in stored

\* The balance was loaded before the wait for the lock, and others may have spent
\* it since; still no upload brings its user into debt.
NoDebt == \A u \in Users : coins[u] >= 0

\* The balance of a user whose requests do not overlap is exact, whatever other
\* users upload at the same time.
BalanceExact == \A u \in IsolatedUsers : coins[u] = book[u]

\* Whoever waits for a picture waits for a request that does not wait itself: a key that
\* is taken belongs to a request about a picture of that key, past the lock, whatever was
\* refused, failed or killed before.
NobodyWaitsInVain ==
  \A k \in Keys : lock[k] # Free =>
    LET q == req[lock[k]] IN q.pc \in {"check", "put", "commit"} /\ Key[q.pic] = k

\* Nobody waits for a lock forever: failed, refused and free uploads, and crashes,
\* give it back as the charged ones do.
EveryUploadEnds == \A s \in Slots : ~At(s, "idle") ~> At(s, "idle")
=============================================================================
