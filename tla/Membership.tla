----------------------------- MODULE Membership -----------------------------
(***************************************************************************)
(* Membership of a site: applying, approving, joining with an invitation   *)
(* link, being invited and leaving.  services/sites.py, applications.py,   *)
(* users.py and invitations.py.  Rows of different sites never meet, so    *)
(* the module is about one site.                                           *)
(*                                                                         *)
(* Requests run concurrently and each is one transaction: every Read*      *)
(* action is one query, Commit* is the flush together with the commit.     *)
(***************************************************************************)
EXTENDS Integers

CONSTANTS
  Users,         \* accounts
  Applications,  \* identities of the applications that may be made
  Links,         \* invitation links to the site
  Quota,         \* remaining_quota of a new link (100 in the code)
  InitMembers,   \* users who are members when the behaviour starts
  Slots,         \* threads that may be serving a request
  MaxRequests,   \* bound on the requests a behaviour contains
  IsolatedUsers, \* users whose membership only one request at a time is about
  IsolatedLinks  \* links that only one request at a time uses

ASSUME ConstantsAssumption ==
  /\ Users # {} /\ Applications # {} /\ Links # {}
  /\ Quota \in Nat /\ MaxRequests \in Nat
  /\ InitMembers \subseteq Users
  /\ IsolatedUsers \subseteq Users /\ IsolatedLinks \subseteq Links

VARIABLES
  member,  \* member[u]: u has a Profile row on the site
  app,     \* app[a]: the Application row
  quota,   \* quota[l]: remaining_quota of link l
  req,     \* req[s]: the request thread s is serving, with what it has read
  served,  \* requests started so far
  left,    \* history: the last thing u did about the site was to leave it
  uses     \* history: committed uses of link l

store == <<member, app, quota>>
history == <<left, uses>>
vars == <<store, req, served, history>>

Row == [made : BOOLEAN, user : Users, pending : BOOLEAN]

Someone == CHOOSE u \in Users : TRUE
NoRow == [made |-> FALSE, user |-> Someone, pending |-> FALSE]

Ops == {"apply", "approve", "join", "invite", "leave", "open"}
Steps == {"idle", "link", "inviter", "application", "profile", "commit"}

Request == [pc : Steps, op : Ops,
            user : Users,        \* whose membership it is about
            by : Users,          \* the inviter
            link : Links,
            id : Applications,   \* the application loaded, or to be made
            found : BOOLEAN,     \* an application was loaded
            inside : BOOLEAN,    \* a profile was loaded
            auto : BOOLEAN,      \* auto_approval of the site, or a superuser
            quota : Nat]         \* the quota of the link, as loaded

Idle == [pc |-> "idle", op |-> "leave", user |-> Someone, by |-> Someone,
         link |-> CHOOSE l \in Links : TRUE, id |-> CHOOSE a \in Applications : TRUE,
         found |-> FALSE, inside |-> FALSE, auto |-> FALSE, quota |-> 0]

Init ==
  /\ member = [u \in Users |-> u \in InitMembers]
  /\ app = [a \in Applications |-> NoRow]
  /\ quota = [l \in Links |-> Quota]
  /\ req = [s \in Slots |-> Idle]
  /\ served = 0
  /\ left = [u \in Users |-> FALSE]
  /\ uses = [l \in Links |-> 0]

-----------------------------------------------------------------------------
At(s, step) == req[s].pc = step

Busy(s) == req[s].pc # "idle"

UsesLink(q) == q.op \in {"join", "open"}

\* Accounts opened with a link are new: such a request is about nobody's membership.
Concerns(q, u) == q.op # "open" /\ q.user = u

Start(s, q) ==
  /\ At(s, "idle") /\ served < MaxRequests
  /\ q.op # "open" /\ q.user \in IsolatedUsers =>
       \A t \in Slots : Busy(t) => ~Concerns(req[t], q.user)
  /\ UsesLink(q) /\ q.link \in IsolatedLinks =>
       \A t \in Slots : Busy(t) /\ UsesLink(req[t]) => req[t].link # q.link
  /\ req' = [req EXCEPT ![s] = q]
  /\ served' = served + 1
  /\ UNCHANGED <<store, history>>

Learn(s, q) ==
  /\ req' = [req EXCEPT ![s] = q]
  /\ UNCHANGED <<store, served, history>>

\* site_apply, with the id the row will get.
BeginApply(s) ==
  \E u \in Users, a \in Applications, auto \in BOOLEAN :
    /\ ~app[a].made
    /\ \A t \in Slots : Busy(t) /\ req[t].op = "apply" => req[t].id # a
    /\ Start(s, [Idle EXCEPT !.pc = "application", !.op = "apply", !.user = u,
                             !.id = a, !.auto = auto])

\* approve_application, by the moderator.
BeginApprove(s) ==
  \E a \in Applications :
    /\ app[a].made
    /\ Start(s, [Idle EXCEPT !.pc = "application", !.op = "approve",
                             !.user = app[a].user, !.id = a])

\* remove_my_site_membership.
BeginLeave(s) ==
  \E u \in Users :
    Start(s, [Idle EXCEPT !.pc = "application", !.op = "leave", !.user = u])

\* invite_user_to_site.
BeginInvite(s) ==
  \E u, v \in Users :
    Start(s, [Idle EXCEPT !.pc = "inviter", !.op = "invite", !.user = u, !.by = v])

\* join_site_with_invitation_link, and open_account, which needs no membership.
BeginLink(s) ==
  \E u \in Users, l \in Links, op \in {"join", "open"} :
    Start(s, [Idle EXCEPT !.pc = "link", !.op = op, !.user = u, !.link = l])

-----------------------------------------------------------------------------
(* The queries of a request, in the order the handlers issue them.         *)

\* Mutant: any link will do, used up or not.
SpendableAnyway(l) == TRUE

\* try_consume_invitation_link_by_uuid; InvitationLink.valid asks for the date too.
Spendable(l) == quota[l] >= 1

ReadLink(s) ==
  LET q == req[s] IN
  /\ At(s, "link") /\ Spendable(q.link)
  /\ Learn(s, [q EXCEPT !.quota = quota[q.link],
                        !.pc = IF q.op = "join" THEN "profile" ELSE "commit"])

\* user_in_site for AddSiteMember.
ReadInviter(s) ==
  /\ At(s, "inviter") /\ member[req[s].by]
  /\ Learn(s, [req[s] EXCEPT !.pc = "profile"])

Of(u) == {a \in Applications : app[a].made /\ app[a].user = u}

\* "Applied.": one application per user, decided or not.
Unapplied(u) == Of(u) = {}

Pending(a) == app[a].made /\ app[a].pending

\* apply looks for any application, approve loads one by its id, invite and leave
\* load the first they find.
ReadApplication(s) ==
  LET q == req[s] IN
  /\ At(s, "application")
  /\ \/ /\ q.op = "apply" /\ Unapplied(q.user)
        /\ Learn(s, [q EXCEPT !.pc = IF q.auto THEN "profile" ELSE "commit"])
     \/ /\ q.op = "approve" /\ Pending(q.id)
        /\ Learn(s, [q EXCEPT !.pc = "profile"])
     \/ /\ q.op \in {"invite", "leave"}
        /\ \/ /\ Of(q.user) = {}
              /\ Learn(s, [q EXCEPT !.pc = IF q.op = "leave" THEN "profile" ELSE "commit"])
           \/ \E a \in Of(q.user) :
                Learn(s, [q EXCEPT !.pc = IF q.op = "leave" THEN "profile" ELSE "commit",
                                   !.id = a, !.found = TRUE])

\* profile.get_by_user_and_site.  A member gains nothing by joining; a user who
\* leaves without being a member may have an application to withdraw.
ReadProfile(s) ==
  LET q == req[s] IN
  /\ At(s, "profile")
  /\ \/ /\ q.op # "leave" /\ member[q.user]
        /\ Learn(s, Idle)
     \/ /\ q.op # "leave" /\ ~member[q.user]
        /\ Learn(s, [q EXCEPT !.pc = IF q.op = "invite" THEN "application" ELSE "commit"])
     \/ /\ q.op = "leave"
        /\ Learn(s, [q EXCEPT !.pc = "commit", !.inside = member[q.user]])

-----------------------------------------------------------------------------
(* Flush and commit.  A second Profile row of one user violates the unique *)
(* key, so that request can only fail.                                     *)

Finish(s) == req' = [req EXCEPT ![s] = Idle] /\ UNCHANGED served

Admit(u) == ~member[u] /\ member' = [member EXCEPT ![u] = TRUE]

CommitApply(s) ==
  LET q == req[s] IN
  /\ At(s, "commit") /\ q.op = "apply"
  /\ \/ /\ q.auto /\ Admit(q.user) /\ UNCHANGED app
     \/ /\ ~q.auto /\ UNCHANGED member
        /\ app' = [app EXCEPT ![q.id] = [made |-> TRUE, user |-> q.user, pending |-> TRUE]]
  /\ left' = [left EXCEPT ![q.user] = FALSE]
  /\ Finish(s)
  /\ UNCHANGED <<quota, uses>>

\* pending is set to FALSE and db.refresh(application) follows before any flush, so
\* the row stays as it was.
Approved(q) == app[q.id]

CommitApprove(s) ==
  LET q == req[s] IN
  /\ At(s, "commit") /\ q.op = "approve"
  /\ Admit(q.user)
  /\ app' = [app EXCEPT ![q.id] = Approved(q)]
  /\ Finish(s)
  /\ UNCHANGED <<quota, history>>

\* Mutant: leaving forgets the application.
KeptApplication(q) == app

\* The application the request has loaded, if any, is no longer pending.
Withdrawn(q) == IF q.found THEN [app EXCEPT ![q.id].pending = FALSE] ELSE app

CommitInvite(s) ==
  LET q == req[s] IN
  /\ At(s, "commit") /\ q.op = "invite"
  /\ Admit(q.user)
  /\ app' = Withdrawn(q)
  /\ left' = [left EXCEPT ![q.user] = FALSE]
  /\ Finish(s)
  /\ UNCHANGED <<quota, uses>>

CommitLeave(s) ==
  LET q == req[s] IN
  /\ At(s, "commit") /\ q.op = "leave"
  /\ member' = IF q.inside THEN [member EXCEPT ![q.user] = FALSE] ELSE member
  /\ app' = Withdrawn(q)
  /\ left' = [left EXCEPT ![q.user] = TRUE]
  /\ Finish(s)
  /\ UNCHANGED <<quota, uses>>

\* remaining_quota -= 1: a literal computed from the quota as loaded.
Spent(q) == q.quota - 1

CommitJoin(s) ==
  LET q == req[s] IN
  /\ At(s, "commit") /\ q.op = "join"
  /\ Admit(q.user)
  /\ quota' = [quota EXCEPT ![q.link] = Spent(q)]
  /\ uses' = [uses EXCEPT ![q.link] = @ + 1]
  /\ left' = [left EXCEPT ![q.user] = FALSE]
  /\ Finish(s)
  /\ UNCHANGED app

\* open_account, whose own checks (address, handle, code) may end it by Abort.
CommitOpen(s) ==
  LET q == req[s] IN
  /\ At(s, "commit") /\ q.op = "open"
  /\ quota' = [quota EXCEPT ![q.link] = Spent(q)]
  /\ uses' = [uses EXCEPT ![q.link] = @ + 1]
  /\ Finish(s)
  /\ UNCHANGED <<member, app, left>>

\* Any refusal or exception (unauthorized, insufficient karma, an expired link, a
\* violated key, a crash): rolled back.
Abort(s) ==
  /\ Busy(s)
  /\ Learn(s, Idle)

Next ==
  \E s \in Slots :
    \/ BeginApply(s) \/ BeginApprove(s) \/ BeginLeave(s) \/ BeginInvite(s) \/ BeginLink(s)
    \/ ReadLink(s) \/ ReadInviter(s) \/ ReadApplication(s) \/ ReadProfile(s)
    \/ CommitApply(s) \/ CommitApprove(s) \/ CommitInvite(s) \/ CommitLeave(s)
    \/ CommitJoin(s) \/ CommitOpen(s) \/ Abort(s)

Spec == Init /\ [][Next]_vars

-----------------------------------------------------------------------------
TypeOK ==
  /\ member \in [Users -> BOOLEAN]
  /\ app \in [Applications -> Row]
  /\ quota \in [Links -> Nat]
  /\ req \in [Slots -> Request]
  /\ served \in 0..MaxRequests
  /\ left \in [Users -> BOOLEAN]
  /\ uses \in [Links -> Nat]

\* Who leaves stays out until he joins, applies or is invited again: although
\* approving leaves an application pending, leaving withdraws it, so no approval
\* brings the user back.
LeavingIsFinal ==
  \A u \in IsolatedUsers : left[u] => ~member[u] /\ \A a \in Of(u) : ~app[a].pending

\* One application per user, decided or not; no key of the table says so.
AppliedOnce ==
  \A a, b \in Applications :
    a \in Of(app[b].user) /\ app[b].made /\ app[b].user \in IsolatedUsers => a = b

\* A link is never used up by fewer uses than its quota: overlapping uses may be
\* counted as one, one use never as two.
QuotaNotWasted == \A l \in Links : quota[l] + uses[l] >= Quota

\* On a link whose uses do not overlap the quota is exact.
QuotaExact == \A l \in IsolatedLinks : quota[l] + uses[l] = Quota
=============================================================================
