----------------------------- MODULE Commenting -----------------------------
(***************************************************************************)
(* Comments: written, shared to the timeline when written or later, and    *)
(* deleted, with the background tasks that tell the author of what is      *)
(* commented on and write the Activity of a shared comment.                *)
(* services/comments.py, crud/crud_comment.py, services/postprocess.py.    *)
(*                                                                         *)
(* Users mentioned in a comment are the subject of Delivery.               *)
(***************************************************************************)
EXTENDS Integers

CONSTANTS
  Remarks,          \* comments that may be written
  Slots,            \* threads that may be serving a request
  MaxActs,          \* bound on the requests a behaviour contains
  MaxOutages,       \* bound on the crashes of the process
  IsolatedRemarks   \* comments on which requests happen never to overlap

VARIABLES
  remark,   \* remark[c]: the row of comment c
  told,     \* told[c]: Notifications for the author of what c comments on
  logged,   \* logged[c]: Activities of c
  chores,   \* background tasks queued or running
  asked,    \* asked[s]: the request thread s is serving, with what it has read
  acts,     \* requests so far
  outages,  \* crashes so far
  missed,   \* history: comments one of whose tasks was lost
  early     \* history: comments shared later, but before their first task had
            \* loaded them

rows == <<remark, told, logged>>
past == <<missed, early>>
vars == <<rows, chores, asked, acts, outages, past>>

Remark == [exists : BOOLEAN, shared : BOOLEAN, deleted : BOOLEAN]
NoRemark == [exists |-> FALSE, shared |-> FALSE, deleted |-> FALSE]
Ask == [pc : {"idle", "commit"}, op : {"create", "update", "delete"}, c : Remarks,
        shares : BOOLEAN,   \* the request asks to share
        was : BOOLEAN]      \* shared_to_timeline as loaded
NoAsk == [pc |-> "idle", op |-> "update", c |-> CHOOSE c \in Remarks : TRUE,
          shares |-> FALSE, was |-> FALSE]

\* A task of a new or an updated comment; `seen` is shared_to_timeline as the task
\* has loaded it.
Chore == [pc : {"queued", "running"}, op : {"create", "update"}, c : Remarks,
          shares : BOOLEAN, was : BOOLEAN, seen : BOOLEAN, n : 1..MaxActs]

Init ==
  /\ remark = [c \in Remarks |-> NoRemark]
  /\ told = [c \in Remarks |-> 0] /\ logged = [c \in Remarks |-> 0]
  /\ chores = {} /\ asked = [s \in Slots |-> NoAsk]
  /\ acts = 0 /\ outages = 0 /\ missed = {} /\ early = {}

-----------------------------------------------------------------------------
(* Requests.                                                               *)

Alone(c) == \A t \in Slots : asked[t].pc # "idle" => asked[t].c # c

Start(s, q) ==
  /\ asked[s].pc = "idle" /\ acts < MaxActs
  /\ q.c \in IsolatedRemarks => Alone(q.c)
  /\ asked' = [asked EXCEPT ![s] = q]
  /\ acts' = acts + 1
  /\ UNCHANGED <<rows, chores, outages, past>>

\* create_comment: its one parent and the right to write there are checked first.
BeginCreate(s) ==
  \E c \in Remarks, shares \in BOOLEAN :
    /\ ~remark[c].exists /\ Alone(c)
    /\ Start(s, [NoAsk EXCEPT !.pc = "commit", !.op = "create", !.c = c, !.shares = shares])

\* update_comment: by the author, of a comment that may be deleted; a comment can
\* be shared and not unshared.
BeginUpdate(s) ==
  \E c \in Remarks, shares \in BOOLEAN :
    /\ remark[c].exists
    /\ Start(s, [NoAsk EXCEPT !.pc = "commit", !.op = "update", !.c = c, !.shares = shares,
                              !.was = remark[c].shared])

BeginDelete(s) ==
  \E c \in Remarks :
    /\ remark[c].exists
    /\ Start(s, [NoAsk EXCEPT !.pc = "commit", !.op = "delete", !.c = c])

Queue(q) ==
  chores' = chores \cup {[pc |-> "queued", op |-> q.op, c |-> q.c, shares |-> q.shares,
                          was |-> q.was, seen |-> FALSE, n |-> acts]}

Done(s) == asked' = [asked EXCEPT ![s] = NoAsk]

CommitCreate(s) ==
  LET q == asked[s] IN
  /\ q.pc = "commit" /\ q.op = "create"
  /\ remark' = [remark EXCEPT ![q.c] = [NoRemark EXCEPT !.exists = TRUE, !.shared = q.shares]]
  /\ Queue(q) /\ Done(s)
  /\ UNCHANGED <<told, logged, acts, outages, past>>

CommitUpdate(s) ==
  LET q == asked[s] IN
  /\ q.pc = "commit" /\ q.op = "update"
  /\ remark' = [remark EXCEPT ![q.c].shared = @ \/ q.shares]
  /\ early' = IF q.shares /\ \E t \in chores : t.c = q.c /\ t.op = "create" /\ t.pc = "queued"
              THEN early \cup {q.c} ELSE early
  /\ Queue(q) /\ Done(s)
  /\ UNCHANGED <<told, logged, acts, outages, missed>>

CommitDelete(s) ==
  LET q == asked[s] IN
  /\ q.pc = "commit" /\ q.op = "delete"
  /\ remark' = [remark EXCEPT ![q.c].deleted = TRUE]
  /\ Done(s)
  /\ UNCHANGED <<told, logged, chores, acts, outages, past>>

Abort(s) ==
  /\ asked[s].pc # "idle"
  /\ Done(s)
  /\ UNCHANGED <<rows, chores, acts, outages, past>>

-----------------------------------------------------------------------------
(* Background tasks.                                                       *)

\* The task loads the comment, deleted or not.
Run(t) ==
  /\ t.pc = "queued"
  /\ chores' = (chores \ {t}) \cup {[t EXCEPT !.pc = "running", !.seen = remark[t.c].shared]}
  /\ UNCHANGED <<rows, asked, acts, outages, past>>

\* Mutant: whether the comment was shared before is read by the task itself.
SharesUnseen(t) == ~t.seen /\ t.shares

\* postprocess_comment_update: an Activity only, and only of a comment that the
\* update has shared.
SharesLater(t) == ~t.was /\ t.shares

\* postprocess_new_comment tells the author.
Tells(t) == t.op = "create"

\* The policy's precondition: the comment as loaded is shared.
Logs(t) == t.seen /\ (t.op = "create" \/ SharesLater(t))

Finish(t) ==
  /\ t.pc = "running"
  /\ chores' = chores \ {t}
  /\ told' = IF Tells(t) THEN [told EXCEPT ![t.c] = @ + 1] ELSE told
  /\ logged' = IF Logs(t) THEN [logged EXCEPT ![t.c] = @ + 1] ELSE logged
  /\ UNCHANGED <<remark, asked, acts, outages, past>>

\* An exception is caught; the task does not come back.
Fail(t) ==
  /\ t.pc = "running"
  /\ chores' = chores \ {t}
  /\ missed' = missed \cup {t.c}
  /\ UNCHANGED <<rows, asked, acts, outages, early>>

\* The queue of tasks is in the process.
Outage ==
  /\ outages < MaxOutages
  /\ outages' = outages + 1
  /\ chores' = {} /\ asked' = [s \in Slots |-> NoAsk]
  /\ missed' = missed \cup {t.c : t \in chores}
  /\ UNCHANGED <<rows, acts, early>>

Next ==
  \/ \E s \in Slots :
       \/ BeginCreate(s) \/ BeginUpdate(s) \/ BeginDelete(s)
       \/ CommitCreate(s) \/ CommitUpdate(s) \/ CommitDelete(s) \/ Abort(s)
  \/ \E t \in chores : Run(t) \/ Finish(t) \/ Fail(t)
  \/ Outage

-----------------------------------------------------------------------------
TypeOK ==
  /\ remark \in [Remarks -> Remark]
  /\ told \in [Remarks -> Nat] /\ logged \in [Remarks -> Nat]
  /\ chores \subseteq Chore /\ asked \in [Slots -> Ask]
  /\ acts \in 0..MaxActs /\ outages \in 0..MaxOutages
  /\ missed \subseteq Remarks /\ early \subseteq Remarks

\* "Sharing it later must not notify again": the author is told at most once.  A
\* comment is an Activity only if it is shared, and at most once when requests on
\* it do not overlap and it was not shared before its first task had loaded it.
\* When its tasks are done and none was lost, the author has been told and a shared
\* comment is an Activity, however requests and tasks overlapped.
SharedOnce ==
  \A c \in Remarks :
    /\ told[c] <= 1
    /\ logged[c] > 0 => remark[c].shared
    /\ c \in IsolatedRemarks \ early => logged[c] <= 1
    /\ remark[c].exists /\ c \notin missed /\ (\A t \in chores : t.c # c) =>
         told[c] = 1 /\ (remark[c].shared => logged[c] >= 1)
=============================================================================
