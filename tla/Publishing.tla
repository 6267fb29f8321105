----------------------------- MODULE Publishing -----------------------------
(***************************************************************************)
(* The life of an answer or an article: drafts, publication, the archive   *)
(* of replaced texts, deletion, and the announcement of a publication by a *)
(* task that runs after the request's commit.                              *)
(* services/answers.py, services/articles.py, services/postprocess.py.     *)
(*                                                                         *)
(* A request loads the item, works on the loaded object and commits; only  *)
(* columns whose value changed are written, and most paths reload the row  *)
(* between flush and commit.  Request number n writes text n.              *)
(***************************************************************************)
EXTENDS Integers, FiniteSets

CONSTANTS
  Items,        \* answers and articles
  Kind,         \* Kind[i]: "answer" or "article"
  Slots,        \* threads that may be serving a request
  MaxRequests,  \* bound on the requests a behaviour contains
  MaxCrashes,   \* bound on the crashes of the process
  TasksFail,    \* TRUE: a background task may raise
  IsolatedItems \* items on which requests happen never to overlap

ASSUME ConstantsAssumption ==
  /\ Kind \in [Items -> {"answer", "article"}]
  /\ Items # {}
  /\ MaxRequests \in Nat /\ MaxCrashes \in Nat
  /\ TasksFail \in BOOLEAN /\ IsolatedItems \subseteq Items

VARIABLES
  post,       \* post[i]: the row of item i
  archive,    \* archive[i][n]: the text in the archive row written by request n
  tasks,      \* background tasks queued or running
  announced,  \* announced[i]: Activity rows for the publication of i
  req,        \* req[s]: the request thread s is serving, with what it has read
  served,     \* requests started so far
  crashes,    \* crashes so far
  ever        \* history: texts of i that have been public

store == <<post, archive, announced, ever>>
vars == <<store, tasks, req, served, crashes>>

None == -1    \* NULL
Erased == 0   \* "[DELETED]"
Numbers == 1..MaxRequests
Texts == Numbers \cup {None, Erased}

Row == [exists : BOOLEAN, published : BOOLEAN, deleted : BOOLEAN,
        body : Texts, draft : Texts]
NoRow == [exists |-> FALSE, published |-> FALSE, deleted |-> FALSE,
          body |-> None, draft |-> None]
NoArchive == [n \in Numbers |-> None]

Ops == {"create", "createPublished", "draft", "publish", "publishBare", "drop", "delete"}
Request == [pc : {"idle", "archives", "commit"}, op : Ops, item : Items,
            n : 0..MaxRequests,                 \* the request's number, and text
            row : Row,                          \* the item as loaded
            archive : [Numbers -> Texts]]       \* its archive as loaded
Idle == [pc |-> "idle", op |-> "draft", item |-> CHOOSE i \in Items : TRUE,
         n |-> 0, row |-> NoRow, archive |-> NoArchive]

Task == [item : Items, was : BOOLEAN, n : Numbers]

Init ==
  /\ post = [i \in Items |-> NoRow]
  /\ archive = [i \in Items |-> NoArchive]
  /\ tasks = {}
  /\ announced = [i \in Items |-> 0]
  /\ req = [s \in Slots |-> Idle]
  /\ served = 0 /\ crashes = 0
  /\ ever = [i \in Items |-> {}]

-----------------------------------------------------------------------------
(* Requests.                                                               *)

At(s, step) == req[s].pc = step

Isolated(i) == \A t \in Slots : ~At(t, "idle") => req[t].item # i

Creates(op) == op \in {"create", "createPublished"}

\* A new item has an identity of its own; everything else needs the row, and
\* deleting the draft of an answer needs a draft.  Only an answer can be
\* published without sending a text.
Allowed(op, i) ==
  /\ IF Creates(op)
     THEN ~post[i].exists /\ \A t \in Slots : ~At(t, "idle") => req[t].item # i
     ELSE post[i].exists
  /\ op = "drop" => Kind[i] = "article" \/ post[i].draft # None
  /\ op = "publishBare" => Kind[i] = "answer"

\* The item is loaded; the answer to an absent item or draft is an error.
Begin(s) ==
  \E op \in Ops, i \in Items :
    /\ At(s, "idle") /\ served < MaxRequests
    /\ Allowed(op, i)
    /\ i \in IsolatedItems => Isolated(i)
    /\ served' = served + 1
    /\ req' = [req EXCEPT ![s] =
         [Idle EXCEPT !.pc = IF op = "delete" THEN "archives" ELSE "commit",
                      !.op = op, !.item = i, !.n = served + 1, !.row = post[i]]]
    /\ UNCHANGED <<store, tasks, crashes>>

\* delete_forever loops over item.archives, loaded on first use.
ReadArchives(s) ==
  /\ At(s, "archives")
  /\ req' = [req EXCEPT ![s].archive = archive[req[s].item], ![s].pc = "commit"]
  /\ UNCHANGED <<store, tasks, served, crashes>>

\* A column is written only if its value differs from the loaded one.
NetChange(new, loaded, current) == IF new = loaded THEN current ELSE new

\* Mutants: every update looks like a publication, none does.
WasNot(q) == FALSE
WasSurely(q) == TRUE

\* was_published: the flag as loaded, taken before the update.
Was(q) == q.row.published

\* After the refresh, a published item gets a background task.
Queue(q, row) ==
  IF row.published THEN tasks \cup {[item |-> q.item, was |-> Was(q), n |-> q.n]}
                   ELSE tasks

Finish(s) == req' = [req EXCEPT ![s] = Idle] /\ UNCHANGED <<served, crashes, announced>>

CommitCreate(s) ==
  LET q == req[s]
      new == [NoRow EXCEPT !.exists = TRUE, !.body = q.n,
                           !.published = (q.op = "createPublished")]
  IN
  /\ At(s, "commit") /\ Creates(q.op)
  /\ post' = [post EXCEPT ![q.item] = new]
  /\ tasks' = Queue(q, new)
  /\ ever' = [ever EXCEPT ![q.item] = IF new.published THEN {q.n} ELSE {}]
  /\ Finish(s) /\ UNCHANGED archive

\* The response is shaped from the reloaded row; a deleted answer has none, and
\* unwrap raises.
Readable(i) == Kind[i] = "answer" => ~post[i].deleted

\* The row after a draft has been saved.
Drafted(q) == [post[q.item] EXCEPT !.draft = q.n]

CommitDraft(s) ==
  LET q == req[s] IN
  /\ At(s, "commit") /\ q.op = "draft" /\ Readable(q.item)
  /\ post' = [post EXCEPT ![q.item] = Drafted(q)]
  /\ tasks' = Queue(q, Drafted(q))
  /\ Finish(s) /\ UNCHANGED <<archive, ever>>

\* The row after a publication.
Published(q) ==
  LET p == post[q.item] IN
  [p EXCEPT !.published = TRUE,
            !.body = IF q.op = "publish" THEN q.n ELSE p.body,
            !.draft = NetChange(None, q.row.draft, p.draft)]

\* Mutant: the archive row is forgotten.
ArchivedNot(q) == archive[q.item]

\* The text that is replaced, as loaded, if it has been public.
Archived(q) ==
  IF q.row.published THEN [archive[q.item] EXCEPT ![q.n] = q.row.body]
                     ELSE archive[q.item]

CommitPublish(s) ==
  LET q == req[s] IN
  /\ At(s, "commit") /\ q.op \in {"publish", "publishBare"} /\ Readable(q.item)
  /\ post' = [post EXCEPT ![q.item] = Published(q)]
  /\ archive' = [archive EXCEPT ![q.item] = Archived(q)]
  /\ tasks' = Queue(q, Published(q))
  /\ ever' = [ever EXCEPT ![q.item] = @ \cup {Published(q).body}]
  /\ Finish(s)

\* delete_draft writes without reloading.
CommitDrop(s) ==
  LET q == req[s] IN
  /\ At(s, "commit") /\ q.op = "drop"
  /\ post' = [post EXCEPT ![q.item].draft = NetChange(None, q.row.draft, @)]
  /\ Finish(s) /\ UNCHANGED <<archive, tasks, ever>>

\* Mutant: archives keep their texts.
KeptArchive(q) == archive[q.item]

\* The archive rows that were loaded lose their texts.
ErasedArchive(q) ==
  [n \in Numbers |-> IF q.archive[n] = None THEN archive[q.item][n]
                     ELSE NetChange(Erased, q.archive[n], archive[q.item][n])]

CommitDelete(s) ==
  LET q == req[s] IN
  /\ At(s, "commit") /\ q.op = "delete"
  /\ post' = [post EXCEPT ![q.item].deleted = TRUE,
                          ![q.item].body = NetChange(Erased, q.row.body, @),
                          ![q.item].draft = NetChange(Erased, q.row.draft, @)]
  /\ archive' = [archive EXCEPT ![q.item] = ErasedArchive(q)]
  /\ Finish(s) /\ UNCHANGED <<tasks, ever>>

\* Any exception: rolled back, nothing queued.
Abort(s) ==
  /\ ~At(s, "idle")
  /\ req' = [req EXCEPT ![s] = Idle]
  /\ UNCHANGED <<store, tasks, served, crashes>>

-----------------------------------------------------------------------------
(* Background tasks, in memory, each in a session of its own.              *)

\* The assertion at the head of every task: the item exists and is published.
AssertPublished(t) == post[t.item].exists /\ post[t.item].published

\* Only a publication is announced.
Announces(t) == ~t.was

\* distribute writes the Activity with its Feed and Notification rows; one commit.
RunTask(t) ==
  /\ t \in tasks /\ AssertPublished(t)
  /\ tasks' = tasks \ {t}
  /\ announced' = [announced EXCEPT ![t.item] = IF Announces(t) THEN @ + 1 ELSE @]
  /\ UNCHANGED <<post, archive, ever, req, served, crashes>>

\* execute_with_context swallows the exception: rolled back, logged, not retried.
FailTask(t) ==
  /\ t \in tasks
  /\ TasksFail \/ ~AssertPublished(t)
  /\ tasks' = tasks \ {t}
  /\ UNCHANGED <<store, req, served, crashes>>

\* The process dies: open transactions are rolled back and tasks are gone.
Crash ==
  /\ crashes < MaxCrashes
  /\ crashes' = crashes + 1
  /\ tasks' = {}
  /\ req' = [s \in Slots |-> Idle]
  /\ UNCHANGED <<store, served>>

Next ==
  \/ \E s \in Slots :
       \/ Begin(s) \/ ReadArchives(s)
       \/ CommitCreate(s) \/ CommitDraft(s) \/ CommitPublish(s)
       \/ CommitDrop(s) \/ CommitDelete(s) \/ Abort(s)
  \/ \E t \in tasks : RunTask(t) \/ FailTask(t)
  \/ Crash

Spec == Init /\ [][Next]_vars

-----------------------------------------------------------------------------
TypeOK ==
  /\ post \in [Items -> Row]
  /\ archive \in [Items -> [Numbers -> Texts]]
  /\ tasks \subseteq Task
  /\ announced \in [Items -> Nat]
  /\ req \in [Slots -> Request]
  /\ served \in 0..MaxRequests
  /\ crashes \in 0..MaxCrashes
  /\ ever \in [Items -> SUBSET Numbers]   \* what is erased is never made public

\* `assert article.is_published` at the head of a task never fails: a task is
\* queued only after the reloaded row said so, and publication is never undone,
\* not even by a draft save that had loaded the row before the publication.
TasksArePublished == \A t \in tasks : AssertPublished(t)
StaysPublished == [][\A i \in Items : post[i].published => post'[i].published]_vars

\* A publication is announced at most once, crash or not: if requests on one item
\* do not overlap, was_published is what the row said just before.
AnnouncedOnce == \A i \in IsolatedItems : announced[i] <= 1

\* Nothing that has been public disappears from a living item: it is the body or
\* in the archive, if requests on the item do not overlap.
InArchive(i, x) == \E n \in Numbers : archive[i][n] = x
NothingLost ==
  \A i \in IsolatedItems : ~post[i].deleted =>
    \A x \in ever[i] : x = post[i].body \/ InArchive(i, x)

\* delete_forever leaves no text of an answer, if requests do not overlap; later
\* saves of the draft and publications are refused and rolled back.
Leftovers(i) == {post[i].body, post[i].draft} \cup {archive[i][n] : n \in Numbers}
AnswersErased ==
  \A i \in IsolatedItems : Kind[i] = "answer" /\ post[i].deleted
                              => Leftovers(i) \subseteq {None, Erased}

-----------------------------------------------------------------------------
(* The abstract specification this one implements.                         *)

Phase == [i \in IsolatedItems |-> CASE ~post[i].exists -> "absent"
                                   [] post[i].exists /\ ~post[i].published -> "draft"
                                   [] OTHER -> "published"]
Gone == [i \in IsolatedItems |-> post[i].deleted]
Told == [i \in IsolatedItems |-> announced[i]]

Promise == INSTANCE Publication
  WITH Items <- IsolatedItems, phase <- Phase, gone <- Gone, announced <- Told

\* Seen from outside, items are written, published, deleted and announced once
\* each, whatever tasks and crashes do, if requests on one item do not overlap.
ImplementsPublication == Promise!Spec

-----------------------------------------------------------------------------
(* Statements of the sources that the code does not keep.                  *)

\* "fires at most once per article", whatever overlaps.
AnnouncedAtMostOnce == \A i \in Items : announced[i] <= 1
-----------------------------------------------------------------------------
(* The instances that are checked: one isolated article among answers, and *)
(* articles only.                                                          *)
Mixed ==
  [i \in Items |-> IF i = CHOOSE j \in IsolatedItems : TRUE THEN "article" ELSE "answer"]
AnArticle == [i \in Items |-> "article"]
=============================================================================
