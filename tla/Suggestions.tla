---------------------------- MODULE Suggestions ----------------------------
(***************************************************************************)
(* Posting and editing questions, answers and submissions; and suggested   *)
(* edits of the last two: proposed by readers, taken back and reopened by  *)
(* them, rejected or accepted by the content's author.                     *)
(* services/answer_suggest_edits.py, services/submission_suggestions.py,   *)
(* services/questions.py and the updates that suggestions share with       *)
(* direct edits.                                                           *)
(*                                                                         *)
(* A request loads the suggestion, then the content, then writes both in   *)
(* one commit.  Request number n proposes suggestion n, with text n, or    *)
(* edits the content directly to text n.                                   *)
(***************************************************************************)
EXTENDS Integers, FiniteSets

CONSTANTS
  Contents,         \* questions, answers and submissions
  Kind,             \* Kind[c]: "question", "answer" or "submission"
  Owner,            \* Owner[c]: its author
  Users,            \* users who may act
  Slots,            \* threads that may be serving a request
  MaxRequests,      \* bound on the requests a behaviour contains
  IsolatedContents  \* contents on which requests happen never to overlap

ASSUME ConstantsAssumption ==
  /\ Kind \in [Contents -> {"question", "answer", "submission"}]
  /\ Owner \in [Contents -> Users]
  /\ MaxRequests \in Nat
  /\ IsolatedContents \subseteq Contents

VARIABLES
  content,   \* content[c]: the row of content c
  saved,     \* saved[c]: texts in its archive
  credits,   \* credits[c][u]: rows naming u as a contributor of c
  sugg,      \* sugg[g]: the row of suggestion g
  uses,      \* history: how often the text of g was put into the content
  ever,      \* history: texts of c that have been public
  req,       \* req[s]: the request thread s is serving, with what it has read
  served     \* requests started so far

store == <<content, saved, credits, sugg, uses, ever>>
vars == <<store, req, served>>

None == -2       \* NULL
Erased == -1     \* "[DELETED]"
Original == 0    \* the text the content starts with
Numbers == 1..MaxRequests
Texts == Numbers \cup {None, Erased, Original}

Statuses == {"absent", "pending", "rejected", "retracted", "accepted"}
Sugg == [status : Statuses, of : Contents, by : Users, text : Texts]
Row == [body : Texts, draft : Texts, published : BOOLEAN, gone : BOOLEAN]
Answers == {"accept", "reject", "retract", "reopen"}   \* answers to a suggestion
Ops == {"propose", "proposeBare", "edit", "draft"} \cup Answers

NoContent == CHOOSE c \in Contents : TRUE
NoUser == CHOOSE u \in Users : TRUE
NoSugg == [status |-> "absent", of |-> NoContent, by |-> NoUser, text |-> None]
NoRow == [body |-> None, draft |-> None, published |-> FALSE, gone |-> FALSE]
Exists(c) == content[c] # NoRow
Request == [pc : {"idle", "content", "commit"}, op : Ops, user : Users, of : Contents,
            n : 0..MaxRequests,                     \* the request's number
            g : 0..MaxRequests, sugg : Sugg,        \* the suggestion as loaded
            row : Row, credited : SUBSET Users]     \* the content as loaded
Idle == [pc |-> "idle", op |-> "edit", user |-> NoUser, of |-> NoContent, n |-> 0,
         g |-> 0, sugg |-> NoSugg, row |-> NoRow, credited |-> {}]

Init ==
  /\ content = [c \in Contents |-> NoRow]
  /\ saved = [c \in Contents |-> {}]
  /\ credits = [c \in Contents |-> [u \in Users |-> 0]]
  /\ sugg = [g \in Numbers |-> NoSugg]
  /\ uses = [g \in Numbers |-> 0]
  /\ ever = [c \in Contents |-> {}]
  /\ req = [s \in Slots |-> Idle]
  /\ served = 0

-----------------------------------------------------------------------------
(* Requests.                                                               *)

At(s, step) == req[s].pc = step

Isolated(c) == \A t \in Slots : ~At(t, "idle") => req[t].of # c

Start(s, q) ==
  /\ At(s, "idle") /\ served < MaxRequests
  /\ q.of \in IsolatedContents => Isolated(q.of)
  /\ req' = [req EXCEPT ![s] = [q EXCEPT !.n = served + 1]]
  /\ served' = served + 1
  /\ UNCHANGED store

\* Answers may start as drafts.  What charges and races a posting has is the
\* subject of Links, and what it announces of Delivery.
Post(c) ==
  \E published \in BOOLEAN :
    /\ ~Exists(c) /\ (Kind[c] # "answer" => published)
    /\ content' = [content EXCEPT ![c] =
                     [NoRow EXCEPT !.body = Original, !.published = published]]
    /\ ever' = [ever EXCEPT ![c] = IF published THEN {Original} ELSE {}]
    /\ UNCHANGED <<saved, credits, sugg, uses, req, served>>

\* Proposals and direct edits name the content.  A question is edited by anyone who
\* may ask on its site and takes no suggestions; the others are edited by their
\* author.  Only answers have drafts.
BeginOnContent(s) ==
  \E op \in Ops \ Answers, c \in Contents, u \in Users :
    /\ Exists(c)
    /\ op \in {"edit", "draft"} /\ Kind[c] # "question" => u = Owner[c]
    /\ op = "propose" => Kind[c] # "question"
    /\ op \in {"draft", "proposeBare"} => Kind[c] = "answer"
    /\ Start(s, [Idle EXCEPT !.pc = "content", !.op = op, !.user = u, !.of = c])

\* _check_author and _check_suggestion_author.
May(op, u, g) ==
  IF op \in {"accept", "reject"} THEN u = Owner[sugg[g].of] ELSE u = sugg[g].by

\* Mutant: a suggestion that has been accepted can be answered again.
FollowsAlways(op, status) == status # "absent"

\* The status as loaded decides what may follow; the rest is refused.
Follows(op, status) ==
  IF op = "reopen" THEN status = "retracted" ELSE status \in {"pending", "rejected"}

BeginOnSuggestion(s) ==
  \E op \in Answers, g \in Numbers, u \in Users :
    /\ Follows(op, sugg[g].status) /\ May(op, u, g)
    /\ Start(s, [Idle EXCEPT !.pc = "content", !.op = op, !.user = u,
                             !.of = sugg[g].of, !.g = g, !.sugg = sugg[g]])

\* The content and its contributors are loaded; an answer with a draft takes no
\* new suggestions.
ReadContent(s) ==
  LET q == req[s] c == q.of IN
  /\ At(s, "content")
  /\ q.op \in {"propose", "proposeBare"} => content[c].draft = None
  /\ req' = [req EXCEPT ![s].pc = "commit", ![s].row = content[c],
                        ![s].credited = {u \in Users : credits[c][u] > 0}]
  /\ UNCHANGED <<store, served>>

\* A column is written only if its value differs from the loaded one.
NetChange(new, loaded, current) == IF new = loaded THEN current ELSE new

\* The response is shaped from the reloaded content, and unwrap raises if its
\* reader may not see it: deleted, hidden, or somebody else's draft.  A question is
\* shown even when it is hidden.
Readable(q) ==
  LET p == content[q.of] IN
  Kind[q.of] = "question" \/ (~p.gone /\ (p.published \/ q.user = Owner[q.of]))

Finish(s) == req' = [req EXCEPT ![s] = Idle] /\ UNCHANGED served

CommitProposal(s) ==
  LET q == req[s] IN
  /\ At(s, "commit") /\ q.op \in {"propose", "proposeBare"} /\ Readable(q)
  /\ sugg' = [sugg EXCEPT ![q.n] =
       [status |-> "pending", of |-> q.of, by |-> q.user,
        text |-> IF q.op = "propose" THEN q.n ELSE None]]
  /\ Finish(s) /\ UNCHANGED <<content, saved, credits, uses, ever>>

\* Mutant: the replaced text is archived for submissions only.
ReplacedLost(q) == IF Kind[q.of] = "submission" THEN {q.row.body} ELSE {}

\* update_question, apply_answer_update and apply_submission_update archive the
\* text as loaded; an answer only if it was published.
Replaced(q) == IF q.row.published THEN {q.row.body} ELSE {}

\* The content after an update to `text`; without one the body stays.  The
\* update publishes and clears the draft.
Updated(q, text) ==
  LET p == content[q.of] IN
  [p EXCEPT !.body = IF text = None THEN @ ELSE NetChange(text, q.row.body, @),
            !.draft = NetChange(None, q.row.draft, @),
            !.published = TRUE]

Update(q, text) ==
  /\ content' = [content EXCEPT ![q.of] = Updated(q, text)]
  /\ saved' = [saved EXCEPT ![q.of] = @ \cup Replaced(q)]
  /\ ever' = [ever EXCEPT ![q.of] = @ \cup {Updated(q, text).body}]

CommitEdit(s) ==
  LET q == req[s] IN
  /\ At(s, "commit") /\ q.op = "edit" /\ Readable(q)
  /\ Update(q, q.n)
  /\ Finish(s) /\ UNCHANGED <<credits, sugg, uses>>

CommitDraft(s) ==
  LET q == req[s] IN
  /\ At(s, "commit") /\ q.op = "draft" /\ Readable(q)
  /\ content' = [content EXCEPT ![q.of].draft = q.n]
  /\ Finish(s) /\ UNCHANGED <<saved, credits, sugg, uses, ever>>

\* The status of a suggestion after an answer to it.
Outcome(op) == CASE op = "accept" -> "accepted"  [] op = "reject" -> "rejected"
                 [] op = "retract" -> "retracted" [] op = "reopen" -> "pending"

\* crud.update writes the columns that differ from the loaded row.
Settled(q) == [sugg EXCEPT ![q.g].status = NetChange(Outcome(q.op), q.sugg.status, @)]

\* The suggestion's author becomes a contributor unless loaded as one.
Credit(q) ==
  IF q.sugg.by \in q.credited THEN credits ELSE [credits EXCEPT ![q.of][q.sugg.by] = @ + 1]

CommitAccept(s) ==
  LET q == req[s] IN
  /\ At(s, "commit") /\ q.op = "accept" /\ Readable(q)
  /\ Update(q, q.sugg.text)
  /\ credits' = Credit(q)
  /\ sugg' = Settled(q)
  /\ uses' = [uses EXCEPT ![q.g] = @ + 1]
  /\ Finish(s)

CommitAnswer(s) ==
  LET q == req[s] IN
  /\ At(s, "commit") /\ q.op \in {"reject", "retract", "reopen"} /\ Readable(q)
  /\ sugg' = Settled(q)
  /\ Finish(s) /\ UNCHANGED <<content, saved, credits, uses, ever>>

\* A refused operation (not a member of the site, too few coins, an unreadable
\* response) or any exception: everything is rolled back.
Abort(s) ==
  /\ ~At(s, "idle")
  /\ req' = [req EXCEPT ![s] = Idle]
  /\ UNCHANGED <<store, served>>

\* An answer is deleted with its archive; a question or submission is hidden for
\* good.  How a deletion overlaps other requests is the subject of Publishing.
Remove(c) ==
  /\ Exists(c) /\ ~content[c].gone
  /\ c \in IsolatedContents => Isolated(c)
  /\ content' = [content EXCEPT ![c] =
       IF Kind[c] = "answer" THEN [@ EXCEPT !.gone = TRUE, !.body = Erased, !.draft = Erased]
                             ELSE [@ EXCEPT !.gone = TRUE]]
  /\ saved' = [saved EXCEPT ![c] = IF Kind[c] = "answer" THEN {Erased} ELSE @]
  /\ UNCHANGED <<credits, sugg, uses, ever, req, served>>

Next ==
  \/ \E s \in Slots :
       \/ BeginOnContent(s) \/ BeginOnSuggestion(s) \/ ReadContent(s)
       \/ CommitProposal(s) \/ CommitEdit(s) \/ CommitDraft(s)
       \/ CommitAccept(s) \/ CommitAnswer(s) \/ Abort(s)
  \/ \E c \in Contents : Post(c) \/ Remove(c)

Spec == Init /\ [][Next]_vars

-----------------------------------------------------------------------------
TypeOK ==
  /\ content \in [Contents -> Row]
  /\ saved \in [Contents -> SUBSET Texts]
  /\ credits \in [Contents -> [Users -> Nat]]
  /\ sugg \in [Numbers -> Sugg]
  /\ uses \in [Numbers -> Nat]
  /\ ever \in [Contents -> SUBSET Texts]
  /\ req \in [Slots -> Request]
  /\ served \in 0..MaxRequests

\* Whatever overlaps, the text of an accepted suggestion has been in the content
\* and its author is named as a contributor; once, if requests on the content do
\* not overlap.
AcceptedLeavesTrace ==
  \A g \in Numbers :
    LET named == credits[sugg[g].of][sugg[g].by] IN
    sugg[g].status = "accepted" =>
      /\ uses[g] >= 1 /\ named >= 1
      /\ sugg[g].of \in IsolatedContents => named = 1

\* No public text is lost by editing or accepting: it is the body or in the
\* archive of every content that is not deleted, hidden or not, if requests on it
\* do not overlap.
PublicTextsKept ==
  \A c \in IsolatedContents : content[c].body # Erased =>
    \A x \in ever[c] : x = content[c].body \/ x \in saved[c]

\* What edits and accepted suggestions did to a text can be told afterwards.
TextsAccounted == AcceptedLeavesTrace /\ PublicTextsKept

-----------------------------------------------------------------------------
(* The abstract specification this one implements.                         *)

Alone == {g \in Numbers : sugg[g].status # "absent" => sugg[g].of \in IsolatedContents}

Phase == [g \in Numbers |->
  CASE sugg[g].status \in {"pending", "rejected"} /\ g \in Alone -> "open"
    [] sugg[g].status \in {"retracted", "accepted"} /\ g \in Alone -> sugg[g].status
    [] OTHER -> "absent"]
Uses == [g \in Numbers |-> IF Phase[g] = "absent" THEN 0 ELSE uses[g]]

Course == INSTANCE Suggestion WITH Suggestions <- Numbers, phase <- Phase, uses <- Uses

\* Suggestions for contents on which requests do not overlap go through their
\* course: decided once, and used exactly when accepted.
ImplementsCourse == Course!Spec
=============================================================================
