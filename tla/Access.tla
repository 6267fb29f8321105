------------------------------- MODULE Access -------------------------------
(***************************************************************************)
(* What may be done to questions, answers, articles, submissions and       *)
(* comments, and what is sent back: services/questions.py, answers.py,     *)
(* articles.py, submissions.py, comments.py, and the routes that call them *)
(* from api/api_v1/endpoints/.                                             *)
(*                                                                         *)
(* A handler runs in the transaction of its request and replies with what  *)
(* its author then sees of the row.  When the gates leave nothing to send, *)
(* and the reply is not declared optional, the reply is not valid and what *)
(* was written is rolled back: no such step. Texts, drafts and what is     *)
(* charged are the subject of Suggestions, Publishing and Payments.        *)
(***************************************************************************)
EXTENDS Gates

CONSTANTS
  FirstWritten, \* what may be written when a behaviour starts
  ModeratorOf   \* ModeratorOf[c]: who has created site c

\* Dependencies that ask for a valid token.
LoggedIn(r) == r # Visitor

Init ==
  /\ open \in SUBSET Circles
  /\ moderator = ModeratorOf
  /\ belongs = {<<moderator[c], c>> : c \in Circles}
  /\ written \in SUBSET FirstWritten
  /\ published = {} /\ deleted = {} /\ hidden = {} /\ restricted = {}

Unwritten(r, d, kind) == KindOf[d] = kind /\ d \notin written /\ r = AuthorOf[d]
Sites == <<open, belongs, moderator>>

-----------------------------------------------------------------------------
(* Questions.                                                              *)

create_question(r, q) ==
  /\ Unwritten(r, q, "question") /\ InSite(r, CircleOf[q])
  /\ written' = Add(written, q)
  /\ UNCHANGED <<Sites, published, deleted, hidden, restricted>>

PostQuestion(r, q) == LoggedIn(r) /\ create_question(r, q) /\ QuestionSchema(r, q)'

\* Its author, and whoever may ask in the site.
update_question(r, q) ==
  /\ Written(q, "question") /\ (r = AuthorOf[q] \/ InSite(r, CircleOf[q]))
  /\ UNCHANGED gates

PutQuestion(r, q) == LoggedIn(r) /\ update_question(r, q) /\ QuestionSchema(r, q)'

hide_question(r, q) ==
  /\ Written(q, "question") /\ r \in {AuthorOf[q], moderator[CircleOf[q]]}
  /\ hidden' = Add(hidden, q)
  /\ UNCHANGED <<Sites, written, published, deleted, restricted>>

HideQuestion(r, q) == LoggedIn(r) /\ hide_question(r, q) /\ QuestionSchema(r, q)'

\* Someone else who may ask in the site; events are the subject of Policy.
invite_answer(r, q, guest) ==
  /\ Written(q, "question") /\ InSite(r, CircleOf[q])
  /\ guest # r /\ InSite(guest, CircleOf[q])
  /\ UNCHANGED gates

InviteAnswer(r, q, guest) == LoggedIn(r) /\ invite_answer(r, q, guest)

-----------------------------------------------------------------------------
(* Answers.                                                                *)

\* One answer per question, deleted ones aside.
Answered(r, q) ==
  \E d \in Of("answer") \cap written : Parent[d] = q /\ AuthorOf[d] = r /\ d \notin deleted

\* Published or as a draft, for anyone or not.
Release(d) ==
  /\ published' \in {published, Add(published, d)}
  /\ restricted' \in {restricted \ {d}, Add(restricted, d)}

create_answer(r, d) ==
  /\ Unwritten(r, d, "answer") /\ Parent[d] \in written
  /\ InSite(r, CircleOf[d]) /\ ~Answered(r, Parent[d])
  /\ written' = Add(written, d)
  /\ Release(d)
  /\ UNCHANGED <<Sites, deleted, hidden>>

PostAnswer(r, d) == LoggedIn(r) /\ create_answer(r, d) /\ AnswerPage(r, d)'

\* A draft is saved and nothing else than the visibility changes, or it is published.
update_answer(r, d) ==
  /\ Written(d, "answer") /\ r = AuthorOf[d] /\ InSite(r, CircleOf[d])
  /\ Release(d)
  /\ UNCHANGED <<Sites, written, deleted, hidden>>

PutAnswer(r, d) == LoggedIn(r) /\ update_answer(r, d) /\ AnswerPage(r, d)'

update_answer_by_mod(r, d) ==
  /\ Written(d, "answer") /\ AnswerPage(r, d) /\ r = moderator[CircleOf[d]]
  /\ hidden' \in {Add(hidden, d), hidden \ {d}}
  /\ UNCHANGED <<Sites, written, published, deleted, restricted>>

\* What the moderator has hidden is hidden from the moderator too.
ModerateAnswer(r, d) == LoggedIn(r) /\ update_answer_by_mod(r, d) /\ AnswerPage(r, d)'

Erase(d) == deleted' = Add(deleted, d) /\ UNCHANGED <<Sites, written, published, hidden, restricted>>

delete_answer(r, d) == Written(d, "answer") /\ r = AuthorOf[d] /\ Erase(d)

DeleteAnswer(r, d) == LoggedIn(r) /\ delete_answer(r, d)

-----------------------------------------------------------------------------
(* Articles.                                                               *)

\* In a column of one's own.
create_article(r, d) ==
  /\ Unwritten(r, d, "article")
  /\ written' = Add(written, d)
  /\ Release(d)
  /\ UNCHANGED <<Sites, deleted, hidden>>

PostArticle(r, d) == LoggedIn(r) /\ create_article(r, d) /\ ArticleSchema(r, d)'

\* Neither this nor the schema asks whether the article is deleted.
update_article(r, d) ==
  /\ Written(d, "article") /\ r = AuthorOf[d]
  /\ Release(d)
  /\ UNCHANGED <<Sites, written, deleted, hidden>>

PutArticle(r, d) == LoggedIn(r) /\ update_article(r, d) /\ ArticleSchema(r, d)'

delete_article(r, d) == Written(d, "article") /\ r = AuthorOf[d] /\ Erase(d)

DeleteArticle(r, d) == LoggedIn(r) /\ delete_article(r, d)

-----------------------------------------------------------------------------
(* Submissions.                                                            *)

create_submission(r, d) ==
  /\ Unwritten(r, d, "submission") /\ InSite(r, CircleOf[d])
  /\ written' = Add(written, d)
  /\ UNCHANGED <<Sites, published, deleted, hidden, restricted>>

PostSubmission(r, d) == LoggedIn(r) /\ create_submission(r, d) /\ SubmissionShown(r, d)'

update_submission(r, d) ==
  /\ Written(d, "submission") /\ r = AuthorOf[d]
  /\ UNCHANGED gates

\* Mutant: the reply is declared optional.
PutSubmissionOptional(r, d) == LoggedIn(r) /\ update_submission(r, d)

PutSubmission(r, d) == LoggedIn(r) /\ update_submission(r, d) /\ SubmissionShown(r, d)'

hide_submission(r, d) ==
  /\ Written(d, "submission") /\ r \in {AuthorOf[d], moderator[CircleOf[d]]}
  /\ hidden' = Add(hidden, d)
  /\ UNCHANGED <<Sites, written, published, deleted, restricted>>

\* This reply is optional.
HideSubmission(r, d) == LoggedIn(r) /\ hide_submission(r, d)

-----------------------------------------------------------------------------
(* Comments.                                                               *)

\* What it is about need not be readable, only its site open to the author.
create_comment(r, k) ==
  /\ Unwritten(r, k, "comment") /\ Parent[k] \in written
  /\ CircleOf[k] = NoCircle \/ InSite(r, CircleOf[k])
  /\ written' = Add(written, k)
  /\ UNCHANGED <<Sites, published, deleted, hidden, restricted>>

PostComment(r, k) == LoggedIn(r) /\ create_comment(r, k) /\ CommentShown(r, k)'

update_comment(r, k) ==
  /\ Written(k, "comment") /\ r = AuthorOf[k]
  /\ CircleOf[k] = NoCircle \/ InSite(r, CircleOf[k])
  /\ UNCHANGED gates

PutComment(r, k) == LoggedIn(r) /\ update_comment(r, k) /\ CommentShown(r, k)'

delete_comment(r, k) == Written(k, "comment") /\ r = AuthorOf[k] /\ Erase(k)

DeleteComment(r, k) == LoggedIn(r) /\ delete_comment(r, k)

-----------------------------------------------------------------------------
(* Sites.                                                                  *)

Join(r, c) ==
  /\ LoggedIn(r) /\ <<r, c>> \notin belongs
  /\ belongs' = Add(belongs, <<r, c>>)
  /\ UNCHANGED <<open, moderator, rows>>

\* The moderator may leave and stay the moderator.
remove_my_site_membership(r, c) ==
  /\ <<r, c>> \in belongs
  /\ belongs' = belongs \ {<<r, c>>}
  /\ UNCHANGED <<open, moderator, rows>>

Leave(r, c) == LoggedIn(r) /\ remove_my_site_membership(r, c)

\* By the moderator, who may hand the site to anyone.
config_site(r, c, heir) ==
  /\ r = moderator[c]
  /\ moderator' = [moderator EXCEPT ![c] = heir]
  /\ UNCHANGED <<open, belongs, rows>>

ConfigSite(r, c, heir) == LoggedIn(r) /\ config_site(r, c, heir)

-----------------------------------------------------------------------------
Writes(r, d) ==
  \/ PostQuestion(r, d) \/ PutQuestion(r, d)
  \/ PostAnswer(r, d) \/ PutAnswer(r, d)
  \/ PostArticle(r, d) \/ PutArticle(r, d)
  \/ PostSubmission(r, d) \/ PutSubmission(r, d)
  \/ PostComment(r, d) \/ PutComment(r, d)

Removes(r, d) ==
  \/ HideQuestion(r, d) \/ HideSubmission(r, d) \/ ModerateAnswer(r, d)
  \/ DeleteAnswer(r, d) \/ DeleteArticle(r, d) \/ DeleteComment(r, d)

Next ==
  \/ \E r \in Readers, d \in Writings :
       \/ Writes(r, d) \/ Removes(r, d)
       \/ \E guest \in Accounts : InviteAnswer(r, d, guest)
  \/ \E r \in Readers, c \in Circles :
       \/ Join(r, c) \/ Leave(r, c)
       \/ \E heir \in Accounts : ConfigSite(r, c, heir)

Spec == Init /\ [][Next]_gates

-----------------------------------------------------------------------------
(* What the page of a question offers: get_question_page.                  *)

editable(r, q) == r # Visitor /\ (r = AuthorOf[q] \/ InSite(r, CircleOf[q]))

\* Mutant: the author is forgotten.
HideableByModerator(r, q) == r # Visitor /\ r = moderator[CircleOf[q]]

hideable(r, q) == r # Visitor /\ r \in {AuthorOf[q], moderator[CircleOf[q]]}

comment_writable(r, q) == r # Visitor /\ InSite(r, CircleOf[q])

\* In a site open to everyone's answers, visitors are told so too.
answer_writable(r, q) == CircleOf[q] \in open \/ (r # Visitor /\ InSite(r, CircleOf[q]))

TypeOK ==
  /\ open \subseteq Circles /\ belongs \subseteq Accounts \X Circles
  /\ moderator \in [Circles -> Accounts]
  /\ written \cup hidden \subseteq Writings
  /\ deleted \subseteq written \ (Of("question") \cup Of("submission"))
  /\ published \cup restricted \subseteq (Of("answer") \cup Of("article")) \cap written

\* r changes d, which is there then, and is not shown it.
WritesBlindly(r, d) == d \in written' /\ ~Preview(r, d)' /\ Writes(r, d)

\* Nobody writes blindly: whoever adds or changes something can then read it where
\* others would, whatever was hidden, deleted or left meanwhile.  Two things escape
\* it: a hidden question, which everyone in its site may go on editing, and a
\* deleted article, which its author may.
NobodyWritesBlindly ==
  \A r \in Readers, d \in Writings : WritesBlindly(r, d) =>
    \/ KindOf[d] = "question" /\ d \in hidden
    \/ KindOf[d] = "article" /\ d \in deleted

\* What the page of a question offers an account can be done, and nothing else; and
\* one's own writing can be taken back at any time, but for a question in a private
\* site that one has left.
OffersHold ==
  \A r \in Accounts :
    /\ \A q \in Of("question") \cap written : QuestionPage(r, q) =>
         /\ editable(r, q) <=> ENABLED PutQuestion(r, q)
         /\ hideable(r, q) <=> ENABLED HideQuestion(r, q)
         /\ \A d \in Writings : Unwritten(r, d, "answer") /\ Parent[d] = q =>
              (answer_writable(r, q) /\ ~Answered(r, q) <=> ENABLED PostAnswer(r, d))
         /\ \A k \in Writings : Unwritten(r, k, "comment") /\ Parent[k] = q =>
              (comment_writable(r, q) <=> ENABLED PostComment(r, k))
    /\ \A d \in written : r = AuthorOf[d] =>
         \/ ENABLED Removes(r, d)
         \/ KindOf[d] = "question" /\ ~InSite(r, CircleOf[d])
=============================================================================
