------------------------------- MODULE Gates --------------------------------
(***************************************************************************)
(* Who gets to read what: the gates in front of questions, answers,        *)
(* articles, submissions and comments.  user_permission.py, model_utils.py *)
(* and the parts of responders/ that decide whether there is anything to   *)
(* show.                                                                   *)
(*                                                                         *)
(* A site is created public, with all its flags set, or private, with      *)
(* none, and nothing changes them later; so whoever may read in a site may *)
(* write in it, and the other way round.                                   *)
(***************************************************************************)

CONSTANTS
  Readers,     \* accounts, and Visitor: anyone not logged in
  Visitor,
  Circles,     \* sites
  Writings,    \* questions, answers, articles, submissions and comments
  KindOf, AuthorOf, \* KindOf[d], AuthorOf[d]
  CircleOf,    \* CircleOf[d]: the site of d; NoCircle for articles, and comments on them
  NoCircle,
  Parent       \* Parent[d]: what an answer answers and a comment is about

VARIABLES
  open,      \* the public sites
  belongs,   \* <<r, c>>: r has a profile in site c
  moderator, \* moderator[c]: who moderates site c
  written,   \* what has been written
  published, deleted, \* answers and articles; deleted comments too
  hidden,    \* questions and submissions hidden; answers hidden by a moderator
  restricted \* answers and articles whose visibility is not ANYONE

rows == <<written, published, deleted, hidden, restricted>>
gates == <<open, belongs, moderator, rows>>

Of(kind) == {d \in Writings : KindOf[d] = kind}
Accounts == Readers \ {Visitor}
Written(d, kind) == KindOf[d] = kind /\ d \in written
Add(set, d) == set \cup {d}

\* user_in_site, for reading and for every kind of writing.
InSite(r, c) == c \in open \/ <<r, c>> \in belongs

-----------------------------------------------------------------------------
(* Questions and submissions.                                              *)

\* question_schema_from_orm, which does not look at is_hidden.
QuestionSchema(r, q) == InSite(r, CircleOf[q])

QuestionPreview(r, q) == InSite(r, CircleOf[q]) /\ (q \notin hidden \/ r = AuthorOf[q])

\* question_read_allowed, then question_schema_from_orm.
QuestionPage(r, q) == (q \notin hidden \/ r = AuthorOf[q]) /\ QuestionSchema(r, q)

\* get_readable_question_http.
QuestionAtHand(r, q) == QuestionPage(r, q) /\ q \notin hidden

SubmissionShown(r, d) == d \notin hidden /\ InSite(r, CircleOf[d])

-----------------------------------------------------------------------------
(* Answers, articles and comments.                                         *)

\* is_live_answer, is_live_article.
Live(d) == d \notin deleted /\ d \in published /\ (KindOf[d] = "answer" => d \notin hidden)

AnswerReadable(r, d) ==
  /\ d \notin deleted
  /\ \/ r = AuthorOf[d]
     \/ /\ Live(d) /\ InSite(r, CircleOf[d])
        /\ r = Visitor => d \notin restricted

\* can_read_answer, which a reward for reading goes by.
Givable(r, d) ==
  /\ d \notin deleted
  /\ r = AuthorOf[d] \/ (Live(d) /\ InSite(r, CircleOf[d]))

AnswerPreview(r, d) == AnswerReadable(r, d) /\ QuestionPreview(r, Parent[d])

\* answer_schema_from_orm: an answer without its question is not a valid answer.
AnswerPage(r, d) ==
  /\ AnswerReadable(r, d) /\ (d \in published \/ r = AuthorOf[d])
  /\ QuestionPreview(r, Parent[d])

\* Titles and texts of articles are shown to everyone who is logged in.
ArticlePreview(r, d) ==
  /\ d \notin deleted
  /\ \/ r = AuthorOf[d]
     \/ Live(d) /\ (r = Visitor => d \notin restricted)

\* article_read_allowed, and the author's draft.
ArticleSchema(r, d) == r = AuthorOf[d] \/ (d \in published /\ d \notin restricted)

\* get_article, whose article must be for anyone, even to show it to its author.
ArticlePage(r, d) == ArticleSchema(r, d) /\ d \notin restricted

\* comment_schema_from_orm: what the comment is about is not looked at.
CommentShown(r, k) == CircleOf[k] = NoCircle \/ InSite(r, CircleOf[k])

-----------------------------------------------------------------------------
Preview(r, d) ==
  CASE KindOf[d] = "question" -> QuestionPreview(r, d)
    [] KindOf[d] = "answer" -> AnswerPreview(r, d)
    [] KindOf[d] = "article" -> ArticlePreview(r, d)
    [] KindOf[d] = "comment" -> CommentShown(r, d)
    [] OTHER -> SubmissionShown(r, d)

\* The page of d, or for an article its preview, is there for r.
Page(r, d) ==
  CASE KindOf[d] = "question" -> QuestionPage(r, d)
    [] KindOf[d] = "answer" -> AnswerPage(r, d)
    [] OTHER -> Preview(r, d)
=============================================================================
