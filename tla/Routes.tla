------------------------------- MODULE Routes -------------------------------
(***************************************************************************)
(* The routes that are not lists and write nothing but votes: one object   *)
(* at a time, what belongs to it, reports about it, who is in a site, and  *)
(* profiles.                                                               *)
(* api/api_v1/endpoints/, and services/ where a route is more than what    *)
(* Gates says.                                                             *)
(*                                                                         *)
(* An operator says whether the route has something to send to reader r,   *)
(* or what; a vote is an action.  What votes cost, and what they are worth *)
(* to authors, is the subject of Votes.                                    *)
(***************************************************************************)
EXTENDS Gates, Integers, FiniteSets

CONSTANTS
  Staff,  \* accounts that are superusers
  Retired \* accounts that were made inactive, which is done by hand

VARIABLE voted  \* <<r, d>>: r has upvoted d, and not cancelled it

Own(r, d, kind) == r # Visitor /\ Written(d, kind) /\ r = AuthorOf[d]

-----------------------------------------------------------------------------
(* Questions.                                                              *)

get_readable_question(r, q) ==
  Written(q, "question") /\ (q \notin hidden \/ r = AuthorOf[q])

\* Hidden questions are refused, even to their authors.
GetQuestion(r, q) == get_readable_question(r, q) /\ QuestionAtHand(r, q)

GetQuestionPage(r, q) == get_readable_question(r, q) /\ QuestionSchema(r, q)

GetQuestionAnswers(r, q) ==
  {d \in Of("answer") \cap written :
    Parent[d] = q /\ InSite(r, CircleOf[q]) /\ AnswerPreview(r, d)}

\* Mutant: whoever is in the site gets them.
ArchivesInSite(r, q) == Written(q, "question") /\ InSite(r, CircleOf[q])

GetQuestionArchives(r, q) == Written(q, "question") /\ QuestionAtHand(r, q)

GetQuestionSubscription(r, q) == r # Visitor /\ Written(q, "question") /\ QuestionAtHand(r, q)

-----------------------------------------------------------------------------
(* Answers, articles and submissions.                                      *)

GetAnswer(r, d) == Written(d, "answer") /\ AnswerPage(r, d)

\* Drafts and former texts are the author's, and stay so after a deletion.
get_answer_draft(r, d) == Written(d, "answer") /\ r = AuthorOf[d]
GetAnswerDraft(r, d) == r # Visitor /\ get_answer_draft(r, d)
GetAnswerArchives(r, d) == Own(r, d, "answer")

get_readable_answer(r, d) == Written(d, "answer") /\ AnswerReadable(r, d)
BookmarkAnswer(r, d) == r # Visitor /\ get_readable_answer(r, d)

GetArticle(r, d) == Written(d, "article") /\ ArticlePage(r, d)

get_article_draft(r, d) == Written(d, "article") /\ r = AuthorOf[d]
GetArticleDraft(r, d) == r # Visitor /\ get_article_draft(r, d)
list_article_archives(r, d) == Written(d, "article") /\ r = AuthorOf[d]
GetArticleArchives(r, d) == r # Visitor /\ list_article_archives(r, d)

get_submission(r, d) == Written(d, "submission") /\ SubmissionShown(r, d)
GetSubmission(r, d) == get_submission(r, d)

\* Neither asks whether the submission is hidden.
list_submission_archives(r, d) == Written(d, "submission") /\ InSite(r, CircleOf[d])
GetSubmissionArchives(r, d) == r # Visitor /\ list_submission_archives(r, d)
get_readable_submission(r, d) == Written(d, "submission") /\ InSite(r, CircleOf[d])

GetComment(r, k) == Written(k, "comment") /\ CommentShown(r, k)

-----------------------------------------------------------------------------
(* Votes.                                                                  *)

\* How often d has been upvoted, and whether r has.
Tally(r, d) ==
  [count |-> Cardinality({s \in Accounts : <<s, d>> \in voted}), upvoted |-> <<r, d>> \in voted]

\* Nobody is refused; that of an article comes with its page.
TallyOf(kind, r, d) == IF Written(d, kind) THEN {Tally(r, d)} ELSE {}
get_question_upvotes(r, q) == TallyOf("question", r, q)
get_answer_upvotes(r, d) == TallyOf("answer", r, d)
get_submission_upvotes(r, d) == TallyOf("submission", r, d)
get_comment_upvotes(r, k) == TallyOf("comment", r, k)
Tallies(r, d) ==
  get_question_upvotes(r, d) \cup get_answer_upvotes(r, d)
    \cup get_submission_upvotes(r, d) \cup get_comment_upvotes(r, d)

Upvoted(r, d) == voted' = Add(voted, <<r, d>>) /\ UNCHANGED gates
Cancelled(r, d) == voted' = voted \ {<<r, d>>} /\ UNCHANGED gates

\* Voting again and cancelling nothing succeed without a trace, but for articles.
Again(r, d) == <<r, d>> \in voted \/ r # AuthorOf[d]

upvote_question(r, q) ==
  /\ Written(q, "question") /\ InSite(r, CircleOf[q]) /\ Again(r, q)
  /\ Upvoted(r, q)
UpvoteQuestion(r, q) == r # Visitor /\ upvote_question(r, q)

cancel_upvote_question(r, q) ==
  /\ Written(q, "question") /\ InSite(r, CircleOf[q])
  /\ Cancelled(r, q)
CancelUpvoteQuestion(r, q) == r # Visitor /\ cancel_upvote_question(r, q)

\* The site is looked at only where there is something to do.
upvote_answer(r, d) ==
  /\ Written(d, "answer") /\ Again(r, d)
  /\ <<r, d>> \in voted \/ InSite(r, CircleOf[d])
  /\ Upvoted(r, d)
UpvoteAnswer(r, d) == r # Visitor /\ upvote_answer(r, d)

cancel_upvote_answer(r, d) ==
  /\ Written(d, "answer")
  /\ <<r, d>> \notin voted \/ InSite(r, CircleOf[d])
  /\ Cancelled(r, d)
CancelUpvoteAnswer(r, d) == r # Visitor /\ cancel_upvote_answer(r, d)

upvote_article(r, d) ==
  /\ Written(d, "article") /\ <<r, d>> \notin voted /\ r # AuthorOf[d]
  /\ Upvoted(r, d)
UpvoteArticle(r, d) == r # Visitor /\ upvote_article(r, d)

cancel_upvote_article(r, d) ==
  /\ Written(d, "article") /\ <<r, d>> \in voted
  /\ Cancelled(r, d)
CancelUpvoteArticle(r, d) == r # Visitor /\ cancel_upvote_article(r, d)

upvote_submission(r, d) ==
  /\ Written(d, "submission") /\ InSite(r, CircleOf[d]) /\ Again(r, d)
  /\ Upvoted(r, d)
UpvoteSubmission(r, d) == r # Visitor /\ upvote_submission(r, d)

cancel_upvote_submission(r, d) ==
  /\ Written(d, "submission") /\ InSite(r, CircleOf[d])
  /\ Cancelled(r, d)
CancelUpvoteSubmission(r, d) == r # Visitor /\ cancel_upvote_submission(r, d)

upvote_comment(r, k) ==
  /\ Written(k, "comment") /\ CommentShown(r, k) /\ Again(r, k)
  /\ Upvoted(r, k)
UpvoteComment(r, k) == r # Visitor /\ upvote_comment(r, k)

cancel_upvote_comment(r, k) ==
  /\ Written(k, "comment") /\ CommentShown(r, k)
  /\ Cancelled(r, k)
CancelUpvoteComment(r, k) == r # Visitor /\ cancel_upvote_comment(r, k)

Vote(r, d) ==
  \/ UpvoteQuestion(r, d) \/ UpvoteAnswer(r, d) \/ UpvoteArticle(r, d)
  \/ UpvoteSubmission(r, d) \/ UpvoteComment(r, d)
Cancel(r, d) ==
  \/ CancelUpvoteQuestion(r, d) \/ CancelUpvoteAnswer(r, d) \/ CancelUpvoteArticle(r, d)
  \/ CancelUpvoteSubmission(r, d) \/ CancelUpvoteComment(r, d)

-----------------------------------------------------------------------------
(* Reports.  Nothing reads them.                                           *)

\* What a report is about is looked up; articles, and comments on them, have no site.
create_with_author(r, d) ==
  d \in written /\ (CircleOf[d] # NoCircle => InSite(r, CircleOf[d]))

\* The ids in a request, of which there has to be one.
create_report(r, ids) == Cardinality(ids) = 1 /\ \A d \in ids : create_with_author(r, d)
CreateReport(r, ids) == r # Visitor /\ create_report(r, ids)

-----------------------------------------------------------------------------
(* Sites and who is in them.                                               *)

get_site_info(r, c) == InSite(r, c)
GetSiteInfo(r, c) == get_site_info(r, c)

\* The map of sites is for everyone.
SiteMaps == {c \in Circles : c \in open}

\* Whether u is a member of c, as r gets to know it: from the member's page in the
\* site, from the list of members, and from u's list of sites.
view_profile(r, c, u) == InSite(r, c) /\ <<u, c>> \in belongs
ViewProfile(r, c, u) == r # Visitor /\ view_profile(r, c, u)

list_site_profiles(r, c) ==
  {u \in Accounts : <<u, c>> \in belongs /\ (r = moderator[c] \/ InSite(r, c))}
GetProfiles(r, c) == IF r = Visitor THEN {} ELSE list_site_profiles(r, c)

list_user_site_profiles(r, u) ==
  {c \in Circles : u \notin Retired /\ r # Visitor /\ <<u, c>> \in belongs /\ InSite(r, c)}
GetUserSiteProfiles(r, u) == IF r = Visitor THEN {} ELSE list_user_site_profiles(r, u)

site_profiles_for_user(r) == {c \in Circles : <<r, c>> \in belongs}
GetModeratedSites(r) == {c \in Circles : r \in Staff \/ moderator[c] = r}

-----------------------------------------------------------------------------
(* Profiles.                                                               *)

\* What the profile of u counts, whoever reads it.
Counted(u) ==
  {d \in written : AuthorOf[d] = u /\
    CASE KindOf[d] \in {"answer", "article"} -> Live(d)
      [] KindOf[d] \in {"question", "submission"} -> d \notin hidden
      [] OTHER -> FALSE}

\* What its lists hold for r.
list_user_questions(r, u) ==
  {q \in Of("question") \cap written : AuthorOf[q] = u /\ q \notin hidden /\ QuestionPreview(r, q)}
list_user_articles(r, u) ==
  {d \in Of("article") \cap written : AuthorOf[d] = u /\ ArticlePreview(r, d)}
list_user_submissions(r, u) ==
  {d \in Of("submission") \cap written : AuthorOf[d] = u /\ SubmissionShown(r, d)}
list_user_answers(r, u) ==
  {d \in Of("answer") \cap written : AuthorOf[d] = u /\ AnswerPreview(r, d)}
Listed(r, u) ==
  list_user_questions(r, u) \cup list_user_articles(r, u)
    \cup list_user_submissions(r, u) \cup list_user_answers(r, u)

-----------------------------------------------------------------------------
TypeOK == voted \subseteq Accounts \X written

\* Routes about one thing agree.  What is derived from a question, an answer or an
\* article "can never end up more permissive" than it; a question's page has every
\* answer that has a page of its own; nobody votes for what is his own; who is in a site
\* is known to the same people wherever they look, but for accounts made inactive; a
\* profile lists to others nothing that it does not count; and every account that has the
\* page of what another has written can report it.
RoutesAgree ==
  \A r \in Readers :
    /\ \A q \in Of("question") \cap written :
         /\ GetQuestionArchives(r, q) \/ GetQuestionSubscription(r, q) => GetQuestion(r, q)
         /\ GetQuestion(r, q) => GetQuestionPage(r, q)
         /\ GetQuestionPage(r, q) =>
              {d \in Of("answer") : Parent[d] = q /\ GetAnswer(r, d)} \subseteq GetQuestionAnswers(r, q)
    /\ \A d \in written :
         /\ GetAnswerDraft(r, d) \/ GetAnswerArchives(r, d) => d \in deleted \/ BookmarkAnswer(r, d)
         /\ GetAnswer(r, d) /\ r # Visitor => BookmarkAnswer(r, d)
         /\ GetArticleDraft(r, d) \/ GetArticleArchives(r, d) =>
              GetArticle(r, d) \/ d \in restricted
         /\ <<r, d>> \in voted => r # AuthorOf[d]
         /\ \A t \in Tallies(r, d) :
              t.count < Cardinality(Accounts) /\ (t.upvoted => t.count > 0)
         /\ r # Visitor /\ r # AuthorOf[d] /\ d \notin deleted /\ Page(r, d) => CreateReport(r, {d})
    /\ \A c \in Circles, u \in Accounts :
         /\ c \in GetUserSiteProfiles(r, u) <=> ViewProfile(r, c, u) /\ u \notin Retired
         /\ ViewProfile(r, c, u) => u \in GetProfiles(r, c)
         /\ GetProfiles(r, c) # {} => GetSiteInfo(r, c) \/ c \in GetModeratedSites(r)
         /\ r = u /\ u \notin Retired => site_profiles_for_user(u) = GetUserSiteProfiles(r, u)
         /\ c \in SiteMaps => GetSiteInfo(r, c)
    /\ \A u \in Accounts \ {r} : Listed(r, u) \subseteq Counted(u)

\* A vote can be taken back until one leaves the site.
VotesRevocable ==
  \A r \in Readers, d \in written :
    <<r, d>> \in voted =>
      (ENABLED Cancel(r, d) <=> CircleOf[d] = NoCircle \/ InSite(r, CircleOf[d]))
=============================================================================
