------------------------------- MODULE Policy -------------------------------
(***************************************************************************)
(* What an event carries, whom it is for and where it is written: the      *)
(* tables of services/activity_policy.py and schemas/event.py, the         *)
(* locators of services/events.py that lead from the ids of an event to    *)
(* its receivers, and the rule by which responders/event.py can show it.   *)
(*                                                                         *)
(* A verb is a string; the fields of an event are the names of the objects *)
(* it carries the ids of.                                                  *)
(***************************************************************************)

-----------------------------------------------------------------------------
(* The ids an event carries: the ...Internal classes, by their place.       *)

CreationEvents == [
  create_question              |-> {"subject", "question"},
  create_submission            |-> {"subject", "submission"},
  create_submission_suggestion |-> {"subject", "submission_suggestion"},
  create_answer_suggest_edit   |-> {"subject", "answer_suggest_edit"},
  create_article               |-> {"subject", "article"},
  answer_question              |-> {"subject", "answer"}]

RewardEvents == [
  answer_update                 |-> {"subject", "answer"},
  comment_question              |-> {"subject", "comment", "question"},
  edit_question                 |-> {"subject", "question"},
  comment_submission            |-> {"subject", "comment", "submission"},
  create_answer_question_reward |-> {"subject", "reward"},
  claim_answer_question_reward  |-> {"subject", "reward"}]

ReplyEvents == [
  comment_article      |-> {"subject", "comment", "article"},
  reply_comment        |-> {"subject", "reply", "parent_comment"},
  mentioned_in_comment |-> {"subject", "comment"},
  invite_answer        |-> {"subject", "question", "user"},
  invite_join_site     |-> {"subject", "site", "user"}]

VoteEvents == [
  apply_join_site |-> {"subject", "site"},
  comment_answer  |-> {"subject", "comment", "answer"},
  upvote_answer   |-> {"subject", "answer"},
  upvote_article  |-> {"subject", "article"},
  upvote_question |-> {"subject", "question"}]

FollowEvents == [
  upvote_submission     |-> {"subject", "submission"},
  follow_user           |-> {"subject", "user"},
  follow_article_column |-> {"subject", "article_column"},
  create_message        |-> {"subject", "channel"}]

Verbs == DOMAIN CreationEvents \cup DOMAIN RewardEvents \cup DOMAIN ReplyEvents
           \cup DOMAIN VoteEvents \cup DOMAIN FollowEvents

Ids == [verb \in Verbs |->
  CASE verb \in DOMAIN CreationEvents -> CreationEvents[verb]
    [] verb \in DOMAIN RewardEvents -> RewardEvents[verb]
    [] verb \in DOMAIN ReplyEvents -> ReplyEvents[verb]
    [] verb \in DOMAIN VoteEvents -> VoteEvents[verb]
    [] OTHER -> FollowEvents[verb]]

Comments == {"comment_question", "comment_answer", "comment_article",
             "comment_submission", "reply_comment"}

-----------------------------------------------------------------------------
(* From the ids of an event to its receivers.                              *)

ReachesAnswer(ids) == "answer" \in ids \/ "answer_suggest_edit" \in ids

ReachesQuestion(ids) == "question" \in ids \/ ReachesAnswer(ids)

\* Mutant: a suggestion does not lead to its submission.
ReachesSubmissionOnly(ids) == "submission" \in ids

ReachesSubmission(ids) == "submission" \in ids \/ "submission_suggestion" \in ids

\* _RESOLVERS: the audiences an event with these ids leads to; for the others
\* _resolve delivers to nobody.
Reaches(audience, ids) ==
  CASE audience = "subject_followers" -> "subject" \in ids
    [] audience = "question_author" -> ReachesQuestion(ids)
    [] audience \in {"answer_author", "answer_bookmarkers"} -> ReachesAnswer(ids)
    [] audience = "submission_author" -> ReachesSubmission(ids)
    [] audience \in {"article_author", "column_subscribers"} -> "article" \in ids
    [] audience = "parent_comment_author" -> "parent_comment" \in ids
    [] audience = "channel_members" -> "channel" \in ids
    [] audience = "target_user" -> "user" \in ids
    [] audience = "site_moderator" -> "site" \in ids
    [] audience \in {"reward_receiver", "reward_giver"} -> "reward" \in ids
    [] OTHER -> FALSE   \* mentioned_users: the handles come with the request

-----------------------------------------------------------------------------
(* POLICY.                                                                 *)

\* Verbs that are never an Activity.
WritesActivity(verb) ==
  \/ verb \in {"create_question", "answer_question", "create_article", "create_submission"}
  \/ verb \in Comments
  \/ verb \in {"upvote_answer", "upvote_question", "upvote_article", "upvote_submission"}
  \/ verb \in {"follow_user", "follow_article_column"}

FeedAudience(verb) ==
  CASE verb \in {"create_question", "answer_question"} -> {"subject_followers"}
    [] verb = "create_article" -> {"subject_followers", "column_subscribers"}
    [] OTHER -> {}

CommentNotifies(verb) ==
  CASE verb = "comment_question" -> {"question_author"}
    [] verb = "comment_answer" -> {"answer_author"}
    [] verb = "comment_article" -> {"article_author"}
    [] verb = "comment_submission" -> {"submission_author"}
    [] verb = "reply_comment" -> {"parent_comment_author"}
    [] OTHER -> {"mentioned_users"}

EditNotifies(verb) ==
  CASE verb = "edit_question" -> {"question_author"}
    [] verb = "answer_update" -> {"answer_bookmarkers"}
    [] verb = "create_submission_suggestion" -> {"submission_author"}
    [] OTHER -> {"answer_author"}

SiteNotifies(verb) ==
  CASE verb = "apply_join_site" -> {"site_moderator"}
    [] verb \in {"invite_join_site", "invite_answer"} -> {"target_user"}
    [] verb = "create_message" -> {"channel_members"}
    [] verb = "create_answer_question_reward" -> {"reward_receiver"}
    [] OTHER -> {"reward_giver"}

Notifies(verb) ==
  CASE verb \in Comments \cup {"mentioned_in_comment"} -> CommentNotifies(verb)
    [] verb \in {"edit_question", "answer_update", "create_submission_suggestion",
                 "create_answer_suggest_edit"} -> EditNotifies(verb)
    [] verb \in {"apply_join_site", "invite_join_site", "invite_answer", "create_message",
                 "create_answer_question_reward", "claim_answer_question_reward"}
         -> SiteNotifies(verb)
    [] verb = "answer_question" -> {"question_author"}
    [] verb = "create_article" -> {"column_subscribers"}
    [] verb = "upvote_answer" -> {"answer_author"}
    [] verb = "follow_user" -> {"target_user"}
    [] OTHER -> {}

\* notify_exclusions: whoever caused the event is not told.
ExcludesSubject(verb) ==
  verb \in Comments \cup {"answer_question", "edit_question", "create_message"}

-----------------------------------------------------------------------------
(* Showing an event to a reader.                                           *)

\* Objects that only members can read when they belong to a private site.
SiteBound == {"question", "answer", "submission", "submission_suggestion",
              "comment", "reply", "parent_comment"}

\* What the event class shown to readers asks for: the objects of the ids, and
\* for a reward the question of its condition.
Asks(verb) == IF "reward" \in Ids[verb] THEN Ids[verb] \cup {"question"} ELSE Ids[verb]

\* materialize_event gives nothing as soon as one object is missing or may not be
\* read.  A suggested edit is read with the background task's principal, which
\* is nobody's.
Renders(verb, private, member) ==
  private => /\ member \/ Asks(verb) \cap SiteBound = {}
             /\ "answer_suggest_edit" \notin Asks(verb)
=============================================================================
