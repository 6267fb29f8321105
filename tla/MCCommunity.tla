---------------------------- MODULE MCCommunity -----------------------------
(* A small instance of Community for TLC. *)
EXTENDS Community

CONSTANTS c1, c2, c3, c4, ann, bob, s1, s2, w1, m1, m2

ThreeKinds == [c \in Contents |->
  CASE c = c2 -> "submission" [] c = c4 -> "question" [] OTHER -> "answer"]
AnnsOwn == [c \in Contents |-> ann]

\* Audiences of one member are ann's; bob moves in and out of the others.
OneMember == {"question_author", "answer_author", "submission_author", "article_author",
              "parent_comment_author", "target_user", "site_moderator", "reward_receiver",
              "reward_giver", "mentioned_users"}
AnnsAudiences == [a \in OneMember |-> ann]
Groups == [a \in {"subject_followers", "column_subscribers", "answer_bookmarkers",
                  "channel_members"} |-> {bob}]
Table == INSTANCE Policy
AnyVerb == [n \in {1} |-> Table!Verbs]
NoSockets == [x \in {} |-> ann]

EachKind == [k \in Pairs |->
  CASE k \in {"subscription", "bookmark"} -> "plain"
    [] k \in {"follow", "follow twice"} -> "follow"
    [] k \in {"answer", "other answer"} -> "answer"
    [] OTHER -> k]

AnnHasOne == [p \in People |-> IF p = ann THEN "ann@" ELSE "none"]

\* Ann's two lists; the question is in a site that not everyone reads.
AnnsLists == [l \in Lists |-> [who |-> ann, what |-> l]]
Site == [q \in Asked |-> "site"]

\* Suggestions have one content; after three requests only the isolated ones go on.
\* What is public matters to feeds only.
OneNext ==
  /\ CommunityNext
  /\ \A c, d \in Contents : Exists(c)' /\ Exists(d)' => c = d
  /\ served' > 3 => \A c \in Contents \ IsolatedContents : ~Exists(c)
  /\ mode' = "profile" => public' = {}
OneSpec == CommunityInit /\ [][OneNext]_communityVars
=============================================================================
