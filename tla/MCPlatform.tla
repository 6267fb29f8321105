----------------------------- MODULE MCPlatform -----------------------------
(* A small instance of Platform for TLC. *)
EXTENDS Platform, TLC

CONSTANTS alice, bob, root, visitor, a1, a2, l1, l2, s1, s2, c1, nowhere, k1, q1, q2, w1, x1, n1

\* alice can pay for two articles or a site, bob for two articles.
Purses == alice :> 12 @@ bob :> 4 @@ root :> 4

\* Two questions of the welcome test; alice passes with her first and third sheet,
\* bob's first lists a choice twice and so scores above the full score.
Points == "many" :> 1 @@ "one" :> 2
AllChoices == "many" :> {"a", "b", "c"} @@ "one" :> {"a", "b"}
RightChoices == "many" :> {"a", "b"} @@ "one" :> {"a"}
Sheet(many, one) == [many |-> many, one |-> one]
Answered == [p \in People |->
  CASE p = alice -> {Sheet(<<"a", "b">>, <<"a">>), Sheet(<<"c">>, <<"b">>), Sheet(<<"b">>, <<"a">>), Sheet(<<"a">>, <<"a", "a">>)}
    [] p = bob -> {Sheet(<<"a", "a", "b">>, <<"a">>), Sheet(<<"a", "b", "c">>, <<"a">>)}
    [] OTHER -> {}]

Indexes == [d \in Docs |->
  CASE d \in {q1, q2} -> "question" [] d = w1 -> "answer" [] OTHER -> "article"]

\* bob answers alice's question in the site that she has created.
Kinds == q1 :> "question" @@ w1 :> "answer" @@ x1 :> "article" @@ n1 :> "submission" @@ k1 :> "comment"
Authors == q1 :> alice @@ w1 :> bob @@ x1 :> bob @@ n1 :> alice @@ k1 :> bob
Places == q1 :> c1 @@ w1 :> c1 @@ x1 :> nowhere @@ n1 :> c1 @@ k1 :> c1
Parents == w1 :> q1 @@ k1 :> q1
AlicesSite == c1 :> alice

\* bob's account is still to be opened, root's has been made inactive.
Mailboxes == [p \in People |-> CASE p = alice -> "a" [] p = root -> "r" [] OTHER -> "none"]

\* Submissions are like questions, and answers like articles whose edits are followed.
Itself == [x \in Things |-> x]
Holdings == [x \in Things |->
  CASE x = "site" -> {"question"} [] x = "column" -> {"article"}
    [] x = "user" -> {"question", "site", "column"} [] OTHER -> {}]

\* An answer and a question in a site with one webhook.
OneOfEach == [p \in Posts |-> p]
TheHook == [p \in Posts |-> Hooks]
=============================================================================
