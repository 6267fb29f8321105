------------------------------ MODULE Reading ------------------------------
(***************************************************************************)
(* The lists that show what people have written, next to the pages of what *)
(* they show; bookmarks and subscriptions; and the lists of                *)
(* services/discovery.py that are kept in Redis for a while.  The feed of  *)
(* a site goes by Activity rows, most of them written by background tasks. *)
(*                                                                         *)
(* Reading is a query: what a reader sees is a function of the state, and  *)
(* a step is an operation of Access, a mark, a vote, a task, or half a     *)
(* day.                                                                    *)
(***************************************************************************)
EXTENDS Gates, Integers, Sequences, FiniteSets

CONSTANTS
  FirstWritten, ModeratorOf, \* of Access
  Staff, Retired, \* of Routes
  Browsers,     \* readers who look at the pinned and the pending questions
  PlacedAtHome, \* questions pinned to the home page
  PinnedLife, PendingLife, \* half-days a list is kept
  FeedLimit,    \* LIMIT_RSS_RESPONSE_ITEMS: Activity rows that the feed of a site reads
  MaxChanges, MaxTicks \* bounds on the changes and on the half-days

VARIABLES
  voted,      \* of Routes
  marked,     \* <<r, d>>: r has bookmarked d, or subscribed to it
  pinned,     \* the pinned questions in Redis: what they are and how long they stay
  pending,    \* pending[r]: r's pending questions in Redis
  activities, \* the Activity rows that have a site, oldest first
  tasks,      \* what has been written or published, and its task has still to run
  changes, ticks, \* changes and half-days so far
  gap,        \* history: gap[r][q]: half-days since r could last read question q
  lost        \* history: questions and answers whose task failed

A == INSTANCE Access
W == INSTANCE Routes

lists == <<pinned, pending>>
events == <<activities, tasks, lost>>
vars == <<gates, voted, marked, lists, events, changes, ticks, gap>>

NoList == [shown |-> {}, life |-> 0]

-----------------------------------------------------------------------------
(* Lists.                                                                  *)

\* What has been written, of a kind.
Those(kind) == Of(kind) \cap written

ProfileLists(r) ==
  {d \in written \ Of("comment") :
    Preview(r, d) /\ (KindOf[d] = "question" => d \notin hidden)}

\* A question page: full answers and previews; the answers of a question as a list.
AnswersOnPage(r) ==
  {d \in Those("answer") : QuestionPage(r, Parent[d]) /\ (AnswerPage(r, d) \/ AnswerPreview(r, d))}
AnswersListed(r) ==
  {d \in Those("answer") : InSite(r, CircleOf[d]) /\ AnswerPreview(r, d)}

\* Featured answers; the home page shows no others.
Featured(r) == {d \in Those("answer") : AnswerPreview(r, d)}

\* Former texts of questions, suggested texts of answers and of submissions.
FormerQuestions(r) == {d \in Those("question") : QuestionAtHand(r, d)}
SuggestedAnswers(r) ==
  {d \in Those("answer") : r # Visitor /\ InSite(r, CircleOf[d]) /\ AnswerPage(r, d)}
SuggestedSubmissions(r) ==
  {d \in Those("submission") : r # Visitor /\ InSite(r, CircleOf[d]) /\ SubmissionShown(r, d)}

\* Of a site: its questions are listed for public sites only.
SiteQuestions(r) ==
  {d \in Those("question") : CircleOf[d] \in open /\ QuestionPreview(r, d)}
SiteSubmissions(r) ==
  {d \in Those("submission") : InSite(r, CircleOf[d]) /\ SubmissionShown(r, d)}

\* Of the sites one belongs to, and of the public ones when that leaves nothing.
FrontSubmissions(r) ==
  LET mine == {d \in Those("submission") : <<r, CircleOf[d]>> \in belongs /\ SubmissionShown(r, d)}
  IN IF mine # {} THEN mine
     ELSE {d \in Those("submission") : CircleOf[d] \in open /\ SubmissionShown(r, d)}

\* Of a topic, which any of them may have; and of a column, its articles.
TopicQuestions(r) ==
  {d \in Those("question") : r # Visitor /\ QuestionPreview(r, d) /\ d \notin hidden}
ColumnArticles(r) == {d \in Those("article") : ArticlePreview(r, d)}

\* Mutant: the rows a reader has marked are shown as they are.
MarkedAnyway(r) == {d \in Writings : <<r, d>> \in marked}

Marked(r) == {d \in Writings : <<r, d>> \in marked /\ Preview(r, d)}

\* The feed of a public site, for any reader: what its newest Activities are about, and
\* the pages the entries lead to.  An answer leads to its question and to itself.
CircleOfRow(row) == CircleOf[row.about]
Newer(n) == {m \in DOMAIN activities : m > n /\ CircleOfRow(activities[m]) = CircleOfRow(activities[n])}
Newest(c) ==
  {n \in DOMAIN activities : CircleOfRow(activities[n]) = c /\ Cardinality(Newer(n)) < FeedLimit}

\* Whether an Activity leads to something. Those about articles have no site.
retrieve_content(row) ==
  /\ row.verb = "create"
  /\ CASE KindOf[row.about] = "question" -> row.about \notin hidden
       [] KindOf[row.about] = "answer" -> row.about \notin hidden /\ row.about \in published
       [] OTHER -> FALSE

\* Mutant: what is hidden is in the feed too.
RetrieveAll(c) == {activities[n].about : n \in {m \in Newest(c) : activities[m].verb = "create"}}

get_site_activities(c) ==
  {activities[n].about : n \in {m \in Newest(c) : retrieve_content(activities[m])}}

build_rss(contents) ==
  {[about |-> d, leads |-> IF KindOf[d] = "answer" THEN {Parent[d], d} ELSE {d}] : d \in contents}

site_rss_xml(c) == IF c \in open THEN build_rss(get_site_activities(c)) ELSE {}

ListsOf(r) ==
  {ProfileLists(r), AnswersOnPage(r), AnswersListed(r), Featured(r), FormerQuestions(r),
   SuggestedAnswers(r), SuggestedSubmissions(r), SiteQuestions(r), SiteSubmissions(r),
   FrontSubmissions(r), TopicQuestions(r), ColumnArticles(r), Marked(r)}

\* What a fresh list of pinned, and of pending questions holds.
FreshPinned(r) == {q \in PlacedAtHome \cap written : QuestionPreview(r, q)}
FreshPending(r) ==
  {q \in Those("question") :
    /\ QuestionPreview(r, q) /\ q \notin hidden
    /\ ~ \E d \in Those("answer") : Parent[d] = q /\ Live(d)
    /\ IF r = Visitor THEN CircleOf[q] \in open ELSE <<r, CircleOf[q]>> \in belongs}

-----------------------------------------------------------------------------
(* Changes.                                                                *)

Activity(verb, d, r) == [verb |-> verb, about |-> d, by |-> r]
Created(d) == Activity("create", d, AuthorOf[d])

\* One Activity for each d of D and no other, in some order.
Announced(D) ==
  /\ activities \in [1..Cardinality(D) -> {Created(d) : d \in D}]
  /\ \A d \in D : \E n \in DOMAIN activities : activities[n] = Created(d)

\* The tasks of the questions that are there have run.
Init ==
  /\ A!Init
  /\ voted = {} /\ marked = {}
  /\ pinned = NoList /\ pending = [r \in Readers |-> NoList]
  /\ Announced(Those("question")) /\ tasks = {} /\ lost = {}
  /\ changes = 0 /\ ticks = 0
  /\ gap = [r \in Readers |-> [q \in Of("question") |-> 0]]

CanSee(r, q) == q \in written /\ QuestionPreview(r, q)

\* The end of every step: questions that can be read now, or could until now.
Seen ==
  gap' = [r \in Readers |-> [q \in Of("question") |->
            IF CanSee(r, q) \/ CanSee(r, q)' THEN 0 ELSE gap[r][q]]]

More == changes < MaxChanges

Change ==
  /\ changes' = changes + 1
  /\ Seen
  /\ UNCHANGED <<lists, ticks>>

\* What is distributed in the background: new questions and comments, and answers that
\* are published.  A submission has its Activity from the request that writes it.
ForTasks == ((Of("question") \cup Of("comment")) \cap written) \cup (Of("answer") \cap published)
AtOnce == Of("submission") \cap written

\* Any operation of Access; at most one thing is written.
Operate ==
  /\ More /\ A!Next
  /\ tasks' = tasks \cup (ForTasks' \ ForTasks)
  /\ \/ AtOnce' = AtOnce /\ UNCHANGED activities
     \/ \E d \in AtOnce' \ AtOnce : activities' = Append(activities, Created(d))
  /\ UNCHANGED <<voted, marked, lost>>
  /\ Change

\* The background task of d: postprocess_new_question, _new_answer, _new_comment.  Only a
\* comment that its author shares becomes an Activity.  Nothing tries a failed one again,
\* which leaves a comment as if it had not been shared.
Postprocess(d) ==
  /\ d \in tasks /\ tasks' = tasks \ {d}
  /\ \/ activities' = Append(activities, Created(d)) /\ UNCHANGED lost
     \/ KindOf[d] = "comment" /\ UNCHANGED <<activities, lost>>
     \/ KindOf[d] # "comment" /\ lost' = lost \cup {d} /\ UNCHANGED activities
  /\ UNCHANGED <<gates, voted, marked, lists, changes, ticks, gap>>

\* The first vote of r for d, where that is an event of a site.
FirstVote(r, d) ==
  /\ <<r, d>> \in voted' \ voted /\ KindOf[d] \in {"question", "answer", "submission"}
  /\ \A n \in DOMAIN activities : activities[n] # Activity("upvote", d, r)

Vote(r, d) ==
  /\ More /\ (W!Vote(r, d) \/ W!Cancel(r, d))
  /\ activities' = IF FirstVote(r, d) THEN Append(activities, Activity("upvote", d, r)) ELSE activities
  /\ UNCHANGED <<marked, tasks, lost>>
  /\ Change

\* Whether r may mark d, or take the mark away.
Markable(r, d) ==
  CASE KindOf[d] = "question" -> QuestionAtHand(r, d)
    [] KindOf[d] = "answer" -> AnswerReadable(r, d)
    [] KindOf[d] = "article" -> ArticlePreview(r, d)
    [] OTHER -> InSite(r, CircleOf[d])

Mark(r, d) ==
  /\ More /\ r # Visitor /\ d \in written \ Of("comment") /\ Markable(r, d)
  /\ marked' = IF <<r, d>> \in marked THEN marked \ {<<r, d>>} ELSE marked \cup {<<r, d>>}
  /\ UNCHANGED <<gates, voted, events>>
  /\ Change

\* pinned_questions: one list for all, filled with what its first reader may read.
FillPinned(r) ==
  /\ pinned.life = 0
  /\ pinned' = [shown |-> FreshPinned(r), life |-> PinnedLife]
  /\ UNCHANGED <<gates, voted, marked, events, pending, changes, ticks, gap>>

FillPending(r) ==
  /\ pending[r].life = 0
  /\ pending' = [pending EXCEPT ![r] = [shown |-> FreshPending(r), life |-> PendingLife]]
  /\ UNCHANGED <<gates, voted, marked, events, pinned, changes, ticks, gap>>

Aged(list) == IF list.life <= 1 THEN NoList ELSE [list EXCEPT !.life = @ - 1]

Later(n) == IF n > PendingLife THEN n ELSE n + 1

Tick ==
  /\ ticks < MaxTicks /\ ticks' = ticks + 1
  /\ pinned' = Aged(pinned)
  /\ pending' = [r \in Readers |-> Aged(pending[r])]
  /\ gap' = [r \in Readers |-> [q \in Of("question") |->
               IF CanSee(r, q) THEN 0 ELSE Later(gap[r][q])]]
  /\ UNCHANGED <<gates, voted, marked, events, changes>>

Next ==
  \/ Operate
  \/ \E r \in Readers, d \in Writings : Mark(r, d) \/ Vote(r, d)
  \/ \E d \in Writings : Postprocess(d)
  \/ \E r \in Browsers : FillPinned(r) \/ FillPending(r)
  \/ Tick

Spec == Init /\ [][Next]_vars

-----------------------------------------------------------------------------
IsList(list, max) ==
  list.shown \subseteq Of("question") /\ list.life \in 0..max

TypeOK ==
  /\ A!TypeOK /\ W!TypeOK
  /\ marked \subseteq Accounts \X written
  /\ IsList(pinned, PinnedLife) /\ \A r \in Readers : IsList(pending[r], PendingLife)
  /\ activities \in Seq([verb : {"create", "upvote"}, about : Writings, by : Readers])
  /\ tasks \cup lost \subseteq written
  /\ changes \in 0..MaxChanges /\ ticks \in 0..MaxTicks
  /\ gap \in [Readers -> [Of("question") -> 0..PendingLife + 1]]

\* "So it can never end up more permissive than the answer itself": no list shows
\* a reader what its own page would not, however things have changed since it was
\* marked; an article whose page can be read can be listed; and the two answers to
\* who may read an answer agree on accounts.
NoListIsLooser ==
  \A r \in Readers :
    /\ \A list \in ListsOf(r) : \A d \in list : Page(r, d) /\ d \notin deleted
    /\ \A d \in Those("article") \ deleted : ArticlePage(r, d) => ArticlePreview(r, d)
    /\ \A d \in Those("answer") : r # Visitor => (Givable(r, d) <=> AnswerReadable(r, d))

\* A list out of Redis shows no question that its reader, or for the pinned ones
\* everyone, has been unable to read for longer than the list is kept.
ListsAreRecent ==
  /\ \A r \in Readers : \A q \in pending[r].shown : gap[r][q] <= PendingLife
  /\ \A q \in pinned.shown : \E r \in Readers : gap[r][q] <= PinnedLife

\* d has an Activity, and as many newer ones of its site as the feed reads.
Pushed(d) == \E n \in DOMAIN activities : activities[n] = Created(d) /\ Cardinality(Newer(n)) >= FeedLimit

\* A question or an answer that anyone may open is in the feed of its site until newer
\* events of the site have pushed it out, but for what its background task has still to
\* announce or has failed to; and an entry leads anyone to pages that are there, unless
\* its answer was deleted or is not for anyone, or its question was hidden: the feed goes
\* by fewer flags than the page.
FeedFollows ==
  \A c \in Circles : LET feed == site_rss_xml(c) IN
    /\ \A d \in Those("question") \cup Those("answer") :
         CircleOf[d] = c /\ Page(Visitor, d) =>
           (\E e \in feed : e.about = d) \/ d \in tasks \cup lost \/ Pushed(d)
    /\ \A e \in feed :
         \/ \A d \in e.leads : Page(Visitor, d)
         \/ e.about \in deleted \cup restricted
         \/ KindOf[e.about] = "answer" /\ Parent[e.about] \in hidden

\* Lists show no more than pages, a feed loses only what is too old for it or was never
\* announced, and kept lists show nothing that is long out of reach.
ListsHold == NoListIsLooser /\ FeedFollows /\ ListsAreRecent
=============================================================================
