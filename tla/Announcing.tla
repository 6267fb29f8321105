----------------------------- MODULE Announcing -----------------------------
(***************************************************************************)
(* A publication from the request that makes it to the screens of the      *)
(* column's subscribers: Publishing and Delivery together.  The task that  *)
(* Publishing queues is the transaction that Delivery follows.             *)
(* services/postprocess.py: postprocess_new_article,                       *)
(* postprocess_updated_article.                                            *)
(***************************************************************************)
EXTENDS Publishing, Sequences

CONSTANTS
  Readers, Subjects, Insiders, Holder, Fans, Emits, MaxMoves, RedisFails, MaxRestarts,
  Sockets, SocketOf   \* as in Delivery; its events are the items

VARIABLES
  fans, moves, event, steady, queue, heard, lost, table, sock, loop, restarts

D == INSTANCE Delivery

ASSUME AnnouncingBounds ==
  /\ DOMAIN Emits = Items /\ \A n \in D!Events : Emits[n] \subseteq D!Verbs
  /\ Readers # {} /\ Subjects \subseteq Readers
  /\ Fans \in [DOMAIN Fans -> SUBSET Readers]
  /\ \A v \in D!Verbs : \A a \in D!Notifies(v) \cup D!FeedAudience(v) :
       a \notin DOMAIN Fans /\ a # "mentioned_users" => Holder[a] \in Readers
  /\ SocketOf \in [Sockets -> Readers] /\ D!NoSocket \notin Sockets
  /\ MaxMoves \in Nat /\ MaxRestarts \in Nat

delivery == <<fans, moves, event, steady, queue, heard, lost, table, sock, loop,
              restarts>>

BothInit == Init /\ D!Init

\* Requests know nothing of deliveries, nor sockets of requests.
Serve ==
  /\ \E s \in Slots :
       \/ Begin(s) \/ ReadArchives(s)
       \/ CommitCreate(s) \/ CommitDraft(s) \/ CommitPublish(s)
       \/ CommitDrop(s) \/ CommitDelete(s) \/ Abort(s)
  /\ UNCHANGED delivery

\* A task that announces begins the transaction of its event.
StartTask(t) ==
  /\ AssertPublished(t) /\ Announces(t)
  /\ D!Begin(t.item)
  /\ UNCHANGED vars

WorkOnTask(t) ==
  /\ \/ D!WriteFeed(t.item) \/ D!ResolveNotes(t.item)
     \/ \E u \in Readers : D!Notify(t.item, u)
  /\ UNCHANGED vars

EndTask(t) ==
  /\ RunTask(t)
  /\ IF Announces(t) THEN D!Commit(t.item) ELSE UNCHANGED delivery

LoseTask(t) ==
  /\ FailTask(t)
  /\ IF Announces(t) THEN D!Abort(t.item) ELSE UNCHANGED delivery

Wire(x) == (D!Connect(x) \/ D!Drop(x) \/ D!Poll(x)) /\ UNCHANGED vars

BothCrash == Crash /\ D!Restart

BothNext ==
  \/ Serve
  \/ \E t \in tasks : StartTask(t) \/ WorkOnTask(t) \/ EndTask(t) \/ LoseTask(t)
  \/ \E x \in Sockets : Wire(x)
  \/ BothCrash

bothVars == <<vars, delivery>>

BothSpec == BothInit /\ [][BothNext]_bothVars

\* The thread pool runs every queued task, and every loop of a socket polls its
\* queue again and again.
FairBothSpec ==
  /\ BothSpec
  /\ \A t \in Task : WF_bothVars(t \in tasks /\ (StartTask(t) \/ WorkOnTask(t) \/ EndTask(t)))
  /\ \A x \in Sockets : WF_bothVars(D!Poll(x) /\ UNCHANGED vars)

-----------------------------------------------------------------------------
\* A publication reaches every subscriber of the column who has connected once and
\* keeps the socket, unless its task fails or the process dies.
Hears(u, i) == \E k \in 1..Len(heard[u]) : heard[u][k] = i
OnlyOn(u, x) == D!Connected(u) = {x} /\ sock[x] = "open"
Lost(i) == event[i].pc = "undone" \/ crashes > 0
PublicationHeard ==
  \A i \in Items, x \in Sockets :
    LET u == SocketOf[x] IN
    u \in Fans["column_subscribers"] =>
      (post[i].published /\ OnlyOn(u, x) ~> Hears(u, i) \/ ~OnlyOn(u, x) \/ Lost(i))

\* The task that announces an item is the transaction of its event, from beginning to end:
\* an item counts as announced when its event is done, an event in progress has its task, a
\* task finds its event still to be told, and only what is published is told.
OneTaskPerEvent ==
  \A i \in IsolatedItems :
    /\ announced[i] = IF event[i].pc = "done" THEN 1 ELSE 0
    /\ event[i].pc \in {"feed", "notes", "push"} => \E t \in tasks : t.item = i /\ Announces(t)
    /\ \A t \in tasks : t.item = i /\ Announces(t) => event[i].pc \notin {"done", "undone"}
    /\ event[i].pc # "none" => post[i].published

\* From end to end: a publication that has been announced, on an item on which requests do not
\* overlap, is in the feed of everyone who followed all along and a Notification of every
\* subscriber; each has been sent one message, which waits, was received or was lost with a
\* dead socket; and the loop of an only socket goes on while the socket is open.
PublicationServed ==
  OneTaskPerEvent /\ D!EverySinkServed /\ D!MessagesAccounted /\ D!OneSocketLosesOne

-----------------------------------------------------------------------------
(* The instance that is checked: two articles, and a subscriber who may    *)
(* connect twice.                                                          *)
CONSTANTS i1, i2, s1, ann, bob, x1, x2

Table == INSTANCE Policy

\* Audiences of one member are ann's.
AnnIsEachOfThem ==
  [a \in UNION {Table!Notifies(v) \cup Table!FeedAudience(v) : v \in Table!Verbs} |-> ann]
BobFollows == [a \in {"subject_followers", "column_subscribers"} |-> {bob}]
Articles == [i \in Items |-> {"create_article"}]
BobsSockets == [x \in Sockets |-> bob]
=============================================================================
