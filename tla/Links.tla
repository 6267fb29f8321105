------------------------------- MODULE Links --------------------------------
(***************************************************************************)
(* Rows that say that two things belong together and should be there at    *)
(* most once: who follows whom, subscriptions, bookmarks, the one answer   *)
(* of a user to a question, the private channel of two users, a handle.    *)
(* services/me.py, crud/crud_user.py, crud/crud_channel.py,                *)
(* services/answers.py, endpoint_utils.py.                                 *)
(*                                                                         *)
(* Every request looks whether the row is there and then inserts or        *)
(* deletes it.  Only a handle has a unique key.                            *)
(***************************************************************************)
EXTENDS Integers

CONSTANTS
  Pairs,       \* the things that may belong together
  Kind,        \* Kind[k]: one of Kinds
  Slots,       \* threads that may be serving a request
  Sessions,    \* writing sessions of the editor
  MaxCalls,    \* bound on the requests a behaviour contains
  SoloPairs    \* pairs on which requests happen never to overlap

Kinds == {"plain",    \* subscriptions to questions, submissions, topics; bookmarks
          "follow", "column", "answer", "channel", "handle"}

VARIABLES
  links,      \* links[k][d]: rows of pair k; channels have a row either way round
  news,       \* news[k]: Activities of joining k
  joins,      \* history: how often a row of k was inserted
  sessions,   \* sessions marked as used, in Redis
  raced,      \* history: sessions a request saw unmarked while another, which had
              \* seen them unmarked too, was about to mark them
  saves,      \* history: saves[w]: answers saved with w
  expired,    \* history: sessions whose mark has expired
  turn,       \* turn[s]: the request thread s is serving, with what it has read
  calls       \* requests so far

rows == <<links, news>>
marks == <<sessions, raced, saves, expired>>
vars == <<rows, marks, joins, turn, calls>>

Ways == {1, 2}
NoPair == CHOOSE k \in Pairs : TRUE
NoSession == "none"
Turn == [pc : {"idle", "session", "mark", "look", "again", "join", "leave"},
         k : Pairs, d : Ways, session : Sessions \cup {NoSession},
         found : BOOLEAN, again : BOOLEAN]   \* what the first and second look saw
NoTurn == [pc |-> "idle", k |-> NoPair, d |-> 1, session |-> NoSession,
           found |-> FALSE, again |-> FALSE]

Init ==
  /\ links = [k \in Pairs |-> [d \in Ways |-> 0]]
  /\ news = [k \in Pairs |-> 0]
  /\ joins = [k \in Pairs |-> 0]
  /\ sessions = {} /\ expired = {} /\ raced = {}
  /\ saves = [w \in Sessions |-> 0]
  /\ turn = [s \in Slots |-> NoTurn] /\ calls = 0

There(k, d) == links[k][d] > 0

-----------------------------------------------------------------------------
(* Requests.                                                               *)

Solo(k) == \A t \in Slots : turn[t].pc # "idle" => turn[t].k # k

Start(s, q) ==
  /\ turn[s].pc = "idle" /\ calls < MaxCalls
  /\ q.k \in SoloPairs => Solo(q.k)
  /\ turn' = [turn EXCEPT ![s] = q]
  /\ calls' = calls + 1
  /\ UNCHANGED <<rows, marks, joins>>

BeginJoin(s) ==
  \E k \in Pairs, d \in Ways :
    /\ Kind[k] # "answer"
    /\ d = 1 \/ Kind[k] = "channel"
    /\ Start(s, [NoTurn EXCEPT !.pc = "look", !.k = k, !.d = d])

BeginAnswer(s) ==
  \E k \in Pairs, w \in Sessions :
    /\ Kind[k] = "answer"
    /\ Start(s, [NoTurn EXCEPT !.pc = "session", !.k = k, !.session = w])

\* Columns, channels and handles are never left; the request to unsubscribe from a
\* column only reports.  An answer is left by deleting it.
BeginLeave(s) ==
  \E k \in Pairs :
    /\ Kind[k] \in {"plain", "follow", "answer"} /\ There(k, 1)
    /\ Start(s, [NoTurn EXCEPT !.pc = "leave", !.k = k])

\* check_writing_session: a marked session is refused, an unmarked one is marked.
LookAtSession(s) ==
  LET w == turn[s].session IN
  /\ turn[s].pc = "session" /\ w \notin sessions
  /\ raced' = IF \E t \in Slots : turn[t].pc = "mark" /\ turn[t].session = w
              THEN raced \cup {w} ELSE raced
  /\ turn' = [turn EXCEPT ![s].pc = "mark"]
  /\ UNCHANGED <<rows, sessions, saves, expired, joins, calls>>

\* Mutant: the mark is forgotten.
Unmarked(w) == sessions

Marked(w) == sessions \cup {w}

MarkSession(s) ==
  /\ turn[s].pc = "mark"
  /\ sessions' = Marked(turn[s].session)
  /\ turn' = [turn EXCEPT ![s].pc = "look"]
  /\ UNCHANGED <<rows, raced, saves, expired, joins, calls>>

Expire(w) ==
  /\ w \in sessions
  /\ sessions' = sessions \ {w} /\ expired' = expired \cup {w}
  /\ UNCHANGED <<rows, raced, saves, joins, turn, calls>>

\* The Notification of a follow, which repeated requests write too, is Delivery's.
\* Follows and columns are looked up twice, by the service for the Activity and
\* by crud for the row; channels twice, the second time the other way round.
LooksTwice(k) == Kind[k] \in {"follow", "column", "channel"}

Look(s) ==
  LET q == turn[s] IN
  /\ q.pc = "look"
  /\ ~(Kind[q.k] = "answer" /\ There(q.k, q.d))   \* "You have saved an answer before."
  /\ turn' = [turn EXCEPT ![s].pc = IF LooksTwice(q.k) THEN "again" ELSE "join",
                          ![s].found = There(q.k, q.d), ![s].again = There(q.k, q.d)]
  /\ UNCHANGED <<rows, marks, joins, calls>>

LookAgain(s) ==
  LET q == turn[s] IN
  /\ q.pc = "again"
  /\ turn' = [turn EXCEPT ![s].pc = "join",
       ![s].again = IF Kind[q.k] = "channel" THEN q.found \/ There(q.k, 3 - q.d)
                    ELSE There(q.k, q.d)]
  /\ UNCHANGED <<rows, marks, joins, calls>>

Inserts(q) == ~q.again

\* The service's own look decides on the Activity.
IsNews(q) == Kind[q.k] \in {"follow", "column"} /\ ~q.found

Join(s) ==
  LET q == turn[s] IN
  /\ q.pc = "join"
  /\ Kind[q.k] = "handle" => ~(Inserts(q) /\ There(q.k, q.d))   \* the unique key
  /\ links' = IF Inserts(q) THEN [links EXCEPT ![q.k][q.d] = @ + 1] ELSE links
  /\ joins' = IF Inserts(q) THEN [joins EXCEPT ![q.k] = @ + 1] ELSE joins
  /\ news' = IF IsNews(q) THEN [news EXCEPT ![q.k] = @ + 1] ELSE news
  /\ saves' = IF q.session = NoSession THEN saves ELSE [saves EXCEPT ![q.session] = @ + 1]
  /\ turn' = [turn EXCEPT ![s] = NoTurn]
  /\ UNCHANGED <<sessions, raced, expired, calls>>

\* A DELETE takes every row of the pair.  Unless it meets exactly one the request
\* may fail instead (Abort): the driver may report the count, which is checked.
\* An answer is a row of its own; deleting it leaves the others.
Leave(s) ==
  LET q == turn[s] IN
  /\ q.pc = "leave"
  /\ links' = [links EXCEPT ![q.k][q.d] =
                 IF Kind[q.k] = "answer" /\ @ > 0 THEN @ - 1 ELSE 0]
  /\ turn' = [turn EXCEPT ![s] = NoTurn]
  /\ UNCHANGED <<news, marks, joins, calls>>

\* Refused, or any exception: rolled back, but the session stays marked.
Abort(s) ==
  /\ turn[s].pc # "idle"
  /\ turn' = [turn EXCEPT ![s] = NoTurn]
  /\ UNCHANGED <<rows, marks, joins, calls>>

Next ==
  \/ \E s \in Slots :
       \/ BeginJoin(s) \/ BeginAnswer(s) \/ BeginLeave(s)
       \/ LookAtSession(s) \/ MarkSession(s) \/ Look(s) \/ LookAgain(s)
       \/ Join(s) \/ Leave(s) \/ Abort(s)
  \/ \E w \in Sessions : Expire(w)

-----------------------------------------------------------------------------
Counts == [Pairs -> 0..MaxCalls]
TypeOK ==
  /\ links \in [Pairs -> [Ways -> 0..MaxCalls]]
  /\ news \in Counts /\ joins \in Counts
  /\ sessions \subseteq Sessions /\ expired \subseteq Sessions
  /\ raced \subseteq Sessions /\ saves \in [Sessions -> 0..MaxCalls]
  /\ turn \in [Slots -> Turn] /\ calls \in 0..MaxCalls

\* A pair is linked at most once when requests on it do not overlap, a handle
\* always; and only then every row comes with exactly one Activity.
LinkedOnce ==
  \A k \in Pairs :
    /\ k \in SoloPairs \/ Kind[k] = "handle" => links[k][1] + links[k][2] <= 1
    /\ k \in SoloPairs /\ Kind[k] \in {"follow", "column"} => news[k] = joins[k]

\* "repeated posting in one writing session": whatever overlaps, a session saves
\* one answer only, unless two requests saw it unmarked before either marked it, or
\* half an hour has passed.
OneAnswerPerSession ==
  \A w \in Sessions \ (expired \cup raced) : saves[w] <= 1

\* Rows that should be there once are, and sessions are used once.
LinksHold == LinkedOnce /\ OneAnswerPerSession
=============================================================================
