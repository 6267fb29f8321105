------------------------------ MODULE Delivery ------------------------------
(***************************************************************************)
(* How an event reaches its readers: the transaction that writes it as an  *)
(* Activity with Feed rows and as Notifications, the message pushed for    *)
(* each Notification, and the sockets that take messages off the queues.   *)
(* services/events.py, services/postprocess.py, mq.py, ws_connections.py,  *)
(* api/api_v1/endpoints/ws.py.                                             *)
(*                                                                         *)
(* Event number n is distributed in a transaction of its own.  Messages go *)
(* through Redis, which knows nothing of transactions.  The loops of the   *)
(* sockets run in one process; each takes a message and starts to send it  *)
(* without giving way to the others.                                       *)
(***************************************************************************)
EXTENDS Policy, Integers, Sequences

CONSTANTS
  Readers,    \* users
  Subjects,   \* those who may cause an event
  Insiders,   \* readers who are members of the private site
  Holder,     \* Holder[a]: the one member of audience a, for those that have one
  Fans,       \* Fans[a]: the members audience a starts with, for the others
  Emits,      \* Emits[n]: verbs event number n may have
  MaxMoves,   \* bound on the readers who join or leave an audience
  RedisFails, \* TRUE: a push may fail
  MaxRestarts, \* bound on the restarts of the process
  Sockets,    \* connections
  SocketOf    \* SocketOf[x]: the reader who opens connection x

VARIABLES
  fans,    \* fans[a]: members of an audience that readers join and leave
  moves,   \* joins and leaves so far
  event,   \* event[n]: event number n and the rows written for it
  steady,  \* history: steady[n][a]: fans of a ever since event n began
  queue,   \* queue[u]: messages waiting for u, by event
  heard,   \* heard[u]: messages u's sockets have received, in order
  lost,    \* history: lost[u]: messages taken off the queue and not received
  table,   \* table[u]: active_connections, the socket registered for u
  sock,    \* sock[x]: "new", "open" or "dead"
  loop,    \* the connections whose loop is running
  restarts \* restarts so far

rows == <<event, steady>>
wires == <<heard, lost, table, sock, loop>>
counts == <<fans, moves, restarts>>
deliveryVars == <<counts, rows, queue, wires>>

Events == DOMAIN Emits
Moving == DOMAIN Fans
NoSocket == "none"

AllSinks == {"activity", "feed", "notification"}
EventRow == [pc : {"none", "feed", "notes", "push", "done", "undone"},
             verb : Verbs, subject : Readers, sinks : SUBSET AllSinks,
             shared : BOOLEAN, private : BOOLEAN,
             activity : BOOLEAN, feed : SUBSET Readers,   \* rows written
             notes : SUBSET Readers,                      \* Notification rows written
             todo : SUBSET Readers]                       \* receivers still to be notified
NoEvent == [pc |-> "none", verb |-> "create_question", subject |-> CHOOSE u \in Readers : TRUE,
            sinks |-> {}, shared |-> FALSE, private |-> FALSE,
            activity |-> FALSE, feed |-> {}, notes |-> {}, todo |-> {}]

Init ==
  /\ fans = Fans /\ moves = 0 /\ restarts = 0
  /\ event = [n \in Events |-> NoEvent]
  /\ steady = [n \in Events |-> Fans]
  /\ queue = [u \in Readers |-> <<>>]
  /\ heard = [u \in Readers |-> <<>>]
  /\ lost = [u \in Readers |-> {}]
  /\ table = [u \in Readers |-> NoSocket]
  /\ sock = [x \in Sockets |-> "new"]
  /\ loop = {}

-----------------------------------------------------------------------------
(* Audiences.                                                              *)

Move(a, u) ==
  /\ moves < MaxMoves
  /\ moves' = moves + 1
  /\ fans' = [fans EXCEPT ![a] = IF u \in @ THEN @ \ {u} ELSE @ \cup {u}]
  /\ steady' = [n \in Events |-> IF event[n].pc = "none" THEN fans'
                                 ELSE [steady[n] EXCEPT ![a] = @ \ {u}]]
  /\ UNCHANGED <<event, queue, wires, restarts>>

\* _resolve: the relationship is read anew each time.
Members(a, current) == IF a \in Moving THEN current[a] ELSE {Holder[a]}
Resolve(audiences, verb, current) ==
  UNION {Members(a, current) : a \in {b \in audiences : Reaches(b, Ids[verb])}}

-----------------------------------------------------------------------------
(* The transaction of an event.                                            *)

\* Two callers narrow the sinks: a comment shared after it was written is only
\* an Activity, a repeated follow only a Notification.
Ways(verb) ==
  CASE verb \in Comments -> {AllSinks, {"activity"}}
    [] verb = "follow_user" -> {AllSinks, {"notification"}}
    [] OTHER -> {AllSinks}

\* The receivers of a mention are the handles in the request that exist.
Mentioned(verb) == IF verb = "mentioned_in_comment" THEN SUBSET Readers ELSE {{}}

Begin(n) ==
  \E verb \in Emits[n], u \in Subjects, shared, private \in BOOLEAN :
    /\ event[n].pc = "none"
    /\ shared => verb \in Comments
    /\ private => Asks(verb) \cap (SiteBound \cup {"answer_suggest_edit"}) # {}
                  /\ "article" \notin Ids[verb]
    /\ \E sinks \in Ways(verb), receivers \in Mentioned(verb) :
         /\ sinks = {"activity"} => shared
         /\ event' = [event EXCEPT ![n] =
              [NoEvent EXCEPT !.pc = IF verb = "mentioned_in_comment" THEN "push" ELSE "feed",
                              !.verb = verb, !.subject = u, !.sinks = sinks,
                              !.shared = shared, !.private = private, !.todo = receivers]]
    /\ steady' = [steady EXCEPT ![n] = fans]
    /\ UNCHANGED <<counts, queue, wires>>

\* A comment is an Activity only when it is shared.
Precondition(e) == e.verb \in Comments => e.shared

\* The Activity, and one Feed row per member of the feed audience.
WriteFeed(n) ==
  LET e == event[n]
      writes == "activity" \in e.sinks /\ WritesActivity(e.verb) /\ Precondition(e) IN
  /\ e.pc = "feed"
  /\ event' = [event EXCEPT
       ![n].pc = "notes", ![n].activity = writes,
       ![n].feed = IF writes /\ "feed" \in e.sinks
                   THEN Resolve(FeedAudience(e.verb), e.verb, fans) ELSE {}]
  /\ UNCHANGED <<counts, steady, queue, wires>>

\* _apply_exclusions.
Excluded(e) == IF ExcludesSubject(e.verb) THEN {e.subject} ELSE {}

ResolveNotes(n) ==
  LET e == event[n] IN
  /\ e.pc = "notes"
  /\ event' = [event EXCEPT
       ![n].pc = "push",
       ![n].todo = IF "notification" \in e.sinks
                   THEN Resolve(Notifies(e.verb), e.verb, fans) \ Excluded(e) ELSE {}]
  /\ UNCHANGED <<counts, steady, queue, wires>>

\* push_notification: at the end of the user's list in Redis.
Queued(u, n) == Append(queue[u], n)

\* One receiver: the row is written; the message is pushed unless its reader
\* may not read the event or the push fails, which is swallowed.
Notify(n, u) ==
  LET e == event[n] IN
  /\ e.pc = "push" /\ u \in e.todo
  /\ event' = [event EXCEPT ![n].todo = @ \ {u}, ![n].notes = @ \cup {u}]
  /\ \/ /\ Renders(e.verb, e.private, u \in Insiders)
        /\ queue' = [queue EXCEPT ![u] = Queued(u, n)]
     \/ /\ RedisFails \/ ~Renders(e.verb, e.private, u \in Insiders)
        /\ UNCHANGED queue
  /\ UNCHANGED <<counts, steady, wires>>

Finished(n) == event[n].pc = "push" /\ event[n].todo = {}

Commit(n) ==
  /\ Finished(n)
  /\ event' = [event EXCEPT ![n].pc = "done"]
  /\ UNCHANGED <<counts, steady, queue, wires>>

Undone(e) ==
  [e EXCEPT !.pc = "undone", !.activity = FALSE, !.feed = {}, !.notes = {}, !.todo = {}]

\* Any exception, here or in what the task does next: the rows are rolled back,
\* what was pushed stays pushed.
Abort(n) ==
  /\ event[n].pc \in {"feed", "notes", "push"}
  /\ event' = [event EXCEPT ![n] = Undone(@)]
  /\ UNCHANGED <<counts, steady, queue, wires>>

-----------------------------------------------------------------------------
(* Sockets.                                                                *)

\* Accepted, registered in place of an older socket of the user, and its loop
\* is started.
Connect(x) ==
  /\ sock[x] = "new"
  /\ sock' = [sock EXCEPT ![x] = "open"]
  /\ table' = [table EXCEPT ![SocketOf[x]] = x]
  /\ loop' = loop \cup {x}
  /\ UNCHANGED <<counts, rows, queue, heard, lost>>

\* The client is gone; nothing on the server notices before a send.
Drop(x) ==
  /\ sock[x] = "open"
  /\ sock' = [sock EXCEPT ![x] = "dead"]
  /\ UNCHANGED <<counts, rows, queue, heard, lost, table, loop>>

\* Mutant: a failed send does not end the loop.
LoopGoesOn(x) == loop

\* The loops after the one of x has met an exception.
LoopEnded(x) == loop \ {x}

\* A loop takes a message of its user and sends it on the socket registered now.
Poll(x) ==
  LET u == SocketOf[x] y == table[u] IN
  /\ x \in loop /\ queue[u] # <<>>
  /\ queue' = [queue EXCEPT ![u] = Tail(@)]
  /\ \/ /\ y # NoSocket /\ sock[y] = "open"
        /\ heard' = [heard EXCEPT ![u] = Append(@, Head(queue[u]))]
        /\ UNCHANGED <<lost, table, loop>>
     \/ /\ y # NoSocket /\ sock[y] = "dead"
        /\ lost' = [lost EXCEPT ![u] = @ \cup {Head(queue[u])}]
        /\ table' = [table EXCEPT ![u] = NoSocket]
        /\ loop' = LoopEnded(x)
        /\ UNCHANGED heard
     \/ /\ y = NoSocket
        /\ lost' = [lost EXCEPT ![u] = @ \cup {Head(queue[u])}]
        /\ UNCHANGED <<heard, table, loop>>
  /\ UNCHANGED <<counts, rows, sock>>

\* The process dies with its transactions, table and loops; Redis keeps the
\* queues.
Restart ==
  /\ restarts < MaxRestarts
  /\ restarts' = restarts + 1
  /\ event' = [n \in Events |->
       IF event[n].pc \in {"feed", "notes", "push"} THEN Undone(event[n]) ELSE event[n]]
  /\ sock' = [x \in Sockets |-> IF sock[x] = "open" THEN "dead" ELSE sock[x]]
  /\ table' = [u \in Readers |-> NoSocket]
  /\ loop' = {}
  /\ UNCHANGED <<fans, moves, steady, queue, heard, lost>>

Next ==
  \/ \E n \in Events :
       \/ Begin(n) \/ WriteFeed(n) \/ ResolveNotes(n) \/ Commit(n) \/ Abort(n)
       \/ \E u \in Readers : Notify(n, u)
  \/ \E a \in Moving, u \in Readers : Move(a, u)
  \/ \E x \in Sockets : Connect(x) \/ Drop(x) \/ Poll(x)
  \/ Restart

Spec == Init /\ [][Next]_deliveryVars

-----------------------------------------------------------------------------
TypeOK ==
  /\ fans \in [Moving -> SUBSET Readers] /\ moves \in 0..MaxMoves
  /\ event \in [Events -> EventRow]
  /\ steady \in [Events -> [Moving -> SUBSET Readers]]
  /\ queue \in [Readers -> Seq(Events)]
  /\ heard \in [Readers -> Seq(Events)] /\ lost \in [Readers -> SUBSET Events]
  /\ table \in [Readers -> Sockets \cup {NoSocket}]
  /\ sock \in [Sockets -> {"new", "open", "dead"}]
  /\ loop \subseteq Sockets /\ restarts \in 0..MaxRestarts

\* "An event that has happened must reach every sink POLICY says": when the
\* transaction commits, every member of every audience the policy names, who was
\* one all along, has a row, except whoever caused the event; and a comment that
\* was not shared is no Activity.
Owed(n, audiences) == UNION {Members(a, steady[n]) : a \in audiences \ {"mentioned_users"}}
EverySinkServed ==
  \A n \in Events : LET e == event[n] IN
    e.pc = "done" =>
      /\ "notification" \in e.sinks =>
           Owed(n, Notifies(e.verb)) \ (IF ExcludesSubject(e.verb) THEN {e.subject} ELSE {})
             \subseteq e.notes
      /\ ExcludesSubject(e.verb) => e.subject \notin e.notes
      /\ e.activity <=> /\ "activity" \in e.sinks /\ WritesActivity(e.verb)
                        /\ e.verb \in Comments => e.shared
      /\ "feed" \in e.sinks => Owed(n, FeedAudience(e.verb)) \subseteq e.feed

\* Messages are neither lost in a queue nor made twice, whatever is pushed before a commit
\* that does not come, and whoever takes them: what is sent to a reader is in one place, once,
\* is about an event that was distributed as far as its Notifications, and goes to everyone who
\* has such a row and may read the event, if no push fails, and to nobody else.
Waiting(u) == {queue[u][k] : k \in 1..Len(queue[u])}
Received(u) == {heard[u][k] : k \in 1..Len(heard[u])}
NoRepeats(s) == \A j, k \in 1..Len(s) : s[j] = s[k] => j = k
Sent(u, n) == n \in Waiting(u) \cup Received(u) \cup lost[u]
Due(e, u) == u \in e.notes /\ Renders(e.verb, e.private, u \in Insiders)
MessagesAccounted ==
  \A u \in Readers :
    /\ NoRepeats(queue[u]) /\ NoRepeats(heard[u])
    /\ Waiting(u) \cap Received(u) = {} /\ lost[u] \cap (Waiting(u) \cup Received(u)) = {}
    /\ \A n \in Events :
         /\ Sent(u, n) => Due(event[n], u) \/ event[n].pc = "undone"
         /\ Due(event[n], u) => Sent(u, n) \/ RedisFails

\* A reader who has connected only once loses at most one message: the one that
\* finds out that the socket is dead.  The others wait for the next socket; and as long
\* as the socket is open, its loop runs and sends to it.
Connected(u) == {x \in Sockets : SocketOf[x] = u /\ sock[x] # "new"}
OneSocketLosesOne ==
  \A u \in Readers :
    (\A x, y \in Connected(u) : x = y) =>
      /\ \A m, n \in lost[u] : m = n
      /\ lost[u] # {} => \E x \in Connected(u) : sock[x] = "dead"
      /\ \A x \in Connected(u) : sock[x] = "open" => x \in loop /\ table[u] = x
=============================================================================
