------------------------------ MODULE Channels ------------------------------
(***************************************************************************)
(* Private channels and their messages, and the feedback a channel may be  *)
(* about.  services/channels.py, services/messages.py,                     *)
(* services/feedbacks.py, services/notifications.py, crud/crud_channel.py, *)
(* crud/crud_message.py, crud/crud_notification.py.                        *)
(*                                                                         *)
(* A channel is looked for from the side of who asks, then from the other  *)
(* side, and created if neither look finds one; no key says that it is the *)
(* only one.  Who may read a channel and who is notified of a message are      *)
(* decided in two places.                                                  *)
(***************************************************************************)
EXTENDS Integers, Sequences, FiniteSets

CONSTANTS
  People,
  Superuser,
  Matters,     \* what a channel may be about: feedback, and proposals of sites
  Feedback,     \* the subjects that are feedback
  NoMatter,
  Openers,      \* threads that may be opening a channel
  SoloMatters, \* subjects about which channels happen not to be opened at once
  MaxOpenings,  \* bounds on the openings and the messages
  MaxMessages,
  ReadPage      \* how many of the notifications that are read are listed

VARIABLES
  room,     \* the rows of channels, in order
  messages, \* the rows of messages, in order
  notified, \* <<p, n>>: p has a notification of message n
  read,     \* the notifications that are marked as read
  filed,    \* filed[f]: who gave feedback f
  opening,  \* opening[s]: what thread s is doing
  got,      \* history: <<h, w, x, c>>: h asked for a channel with w about x and got c
  openings

vars == <<room, messages, notified, read, filed, opening, got, openings>>

Topics == Matters \cup {NoMatter}
Givers == People \cup {"nobody", "a guest"}  \* nobody yet; somebody not logged in

NoOpening == [pc |-> "idle", host |-> Superuser, with |-> Superuser, subject |-> NoMatter]

Init ==
  /\ room = <<>> /\ messages = <<>> /\ notified = {} /\ read = {}
  /\ filed = [f \in Feedback |-> "nobody"]
  /\ opening = [s \in Openers |-> NoOpening]
  /\ got = {} /\ openings = 0

Rooms == DOMAIN room
Sides(c) == {room[c].admin, room[c].with}

\* What a channel's members are: both are appended when it is created.
Members(c) == Sides(c)

-----------------------------------------------------------------------------
(* Opening a channel.                                                      *)

\* With no subject, a channel about anything will do.
find_channel(admin, with, x) ==
  {c \in Rooms : room[c].admin = admin /\ room[c].with = with
                 /\ x \in {NoMatter, room[c].subject}}

Solo(h, w, x) ==
  \A s \in Openers :
    opening[s].pc # "idle" /\ {opening[s].host, opening[s].with} = {h, w} => opening[s].subject # x

Open(s, h, w, x) ==
  /\ opening[s].pc = "idle" /\ openings < MaxOpenings
  /\ x \in SoloMatters => Solo(h, w, x)
  /\ opening' = [opening EXCEPT ![s] = [pc |-> "look", host |-> h, with |-> w, subject |-> x]]
  /\ openings' = openings + 1
  /\ UNCHANGED <<room, messages, notified, read, filed, got>>

Answer(s, c) ==
  LET o == opening[s] IN
  /\ got' = got \cup {<<o.host, o.with, o.subject, c>>}
  /\ opening' = [opening EXCEPT ![s] = NoOpening]
  /\ UNCHANGED <<messages, notified, read, filed, openings>>

GoOn(s, pc) ==
  /\ opening' = [opening EXCEPT ![s].pc = pc]
  /\ UNCHANGED <<room, messages, notified, read, filed, got, openings>>

LookFor(s, found, next) ==
  \/ found = {} /\ GoOn(s, next)
  \/ \E c \in found : Answer(s, c) /\ UNCHANGED room

Look(s) ==
  LET o == opening[s] IN
  o.pc = "look" /\ LookFor(s, find_channel(o.host, o.with, o.subject), "look again")

\* Mutant: the second look is the first one again.
SameWay(o) == find_channel(o.host, o.with, o.subject)

OtherWay(o) == find_channel(o.with, o.host, o.subject)

LookAgain(s) ==
  opening[s].pc = "look again" /\ LookFor(s, OtherWay(opening[s]), "create")

\* Feedback that is not there fails the foreign key, and Abort.
Create(s) ==
  LET o == opening[s] IN
  /\ o.pc = "create"
  /\ o.subject \in Feedback => filed[o.subject] # "nobody"
  /\ room' = Append(room, [admin |-> o.host, with |-> o.with, subject |-> o.subject])
  /\ Answer(s, Len(room) + 1)

Abort(s) ==
  /\ opening[s].pc # "idle"
  /\ opening' = [opening EXCEPT ![s] = NoOpening]
  /\ UNCHANGED <<room, messages, notified, read, filed, got, openings>>

-----------------------------------------------------------------------------
(* Messages.                                                               *)

check_user_in_channel(p, c) == p \in Members(c) \/ p = room[c].admin \/ p = room[c].with

get_channel(p, c) == c \in Rooms /\ check_user_in_channel(p, c)
list_channel_messages(p, c) ==
  {n \in 1..Len(messages) : messages[n].room = c /\ get_channel(p, c)}
get_message(p, n) == n \in 1..Len(messages) /\ check_user_in_channel(p, messages[n].room)
list_channels(p) == {c \in Rooms : p \in Members(c)}

\* distribute, with the members as audience and the subject of the event left out.
Told(p, c) == Members(c) \ {p}

\* The row; that the channel was updated is left out.
create_with_author(p, c) == Append(messages, [author |-> p, room |-> c])

create_message(p, c) ==
  /\ Len(messages) < MaxMessages
  /\ c \in Rooms /\ check_user_in_channel(p, c)
  /\ messages' = create_with_author(p, c)
  /\ notified' = notified \cup {<<q, Len(messages) + 1>> : q \in Told(p, c)}
  /\ UNCHANGED <<room, read, filed, opening, got, openings>>

-----------------------------------------------------------------------------
(* The notifications of a user, which are marked by their ids.             *)

Noted(p) == {n \in 1..Len(messages) : <<p, n>> \in notified}
get_unread(p) == {n \in Noted(p) : <<p, n>> \notin read}

\* Mutant: the page is taken before what is unread is left out of it.
LatestNoted(p) ==
  {n \in Noted(p) \ get_unread(p) : Cardinality({m \in Noted(p) : m > n}) < ReadPage}

\* The latest that are read.
get_read(p) ==
  {n \in Noted(p) \ get_unread(p) :
     Cardinality({m \in Noted(p) \ get_unread(p) : m > n}) < ReadPage}

\* The event of a message names who wrote it and where, and is always shown.
list_unread(p) == get_unread(p)
list_read(p) == get_read(p)

update(k, is_read) == IF is_read THEN read \cup {k} ELSE read \ {k}

update_notification(k, is_read) ==
  /\ read' = update(k, is_read)
  /\ UNCHANGED <<room, messages, notified, filed, opening, got, openings>>

-----------------------------------------------------------------------------
(* Feedback, by users or by guests.  The task that follows is given no id. *)

create_feedback(g, f) == filed' = [filed EXCEPT ![f] = g]

PostFeedback(g, f) ==
  /\ filed[f] = "nobody" /\ g # "nobody"
  /\ create_feedback(g, f)
  /\ UNCHANGED <<room, messages, notified, read, opening, got, openings>>

list_my_feedbacks(p) == {f \in Feedback : filed[f] = p}
get_feedback_screenshot(p, f) == filed[f] # "nobody" /\ (filed[f] = p \/ p = Superuser)

Next ==
  \/ \E s \in Openers :
       \/ \E h, w \in People, x \in Topics : Open(s, h, w, x)
       \/ Look(s) \/ LookAgain(s) \/ Create(s) \/ Abort(s)
  \/ \E p \in People, c \in Rooms : create_message(p, c)
  \/ \E k \in notified, is_read \in BOOLEAN : update_notification(k, is_read)
  \/ \E g \in Givers, f \in Feedback : PostFeedback(g, f)

Spec == Init /\ [][Next]_vars

-----------------------------------------------------------------------------
TypeOK ==
  /\ Len(room) <= MaxOpenings
  /\ \A c \in Rooms : Sides(c) \subseteq People /\ room[c].subject \in Topics
  /\ \A n \in 1..Len(messages) : messages[n].author \in People /\ messages[n].room \in Rooms
  /\ notified \subseteq People \X (1..Len(messages)) /\ read \subseteq notified
  /\ filed \in [Feedback -> Givers]
  /\ \A s \in Openers :
       /\ opening[s].pc \in {"idle", "look", "look again", "create"}
       /\ {opening[s].host, opening[s].with} \subseteq People /\ opening[s].subject \in Topics
  /\ got \subseteq People \X People \X Topics \X Rooms
  /\ openings \in 0..MaxOpenings

\* "Symmetric (order doesn't matter)" (tests/app/crud/a/test_crud_channel.py:120): who
\* asks for a channel with another about something gets one of the two of them about
\* that, and when nobody else was opening one at the time, it is the only one.
OneConversation ==
  /\ \A g \in got : LET c == g[4] IN
       Sides(c) = {g[1], g[2]} /\ g[3] \in {NoMatter, room[c].subject}
  /\ \A c, d \in Rooms :
       /\ c # d /\ Sides(c) = Sides(d)
       /\ room[c].subject = room[d].subject
       => room[c].subject \notin SoloMatters

\* A message is notified to those who may read it and did not write it, and who may read
\* a channel has it in the list of channels.
ReadersAreTold ==
  /\ \A n \in 1..Len(messages) :
       {p \in People : <<p, n>> \in notified} = {p \in People : get_message(p, n)} \ {messages[n].author}
  /\ \A p \in People, c \in Rooms :
       /\ get_channel(p, c) <=> c \in list_channels(p)
       /\ list_channel_messages(p, c) = {n \in 1..Len(messages) : messages[n].room = c /\ get_message(p, n)}
  /\ \A p \in People : list_my_feedbacks(p) \subseteq {f \in Feedback : get_feedback_screenshot(p, f)}

\* Between the two lists a user finds every message of others in the user's channels:
\* those not marked as read all at once, and those that are marked, or were and are not
\* any more, but for the ones that a whole page of later ones hides.
NotesAreFound ==
  \A p \in People :
    LET mine == {n \in 1..Len(messages) : get_message(p, n) /\ messages[n].author # p}
        hidden == mine \ (list_unread(p) \cup list_read(p))
        listed == list_read(p) IN
    /\ list_unread(p) \cap listed = {}
    /\ list_unread(p) = {n \in mine : <<p, n>> \notin read}
    /\ \A n \in hidden : Cardinality({m \in listed : m > n}) = ReadPage

\* Two people find each other in one channel, and hear there what they can read.
ChannelsHold == OneConversation /\ ReadersAreTold /\ NotesAreFound
=============================================================================
