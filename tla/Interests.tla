----------------------------- MODULE Interests -----------------------------
(***************************************************************************)
(* Questions and people that may interest a user: lists of ids in the      *)
(* user's row, computed anew when someone looks who finds them old.        *)
(* recs/indexed_layer.py, recs/indexing.py, services/postprocess.py.       *)
(*                                                                         *)
(* Who looks gets the list that the request had loaded: the new one is     *)
(* computed and committed in a session of its own, for the next look.      *)
(***************************************************************************)
EXTENDS Integers, FiniteSets

CONSTANTS
  Lists, OwnerOf,   \* the lists, and whose they are
  Asked, SiteOf,    \* questions, and the site each is in
  OpenSites,        \* sites everyone reads
  Lookers,          \* users
  Looks,            \* threads that may be serving a look
  Fresh, Old,       \* 3 and 7 days
  MaxDays, MaxTurns, MaxLooks \* bounds on the days, the changes and the looks

VARIABLES
  shelf,  \* shelf[l]: the list and the day it was computed
  within, \* <<u, c>>: u belongs to site c
  posed,  \* questions that have been asked
  gone,   \* questions that have been hidden
  follow, \* <<u, v>>: u follows v
  look,   \* look[s]: the look thread s is serving, with the list it has loaded
  days, turns, looks, \* days, changes and looks so far
  since,  \* history: since[l][i]: the day from which i has always been listed, or NoDay
  looked, \* history: the day of the latest look at l that did not fail
  overlooked \* history: <<l, i>>: a look at l did not show i in time

vars == <<shelf, within, posed, gone, follow, look, days, turns, looks, since, looked, overlooked>>

NoDay == -1
Never == [ids |-> {}, day |-> NoDay]
Items == Asked \cup Lookers
NoLook == [pc |-> "idle", l |-> CHOOSE l \in Lists : TRUE, had |-> Never, day |-> NoDay,
           after |-> NoDay] \* after: the day of the look that preceded it

Sites == {SiteOf[q] : q \in Asked}
Owners == {OwnerOf[l].who : l \in Lists}

-----------------------------------------------------------------------------
(* What is of interest.                                                    *)

InSite(u, c) == c \in OpenSites \/ <<u, c>> \in within

\* compute_interesting_questions_ids_for_normal_user, of as few questions as there are.
Questions(u) == {q \in posed \ gone : InSite(u, SiteOf[q])}

\* compute_interesting_users_ids_for_normal_user, of as few users as there are.
Others(u) == {v \in Lookers \ {u} : <<u, v>> \notin follow}

Computed(l) == IF OwnerOf[l].what = "questions" THEN Questions(OwnerOf[l].who)
                                                ELSE Others(OwnerOf[l].who)

Init ==
  /\ shelf = [l \in Lists |-> Never]
  /\ within = {} /\ posed = {} /\ gone = {} /\ follow = {}
  /\ look = [s \in Looks |-> NoLook]
  /\ days = 0 /\ turns = 0 /\ looks = 0
  /\ since = [l \in Lists |-> [i \in Items |-> IF i \in Computed(l) THEN 0 ELSE NoDay]]
  /\ looked = [l \in Lists |-> NoDay] /\ overlooked = {}

\* preview_of_question; users are shown in any case.
Shown(l, i) == i \in Asked => i \in Questions(OwnerOf[l].who)

\* After every change, and every day: what is listed now, and since when.
Listed ==
  since' = [l \in Lists |-> [i \in Items |->
    IF i \notin Computed(l)' THEN NoDay
    ELSE IF since[l][i] = NoDay THEN days' ELSE since[l][i]]]

-----------------------------------------------------------------------------
(* Looks.                                                                  *)

Expired(list, life) == list.day = NoDay \/ days - list.day > life

\* Mutant: only what is way too old is computed again.
TooOld(list) == Expired(list, Old)

\* _get_interesting_question_ids: way too old, or a bit old.
Refreshes(list) == Expired(list, Old) \/ Expired(list, Fresh)

Load(s, l) ==
  /\ look[s].pc = "idle" /\ looks < MaxLooks /\ looks' = looks + 1
  /\ look' = [look EXCEPT ![s] =
       [pc |-> IF Refreshes(shelf[l]) THEN "refresh" ELSE "show", l |-> l,
        had |-> shelf[l], day |-> days, after |-> looked[l]]]
  /\ UNCHANGED <<shelf, within, posed, gone, follow, days, turns, since, looked, overlooked>>

\* refresh_interesting_question_ids_for_user, committed before it returns.
Refresh(s) ==
  LET l == look[s].l IN
  /\ look[s].pc = "refresh"
  /\ shelf' = [shelf EXCEPT ![l] = [ids |-> Computed(l), day |-> days]]
  /\ look' = [look EXCEPT ![s].pc = "show"]
  /\ UNCHANGED <<within, posed, gone, follow, days, turns, looks, since, looked, overlooked>>

\* execute_with_db reports an exception and returns, and the look goes on.
FailRefresh(s) ==
  /\ look[s].pc = "refresh"
  /\ look' = [look EXCEPT ![s].pc = "show", ![s].day = NoDay]
  /\ UNCHANGED <<shelf, within, posed, gone, follow, days, turns, looks, since, looked, overlooked>>

\* get_interesting_questions, get_interesting_users.
Show(s) ==
  LET k == look[s]
      l == k.l
      shown == {i \in k.had.ids : Shown(l, i)}
      due == {i \in Items : /\ since[l][i] # NoDay
                            /\ k.after # NoDay /\ since[l][i] < k.after - Fresh}
  IN
  /\ k.pc = "show"
  /\ overlooked' = overlooked \cup {<<l, i>> : i \in due \ shown}
  /\ look' = [look EXCEPT ![s] = NoLook]
  /\ looked' = [looked EXCEPT ![l] = IF k.day > @ THEN k.day ELSE @]
  /\ UNCHANGED <<shelf, within, posed, gone, follow, days, turns, looks, since>>

-----------------------------------------------------------------------------
(* Changes of others, and the time.                                        *)

Turn ==
  /\ turns < MaxTurns /\ turns' = turns + 1
  /\ UNCHANGED <<shelf, look, days, looks, looked, overlooked>>

Ask(q) == Turn /\ q \notin posed /\ posed' = posed \cup {q}
          /\ UNCHANGED <<within, gone, follow>> /\ Listed
Hide(q) == Turn /\ q \in posed \ gone /\ gone' = gone \cup {q}
           /\ UNCHANGED <<within, posed, follow>> /\ Listed
Join(u, c) == Turn /\ <<u, c>> \notin within /\ within' = within \cup {<<u, c>>}
              /\ UNCHANGED <<posed, gone, follow>> /\ Listed
Leave(u, c) == Turn /\ <<u, c>> \in within /\ within' = within \ {<<u, c>>}
               /\ UNCHANGED <<posed, gone, follow>> /\ Listed
Follow(u, v) == Turn /\ u # v /\ <<u, v>> \notin follow /\ follow' = follow \cup {<<u, v>>}
                /\ UNCHANGED <<within, posed, gone>> /\ Listed
Unfollow(u, v) == Turn /\ <<u, v>> \in follow /\ follow' = follow \ {<<u, v>>}
                  /\ UNCHANGED <<within, posed, gone>> /\ Listed

\* A look may go on for days.
Day ==
  /\ days < MaxDays /\ days' = days + 1
  /\ UNCHANGED <<shelf, within, posed, gone, follow, look, turns, looks, looked, overlooked>> /\ Listed

Next ==
  \/ \E s \in Looks : Refresh(s) \/ FailRefresh(s) \/ Show(s) \/ \E l \in Lists : Load(s, l)
  \/ \E q \in Asked : Ask(q) \/ Hide(q)
  \/ \E u \in Owners, c \in Sites : Join(u, c) \/ Leave(u, c)
  \/ \E u \in Owners, v \in Lookers : Follow(u, v) \/ Unfollow(u, v)
  \/ Day

Spec == Init /\ [][Next]_vars

-----------------------------------------------------------------------------
TypeOK ==
  /\ \A l \in Lists : shelf[l].ids \subseteq Items /\ shelf[l].day \in NoDay..MaxDays
  /\ within \subseteq Lookers \X Sites /\ follow \subseteq Lookers \X Lookers
  /\ gone \subseteq posed /\ posed \subseteq Asked
  /\ \A s \in Looks : look[s].pc \in {"idle", "refresh", "show"} /\ look[s].l \in Lists
  /\ overlooked \subseteq Lists \X Items

\* Although a look shows the list as it was before, and other looks overlap it, it
\* shows whatever has been of interest since more than three days before the look
\* that preceded it, unless computing the list failed.
InterestsAreRecent == overlooked = {}
=============================================================================
