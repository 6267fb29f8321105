------------------------------ MODULE Timeline ------------------------------
(***************************************************************************)
(* A reader pages through activities: the home feed, made of what was      *)
(* delivered to the reader and padded when it is nearly empty, or a        *)
(* profile, made of what one user did.                                     *)
(* services/feed.py, services/feed_impl.py, services/feed_fill.py,         *)
(* api/api_v1/endpoints/activities.py.                                     *)
(*                                                                         *)
(* Activities are numbers.  A number is drawn when the row is inserted,    *)
(* and the row is seen when its transaction commits, so a smaller number   *)
(* may show up after a larger one.  Between two pages activities are       *)
(* recorded and permissions change.                                        *)
(***************************************************************************)
EXTENDS Integers, FiniteSets, SequencesExt

CONSTANTS
  MaxActivity,  \* bound on the activities
  Limit,        \* items asked for
  FillBelow,    \* FILL_BELOW
  ScanLimit,    \* SCAN_LIMIT
  MaxPages,     \* bound on the pages read
  MaxChanges    \* bound on the changes of permissions

VARIABLES
  mode,        \* "feed" or "profile"
  activities,  \* the committed activities
  mine,        \* of these: those delivered to the reader, or done by the subject
  public,      \* of these: those anyone may be shown
  readable,    \* those that materialize for the reader
  page,        \* the last page, a sequence
  pages,       \* pages read
  scrolled,    \* history: all that was on a page, in order
  lasting,      \* history: those of mine readable ever since the first page
  changes      \* changes of permissions so far

rows == <<activities, mine, public, readable>>
vars == <<mode, rows, page, pages, scrolled, lasting, changes>>

Numbers == 1..MaxActivity

Init ==
  /\ mode \in {"feed", "profile"}
  /\ activities = {} /\ mine = {} /\ public = {} /\ readable = {}
  /\ page = <<>> /\ pages = 0 /\ scrolled = <<>> /\ lasting = {} /\ changes = 0

-----------------------------------------------------------------------------
\* An activity is committed, for the reader or not, readable or not.
Record(a) ==
  /\ a \notin activities
  /\ activities' = activities \cup {a}
  /\ mine' \in {mine, mine \cup {a}}
  /\ public' \in {public, public \cup {a}}
  /\ readable' \in {readable, readable \cup {a}}
  /\ UNCHANGED <<mode, page, pages, scrolled, lasting, changes>>

\* Something is hidden or shown again, or the reader joins or leaves a site.
ChangePermission(a) ==
  /\ a \in activities /\ changes < MaxChanges
  /\ readable' = IF a \in readable THEN readable \ {a} ELSE readable \cup {a}
  /\ lasting' = lasting \ {a}
  /\ changes' = changes + 1
  /\ UNCHANGED <<mode, activities, mine, public, page, pages, scrolled>>

\* The n-th is the one with n - 1 newer ones.
NewestFirst(S) ==
  [n \in 1..Cardinality(S) |-> CHOOSE a \in S : Cardinality({b \in S : b > a}) = n - 1]

\* Mutant: the activity of the cursor is on the next page again.
UpTo(S, before) == {a \in S : before = 0 \/ a <= before}

\* The rows before the cursor; 0 stands for no cursor.
Before(S, before) == {a \in S : before = 0 \/ a < before}

\* ORDER BY id DESC LIMIT n.
Newest(S, n) == {a \in S : Cardinality({b \in S : b > a}) < n}

\* receiver_feed and subject_timeline: at most Limit rows are fetched, and those
\* the reader may not see are left out afterwards.
Fetched(before) == NewestFirst(Newest(Before(mine, before), Limit) \cap readable)

\* _recent_public: of the latest rows, the public ones that are not on the page.
RecentPublic(exclude, before, count) ==
  Newest((Newest(Before(activities, before), ScanLimit) \cap readable \cap public) \ exclude,
         count)

\* top_up.
TopUp(items, before, random) ==
  IF (before # 0 /\ ~random) \/ Len(items) >= FillBelow \/ Limit <= Len(items) THEN items
  ELSE items \o NewestFirst(RecentPublic(ToSet(items), before, Limit - Len(items)))

\* get_user_activity: a profile is never padded.
GetUserActivity(before, random) ==
  IF mode = "profile" THEN Fetched(before) ELSE TopUp(Fetched(before), before, random)

ShowPage(before, random) ==
  /\ page' = GetUserActivity(before, random)
  /\ pages' = pages + 1
  /\ scrolled' = scrolled \o page'
  /\ UNCHANGED <<mode, rows, changes>>

FirstPage ==
  /\ pages = 0
  /\ \E random \in BOOLEAN : ShowPage(0, random)
  /\ lasting' = mine \cap readable

\* The client asks for what comes before the last item it was shown, and stops at
\* an empty page.
NextPage ==
  /\ pages \in 1..MaxPages-1 /\ page # <<>>
  /\ ShowPage(Last(page), FALSE)
  /\ UNCHANGED lasting

Next ==
  \/ \E a \in Numbers : Record(a) \/ ChangePermission(a)
  \/ FirstPage \/ NextPage

Spec == Init /\ [][Next]_vars

-----------------------------------------------------------------------------
TypeOK ==
  /\ mode \in {"feed", "profile"}
  /\ activities \subseteq Numbers
  /\ mine \subseteq activities /\ public \subseteq activities /\ readable \subseteq activities
  /\ page \in Seq(Numbers) /\ scrolled \in Seq(Numbers)
  /\ pages \in 0..MaxPages /\ changes \in 0..MaxChanges
  /\ lasting \subseteq Numbers

\* "Never returns more than limit items, and never repeats an activity."  What is
\* not the reader's comes last, is public, and only on an under-filled page.
PageIsSound ==
  /\ Len(page) <= Limit /\ IsInjective(page)
  /\ \A n \in 1..Len(page) : page[n] \notin mine =>
       /\ mode = "feed"
       /\ \A m \in n..Len(page) : page[m] \in public

\* Paging through a profile, whatever is recorded, hidden or shown meanwhile, shows
\* no activity twice and every activity that was there and readable all along,
\* down to the last item shown.
PagingMissesNothing ==
  mode = "profile" =>
    /\ IsInjective(scrolled)
    /\ scrolled # <<>> => {a \in lasting : a >= Last(scrolled)} \subseteq ToSet(scrolled)

\* A page is what get_feed promises, and pages follow each other without gaps.
PagingHolds == PageIsSound /\ PagingMissesNothing
=============================================================================
