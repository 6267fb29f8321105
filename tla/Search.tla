------------------------------- MODULE Search -------------------------------
(***************************************************************************)
(* Search: the index of each kind of object, the scheduled task that       *)
(* rebuilds the five of them in turn, and what a search shows.             *)
(* services/search.py, infra/search_index.py, the search functions of      *)
(* crud/, api/api_v1/endpoints/search.py.                                  *)
(*                                                                         *)
(* A search matches everything in the index, which never exceeds the ten   *)
(* results a search is limited to. The searcher is a logged-in reader of   *)
(* public sites who wrote none of it, and the questions of answers are not *)
(* hidden: what is left out is left out for another reason. The scheduler  *)
(* never starts a rebuild while the last one is going on.                  *)
(***************************************************************************)
EXTENDS Integers, Sequences

CONSTANTS
  Docs,       \* objects that may be searched for
  TypeOf,     \* TypeOf[d]: the index d belongs to
  MaxEdits,   \* bound on the changes to rows
  MaxTroubles \* bound on the failures of a rebuild and the crashes of the process

VARIABLES
  row,      \* row[d]: "none", "draft", "shown", "hidden" (by a moderator) or "gone"
  disk,     \* disk[t]: the directory of index t is "absent", "empty" or "ready"
  index,    \* index[t]: documents of the index, as last committed
  rebuild,  \* the rebuild that is going on
  edits, troubles, \* changes and troubles so far
  kept,     \* history: documents fetched by the rebuild at work, searchable ever since
  promised, \* history: documents that a rebuild of their type has committed, searchable ever since
  dropped,  \* history: those of them that the last rebuild of their type, which failed, left out
  outdated  \* history: documents not searchable ever since the last rebuild of their type

past == <<kept, promised, dropped, outdated>>
vars == <<row, disk, index, rebuild, edits, troubles, past>>

\* refresh_search_index.
Order == <<"question", "site", "submission", "answer", "article">>
Types == {Order[n] : n \in DOMAIN Order}

Rows(t) ==
  CASE t = "question" -> {"none", "shown", "hidden"}
    [] t = "site" -> {"none", "shown"}
    [] t = "submission" -> {"none", "shown", "hidden"}
    [] t = "answer" -> {"none", "draft", "shown", "hidden", "gone"}
    [] OTHER -> {"none", "draft", "shown", "gone"}

\* Writing, publishing, hiding and deleting; nothing brings a row back.
Later(from, to) ==
  \/ from = "none" /\ to \in {"draft", "shown"}
  \/ from = "draft" /\ to \in {"shown", "gone"}
  \/ from = "shown" /\ to \in {"hidden", "gone"}
  \/ from = "hidden" /\ to = "gone"

Idle == [at |-> 0, step |-> "idle", todo |-> {}, written |-> {}, failed |-> FALSE]

Init ==
  /\ row = [d \in Docs |-> "none"]
  /\ disk = [t \in Types |-> "absent"]
  /\ index = [t \in Types |-> {}]
  /\ rebuild = Idle
  /\ edits = 0 /\ troubles = 0
  /\ kept = {} /\ promised = {} /\ dropped = {} /\ outdated = {}

-----------------------------------------------------------------------------
(* Rows.                                                                   *)

\* get_all_valid, get_all, get_all_published; the last does not look at what a
\* moderator has hidden.
Indexable(t, r) == r = "shown" \/ (t = "answer" /\ r = "hidden")

Fetched(t) == {d \in Docs : TypeOf[d] = t /\ Indexable(t, row[d])}

\* Rows to which every search function that finds them leads a reader.
Current(d) == row[d] = "shown"

Edit(d) ==
  /\ edits < MaxEdits
  /\ \E to \in Rows(TypeOf[d]) :
       /\ Later(row[d], to)
       /\ row' = [row EXCEPT ![d] = to]
       /\ LET searchable == IF to = "shown" THEN {} ELSE {d} IN
          /\ kept' = kept \ searchable
          /\ promised' = promised \ searchable /\ dropped' = dropped \ searchable
       /\ outdated' = IF to = "shown" THEN outdated \ {d} ELSE outdated
  /\ edits' = edits + 1
  /\ UNCHANGED <<disk, index, rebuild, troubles>>

-----------------------------------------------------------------------------
(* Rebuilding.                                                             *)

On(step) == rebuild.step = step
Target == Order[rebuild.at]

Start ==
  /\ On("idle")
  /\ rebuild' = [Idle EXCEPT !.at = 1, !.step = "open"]
  /\ UNCHANGED <<row, disk, index, edits, troubles, past>>

\* open_dir raises on a directory without an index, and the task ends there.
Open ==
  /\ On("open")
  /\ \/ /\ disk[Target] = "ready"
        /\ rebuild' = [rebuild EXCEPT !.step = "fetch"] /\ UNCHANGED disk
     \/ /\ disk[Target] = "absent"
        /\ disk' = [disk EXCEPT ![Target] = "empty"]
        /\ rebuild' = [rebuild EXCEPT !.step = "create"]
     \/ /\ disk[Target] = "empty"
        /\ rebuild' = Idle /\ UNCHANGED disk
  /\ UNCHANGED <<row, index, edits, troubles, past>>

Create ==
  /\ On("create")
  /\ disk' = [disk EXCEPT ![Target] = "ready"]
  /\ rebuild' = [rebuild EXCEPT !.step = "fetch"]
  /\ UNCHANGED <<row, index, edits, troubles, past>>

Fetch ==
  /\ On("fetch")
  /\ rebuild' = [rebuild EXCEPT !.step = "add", !.todo = Fetched(Target)]
  /\ kept' = {d \in Fetched(Target) : Current(d)}
  /\ UNCHANGED <<row, disk, index, edits, troubles, promised, dropped, outdated>>

AddDocument(d) ==
  /\ On("add") /\ d \in rebuild.todo
  /\ rebuild' = [rebuild EXCEPT !.todo = @ \ {d}, !.written = @ \cup {d}]
  /\ UNCHANGED <<row, disk, index, edits, troubles, past>>

\* The query or a document raises: the finally clause commits what was written.
Raise ==
  /\ On("fetch") \/ On("add")
  /\ troubles < MaxTroubles
  /\ troubles' = troubles + 1
  /\ rebuild' = [rebuild EXCEPT !.step = "commit", !.failed = TRUE]
  /\ UNCHANGED <<row, disk, index, edits, past>>

\* Mutant: the writer merges what it has written into the old index.
Merged(t) == index[t] \cup rebuild.written

\* commit(mergetype=CLEAR): the old index is dropped.
Committed(t) == rebuild.written

OfTarget == {d \in Docs : TypeOf[d] = Target}

\* After a failure the next indexes are left as they are.
Commit ==
  /\ (On("add") /\ rebuild.todo = {}) \/ On("commit")
  /\ index' = [index EXCEPT ![Target] = Committed(Target)]
  /\ rebuild' = IF rebuild.failed \/ rebuild.at = Len(Order) THEN Idle
            ELSE [Idle EXCEPT !.at = rebuild.at + 1, !.step = "open"]
  /\ promised' = promised \cup (kept \cap rebuild.written)
  /\ dropped' = (dropped \ OfTarget) \cup
       (IF rebuild.failed THEN (promised \cap OfTarget) \ rebuild.written ELSE {})
  /\ outdated' = (outdated \ OfTarget) \cup {d \in OfTarget \ rebuild.written : ~Current(d)}
  /\ kept' = {}
  /\ UNCHANGED <<row, disk, edits, troubles>>

\* The process dies: an index changes only when it is committed.
Crash ==
  /\ rebuild # Idle /\ troubles < MaxTroubles
  /\ troubles' = troubles + 1
  /\ rebuild' = Idle /\ kept' = {}
  /\ UNCHANGED <<row, disk, index, edits, promised, dropped, outdated>>

Next ==
  \/ Start \/ Open \/ Create \/ Fetch \/ Raise \/ Commit \/ Crash
  \/ \E d \in Docs : Edit(d) \/ AddDocument(d)

Spec == Init /\ [][Next]_vars

-----------------------------------------------------------------------------
(* Searching.                                                              *)

\* do_search: a directory without an index raises.
Hits(t) == IF disk[t] = "ready" THEN index[t] ELSE {}

\* The functions of crud/ that look its ids up: without an index two of them list
\* everything.
Found(t) ==
  IF disk[t] = "absent" /\ t \in {"question", "answer"} THEN Fetched(t)
  ELSE {d \in Hits(t) : row[d] # "none"}

\* get_one_as_search_result, and the previews that search_answers and the other
\* functions of the service make of what was found; a question's is its title.
Presents(d) ==
  CASE TypeOf[d] = "question" -> TRUE
    [] TypeOf[d] = "answer" -> row[d] \notin {"draft", "hidden", "gone"}
    [] OTHER -> Current(d)

Results(t) == {d \in Found(t) : Presents(d)}

TypeOK ==
  /\ \A d \in Docs : row[d] \in Rows(TypeOf[d])
  /\ disk \in [Types -> {"absent", "empty", "ready"}]
  /\ \A t \in Types : index[t] \subseteq {d \in Docs : TypeOf[d] = t}
  /\ rebuild.at \in 0..Len(Order) /\ rebuild.todo \cup rebuild.written \subseteq Docs
  /\ edits \in 0..MaxEdits /\ troubles \in 0..MaxTroubles
  /\ kept \cup promised \cup outdated \subseteq Docs /\ dropped \subseteq promised

\* However stale an index is, a search finds what a rebuild of its kind has committed and
\* what could be read ever since, but for what a failed rebuild had not written when it
\* replaced the index: that is gone from it, and stays so until a rebuild writes it again.
\* And a search finds nothing that cannot be read any more, but the title of a question
\* hidden since the last rebuild of the questions began.
SearchIsHonest ==
  \A d \in Docs : LET t == TypeOf[d] IN
    /\ d \in promised => (d \in Results(t) <=> d \notin dropped)
    /\ d \in Results(t) /\ ~Current(d) => t = "question" /\ d \notin outdated
=============================================================================
