------------------------------- MODULE Usages -------------------------------
(***************************************************************************)
(* Where uploaded pictures are used: the columns that hold their links, as *)
(* texts are written, archived, suggested and erased; the search for       *)
(* pictures that nothing uses; and the report of articles whose author had *)
(* declared a picture in them an avatar.  services/uploads.py,             *)
(* crud/crud_upload.py.                                                    *)
(*                                                                         *)
(* There is one text of each sort.  Writing it is one step here; requests  *)
(* that overlap on a text are the subject of Publishing and Suggestions.   *)
(* An article is checked while it is served, one command of Redis per      *)
(* picture.                                                                *)
(***************************************************************************)
EXTENDS Integers, FiniteSets, Functions

CONSTANTS
  People,
  Writer,    \* the author of the article
  Pictures,
  Bodies,    \* sets of pictures a text may show, not empty: a draft that is there holds one
  Works,     \* "article", "answer", "question", "submission", "comment", "user"
  Visits,    \* threads that may be serving the article
  MaxWrites, \* bounds on what is uploaded and written, on how much of it
  MaxWatched, \* while the article is served, and on the keys that expire
  MaxAged

VARIABLES
  uploads, \* the rows of uploads, as <<uploader, picture, purpose>>
  held,    \* held[<<w, c>>]: the pictures whose links column c of work w holds
  stage,   \* stage[w]: "none", "draft", "public" or "deleted"
  offer,   \* offer[w]: the suggestion for w: "none", "pending" or "accepted"
  flags,   \* pictures of the article that have a key in Redis
  visit,   \* visit[t]: the check that thread t is at
  reports, \* history: reports[p]: reports of picture p
  aged,    \* history: aged[p]: keys of p that expired
  silent,  \* history: pictures whose key was set by a command whose answer got lost
  found,   \* history: pictures a finished check found, and Redis did not fail for
  writes   \* what has been uploaded and written so far

texts == <<held, stage, offer>>
checks == <<flags, visit, reports, aged, silent, found>>
vars == <<uploads, texts, checks, writes>>

Columns == {"body", "draft", "archive", "avatar", "gif avatar", "suggestion", "diff base"}
Purposes == {"figure", "avatar"}
NoVisit == [todo |-> {}, all |-> {}, failed |-> {}]

Init ==
  /\ uploads = {}
  /\ held = [s \in Works \X Columns |-> {}]
  /\ stage = [w \in Works |-> "none"]
  /\ offer = [w \in Works |-> "none"]
  /\ flags = {} /\ visit = [t \in Visits |-> NoVisit]
  /\ reports = [p \in Pictures |-> 0] /\ aged = [p \in Pictures |-> 0]
  /\ silent = {} /\ found = {} /\ writes = 0

-----------------------------------------------------------------------------
(* Uploading and writing.                                                  *)

Unserved ==
  flags \cup found = {} /\ visit = [t \in Visits |-> NoVisit] /\ aged = [p \in Pictures |-> 0]

Moves(unchanged) ==
  /\ writes < IF Unserved THEN MaxWrites ELSE MaxWatched
  /\ writes' = writes + 1 /\ UNCHANGED <<checks, unchanged>>

Upload(u, p, purpose) ==
  uploads' = uploads \cup {<<u, p, purpose>>} /\ Moves(texts)

Drafted == Works \cap {"article", "answer"}
Described == Works \cap {"question", "submission"}
Suggestible == Works \cap {"answer", "submission"}

\* create_with_author, of each sort: the content is the body, even that of a draft.
Create(w, body) ==
  /\ w # "user" /\ stage[w] = "none"
  /\ held' = [held EXCEPT ![<<w, "body">>] = body]
  /\ \E s \in {"public"} \cup (IF w \in Drafted THEN {"draft"} ELSE {}) :
       stage' = [stage EXCEPT ![w] = s]
  /\ Moves(<<uploads, offer>>)

\* The update of a deleted answer is rolled back, that of a deleted article is not.
Updatable(w) == stage[w] \in {"draft", "public"} \/ (w = "article" /\ stage[w] = "deleted")

SaveDraft(w, body) ==
  /\ w \in Drafted /\ Updatable(w)
  /\ held' = [held EXCEPT ![<<w, "draft">>] = body]
  /\ Moves(<<uploads, stage, offer>>)

DropDraft(w) ==
  /\ w \in Drafted /\ held[<<w, "draft">>] # {}
  /\ held' = [held EXCEPT ![<<w, "draft">>] = {}]
  /\ Moves(<<uploads, stage, offer>>)

\* What was public is archived; of a draft only the new body is kept.
Archived(w) ==
  held[<<w, "archive">>] \cup (IF stage[w] = "draft" THEN {} ELSE held[<<w, "body">>])

Rewritten(w, body) ==
  [held EXCEPT ![<<w, "archive">>] = Archived(w), ![<<w, "body">>] = body,
               ![<<w, "draft">>] = {}]

\* An edit that is published.
Publish(w, body) ==
  /\ w \in Drafted \cup Described /\ Updatable(w)
  /\ held' = Rewritten(w, body)
  /\ stage' = [stage EXCEPT ![w] = IF @ = "draft" THEN "public" ELSE @]
  /\ Moves(<<uploads, offer>>)

\* An answer that has a draft is refused.
Suggest(w, body) ==
  /\ w \in Suggestible /\ stage[w] \in {"draft", "public"} /\ offer[w] = "none"
  /\ held[<<w, "draft">>] = {}
  /\ held' = [held EXCEPT ![<<w, "suggestion">>] = body]
  /\ offer' = [offer EXCEPT ![w] = "pending"]
  /\ Moves(<<uploads, stage>>)

\* The body that is replaced is also kept in the suggestion.
Accept(w) ==
  /\ offer[w] = "pending" /\ Updatable(w)
  /\ held' = [Rewritten(w, held[<<w, "suggestion">>])
                EXCEPT ![<<w, "diff base">>] = held[<<w, "body">>]]
  /\ offer' = [offer EXCEPT ![w] = "accepted"]
  /\ stage' = [stage EXCEPT ![w] = "public"]
  /\ Moves(uploads)

\* delete_forever, of the sorts that have it.
Delete(w) ==
  /\ w \in Drafted \cup {"comment"} /\ stage[w] # "none"
  /\ held' = [held EXCEPT ![<<w, "body">>] = {}, ![<<w, "draft">>] = {},
                          ![<<w, "archive">>] = {}]
  /\ stage' = [stage EXCEPT ![w] = "deleted"]
  /\ Moves(<<uploads, offer>>)

SetAvatar(c, p) ==
  /\ held' = [held EXCEPT ![<<"user", c>>] = {p}]
  /\ Moves(<<uploads, stage, offer>>)

-----------------------------------------------------------------------------
(* Usages and orphans.                                                     *)

\* Mutant: avatars are not searched.
BodiesOnly == Works \X {"body", "draft", "archive"}

REFERENCE_COLUMNS == Works \X {"body", "draft", "archive", "avatar", "gif avatar"}

find_usages(p) == {s \in REFERENCE_COLUMNS : p \in held[s]}
find_orphans == {r \in uploads : find_usages(r[2]) = {}}

-----------------------------------------------------------------------------
(* Pictures declared as avatars, in an article.                            *)

misdeclared_avatars(author, body) ==
  {p \in body : <<author, p, "avatar">> \in uploads /\ <<author, p, "figure">> \notin uploads}

\* get_article: the check begins with what is misdeclared then.
LookAtArticle(t) ==
  LET wrong == misdeclared_avatars(Writer, held[<<"article", "body">>]) IN
  /\ "article" \in Works /\ stage["article"] # "none"
  /\ visit[t] = NoVisit /\ wrong # {} /\ writes <= MaxWatched
  /\ visit' = [visit EXCEPT ![t].todo = wrong, ![t].all = wrong]
  /\ UNCHANGED <<uploads, texts, writes, flags, reports, aged, silent, found>>

\* Mutant: the key is set whether it was there or not.
AlwaysReported(p) == 1

\* redis.set(nx): the first one to set the key reports.
NewlyReported(p) == IF p \in flags THEN 0 ELSE 1

\* A failure is swallowed, the next picture is looked at; the key may have been set.
CheckPicture(t, p) ==
  /\ p \in visit[t].todo
  /\ \/ /\ flags' = flags \cup {p}
        /\ reports' = [reports EXCEPT ![p] = @ + NewlyReported(p)]
        /\ visit' = [visit EXCEPT ![t].todo = @ \ {p}]
        /\ UNCHANGED silent
     \/ /\ visit' = [visit EXCEPT ![t].todo = @ \ {p}, ![t].failed = @ \cup {p}]
        /\ \/ UNCHANGED <<flags, silent>>
           \/ p \notin flags /\ flags' = flags \cup {p} /\ silent' = silent \cup {p}
        /\ UNCHANGED reports
  /\ UNCHANGED <<uploads, texts, writes, aged, found>>

ServeArticle(t) ==
  /\ visit[t].all # {} /\ visit[t].todo = {}
  /\ found' = found \cup (visit[t].all \ visit[t].failed)
  /\ visit' = [visit EXCEPT ![t] = NoVisit]
  /\ UNCHANGED <<uploads, texts, writes, flags, reports, aged, silent>>

\* The process ends.
Interrupt(t) ==
  /\ visit[t] # NoVisit
  /\ visit' = [visit EXCEPT ![t] = NoVisit]
  /\ UNCHANGED <<uploads, texts, writes, flags, reports, aged, silent, found>>

\* After ninety days.
ExpireFlag(p) ==
  /\ p \in flags /\ FoldFunction(+, 0, aged) < MaxAged
  /\ flags' = flags \ {p}
  /\ aged' = [aged EXCEPT ![p] = @ + 1]
  /\ UNCHANGED <<uploads, texts, writes, visit, reports, silent, found>>

Next ==
  \/ \E u \in People, p \in Pictures, purpose \in Purposes : Upload(u, p, purpose)
  \/ \E w \in Works :
       \/ \E body \in Bodies :
            Create(w, body) \/ SaveDraft(w, body) \/ Publish(w, body) \/ Suggest(w, body)
       \/ DropDraft(w) \/ Accept(w) \/ Delete(w)
  \/ \E c \in {"avatar", "gif avatar"}, p \in Pictures : "user" \in Works /\ SetAvatar(c, p)
  \/ \E t \in Visits :
       \/ LookAtArticle(t) \/ ServeArticle(t) \/ Interrupt(t)
       \/ \E p \in Pictures : CheckPicture(t, p)
  \/ \E p \in Pictures : ExpireFlag(p)

Spec == Init /\ [][Next]_vars

-----------------------------------------------------------------------------
TypeOK ==
  /\ uploads \subseteq People \X Pictures \X Purposes
  /\ held \in [Works \X Columns -> SUBSET Pictures]
  /\ stage \in [Works -> {"none", "draft", "public", "deleted"}]
  /\ offer \in [Works -> {"none", "pending", "accepted"}]
  /\ flags \cup found \cup silent \subseteq Pictures
  /\ \A t \in Visits : visit[t].todo \cup visit[t].failed \subseteq visit[t].all
  /\ reports \in [Pictures -> Nat] /\ aged \in [Pictures -> 0..MaxAged]
  /\ writes \in 0..MaxWrites

\* A picture is no orphan while anything a reader is shown holds it: a page, a draft,
\* an earlier version, a face; whatever was suggested, accepted and erased before.
Shown == {s \in Works \X (Columns \ {"suggestion", "diff base"}) : stage[s[1]] # "deleted"}
OrphansAreNotShown ==
  \A r \in find_orphans, s \in Shown : r[2] \notin held[s]

\* A picture is reported once until its key expires, by whichever of the overlapping
\* readers comes first, and only if the author did upload it as an avatar; and once a
\* check is over, each picture it found has been reported, or Redis failed for it: then,
\* or if the answer to the command that set its key was lost, at an earlier one.
ReportedOnce ==
  /\ \A p \in Pictures :
       /\ reports[p] <= 1 + aged[p]
       /\ reports[p] > 0 => <<Writer, p, "avatar">> \in uploads
  /\ \A p \in found : reports[p] > 0 \/ p \in silent

\* What is shown is found, and what is found is reported once.
UsagesHold == OrphansAreNotShown /\ ReportedOnce
=============================================================================
