------------------------------ MODULE Keywords ------------------------------
(***************************************************************************)
(* Keywords, by which related sites and users are found: what is written   *)
(* has those of its text, a site and a column those of what they hold, a   *)
(* user those of everything he has to do with.  text_analysis.py,          *)
(* services/postprocess.py, infra/scheduler.py.                            *)
(*                                                                         *)
(* A task that follows an edit computes the keywords of the one row again; *)
(* a job, which the scheduler never runs twice at a time, those of all     *)
(* rows, in one transaction of its own.  Both write, when they commit,     *)
(* what differs from what they had loaded.                                 *)
(***************************************************************************)
EXTENDS Naturals, Sequences

CONSTANTS
  Things, Kind,  \* Kind[x]: "question", "answer", ..., "column", "site" or "user"
  Sources,       \* Sources[x]: the things whose keywords x has, for all but texts
  FirstLive,     \* texts that are published, and not hidden, at first
  Words,         \* a text has one word
  Jobs,          \* threads that may be running a task
  MaxTexts       \* bound on the edits

VARIABLES
  text,   \* text[p]
  live,   \* texts that are published, and neither deleted nor hidden
  words,  \* words[x]: column keywords of the row
  job,    \* job[t]: the task thread t is running
  sweep,  \* the job of the scheduler
  texts,  \* edits so far
  calm,   \* history: nothing has been edited since the last sweep began
  mixed   \* history: texts whose tasks have overlapped, or failed

vars == <<text, live, words, job, sweep, texts, calm, mixed>>

Texts == {x \in Things : Kind[x] \in {"answer", "question", "submission", "article"}}

\* Articles are left to the scheduler.
Followed == {x \in Texts : Kind[x] # "article"}

SomeText == CHOOSE p \in Texts : TRUE
SomeWord == CHOOSE w \in Words : TRUE
NoJob == [pc |-> "idle", p |-> SomeText, read |-> SomeWord, was |-> {}]

Nothing == [x \in Things |-> {}]
NoSweep == [step |-> 0, swept |-> {}, found |-> Nothing, was |-> Nothing]

Init ==
  /\ text = [p \in Texts |-> SomeWord] /\ live = FirstLive
  /\ words = [x \in Things |-> IF x \in FirstLive THEN {SomeWord} ELSE {}]
  /\ job = [t \in Jobs |-> NoJob]
  /\ sweep = NoSweep
  /\ texts = 0 /\ calm = FALSE /\ mixed = {}

Busy(p) == \E t \in Jobs : job[t].pc # "idle" /\ job[t].p = p

-----------------------------------------------------------------------------
(* Edits and their tasks.                                                  *)

\* The text of p is replaced, and for an answer or an article published.
Edit(p, w) ==
  /\ texts < MaxTexts /\ texts' = texts + 1
  /\ text' = [text EXCEPT ![p] = w]
  /\ live' = IF Kind[p] \in {"answer", "article"} THEN live \cup {p} ELSE live
  /\ IF p \in Followed
     THEN \E t \in Jobs : /\ job[t].pc = "idle"
                          /\ job' = [job EXCEPT ![t] = [NoJob EXCEPT !.pc = "due", !.p = p]]
     ELSE UNCHANGED job
  /\ calm' = FALSE
  /\ mixed' = IF Busy(p) \/ sweep.step # 0 THEN mixed \cup {p} ELSE mixed
  /\ UNCHANGED <<words, sweep>>

\* Hidden, or deleted.
Hide(p) ==
  /\ p \in live /\ live' = live \ {p}
  /\ UNCHANGED <<text, words, job, sweep, texts, calm, mixed>>

\* postprocess_question_common and its like: the row as it is now.
Load(t) ==
  LET p == job[t].p IN
  /\ job[t].pc = "due"
  /\ job' = [job EXCEPT ![t].pc = "ready", ![t].read = text[p], ![t].was = words[p]]
  /\ UNCHANGED <<text, live, words, sweep, texts, calm, mixed>>

Store(t) ==
  LET j == job[t] IN
  /\ j.pc = "ready"
  /\ words' = IF {j.read} # j.was THEN [words EXCEPT ![j.p] = {j.read}] ELSE words
  /\ job' = [job EXCEPT ![t] = NoJob]
  /\ UNCHANGED <<text, live, sweep, texts, calm, mixed>>

\* An exception, for instance of the events distributed before; a restart.
Fail(t) ==
  /\ job[t].pc # "idle"
  /\ job' = [job EXCEPT ![t] = NoJob]
  /\ mixed' = mixed \cup {job[t].p}
  /\ UNCHANGED <<text, live, words, sweep, texts, calm>>

-----------------------------------------------------------------------------
(* The job of the scheduler.                                               *)

\* Mutant: sites before what they hold.
SitesFirst == <<"site", "answer", "question", "submission", "article", "column", "user">>

Stages == <<"answer", "question", "submission", "article", "column", "site", "user">>

StartSweep ==
  /\ sweep.step = 0
  /\ sweep' = [NoSweep EXCEPT !.step = 1]
  /\ calm' = \A t \in Jobs : job[t].pc = "idle"
  /\ UNCHANGED <<text, live, words, job, texts, mixed>>

\* Of a row, what this transaction sees.
Seen(x) == IF x \in sweep.swept THEN sweep.found[x] ELSE words[x]

\* update_question_keywords .. update_user_keywords.
Found(x) == IF x \in Texts THEN {text[x]} ELSE UNION {Seen(y) : y \in Sources[x]}

\* get_all_valid, get_all_published, get_all.
Rows(kind) == {x \in Things : Kind[x] = kind /\ (x \in Texts => x \in live)}

Sweep ==
  LET step == sweep.step
      now == Rows(Stages[step])
  IN
  /\ step \in DOMAIN Stages
  /\ sweep' = [step |-> step + 1, swept |-> sweep.swept \cup now,
               found |-> [x \in Things |-> IF x \in now THEN Found(x) ELSE sweep.found[x]],
               was |-> [x \in Things |-> IF x \in now THEN words[x] ELSE sweep.was[x]]]
  /\ UNCHANGED <<text, live, words, job, texts, calm, mixed>>

EndSweep ==
  /\ sweep.step > Len(Stages)
  /\ words' = [x \in Things |-> IF x \in sweep.swept /\ sweep.found[x] # sweep.was[x]
                                THEN sweep.found[x] ELSE words[x]]
  /\ sweep' = NoSweep
  /\ mixed' = IF calm THEN mixed \ sweep.swept ELSE mixed
  /\ UNCHANGED <<text, live, job, texts, calm>>

FailSweep ==
  /\ sweep.step # 0
  /\ sweep' = NoSweep /\ calm' = FALSE
  /\ UNCHANGED <<text, live, words, job, texts, mixed>>

Next ==
  \/ \E p \in Texts : Hide(p) \/ \E w \in Words : Edit(p, w)
  \/ \E t \in Jobs : Load(t) \/ Store(t) \/ Fail(t)
  \/ StartSweep \/ Sweep \/ EndSweep \/ FailSweep

Spec == Init /\ [][Next]_vars

-----------------------------------------------------------------------------
TypeOK ==
  /\ text \in [Texts -> Words] /\ live \subseteq Texts
  /\ words \in [Things -> SUBSET Words]
  /\ job \in [Jobs -> [pc : {"idle", "due", "ready"}, p : Texts, read : Words, was : SUBSET Words]]
  /\ sweep.step \in 0..(Len(Stages) + 1) /\ sweep.swept \subseteq Things

\* The keywords of a text follow its edits, unless their tasks overlapped or failed;
\* and one sweep that no edit interferes with makes those of everything follow from
\* the texts, whatever they were before: of sites, columns and users too.
KeywordsFollow ==
  /\ \A p \in (live \cap Followed) \ mixed : ~Busy(p) => words[p] = {text[p]}
  /\ calm /\ sweep.step = 0 =>
       /\ \A p \in live \cap Texts : words[p] = {text[p]}
       /\ \A x \in Things \ Texts : words[x] = UNION {words[y] : y \in Sources[x]}
=============================================================================
