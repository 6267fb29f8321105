------------------------------ MODULE Webhooks ------------------------------
(***************************************************************************)
(* Webhooks of a site, which are called by the tasks that follow new       *)
(* questions, submissions and answers, and every edit of an answer.        *)
(* services/webhook_delivery.py, webhooks.py, postprocess.py.              *)
(*                                                                         *)
(* A task shows the row it has loaded to the webhooks that it loads later, *)
(* one after the other; tasks about one row may overlap.                   *)
(***************************************************************************)
EXTENDS Naturals

CONSTANTS
  Posts, PostKind, \* PostKind[p]: "question", "submission" or "answer"
  Hooks, HooksOf,  \* HooksOf[p]: webhooks of the site p is in
  OpenPosts,       \* posts in sites that visitors may read: a task has no principal
  Couriers,        \* threads that may be running a task
  MaxEditions, MaxSettings \* bounds on the texts of a post, and on the settings

VARIABLES
  edition,  \* edition[p]: texts p has had
  veiled,   \* posts that are hidden
  hook,     \* hook[h]: the row
  errand,   \* errand[t]: the task thread t is running, with what it has loaded
  settings, \* edits of webhooks and hidings so far
  last,     \* last[h][p]: the text of p that h was told last, or 0
  tellings, \* history: tellings[h][p]: how often h was told of p
  fresh     \* history: <<h, p>>: since p was edited no other task about p has run,
            \* nothing has failed, and neither h nor whether p is hidden has changed

rows == <<edition, veiled, hook>>
vars == <<rows, errand, settings, last, tellings, fresh>>

PostKinds == {PostKind[p] : p \in Posts}
Row == [there : BOOLEAN, enabled : BOOLEAN, wants : SUBSET PostKinds]
Absent == [there |-> FALSE, enabled |-> FALSE, wants |-> {}]
NoErrand == [pc |-> "idle", p |-> CHOOSE p \in Posts : TRUE, edition |-> 0, shown |-> FALSE,
             hooks |-> [h \in Hooks |-> Absent], left |-> {}]

Init ==
  /\ edition = [p \in Posts |-> 0] /\ veiled = {}
  /\ hook = [h \in Hooks |-> Absent]
  /\ errand = [t \in Couriers |-> NoErrand] /\ settings = 0
  /\ last = [h \in Hooks |-> [p \in Posts |-> 0]]
  /\ tellings = [h \in Hooks |-> [p \in Posts |-> 0]]
  /\ fresh = {}

About(p) == HooksOf[p] \X {p}
Busy(p) == \E t \in Couriers : errand[t].pc # "idle" /\ errand[t].p = p

-----------------------------------------------------------------------------
(* Requests.                                                               *)

\* A post is published; of its edits only those of answers are followed by a task
\* that calls webhooks.
Publish(p) ==
  /\ edition[p] < MaxEditions /\ (PostKind[p] = "answer" \/ edition[p] = 0)
  /\ edition' = [edition EXCEPT ![p] = @ + 1]
  /\ \E t \in Couriers :
       /\ errand[t].pc = "idle"
       /\ errand' = [errand EXCEPT ![t] = [NoErrand EXCEPT !.pc = "due", !.p = p]]
  /\ fresh' = IF Busy(p) THEN fresh \ About(p) ELSE fresh \cup About(p)
  /\ UNCHANGED <<veiled, hook, settings, last, tellings>>

\* Moderators hide, and show answers again.
Veil(p) ==
  /\ settings < MaxSettings /\ settings' = settings + 1
  /\ edition[p] > 0 /\ p \in veiled => PostKind[p] = "answer"
  /\ veiled' = IF p \in veiled THEN veiled \ {p} ELSE veiled \cup {p}
  /\ fresh' = fresh \ About(p)
  /\ UNCHANGED <<edition, hook, errand, last, tellings>>

\* The moderator of the site has the row of h set.
SetRow(h, row) ==
  /\ settings < MaxSettings /\ settings' = settings + 1
  /\ hook' = [hook EXCEPT ![h] = row]
  /\ fresh' = {f \in fresh : f[1] # h}
  /\ UNCHANGED <<edition, veiled, errand, last, tellings>>

CreateHook(h, wants) ==
  ~hook[h].there /\ SetRow(h, [there |-> TRUE, enabled |-> TRUE, wants |-> wants])

UpdateHook(h, enabled, wants) ==
  /\ hook[h].there /\ <<enabled, wants>> # <<hook[h].enabled, hook[h].wants>>
  /\ SetRow(h, [there |-> TRUE, enabled |-> enabled, wants |-> wants])

-----------------------------------------------------------------------------
(* Tasks.                                                                  *)

LoadPost(t) ==
  LET p == errand[t].p IN
  /\ errand[t].pc = "due"
  /\ errand' = [errand EXCEPT ![t].pc = "posted", ![t].edition = edition[p],
                              ![t].shown = p \in OpenPosts \ veiled]
  /\ UNCHANGED <<rows, settings, last, tellings, fresh>>

\* After the events have been distributed.
LoadHooks(t) ==
  /\ errand[t].pc = "posted"
  /\ errand' = [errand EXCEPT ![t].pc = "calling", ![t].hooks = hook,
                              ![t].left = {h \in HooksOf[errand[t].p] : hook[h].there}]
  /\ UNCHANGED <<rows, settings, last, tellings, fresh>>

\* Mutant: whether the webhook is enabled is not asked.
CallsAll(j, h) == PostKind[j.p] \in j.hooks[h].wants /\ j.shown

\* call_webhook: the preview is what a visitor would be shown, if anything.
Calls(j, h) == j.hooks[h].enabled /\ PostKind[j.p] \in j.hooks[h].wants /\ j.shown

\* _post_webhook
Call(t, h) ==
  LET j == errand[t] IN
  /\ j.pc = "calling" /\ h \in j.left
  /\ errand' = [errand EXCEPT ![t].left = @ \ {h}]
  /\ IF Calls(j, h)
     THEN /\ last' = [last EXCEPT ![h][j.p] = j.edition]
          /\ tellings' = [tellings EXCEPT ![h][j.p] = @ + 1]
     ELSE UNCHANGED <<last, tellings>>
  /\ UNCHANGED <<rows, settings, fresh>>

\* A call that fails or takes longer than five seconds is reported and left.
MissCall(t, h) ==
  LET j == errand[t] IN
  /\ j.pc = "calling" /\ h \in j.left /\ Calls(j, h)
  /\ errand' = [errand EXCEPT ![t].left = @ \ {h}]
  /\ fresh' = fresh \ {<<h, j.p>>}
  /\ UNCHANGED <<rows, settings, last, tellings>>

EndErrand(t) ==
  /\ errand[t].pc = "calling" /\ errand[t].left = {}
  /\ errand' = [errand EXCEPT ![t] = NoErrand]
  /\ UNCHANGED <<rows, settings, last, tellings, fresh>>

\* An exception, of the distribution for instance, or a restart: no task is run twice.
FailErrand(t) ==
  /\ errand[t].pc # "idle"
  /\ errand' = [errand EXCEPT ![t] = NoErrand]
  /\ fresh' = fresh \ About(errand[t].p)
  /\ UNCHANGED <<rows, settings, last, tellings>>

Next ==
  \/ \E p \in Posts : Publish(p) \/ Veil(p)
  \/ \E h \in Hooks, wants \in SUBSET PostKinds :
       CreateHook(h, wants) \/ \E enabled \in BOOLEAN : UpdateHook(h, enabled, wants)
  \/ \E t \in Couriers :
       \/ LoadPost(t) \/ LoadHooks(t) \/ EndErrand(t) \/ FailErrand(t)
       \/ \E h \in Hooks : Call(t, h) \/ MissCall(t, h)

Spec == Init /\ [][Next]_vars

-----------------------------------------------------------------------------
TypeOK ==
  /\ edition \in [Posts -> 0..MaxEditions] /\ veiled \subseteq Posts
  /\ hook \in [Hooks -> Row] /\ settings \in 0..MaxSettings
  /\ \A t \in Couriers :
       /\ errand[t].pc \in {"idle", "due", "posted", "calling"}
       /\ errand[t].p \in Posts /\ errand[t].left \subseteq Hooks
       /\ errand[t].hooks \in [Hooks -> Row]
  /\ last \in [Hooks -> [Posts -> 0..MaxEditions]]
  /\ fresh \subseteq Hooks \X Posts

\* h is to be told of p.
Due(h, p) == hook[h].enabled /\ PostKind[p] \in hook[h].wants /\ p \in OpenPosts \ veiled

\* A webhook that is to be told has been told the latest text once the task has
\* ended, and one that is not has not, unless tasks overlapped, something failed or the
\* settings changed meanwhile.  A question or a submission is told at most once, an
\* answer at most once per text.
WebhooksFollow ==
  /\ \A f \in fresh :
       LET h == f[1]
           p == f[2]
       IN ~Busy(p) =>
            (last[h][p] = edition[p] <=> Due(h, p))
  /\ \A h \in Hooks, p \in Posts : tellings[h][p] <= edition[p]
=============================================================================
