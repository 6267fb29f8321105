--------------------------- MODULE PlatformProofs ---------------------------
(***************************************************************************)
(* Proofs about Platform, for any posts, hooks, documents, accounts, texts *)
(* and bounds, as the assumptions of Platform have them.  A behaviour runs *)
(* one component, so that an invariant of a component is proved of its own *)
(* steps and holds of the whole whenever it runs, as in CommunityProofs.   *)
(***************************************************************************)
EXTENDS Platform, FiniteSetTheorems, FunctionTheorems, SumTheorems, TLAPS

LEMMA RunsAlone ==
  ASSUME [PlatformNext]_platformVars
  PROVE  /\ part' = part
         /\ part = "membership" => Next \/ UNCHANGED vars
         /\ part = "payments" => P!Next \/ UNCHANGED paying
         /\ part = "search" => S!Next \/ UNCHANGED searching
         /\ part = "reading" => R!Next \/ UNCHANGED reading
         /\ part = "signin" => G!Next \/ UNCHANGED signing
         /\ part = "keywords" => K!Next \/ UNCHANGED keywords
         /\ part = "webhooks" => H!Next \/ UNCHANGED hooking
         /\ part = "link" => D!Next \/ UNCHANGED daily
  BY DEF PlatformNext, platformVars, RunMembership, RunPayments, RunSearch, RunReading, RunSignin,
         RunKeywords, RunWebhooks, RunDailyLink

-----------------------------------------------------------------------------
(* Webhooks.                                                              *)

Errand == [pc : {"idle", "due", "posted", "calling"}, p : Posts, edition : Nat, shown : BOOLEAN,
           hooks : [Hooks -> H!Row], left : SUBSET Hooks]

HooksTyped ==
  /\ edition \in [Posts -> 0..MaxEditions] /\ veiled \subseteq Posts
  /\ hook \in [Hooks -> H!Row] /\ settings \in 0..MaxSettings
  /\ errand \in [Couriers -> Errand]
  /\ last \in [Hooks -> [Posts -> 0..MaxEditions]] /\ tellings \in [Hooks -> [Posts -> Nat]]
  /\ fresh \subseteq Hooks \X Posts

\* Errand j may still call h about p.
ToCall(j, h, p) == j.pc # "idle" /\ j.p = p /\ (j.pc = "calling" => h \in j.left)
Callers(h, p) == {t \in Couriers : ToCall(errand[t], h, p)}

\* No errand has a later text than there is, and what h was told of p, with the calls that are
\* to come, does not exceed the texts of p.
TellingsFit ==
  /\ \A t \in Couriers : errand[t].edition <= edition[errand[t].p]
  /\ \A h \in Hooks, p \in Posts :
       last[h][p] <= edition[p] /\ tellings[h][p] + Cardinality(Callers(h, p)) <= edition[p]

\* While h and p are fresh, the one errand about p knows what is so now, and h, which was told
\* text n last, has been told as it should be once it has been called.
ErrandFits(j, h, p, n) ==
  /\ j.pc \in {"posted", "calling"} =>
       j.edition = edition[p] /\ (j.shown <=> p \in OpenPosts \ veiled)
  /\ j.pc = "calling" => j.hooks[h] = hook[h]
  /\ ToCall(j, h, p) => n < edition[p]
  /\ ~ToCall(j, h, p) => (n = edition[p] <=> H!Due(h, p))

FreshFits ==
  \A h \in Hooks, p \in Posts : <<h, p>> \in fresh =>
    /\ h \in HooksOf[p]
    /\ \A t \in Couriers : errand[t].pc # "idle" /\ errand[t].p = p =>
         /\ ErrandFits(errand[t], h, p, last[h][p])
         /\ \A u \in Couriers : errand[u].pc # "idle" /\ errand[u].p = p => u = t
    /\ ~H!Busy(p) => (last[h][p] = edition[p] <=> H!Due(h, p))

WebhooksInv ==
  /\ HooksTyped /\ TellingsFit /\ FreshFits
  /\ \A h \in Hooks : hook[h].enabled => hook[h].there

LEMMA ErrandTypes ==
  /\ H!Absent \in H!Row /\ ~H!Absent.enabled
  /\ H!NoErrand \in Errand /\ H!NoErrand.pc = "idle" /\ H!NoErrand.edition = 0
<1>1. H!Absent \in H!Row /\ ~H!Absent.enabled
  BY DEF H!Absent, H!Row
<1>2. (CHOOSE p \in Posts : TRUE) \in Posts
  BY WebhooksBounds
<1> QED
  BY <1>1, <1>2 DEF H!NoErrand, Errand

LEMMA CallersFinite ==
  ASSUME NEW h, NEW p PROVE IsFiniteSet(Callers(h, p)) /\ Cardinality(Callers(h, p)) \in Nat
  BY WebhooksBounds, FS_Subset, FS_CardinalityType DEF Callers

LEMMA CallersEmpty ==
  ASSUME NEW h, NEW p, \A t \in Couriers : errand[t].pc = "idle"
  PROVE  Cardinality(Callers(h, p)) = 0
<1>1. Callers(h, p) = {}
  BY DEF Callers, ToCall
<1> QED
  BY <1>1, FS_EmptySet

LEMMA WebhooksInit == H!Init => WebhooksInv
<1> SUFFICES ASSUME H!Init PROVE WebhooksInv
  OBVIOUS
<1>1. HooksTyped
  BY ErrandTypes, WebhooksBounds DEF H!Init, HooksTyped
<1>2. \A t \in Couriers : errand[t] = H!NoErrand
  BY DEF H!Init
<1>3. \A h \in Hooks, p \in Posts : Cardinality(Callers(h, p)) = 0
  BY <1>2, ErrandTypes, CallersEmpty
<1>4. TellingsFit
  BY <1>1, <1>2, <1>3, ErrandTypes DEF H!Init, TellingsFit, HooksTyped, Errand
<1>5. FreshFits
  BY DEF H!Init, FreshFits
<1> QED
  BY <1>1, <1>4, <1>5, ErrandTypes DEF WebhooksInv, H!Init

LEMMA ErrandMoves ==
  ASSUME HooksTyped, NEW t \in Couriers, NEW q \in Errand, errand' = [errand EXCEPT ![t] = q]
  PROVE  /\ errand' \in [Couriers -> Errand] /\ errand'[t] = q
         /\ \A u \in Couriers : u # t => errand'[u] = errand[u]
  BY DEF HooksTyped

\* Callers' of what some of the errands have called.
LEMMA CallersShrink ==
  ASSUME NEW h, NEW p, \A u \in Couriers : ToCall(errand'[u], h, p) => ToCall(errand[u], h, p)
  PROVE  /\ Cardinality(Callers(h, p)') \in Nat /\ Cardinality(Callers(h, p)) \in Nat
         /\ Cardinality(Callers(h, p)') <= Cardinality(Callers(h, p))
         /\ \A t \in Couriers : ToCall(errand[t], h, p) /\ ~ToCall(errand'[t], h, p) =>
              Cardinality(Callers(h, p)') + 1 <= Cardinality(Callers(h, p))
<1> DEFINE B == {u \in Couriers : ToCall(errand'[u], h, p)}
<1>1. B = Callers(h, p)' /\ B \subseteq Callers(h, p)
  BY DEF Callers, ToCall
<1>2. IsFiniteSet(Callers(h, p)) /\ Cardinality(Callers(h, p)) \in Nat
  BY CallersFinite
<1>3. IsFiniteSet(B) /\ Cardinality(B) \in Nat /\ Cardinality(B) <= Cardinality(Callers(h, p))
  BY <1>1, <1>2, FS_Subset, FS_CardinalityType
<1>4. ASSUME NEW t \in Couriers, ToCall(errand[t], h, p), ~ToCall(errand'[t], h, p)
      PROVE  Cardinality(B) + 1 <= Cardinality(Callers(h, p))
  <2>1. t \notin B /\ B \cup {t} \subseteq Callers(h, p)
    BY <1>1, <1>4 DEF Callers
  <2>2. Cardinality(B \cup {t}) = Cardinality(B) + 1
    BY <1>3, <2>1, FS_AddElement
  <2>3. Cardinality(B \cup {t}) <= Cardinality(Callers(h, p))
    BY <1>2, <2>1, FS_Subset
  <2> QED
    BY <2>2, <2>3
<1> QED
  BY <1>1, <1>2, <1>3, <1>4

\* An errand goes on, or ends.
LEMMA ErrandGoesOn ==
  ASSUME WebhooksInv, NEW t \in Couriers, NEW q \in Errand, errand' = [errand EXCEPT ![t] = q],
         UNCHANGED <<edition, veiled, hook, settings, last, tellings>>, fresh' \subseteq fresh,
         errand[t].pc # "idle", q.pc = "idle" \/ q.p = errand[t].p, q.edition <= edition[q.p],
         \A h \in Hooks, p \in Posts : ToCall(q, h, p) => ToCall(errand[t], h, p),
         \A h \in Hooks, p \in Posts : <<h, p>> \in fresh' /\ errand[t].p = p =>
           IF q.pc = "idle" THEN last[h][p] = edition[p] <=> H!Due(h, p) ELSE ErrandFits(q, h, p, last[h][p])
  PROVE  WebhooksInv'
<1>1. HooksTyped /\ TellingsFit /\ FreshFits /\ \A h \in Hooks : hook[h].enabled => hook[h].there
  BY DEF WebhooksInv
<1>2. /\ errand' \in [Couriers -> Errand] /\ errand'[t] = q
      /\ \A u \in Couriers : u # t => errand'[u] = errand[u]
  BY <1>1, ErrandMoves
<1>3. HooksTyped'
  BY <1>1, <1>2 DEF HooksTyped
<1>4. TellingsFit'
  <2>1. \A u \in Couriers : errand'[u].edition <= edition[errand'[u].p]
    BY <1>1, <1>2 DEF TellingsFit
  <2>2. ASSUME NEW h \in Hooks, NEW p \in Posts
        PROVE  tellings[h][p] + Cardinality(Callers(h, p)') <= edition[p]
    <3>1. \A u \in Couriers : ToCall(errand'[u], h, p) => ToCall(errand[u], h, p)
      BY <1>2
    <3>2. /\ Cardinality(Callers(h, p)') \in Nat /\ Cardinality(Callers(h, p)) \in Nat
          /\ Cardinality(Callers(h, p)') <= Cardinality(Callers(h, p))
      BY <3>1, CallersShrink
    <3>3. tellings[h][p] \in Nat /\ edition[p] \in Nat
      BY <1>1 DEF HooksTyped
    <3> QED
      BY <1>1, <3>2, <3>3 DEF TellingsFit
  <2> QED
    BY <1>1, <2>1, <2>2 DEF TellingsFit
<1>5. FreshFits'
  <2> SUFFICES ASSUME NEW h \in Hooks, NEW p \in Posts, <<h, p>> \in fresh'
               PROVE  /\ h \in HooksOf[p]
                      /\ \A u \in Couriers : errand'[u].pc # "idle" /\ errand'[u].p = p =>
                           /\ ErrandFits(errand'[u], h, p, last[h][p])
                           /\ \A v \in Couriers :
                                errand'[v].pc # "idle" /\ errand'[v].p = p => v = u
                      /\ ~H!Busy(p)' => (last[h][p] = edition[p] <=> H!Due(h, p))
    BY DEF FreshFits, ErrandFits, H!Due
  <2>1. /\ h \in HooksOf[p]
        /\ \A u \in Couriers : errand[u].pc # "idle" /\ errand[u].p = p =>
             /\ ErrandFits(errand[u], h, p, last[h][p])
             /\ \A v \in Couriers : errand[v].pc # "idle" /\ errand[v].p = p => v = u
        /\ ~H!Busy(p) => (last[h][p] = edition[p] <=> H!Due(h, p))
    BY <1>1 DEF FreshFits
  <2>2. \A u \in Couriers : errand'[u].pc # "idle" /\ errand'[u].p = p =>
          errand[u].pc # "idle" /\ errand[u].p = p
    BY <1>2
  <2>3. \A u \in Couriers : errand'[u].pc # "idle" /\ errand'[u].p = p => ErrandFits(errand'[u], h, p, last[h][p])
    BY <1>2, <2>1, <2>2
  <2>4. ASSUME ~H!Busy(p)' PROVE last[h][p] = edition[p] <=> H!Due(h, p)
    <3>1. CASE errand[t].p = p
      BY <1>2, <2>4, <3>1 DEF H!Busy
    <3>2. CASE errand[t].p # p
      BY <1>2, <2>1, <2>4, <3>2 DEF H!Busy
    <3> QED
      BY <3>1, <3>2
  <2> QED
    BY <2>1, <2>2, <2>3, <2>4
<1> QED
  BY <1>1, <1>3, <1>4, <1>5 DEF WebhooksInv

\* What an errand does before it calls a webhook, when it leaves one out, and when it ends.
LEMMA ErrandLoads ==
  ASSUME WebhooksInv, NEW t \in Couriers, H!LoadPost(t) \/ H!LoadHooks(t)
  PROVE  WebhooksInv'
<1>1. HooksTyped /\ TellingsFit /\ FreshFits /\ \A h \in Hooks : hook[h].enabled => hook[h].there
  BY DEF WebhooksInv
<1>2. errand[t] \in Errand /\ errand[t].p \in Posts
  BY <1>1 DEF HooksTyped, Errand
<1>3. CASE H!LoadPost(t)
  <2> SUFFICES ASSUME NEW p \in Posts, p = errand[t].p PROVE WebhooksInv'
    BY <1>2
  <2>1. /\ errand[t].pc = "due" /\ edition[p] \in Nat
        /\ UNCHANGED <<edition, veiled, hook, settings, last, tellings, fresh>>
    BY <1>1, <1>3 DEF H!LoadPost, H!rows, HooksTyped
  <2>2. PICK q \in Errand :
          /\ q.pc = "posted" /\ q.p = p /\ q.edition = edition[p]
          /\ q.shown <=> p \in OpenPosts \ veiled
          /\ errand' = [errand EXCEPT ![t] = q]
    <3>1. \A x : (x \in OpenPosts \ veiled) \in BOOLEAN
      OBVIOUS
    <3> SUFFICES ASSUME NEW b \in BOOLEAN, b = (p \in OpenPosts \ veiled),
                        NEW q, q = [errand[t] EXCEPT !.pc = "posted", !.edition = edition[p], !.shown = b]
                 PROVE  /\ q \in Errand /\ q.pc = "posted" /\ q.p = p /\ q.edition = edition[p]
                        /\ q.shown = b /\ errand' = [errand EXCEPT ![t] = q]
      BY <3>1, Zenon
    <3>2. errand' = [errand EXCEPT ![t] = q]
      BY <1>1, <1>3 DEF H!LoadPost, HooksTyped
    <3> QED
      BY <1>2, <2>1, <3>2 DEF Errand
  <2>3. \A h \in Hooks, x \in Posts : ToCall(q, h, x) => ToCall(errand[t], h, x)
    BY <2>1, <2>2 DEF ToCall
  <2>4. \A h \in Hooks, x \in Posts : <<h, x>> \in fresh /\ errand[t].p = x => ErrandFits(q, h, x, last[h][x])
    BY <1>1, <2>1, <2>2 DEF FreshFits, ErrandFits, ToCall
  <2>5. q.edition <= edition[q.p] /\ q.p = errand[t].p /\ q.pc # "idle" /\ errand[t].pc # "idle"
    BY <2>1, <2>2
  <2> QED
    BY <2>1, <2>2, <2>3, <2>4, <2>5, ErrandGoesOn
<1>4. CASE H!LoadHooks(t)
  <2> SUFFICES ASSUME NEW hs, hs = {h \in HooksOf[errand[t].p] : hook[h].there},
                      NEW q, q = [errand[t] EXCEPT !.pc = "calling", !.hooks = hook, !.left = hs]
               PROVE  WebhooksInv'
    OBVIOUS
  <2>1. /\ errand[t].pc = "posted" /\ errand' = [errand EXCEPT ![t] = q]
        /\ UNCHANGED <<edition, veiled, hook, settings, last, tellings, fresh>>
    BY <1>1, <1>4 DEF H!LoadHooks, H!rows, HooksTyped
  <2>2. hs \subseteq Hooks
    BY <1>2, WebhooksBounds
  <2>3. /\ q \in Errand /\ q.pc = "calling" /\ q.p = errand[t].p /\ q.edition = errand[t].edition
        /\ q.shown = errand[t].shown /\ q.hooks = hook /\ q.left = hs
    BY <1>1, <1>2, <2>2 DEF Errand, HooksTyped
  <2>4. \A h \in Hooks, x \in Posts : ToCall(q, h, x) => ToCall(errand[t], h, x)
    BY <2>1, <2>3 DEF ToCall
  <2>5. \A h \in Hooks, x \in Posts : <<h, x>> \in fresh /\ errand[t].p = x => ErrandFits(q, h, x, last[h][x])
    <3> SUFFICES ASSUME NEW h \in Hooks, NEW x \in Posts, <<h, x>> \in fresh, errand[t].p = x
                 PROVE  ErrandFits(q, h, x, last[h][x])
      OBVIOUS
    <3>1. h \in HooksOf[x] /\ ErrandFits(errand[t], h, x, last[h][x])
      BY <1>1, <2>1 DEF FreshFits
    <3>2. last[h][x] < edition[x]
      BY <2>1, <3>1 DEF ErrandFits, ToCall
    <3>3. last[h][x] \in Nat /\ edition[x] \in Nat
      BY <1>1 DEF HooksTyped
    <3>4. h \notin hs => ~H!Due(h, x)
      BY <1>1, <3>1 DEF H!Due
    <3> QED
      BY <2>1, <2>3, <3>1, <3>2, <3>3, <3>4 DEF ErrandFits, ToCall
  <2>6. q.edition <= edition[q.p]
    BY <1>1, <2>3 DEF TellingsFit
  <2> QED
    BY <2>1, <2>3, <2>4, <2>5, <2>6, ErrandGoesOn
<1> QED
  BY <1>3, <1>4

LEMMA ErrandLeavesOut ==
  ASSUME WebhooksInv, NEW t \in Couriers, NEW h0 \in Hooks,
         H!MissCall(t, h0) \/ (H!Call(t, h0) /\ ~H!Calls(errand[t], h0))
  PROVE  WebhooksInv'
<1> SUFFICES ASSUME NEW q, q = [errand[t] EXCEPT !.left = @ \ {h0}]
             PROVE  WebhooksInv'
  OBVIOUS
<1>1. HooksTyped /\ TellingsFit /\ FreshFits
  BY DEF WebhooksInv
<1>2. errand[t] \in Errand
  BY <1>1 DEF HooksTyped
<1>3. /\ errand[t].pc = "calling" /\ h0 \in errand[t].left /\ errand' = [errand EXCEPT ![t] = q]
      /\ UNCHANGED <<edition, veiled, hook, settings, last, tellings>> /\ fresh' \subseteq fresh
      /\ H!Calls(errand[t], h0) => fresh' = fresh \ {<<h0, errand[t].p>>}
  BY <1>1 DEF H!MissCall, H!Call, H!rows, HooksTyped
<1>4. /\ q \in Errand /\ q.pc = "calling" /\ q.p = errand[t].p /\ q.edition = errand[t].edition
      /\ q.shown = errand[t].shown /\ q.hooks = errand[t].hooks /\ q.left = errand[t].left \ {h0}
  BY <1>2, <1>3 DEF Errand
<1>5. \A h \in Hooks, x \in Posts : ToCall(q, h, x) => ToCall(errand[t], h, x)
  BY <1>3, <1>4 DEF ToCall
<1>6. ASSUME NEW h \in Hooks, NEW x \in Posts, <<h, x>> \in fresh', errand[t].p = x
      PROVE  ErrandFits(q, h, x, last[h][x])
  <2>1. ErrandFits(errand[t], h, x, last[h][x])
    BY <1>1, <1>3, <1>6 DEF FreshFits
  <2>2. CASE h = h0
    <3>1. ~H!Calls(errand[t], h)
      BY <1>3, <1>6, <2>2
    <3>2. ~H!Due(h, x)
      BY <1>3, <1>6, <2>1, <3>1 DEF H!Calls, H!Due, ErrandFits
    <3>3. last[h][x] < edition[x] /\ last[h][x] \in Nat /\ edition[x] \in Nat
      BY <1>1, <1>3, <1>6, <2>1, <2>2 DEF HooksTyped, ErrandFits, ToCall
    <3> QED
      BY <1>3, <1>4, <1>6, <2>1, <2>2, <3>2, <3>3 DEF ErrandFits, ToCall
  <2>3. CASE h # h0
    BY <1>3, <1>4, <1>6, <2>1, <2>3 DEF ErrandFits, ToCall
  <2> QED
    BY <2>2, <2>3
<1>7. q.edition <= edition[q.p]
  BY <1>1, <1>4 DEF TellingsFit
<1> QED
  BY <1>3, <1>4, <1>5, <1>6, <1>7, ErrandGoesOn

LEMMA ErrandEnds ==
  ASSUME WebhooksInv, NEW t \in Couriers, H!EndErrand(t) \/ H!FailErrand(t)
  PROVE  WebhooksInv'
<1> SUFFICES ASSUME NEW q, q = H!NoErrand PROVE WebhooksInv'
  OBVIOUS
<1>1. HooksTyped /\ TellingsFit /\ FreshFits
  BY DEF WebhooksInv
<1>2. /\ errand[t].pc # "idle" /\ errand' = [errand EXCEPT ![t] = q]
      /\ UNCHANGED <<edition, veiled, hook, settings, last, tellings>> /\ fresh' \subseteq fresh
      /\ \/ fresh' = fresh \ H!About(errand[t].p)
         \/ errand[t].pc = "calling" /\ errand[t].left = {}
  BY DEF H!EndErrand, H!FailErrand, H!rows
<1>3. q \in Errand /\ q.pc = "idle" /\ q.edition = 0 /\ q.p \in Posts
  BY ErrandTypes DEF Errand
<1>4. \A h \in Hooks, x \in Posts : ToCall(q, h, x) => ToCall(errand[t], h, x)
  BY <1>3 DEF ToCall
<1>5. ASSUME NEW h \in Hooks, NEW x \in Posts, <<h, x>> \in fresh', errand[t].p = x
      PROVE  last[h][x] = edition[x] <=> H!Due(h, x)
  <2>1. h \in HooksOf[x] /\ ErrandFits(errand[t], h, x, last[h][x])
    BY <1>1, <1>2, <1>5 DEF FreshFits
  <2>2. errand[t].pc = "calling" /\ errand[t].left = {}
    BY <1>2, <1>5, <2>1 DEF H!About
  <2> QED
    BY <2>1, <2>2 DEF ErrandFits, ToCall
<1>6. q.edition <= edition[q.p]
  BY <1>1, <1>3 DEF HooksTyped
<1> QED
  BY <1>2, <1>3, <1>4, <1>5, <1>6, ErrandGoesOn

LEMMA HookCalled ==
  ASSUME WebhooksInv, NEW t \in Couriers, NEW h0 \in Hooks,
         H!Call(t, h0), H!Calls(errand[t], h0)
  PROVE  WebhooksInv'
<1>1. HooksTyped /\ TellingsFit /\ FreshFits
  BY DEF WebhooksInv
<1>2. errand[t] \in Errand /\ errand[t].p \in Posts
  BY <1>1 DEF HooksTyped, Errand
<1> SUFFICES ASSUME NEW p0 \in Posts, p0 = errand[t].p,
                    NEW q, q = [errand[t] EXCEPT !.left = @ \ {h0}]
             PROVE  WebhooksInv'
  BY <1>2
<1>3. /\ errand[t].pc = "calling" /\ h0 \in errand[t].left /\ errand' = [errand EXCEPT ![t] = q]
      /\ UNCHANGED <<edition, veiled, hook, settings, fresh>>
      /\ last' = [last EXCEPT ![h0][p0] = errand[t].edition]
      /\ tellings' = [tellings EXCEPT ![h0][p0] = @ + 1]
  BY <1>1 DEF H!Call, H!rows, HooksTyped
<1>4. /\ q \in Errand /\ q.pc = "calling" /\ q.p = p0 /\ q.edition = errand[t].edition
      /\ q.shown = errand[t].shown /\ q.hooks = errand[t].hooks /\ q.left = errand[t].left \ {h0}
  BY <1>2, <1>3 DEF Errand
<1>5. /\ errand' \in [Couriers -> Errand] /\ errand'[t] = q
      /\ \A u \in Couriers : u # t => errand'[u] = errand[u]
  BY <1>1, <1>3, <1>4, ErrandMoves
<1>6. errand[t].edition \in Nat /\ edition[p0] \in 0..MaxEditions /\ errand[t].edition <= edition[p0]
  BY <1>1, <1>2 DEF HooksTyped, TellingsFit, Errand
<1>7. /\ last' \in [Hooks -> [Posts -> 0..MaxEditions]] /\ tellings' \in [Hooks -> [Posts -> Nat]]
      /\ last'[h0][p0] = errand[t].edition /\ tellings'[h0][p0] = tellings[h0][p0] + 1
      /\ \A h \in Hooks, p \in Posts : h # h0 \/ p # p0 =>
           last'[h][p] = last[h][p] /\ tellings'[h][p] = tellings[h][p]
  BY <1>1, <1>3, <1>6, WebhooksBounds DEF HooksTyped
<1>8. HooksTyped'
  BY <1>1, <1>3, <1>5, <1>7 DEF HooksTyped
<1>9. TellingsFit'
  <2>1. ASSUME NEW u \in Couriers PROVE errand'[u].edition <= edition[errand'[u].p]
    <3>1. errand[u].edition <= edition[errand[u].p]
      BY <1>1 DEF TellingsFit
    <3>2. CASE u = t
      <4>1. errand'[u].edition = errand[t].edition /\ errand'[u].p = p0
        BY <1>4, <1>5, <3>2
      <4> QED
        BY <1>6, <4>1
    <3>3. CASE u # t
      BY <1>5, <3>1, <3>3
    <3> QED
      BY <3>2, <3>3
  <2>2. ASSUME NEW h \in Hooks, NEW p \in Posts
        PROVE  last'[h][p] <= edition[p] /\ tellings'[h][p] + Cardinality(Callers(h, p)') <= edition[p]
    <3>1. \A u \in Couriers : ToCall(errand'[u], h, p) => ToCall(errand[u], h, p)
      BY <1>3, <1>4, <1>5 DEF ToCall
    <3>2. /\ Cardinality(Callers(h, p)') \in Nat /\ Cardinality(Callers(h, p)) \in Nat
          /\ Cardinality(Callers(h, p)') <= Cardinality(Callers(h, p))
          /\ ToCall(errand[t], h, p) /\ ~ToCall(errand'[t], h, p) =>
                Cardinality(Callers(h, p)') + 1 <= Cardinality(Callers(h, p))
      BY <3>1, CallersShrink
    <3>3. /\ last[h][p] <= edition[p] /\ tellings[h][p] + Cardinality(Callers(h, p)) <= edition[p]
          /\ tellings[h][p] \in Nat /\ edition[p] \in Nat
      BY <1>1 DEF TellingsFit, HooksTyped
    <3>4. CASE h = h0 /\ p = p0
      <4>1. ToCall(errand[t], h, p) /\ ~ToCall(errand'[t], h, p)
        BY <1>3, <1>4, <1>5, <3>4 DEF ToCall
      <4> QED
        BY <1>6, <1>7, <3>2, <3>3, <3>4, <4>1
    <3>5. CASE h # h0 \/ p # p0
      BY <1>7, <3>2, <3>3, <3>5
    <3> QED
      BY <3>4, <3>5
  <2> QED
    BY <1>3, <2>1, <2>2 DEF TellingsFit
<1>10. FreshFits'
  <2>0. hook' = hook /\ veiled' = veiled /\ edition' = edition /\ fresh' = fresh
    BY <1>3
  <2> SUFFICES ASSUME NEW h \in Hooks, NEW p \in Posts, <<h, p>> \in fresh
               PROVE  /\ h \in HooksOf[p]
                      /\ \A u \in Couriers : errand'[u].pc # "idle" /\ errand'[u].p = p =>
                           /\ ErrandFits(errand'[u], h, p, last'[h][p])
                           /\ \A v \in Couriers :
                                errand'[v].pc # "idle" /\ errand'[v].p = p => v = u
                      /\ ~H!Busy(p)' => (last'[h][p] = edition[p] <=> H!Due(h, p))
    BY <2>0 DEF FreshFits, ErrandFits, H!Due
  <2>1. /\ h \in HooksOf[p]
        /\ \A u \in Couriers : errand[u].pc # "idle" /\ errand[u].p = p =>
             /\ ErrandFits(errand[u], h, p, last[h][p])
             /\ \A v \in Couriers : errand[v].pc # "idle" /\ errand[v].p = p => v = u
        /\ ~H!Busy(p) => (last[h][p] = edition[p] <=> H!Due(h, p))
    BY <1>1 DEF FreshFits
  <2>2. \A u \in Couriers : errand'[u].pc # "idle" /\ errand'[u].p = p <=>
                             errand[u].pc # "idle" /\ errand[u].p = p
    BY <1>3, <1>4, <1>5
  <2>3. ASSUME NEW u \in Couriers, errand'[u].pc # "idle", errand'[u].p = p
        PROVE  ErrandFits(errand'[u], h, p, last'[h][p])
    <3>1. ErrandFits(errand[u], h, p, last[h][p])
      BY <2>1, <2>2, <2>3
    <3>2. CASE h # h0 \/ p # p0
      <4>1. last'[h][p] = last[h][p]
        BY <1>7, <3>2
      <4>2. CASE u = t
        BY <1>3, <1>4, <1>5, <2>3, <3>1, <3>2, <4>1, <4>2 DEF ErrandFits, ToCall
      <4> QED
        BY <1>5, <3>1, <4>1, <4>2
    <3>3. CASE h = h0 /\ p = p0
      <4>1. u = t
        BY <1>3, <2>1, <2>2, <2>3, <3>3
      <4>2. errand[t].edition = edition[p] /\ last'[h][p] = edition[p]
        BY <1>3, <1>7, <3>1, <3>3, <4>1 DEF ErrandFits
      <4>3. H!Due(h, p)
        BY <1>3, <3>1, <3>3, <4>1 DEF ErrandFits, H!Calls, H!Due
      <4> QED
        BY <1>3, <1>4, <1>5, <3>1, <3>3, <4>1, <4>2, <4>3 DEF ErrandFits, ToCall
    <3> QED
      BY <3>2, <3>3
  <2>4. H!Busy(p)' \/ p # p0
    BY <1>4, <1>5 DEF H!Busy
  <2>5. ~H!Busy(p)' => ~H!Busy(p)
    BY <2>2 DEF H!Busy
  <2> QED
    BY <1>7, <2>1, <2>2, <2>3, <2>4, <2>5
<1> QED
  BY <1>3, <1>8, <1>9, <1>10 DEF WebhooksInv

LEMMA PostPublished ==
  ASSUME WebhooksInv, NEW p0 \in Posts, H!Publish(p0)
  PROVE  WebhooksInv'
<1>1. HooksTyped /\ TellingsFit /\ FreshFits
  BY DEF WebhooksInv
<1>2. /\ edition[p0] < MaxEditions /\ edition' = [edition EXCEPT ![p0] = @ + 1]
      /\ UNCHANGED <<veiled, hook, settings, last, tellings>>
      /\ fresh' = IF H!Busy(p0) THEN fresh \ H!About(p0) ELSE fresh \cup H!About(p0)
  BY DEF H!Publish
<1>3. PICK t \in Couriers : /\ errand[t].pc = "idle"
                            /\ errand' = [errand EXCEPT ![t] = [H!NoErrand EXCEPT !.pc = "due", !.p = p0]]
  BY DEF H!Publish
<1> SUFFICES ASSUME NEW q, q = [H!NoErrand EXCEPT !.pc = "due", !.p = p0] PROVE WebhooksInv'
  OBVIOUS
<1>4. q \in Errand /\ q.pc = "due" /\ q.p = p0 /\ q.edition = 0
  BY ErrandTypes DEF Errand
<1>5. /\ errand' \in [Couriers -> Errand] /\ errand'[t] = q
      /\ \A u \in Couriers : u # t => errand'[u] = errand[u]
  BY <1>1, <1>3, <1>4, ErrandMoves
<1>6. /\ edition[p0] \in Nat /\ edition' \in [Posts -> 0..MaxEditions]
      /\ edition'[p0] = edition[p0] + 1
      /\ \A p \in Posts : p # p0 => edition'[p] = edition[p]
      /\ \A p \in Posts : edition[p] \in Nat /\ edition'[p] \in Nat /\ edition[p] <= edition'[p]
  BY <1>1, <1>2, WebhooksBounds DEF HooksTyped
<1>7. HooksTyped'
  <2>1. H!About(p0) \subseteq Hooks \X Posts
    BY WebhooksBounds DEF H!About
  <2> QED
    BY <1>1, <1>2, <1>5, <1>6, <2>1 DEF HooksTyped
<1>8. TellingsFit'
  <2>1. \A u \in Couriers : errand'[u].edition <= edition'[errand'[u].p]
    <3> SUFFICES ASSUME NEW u \in Couriers PROVE errand'[u].edition <= edition'[errand'[u].p]
      OBVIOUS
    <3>1. errand[u].edition <= edition[errand[u].p] /\ errand[u].edition \in Nat /\ errand[u].p \in Posts
      BY <1>1 DEF TellingsFit, HooksTyped, Errand
    <3>2. CASE u = t
      <4>1. errand'[u].edition = 0 /\ errand'[u].p = p0
        BY <1>4, <1>5, <3>2
      <4>2. 0 <= edition'[p0]
        BY <1>6
      <4> QED
        BY <4>1, <4>2
    <3>3. CASE u # t
      <4>1. errand'[u] = errand[u] /\ edition[errand[u].p] <= edition'[errand[u].p]
            /\ edition[errand[u].p] \in Nat /\ edition'[errand[u].p] \in Nat
        BY <1>5, <1>6, <3>1, <3>3
      <4> QED
        BY <3>1, <4>1
    <3> QED
      BY <3>2, <3>3
  <2>2. ASSUME NEW h \in Hooks, NEW p \in Posts
        PROVE  last[h][p] <= edition'[p] /\ tellings[h][p] + Cardinality(Callers(h, p)') <= edition'[p]
    <3>1. /\ last[h][p] <= edition[p] /\ tellings[h][p] + Cardinality(Callers(h, p)) <= edition[p]
          /\ tellings[h][p] \in Nat /\ last[h][p] \in Nat
      BY <1>1 DEF TellingsFit, HooksTyped
    <3>2. IsFiniteSet(Callers(h, p)) /\ Cardinality(Callers(h, p)) \in Nat
      BY CallersFinite
    <3>3. CASE p = p0
      <4>1. t \notin Callers(h, p)
        BY <1>3 DEF Callers, ToCall
      <4>2. Callers(h, p)' = Callers(h, p) \cup {t}
        <5>1. ToCall(q, h, p)
          BY <1>4, <3>3 DEF ToCall
        <5>2. Callers(h, p)' = {u \in Couriers : ToCall(errand'[u], h, p)}
          BY DEF Callers, ToCall
        <5> QED
          BY <1>5, <5>1, <5>2 DEF Callers
      <4>3. Cardinality(Callers(h, p)') = Cardinality(Callers(h, p)) + 1
        BY <3>2, <4>1, <4>2, FS_AddElement
      <4> QED
        BY <1>6, <3>1, <3>2, <3>3, <4>3
    <3>4. CASE p # p0
      <4>1. \A u \in Couriers : ToCall(errand'[u], h, p) => ToCall(errand[u], h, p)
        BY <1>4, <1>5, <3>4 DEF ToCall
      <4>2. /\ Cardinality(Callers(h, p)') \in Nat
            /\ Cardinality(Callers(h, p)') <= Cardinality(Callers(h, p))
        BY <4>1, CallersShrink
      <4> QED
        BY <1>6, <3>1, <3>2, <3>4, <4>2
    <3> QED
      BY <3>3, <3>4
  <2> QED
    BY <1>2, <2>1, <2>2 DEF TellingsFit
<1>9. FreshFits'
  <2> SUFFICES ASSUME NEW h \in Hooks, NEW p \in Posts, <<h, p>> \in fresh'
               PROVE  /\ h \in HooksOf[p]
                      /\ \A u \in Couriers : errand'[u].pc # "idle" /\ errand'[u].p = p =>
                           /\ ErrandFits(errand[u], h, p, last[h][p])'
                           /\ \A v \in Couriers :
                                errand'[v].pc # "idle" /\ errand'[v].p = p => v = u
                      /\ ~H!Busy(p)' => (last[h][p] = edition[p] <=> H!Due(h, p))'
    BY DEF FreshFits
  <2>1. <<h, p>> \in fresh =>
        /\ h \in HooksOf[p]
        /\ \A u \in Couriers : errand[u].pc # "idle" /\ errand[u].p = p =>
             /\ ErrandFits(errand[u], h, p, last[h][p])
             /\ \A v \in Couriers : errand[v].pc # "idle" /\ errand[v].p = p => v = u
        /\ ~H!Busy(p) => (last[h][p] = edition[p] <=> H!Due(h, p))
    BY <1>1 DEF FreshFits
  <2>2. CASE p = p0
    <3>1. ~H!Busy(p) /\ h \in HooksOf[p]
      BY <1>2, <2>1, <2>2 DEF H!About
    <3>2. \A u \in Couriers : errand'[u].pc # "idle" /\ errand'[u].p = p => u = t
      BY <1>5, <2>2, <3>1 DEF H!Busy
    <3>3. H!Busy(p)'
      BY <1>4, <1>5, <2>2 DEF H!Busy
    <3>4. last[h][p] < edition'[p]
      BY <1>1, <1>6, <2>2 DEF TellingsFit, HooksTyped
    <3>5. ErrandFits(errand[t], h, p, last[h][p])'
      BY <1>2, <1>4, <1>5, <2>2, <3>4 DEF ErrandFits, ToCall
    <3> QED
      BY <3>1, <3>2, <3>3, <3>5
  <2>3. CASE p # p0
    <3>1. <<h, p>> \in fresh
      BY <1>2, <2>3 DEF H!About
    <3>2. \A u \in Couriers : errand'[u].pc # "idle" /\ errand'[u].p = p =>
            errand[u].pc # "idle" /\ errand[u].p = p /\ errand'[u] = errand[u]
      BY <1>4, <1>5, <2>3
    <3>3. \A u \in Couriers : errand'[u].pc # "idle" /\ errand'[u].p = p =>
            ErrandFits(errand[u], h, p, last[h][p])'
      BY <1>2, <1>6, <2>1, <2>3, <3>1, <3>2 DEF ErrandFits, ToCall, H!Due
    <3>4. ~H!Busy(p)' => ~H!Busy(p)
      <4>1. \A u \in Couriers : errand[u].pc # "idle" => errand'[u] = errand[u]
        BY <1>3, <1>5
      <4> QED
        BY <4>1 DEF H!Busy
    <3> QED
      BY <1>2, <1>6, <2>1, <2>3, <3>1, <3>2, <3>3, <3>4 DEF H!Due
  <2> QED
    BY <2>2, <2>3
<1> QED
  BY <1>2, <1>7, <1>8, <1>9 DEF WebhooksInv

\* Settings change: what was fresh before and is so no more need not be looked at.
LEMMA SettingsChange ==
  ASSUME WebhooksInv, UNCHANGED <<edition, errand, last, tellings>>, fresh' \subseteq fresh,
         veiled' \subseteq Posts, hook' \in [Hooks -> H!Row], settings' \in 0..MaxSettings,
         \A h \in Hooks : hook'[h].enabled => hook'[h].there,
         \A h \in Hooks, p \in Posts : <<h, p>> \in fresh' =>
           hook'[h] = hook[h] /\ (p \in veiled' <=> p \in veiled)
  PROVE  WebhooksInv'
<1>1. HooksTyped /\ TellingsFit /\ FreshFits
  BY DEF WebhooksInv
<1>2. HooksTyped'
  BY <1>1 DEF HooksTyped
<1>3. TellingsFit'
  BY <1>1 DEF TellingsFit, Callers, ToCall
<1>4. FreshFits'
  <2> SUFFICES ASSUME NEW h \in Hooks, NEW p \in Posts, <<h, p>> \in fresh'
               PROVE  /\ h \in HooksOf[p]
                      /\ \A u \in Couriers : errand'[u].pc # "idle" /\ errand'[u].p = p =>
                           /\ ErrandFits(errand[u], h, p, last[h][p])'
                           /\ \A v \in Couriers :
                                errand'[v].pc # "idle" /\ errand'[v].p = p => v = u
                      /\ ~H!Busy(p)' => (last[h][p] = edition[p] <=> H!Due(h, p))'
    BY DEF FreshFits
  <2>1. /\ h \in HooksOf[p]
        /\ \A u \in Couriers : errand[u].pc # "idle" /\ errand[u].p = p =>
             /\ ErrandFits(errand[u], h, p, last[h][p])
             /\ \A v \in Couriers : errand[v].pc # "idle" /\ errand[v].p = p => v = u
        /\ ~H!Busy(p) => (last[h][p] = edition[p] <=> H!Due(h, p))
    BY <1>1 DEF FreshFits
  <2>2. H!Due(h, p)' <=> H!Due(h, p)
    BY DEF H!Due
  <2>3. H!Busy(p)' <=> H!Busy(p)
    BY DEF H!Busy
  <2>4. \A u \in Couriers : ErrandFits(errand[u], h, p, last[h][p]) =>
                             ErrandFits(errand[u], h, p, last[h][p])'
    BY <2>2 DEF ErrandFits, ToCall
  <2> QED
    BY <2>1, <2>2, <2>3, <2>4
<1> QED
  BY <1>2, <1>3, <1>4 DEF WebhooksInv

LEMMA WebhooksStep ==
  ASSUME WebhooksInv, H!Next \/ UNCHANGED hooking
  PROVE  WebhooksInv'
<1>1. HooksTyped /\ FreshFits /\ \A h \in Hooks : hook[h].enabled => hook[h].there
  BY DEF WebhooksInv
<1>2. CASE UNCHANGED hooking
  BY <1>1, <1>2, SettingsChange DEF hooking, HooksTyped
<1>3. ASSUME NEW p0 \in Posts, H!Veil(p0)
      PROVE  WebhooksInv'
  <2>1. /\ settings' \in 0..MaxSettings /\ veiled' \subseteq Posts
        /\ UNCHANGED <<edition, hook, errand, last, tellings>> /\ fresh' = fresh \ H!About(p0)
        /\ \A p \in Posts : p # p0 => (p \in veiled' <=> p \in veiled)
    BY <1>1, <1>3, WebhooksBounds DEF H!Veil, HooksTyped
  <2>2. \A h \in Hooks, p \in Posts : <<h, p>> \in fresh' => p # p0
    BY <1>1, <2>1 DEF FreshFits, H!About
  <2> QED
    BY <1>1, <2>1, <2>2, SettingsChange DEF HooksTyped
<1>4. ASSUME NEW h0 \in Hooks, NEW r \in H!Row, r.there, H!SetRow(h0, r)
      PROVE  WebhooksInv'
  <2>1. /\ settings' \in 0..MaxSettings /\ hook' \in [Hooks -> H!Row] /\ hook'[h0] = r
        /\ UNCHANGED <<edition, veiled, errand, last, tellings>> /\ fresh' = {f \in fresh : f[1] # h0}
        /\ \A h \in Hooks : h # h0 => hook'[h] = hook[h]
    BY <1>1, <1>4, WebhooksBounds DEF H!SetRow, HooksTyped
  <2>2. \A h \in Hooks, p \in Posts : <<h, p>> \in fresh' => h # h0
    BY <2>1
  <2>3. \A h \in Hooks : hook'[h].enabled => hook'[h].there
    BY <1>1, <1>4, <2>1
  <2> QED
    BY <1>1, <2>1, <2>2, <2>3, SettingsChange DEF HooksTyped
<1>5. ASSUME NEW h \in Hooks, NEW wants \in SUBSET H!PostKinds, H!CreateHook(h, wants)
      PROVE  WebhooksInv'
  BY <1>4, <1>5 DEF H!CreateHook, H!Row
<1>6. ASSUME NEW h \in Hooks, NEW wants \in SUBSET H!PostKinds, NEW enabled \in BOOLEAN,
             H!UpdateHook(h, enabled, wants)
      PROVE  WebhooksInv'
  BY <1>4, <1>6 DEF H!UpdateHook, H!Row
<1>7. ASSUME NEW t \in Couriers, NEW h \in Hooks, H!Call(t, h) \/ H!MissCall(t, h)
      PROVE  WebhooksInv'
  BY <1>7, HookCalled, ErrandLeavesOut
<1> QED
  BY <1>2, <1>3, <1>5, <1>6, <1>7, PostPublished, ErrandLoads, ErrandEnds DEF H!Next

LEMMA WebhooksHold == WebhooksInv => H!WebhooksFollow
<1> SUFFICES ASSUME WebhooksInv PROVE H!WebhooksFollow
  OBVIOUS
<1>1. HooksTyped /\ TellingsFit /\ FreshFits
  BY DEF WebhooksInv
<1>2. ASSUME NEW f \in fresh, ~H!Busy(f[2])
      PROVE  last[f[1]][f[2]] = edition[f[2]] <=> H!Due(f[1], f[2])
  <2>1. f[1] \in Hooks /\ f[2] \in Posts /\ f = <<f[1], f[2]>>
    BY <1>1 DEF HooksTyped
  <2> QED
    BY <1>1, <1>2, <2>1 DEF FreshFits
<1>3. ASSUME NEW h \in Hooks, NEW p \in Posts
      PROVE  tellings[h][p] <= edition[p]
  <2>1. /\ tellings[h][p] + Cardinality(Callers(h, p)) <= edition[p] /\ tellings[h][p] \in Nat
        /\ Cardinality(Callers(h, p)) \in Nat /\ edition[p] \in Nat
    BY <1>1, CallersFinite DEF TellingsFit, HooksTyped
  <2> QED
    BY <2>1
<1> QED
  BY <1>2, <1>3 DEF H!WebhooksFollow

LEMMA WebhooksTyped == WebhooksInv => H!TypeOK
  BY DEF WebhooksInv, HooksTyped, Errand, H!TypeOK

\* Every webhook is told of each text once, of the latest one last, and of those only that it
\* asks for, in whatever order posts are published, their hooks are edited and the tasks that
\* call them are run (tasks.py, crud/crud_webhook.py).
THEOREM WebhooksAlwaysFollow == PlatformSpec => []WebhooksFollow
<1> DEFINE Inv == part = "webhooks" => WebhooksInv
<1>1. PlatformInit => Inv
  BY WebhooksInit DEF PlatformInit
<1>2. Inv /\ [PlatformNext]_platformVars => Inv'
  BY RunsAlone, WebhooksStep
<1>3. Inv => WebhooksFollow
  BY WebhooksHold DEF WebhooksFollow
<1> QED BY <1>1, <1>2, <1>3, PTL DEF PlatformSpec

-----------------------------------------------------------------------------
(* Keywords.                                                              *)

KeywordJob == [pc : {"idle", "due", "ready"}, p : K!Texts, read : Words, was : SUBSET Words]
KeywordSweep == [step : 0..8, swept : SUBSET Things, found : [Things -> SUBSET Words],
                 was : [Things -> SUBSET Words]]

KeywordsTyped ==
  /\ text \in [K!Texts -> Words] /\ live \subseteq K!Texts
  /\ words \in [Things -> SUBSET Words]
  /\ job \in [Jobs -> KeywordJob] /\ sweep \in KeywordSweep
  /\ texts \in Nat /\ calm \in BOOLEAN

\* A text that is not mixed has one task at most, which has loaded it as it is, and the
\* keywords it had then, unless the sweep has changed them to what they should be.
JobsFit ==
  \A t \in Jobs : job[t].pc # "idle" /\ job[t].p \notin mixed =>
    /\ \A u \in Jobs : job[u].pc # "idle" /\ job[u].p = job[t].p => u = t
    /\ job[t].pc = "ready" =>
         /\ job[t].read = text[job[t].p]
         /\ words[job[t].p] = job[t].was \/ words[job[t].p] = {text[job[t].p]}

FollowedFit ==
  \A p \in (live \cap K!Followed) \ mixed : ~K!Busy(p) => words[p] = {text[p]}

\* Things whose stage comes before stage n.
Passed(n) == {x \in Things : \E m \in 1..7 : m < n /\ Kind[x] = K!Stages[m]}

\* What the sweep has found of a text that is not mixed is what the text says.
SweepFits ==
  /\ sweep.step # 0 => sweep.swept \subseteq Passed(sweep.step)
  /\ sweep.step # 0 => \A p \in (sweep.swept \cap K!Texts) \ mixed : sweep.found[p] = {text[p]}
  /\ calm => \A t \in Jobs : job[t].pc = "idle"

\* While no edit interferes, the sweep has found what follows from the texts for all it has
\* passed, and nothing else changes keywords.
CalmFits ==
  calm /\ sweep.step # 0 =>
    /\ \A x \in sweep.swept : sweep.was[x] = words[x]
    /\ \A p \in live : p \in Passed(sweep.step) => p \in sweep.swept
    /\ \A p \in sweep.swept \cap K!Texts : sweep.found[p] = {text[p]}
    /\ \A x \in Passed(sweep.step) \ K!Texts :
         /\ x \in sweep.swept
         /\ \A w \in Words : w \in sweep.found[x] <=> \E y \in Sources[x] : w \in K!Seen(y)

CalmFollows ==
  calm /\ sweep.step = 0 =>
    /\ \A p \in live : words[p] = {text[p]}
    /\ \A x \in Things \ K!Texts : \A w \in Words : w \in words[x] <=> \E y \in Sources[x] : w \in words[y]

KeywordsInv ==
  /\ KeywordsTyped /\ JobsFit /\ FollowedFit /\ SweepFits /\ CalmFits /\ CalmFollows

-----------------------------------------------------------------------------
LEMMA KeywordTypes ==
  /\ K!SomeText \in K!Texts /\ K!SomeWord \in Words /\ K!Followed \subseteq K!Texts
  /\ K!NoJob \in KeywordJob /\ K!NoJob.pc = "idle"
  /\ K!NoSweep \in KeywordSweep /\ K!NoSweep.step = 0
<1>1. K!Texts # {} /\ K!Followed \subseteq K!Texts
  BY KeywordsBounds DEF K!Texts, K!Followed
<1>2. K!SomeText \in K!Texts /\ K!SomeWord \in Words
  BY <1>1, KeywordsBounds DEF K!SomeText, K!SomeWord
<1> QED
  BY <1>1, <1>2 DEF K!NoJob, KeywordJob, K!NoSweep, K!Nothing, KeywordSweep

LEMMA StagesAre ==
  /\ K!Stages[1] = "answer" /\ K!Stages[2] = "question" /\ K!Stages[3] = "submission"
  /\ K!Stages[4] = "article" /\ K!Stages[5] = "column" /\ K!Stages[6] = "site"
  /\ K!Stages[7] = "user" /\ Len(K!Stages) = 7 /\ DOMAIN K!Stages = 1..7
  BY DEF K!Stages

LEMMA PassedNone == Passed(1) = {}
  BY DEF Passed

LEMMA PassedAll == ASSUME NEW n \in Nat, n > 7 PROVE Passed(n) = Things
<1> SUFFICES ASSUME NEW x \in Things PROVE \E m \in 1..7 : Kind[x] = K!Stages[m]
  BY DEF Passed
<1>1. Kind[x] \in {"answer", "question", "submission", "article", "column", "site", "user"}
  BY KeywordsBounds
<1> QED
  BY <1>1, StagesAre

LEMMA PassedNext ==
  ASSUME NEW n \in 1..7, NEW x \in Things
  PROVE  /\ x \in Passed(n + 1) <=> x \in Passed(n) \/ Kind[x] = K!Stages[n]
         /\ x \in Passed(n) => Kind[x] # K!Stages[n]
<1>1. x \in Passed(n + 1) => x \in Passed(n) \/ Kind[x] = K!Stages[n]
  BY DEF Passed
<1>2. x \in Passed(n) \/ Kind[x] = K!Stages[n] => x \in Passed(n + 1)
  BY DEF Passed
<1>3. ASSUME x \in Passed(n) PROVE Kind[x] # K!Stages[n]
  <2>1. PICK m \in 1..7 : m < n /\ Kind[x] = K!Stages[m]
    BY <1>3 DEF Passed
  <2>2. K!Stages[m] # K!Stages[n]
    BY <2>1, StagesAre
  <2> QED
    BY <2>1, <2>2
<1> QED
  BY <1>1, <1>2, <1>3

\* What a column, a site or a user has the keywords of comes before it.
LEMMA PassedSources ==
  ASSUME NEW n \in 1..7, NEW x \in Passed(n + 1) \ K!Texts, NEW y \in Sources[x]
  PROVE  y \in Passed(n)
<1>1. x \in Things /\ y \in Things
  BY KeywordsBounds DEF Passed
<1>2. PICK m \in 1..7 : m < n + 1 /\ Kind[x] = K!Stages[m]
  BY DEF Passed
<1>3. /\ Kind[x] \in {"column", "site", "user"}
      /\ Kind[x] \in {"column", "site"} => Kind[y] \in {"answer", "question", "submission", "article"}
      /\ Kind[y] \in {"answer", "question", "submission", "article", "column", "site"}
  BY <1>1, KeywordsBounds DEF K!Texts
<1>4. CASE Kind[x] = "user"
  <2>1. m = 7
    <3>1. \A k \in 1..7 : k = 1 \/ k = 2 \/ k = 3 \/ k = 4 \/ k = 5 \/ k = 6 \/ k = 7
      OBVIOUS
    <3>2. m = 1 \/ m = 2 \/ m = 3 \/ m = 4 \/ m = 5 \/ m = 6 \/ m = 7
      BY <3>1
    <3> QED
      BY <1>2, <1>4, <3>2, StagesAre
  <2>2. n = 7
    BY <1>2, <2>1
  <2>3. \E k \in 1..6 : Kind[y] = K!Stages[k]
    BY <1>3, StagesAre
  <2> QED
    BY <1>1, <2>2, <2>3 DEF Passed
<1>5. CASE Kind[x] # "user"
  <2>1. n >= 5
    BY <1>2, <1>3, <1>5, StagesAre
  <2>2. \E k \in 1..4 : Kind[y] = K!Stages[k]
    BY <1>3, <1>5, StagesAre
  <2> QED
    BY <1>1, <2>1, <2>2 DEF Passed
<1> QED
  BY <1>4, <1>5

LEMMA KeywordsInit == K!Init => KeywordsInv
<1> SUFFICES ASSUME K!Init PROVE KeywordsInv
  OBVIOUS
<1>1. \A t \in Jobs : job[t].pc = "idle"
  BY KeywordTypes DEF K!Init
<1>2. sweep.step = 0 /\ sweep \in KeywordSweep /\ calm = FALSE
  BY KeywordTypes DEF K!Init
<1>3. KeywordsTyped
  BY <1>2, KeywordTypes, KeywordsBounds DEF K!Init, KeywordsTyped, K!Texts
<1>4. FollowedFit
  <2> SUFFICES ASSUME NEW p \in live \cap K!Followed PROVE words[p] = {text[p]}
    BY DEF FollowedFit
  <2>1. p \in Things /\ p \in FirstLive /\ p \in K!Texts
    BY KeywordsBounds DEF K!Init, K!Followed, K!Texts
  <2> QED
    BY <2>1 DEF K!Init
<1> QED
  BY <1>1, <1>2, <1>3, <1>4 DEF KeywordsInv, JobsFit, SweepFits, CalmFits, CalmFollows

LEMMA JobMoves ==
  ASSUME KeywordsTyped, NEW t \in Jobs, NEW q \in KeywordJob, job' = [job EXCEPT ![t] = q]
  PROVE  /\ job' \in [Jobs -> KeywordJob] /\ job'[t] = q
         /\ \A u \in Jobs : u # t => job'[u] = job[u]
  BY DEF KeywordsTyped

LEMMA TextEdited ==
  ASSUME KeywordsInv, NEW p0 \in K!Texts, NEW w0 \in Words, K!Edit(p0, w0)
  PROVE  KeywordsInv'
<1>1. KeywordsTyped /\ JobsFit /\ FollowedFit /\ SweepFits
  BY DEF KeywordsInv
<1>2. /\ texts' = texts + 1 /\ text' = [text EXCEPT ![p0] = w0] /\ calm' = FALSE
      /\ live' = IF Kind[p0] \in {"answer", "article"} THEN live \cup {p0} ELSE live
      /\ mixed' = IF K!Busy(p0) \/ sweep.step # 0 THEN mixed \cup {p0} ELSE mixed
      /\ UNCHANGED <<words, sweep>>
  BY DEF K!Edit
<1>3. /\ text' \in [K!Texts -> Words] /\ text'[p0] = w0
      /\ \A p \in K!Texts : p # p0 => text'[p] = text[p]
  BY <1>1, <1>2 DEF KeywordsTyped
<1>4. /\ job' \in [Jobs -> KeywordJob]
      /\ \A u \in Jobs : job'[u] = job[u] \/ (job[u].pc = "idle" /\ job'[u].pc = "due" /\ job'[u].p = p0)
      /\ \A u, v \in Jobs : job'[u] # job[u] /\ job'[v] # job[v] => u = v
      /\ p0 \in K!Followed => K!Busy(p0)'
  <2>1. CASE p0 \in K!Followed
    <3>1. PICK t \in Jobs : /\ job[t].pc = "idle"
                            /\ job' = [job EXCEPT ![t] = [K!NoJob EXCEPT !.pc = "due", !.p = p0]]
      BY <2>1 DEF K!Edit
    <3> DEFINE q == [K!NoJob EXCEPT !.pc = "due", !.p = p0]
    <3>2. q \in KeywordJob /\ q.pc = "due" /\ q.p = p0
      BY KeywordTypes DEF KeywordJob
    <3> HIDE DEF q
    <3>3. /\ job' \in [Jobs -> KeywordJob] /\ job'[t] = q
          /\ \A u \in Jobs : u # t => job'[u] = job[u]
      BY <1>1, <3>1, <3>2, JobMoves DEF q
    <3>4. K!Busy(p0)'
      BY <3>2, <3>3 DEF K!Busy
    <3> QED
      BY <3>1, <3>2, <3>3, <3>4
  <2>2. CASE p0 \notin K!Followed
    BY <1>1, <2>2 DEF K!Edit, KeywordsTyped
  <2> QED
    BY <2>1, <2>2
<1>5. KeywordsTyped'
  <2>1. live' \subseteq K!Texts /\ words' \in [Things -> SUBSET Words] /\ sweep' \in KeywordSweep
    BY <1>1, <1>2 DEF KeywordsTyped
  <2>2. texts' \in Nat
    BY <1>1, <1>2 DEF KeywordsTyped
  <2>3. calm' \in BOOLEAN
    BY <1>2
  <2> QED
    BY <1>3, <1>4, <2>1, <2>2, <2>3 DEF KeywordsTyped
<1>6. JobsFit'
  <2> SUFFICES ASSUME NEW t \in Jobs, job'[t].pc # "idle", job'[t].p \notin mixed'
               PROVE  /\ \A u \in Jobs : job'[u].pc # "idle" /\ job'[u].p = job'[t].p => u = t
                      /\ job'[t].pc = "ready" =>
                           /\ job'[t].read = text'[job'[t].p]
                           /\ words[job'[t].p] = job'[t].was \/ words[job'[t].p] = {text'[job'[t].p]}
    BY <1>2 DEF JobsFit
  <2>1. job'[t].p \notin mixed /\ (job'[t].p = p0 => ~K!Busy(p0))
    BY <1>2
  <2>2. CASE job'[t].p = p0
    <3>1. \A u \in Jobs : job[u].pc # "idle" => job[u].p # p0
      BY <2>1, <2>2 DEF K!Busy
    <3> QED
      BY <1>4, <2>2, <3>1
  <2>3. CASE job'[t].p # p0
    <3>1. job'[t] = job[t] /\ job[t].p \in K!Texts
      BY <1>1, <1>4, <2>3 DEF KeywordsTyped, KeywordJob
    <3>2. /\ \A u \in Jobs : job[u].pc # "idle" /\ job[u].p = job[t].p => u = t
          /\ job[t].pc = "ready" =>
               /\ job[t].read = text[job[t].p]
               /\ words[job[t].p] = job[t].was \/ words[job[t].p] = {text[job[t].p]}
      BY <1>1, <2>1, <3>1 DEF JobsFit
    <3>3. \A u \in Jobs : job'[u].pc # "idle" /\ job'[u].p = job[t].p => job'[u] = job[u]
      BY <1>4, <2>3, <3>1
    <3> QED
      BY <1>3, <2>3, <3>1, <3>2, <3>3
  <2> QED
    BY <2>2, <2>3
<1>7. FollowedFit'
  <2> SUFFICES ASSUME NEW p \in (live' \cap K!Followed) \ mixed', ~K!Busy(p)'
               PROVE  words[p] = {text'[p]}
    BY <1>2 DEF FollowedFit
  <2>1. p # p0
    BY <1>4
  <2>2. p \in live /\ p \notin mixed /\ p \in K!Texts
    BY <1>2, <2>1, KeywordTypes
  <2>3. ~K!Busy(p)
    BY <1>4, <2>1 DEF K!Busy
  <2> QED
    BY <1>1, <1>3, <2>1, <2>2, <2>3 DEF FollowedFit
<1>8. SweepFits'
  <2> SUFFICES ASSUME sweep.step # 0, NEW p \in (sweep.swept \cap K!Texts) \ mixed'
               PROVE  sweep.found[p] = {text'[p]}
    BY <1>1, <1>2 DEF SweepFits, Passed
  <2>1. p # p0 /\ p \notin mixed
    BY <1>2
  <2> QED
    BY <1>1, <1>3, <2>1 DEF SweepFits
<1> QED
  BY <1>2, <1>5, <1>6, <1>7, <1>8 DEF KeywordsInv, CalmFits, CalmFollows

LEMMA TextHidden ==
  ASSUME KeywordsInv, NEW p0 \in K!Texts, K!Hide(p0)
  PROVE  KeywordsInv'
<1>1. KeywordsTyped /\ JobsFit /\ FollowedFit /\ SweepFits /\ CalmFits /\ CalmFollows
  BY DEF KeywordsInv
<1>2. live' = live \ {p0} /\ UNCHANGED <<text, words, job, sweep, texts, calm, mixed>>
  BY DEF K!Hide
<1>3. KeywordsTyped' /\ JobsFit' /\ SweepFits'
  BY <1>1, <1>2 DEF KeywordsTyped, JobsFit, SweepFits, Passed
<1>4. FollowedFit'
  BY <1>1, <1>2 DEF FollowedFit, K!Busy
<1>5. CalmFits'
  BY <1>1, <1>2 DEF CalmFits, Passed, K!Seen
<1>6. CalmFollows'
  BY <1>1, <1>2 DEF CalmFollows
<1> QED
  BY <1>3, <1>4, <1>5, <1>6 DEF KeywordsInv

\* Of a task, which moves on by itself.
LEMMA TaskMoves ==
  ASSUME KeywordsInv, NEW t \in Jobs, NEW q \in KeywordJob, job' = [job EXCEPT ![t] = q],
         UNCHANGED <<text, live, sweep, texts, calm>>, mixed' = mixed \/ mixed' = mixed \cup {job[t].p},
         job[t].pc # "idle", words' \in [Things -> SUBSET Words],
         \A x \in Things : x # job[t].p => words'[x] = words[x],
         q.pc # "idle" => q.p = job[t].p,
         job[t].p \notin mixed' => /\ q.pc = "idle" => words'[job[t].p] = {text[job[t].p]}
                                   /\ q.pc = "ready" =>
                                        /\ q.read = text[q.p]
                                        /\ words'[q.p] = q.was \/ words'[q.p] = {text[q.p]}
  PROVE  KeywordsInv'
<1>1. KeywordsTyped /\ JobsFit /\ FollowedFit /\ SweepFits /\ ~calm
  BY DEF KeywordsInv, SweepFits
<1>2. /\ job' \in [Jobs -> KeywordJob] /\ job'[t] = q
      /\ \A u \in Jobs : u # t => job'[u] = job[u]
  BY <1>1, JobMoves
<1>3. KeywordsTyped'
  BY <1>1, <1>2 DEF KeywordsTyped
<1>4. \A u \in Jobs : job[u].p \in K!Texts /\ job[u].p \in Things
  BY <1>1 DEF KeywordsTyped, KeywordJob, K!Texts
<1>5. JobsFit'
  <2> SUFFICES ASSUME NEW u \in Jobs, job'[u].pc # "idle", job'[u].p \notin mixed'
               PROVE  /\ \A v \in Jobs : job'[v].pc # "idle" /\ job'[v].p = job'[u].p => v = u
                      /\ job'[u].pc = "ready" =>
                           /\ job'[u].read = text[job'[u].p]
                           /\ words'[job'[u].p] = job'[u].was \/ words'[job'[u].p] = {text[job'[u].p]}
    BY DEF JobsFit
  <2>1. job[u].pc # "idle" /\ job'[u].p = job[u].p /\ job[u].p \notin mixed
    BY <1>2
  <2>2. \A v \in Jobs : job'[v].pc # "idle" => job[v].pc # "idle" /\ job'[v].p = job[v].p
    BY <1>2
  <2>3. /\ \A v \in Jobs : job[v].pc # "idle" /\ job[v].p = job[u].p => v = u
        /\ job[u].pc = "ready" =>
             /\ job[u].read = text[job[u].p]
             /\ words[job[u].p] = job[u].was \/ words[job[u].p] = {text[job[u].p]}
    BY <1>1, <2>1 DEF JobsFit
  <2>4. \A v \in Jobs : job'[v].pc # "idle" /\ job'[v].p = job'[u].p => v = u
    BY <2>1, <2>2, <2>3
  <2>5. CASE u = t
    BY <1>2, <2>1, <2>4, <2>5
  <2>6. CASE u # t
    <3>1. job[t].p # job[u].p
      BY <2>1, <2>3, <2>6
    <3>2. words'[job[u].p] = words[job[u].p] /\ job'[u] = job[u]
      BY <1>2, <1>4, <2>6, <3>1
    <3> QED
      BY <2>3, <2>4, <3>2
  <2> QED
    BY <2>5, <2>6
<1>6. FollowedFit'
  <2> SUFFICES ASSUME NEW p \in (live \cap K!Followed) \ mixed', ~K!Busy(p)'
               PROVE  words'[p] = {text[p]}
    BY DEF FollowedFit
  <2>1. p \in Things /\ p \notin mixed
    BY KeywordTypes DEF K!Texts
  <2>2. CASE p = job[t].p
    <3>1. q.pc = "idle"
      BY <1>2, <2>2 DEF K!Busy
    <3> QED
      BY <2>2, <3>1
  <2>3. CASE p # job[t].p
    <3>1. ~K!Busy(p)
      BY <1>2, <2>3 DEF K!Busy
    <3> QED
      BY <1>1, <2>1, <2>3, <3>1 DEF FollowedFit
  <2> QED
    BY <2>2, <2>3
<1>7. SweepFits'
  BY <1>1 DEF SweepFits, Passed
<1> QED
  BY <1>1, <1>3, <1>5, <1>6, <1>7 DEF KeywordsInv, CalmFits, CalmFollows

LEMMA TaskLoads == ASSUME KeywordsInv, NEW t \in Jobs, K!Load(t) PROVE KeywordsInv'
<1>1. KeywordsTyped
  BY DEF KeywordsInv
<1>2. job[t] \in KeywordJob
  BY <1>1 DEF KeywordsTyped
<1>3. job[t].p \in K!Texts /\ job[t].p \in Things /\ text[job[t].p] \in Words /\ words[job[t].p] \in SUBSET Words
  BY <1>1, <1>2 DEF KeywordsTyped, KeywordJob, K!Texts
<1> SUFFICES ASSUME NEW q, q = [job[t] EXCEPT !.pc = "ready", !.read = text[job[t].p],
                                              !.was = words[job[t].p]]
             PROVE  KeywordsInv'
  OBVIOUS
<1>4. /\ q \in KeywordJob /\ q.pc = "ready" /\ q.p = job[t].p /\ q.read = text[q.p] /\ q.was = words[q.p]
  BY <1>2, <1>3 DEF KeywordJob
<1>5. /\ job[t].pc = "due" /\ job' = [job EXCEPT ![t] = q]
      /\ UNCHANGED <<text, live, words, sweep, texts, calm, mixed>>
  BY <1>1 DEF K!Load, KeywordsTyped
<1> QED
  BY <1>1, <1>4, <1>5, TaskMoves DEF KeywordsTyped

LEMMA TaskStores == ASSUME KeywordsInv, NEW t \in Jobs, K!Store(t) PROVE KeywordsInv'
<1>1. KeywordsTyped /\ JobsFit
  BY DEF KeywordsInv
<1>2. /\ job[t].pc = "ready" /\ job' = [job EXCEPT ![t] = K!NoJob]
      /\ words' = IF {job[t].read} # job[t].was THEN [words EXCEPT ![job[t].p] = {job[t].read}] ELSE words
      /\ UNCHANGED <<text, live, sweep, texts, calm, mixed>>
  BY DEF K!Store
<1>3. job[t].p \in K!Texts /\ job[t].p \in Things /\ job[t].read \in Words /\ job[t].was \in SUBSET Words
  BY <1>1 DEF KeywordsTyped, KeywordJob, K!Texts
<1>4. /\ words' \in [Things -> SUBSET Words] /\ \A x \in Things : x # job[t].p => words'[x] = words[x]
  BY <1>1, <1>2, <1>3 DEF KeywordsTyped
<1>5. job[t].p \notin mixed => words'[job[t].p] = {text[job[t].p]}
  <2> SUFFICES ASSUME job[t].p \notin mixed PROVE words'[job[t].p] = {text[job[t].p]}
    OBVIOUS
  <2>1. /\ job[t].read = text[job[t].p]
        /\ words[job[t].p] = job[t].was \/ words[job[t].p] = {text[job[t].p]}
    BY <1>1, <1>2 DEF JobsFit
  <2> QED
    BY <1>1, <1>2, <1>3, <2>1 DEF KeywordsTyped
<1> QED
  BY <1>2, <1>4, <1>5, KeywordTypes, TaskMoves

LEMMA TaskFails == ASSUME KeywordsInv, NEW t \in Jobs, K!Fail(t) PROVE KeywordsInv'
<1>1. KeywordsTyped
  BY DEF KeywordsInv
<1>2. /\ job[t].pc # "idle" /\ job' = [job EXCEPT ![t] = K!NoJob] /\ mixed' = mixed \cup {job[t].p}
      /\ UNCHANGED <<text, live, words, sweep, texts, calm>>
  BY DEF K!Fail
<1> QED
  BY <1>1, <1>2, KeywordTypes, TaskMoves DEF KeywordsTyped

-----------------------------------------------------------------------------
LEMMA SweepStarts == ASSUME KeywordsInv, K!StartSweep PROVE KeywordsInv'
<1>1. KeywordsTyped /\ JobsFit /\ FollowedFit
  BY DEF KeywordsInv
<1>2. /\ sweep' = [K!NoSweep EXCEPT !.step = 1] /\ calm' = \A t \in Jobs : job[t].pc = "idle"
      /\ UNCHANGED <<text, live, words, job, texts, mixed>>
  BY DEF K!StartSweep
<1>3. sweep' \in KeywordSweep /\ sweep'.step = 1 /\ sweep'.swept = {}
  BY <1>2, KeywordTypes DEF K!NoSweep, KeywordSweep
<1>4. calm' \in BOOLEAN /\ (calm' => \A t \in Jobs : job[t].pc = "idle")
  BY <1>2
<1>5. KeywordsTyped'
  BY <1>1, <1>2, <1>3, <1>4 DEF KeywordsTyped
<1>6. JobsFit' /\ FollowedFit'
  BY <1>1, <1>2 DEF JobsFit, FollowedFit, K!Busy
<1>7. SweepFits'
  BY <1>2, <1>3, <1>4 DEF SweepFits
<1>8. CalmFits' /\ CalmFollows'
  BY <1>3, PassedNone DEF CalmFits, CalmFollows
<1> QED
  BY <1>5, <1>6, <1>7, <1>8 DEF KeywordsInv

LEMMA SweepGoesOn == ASSUME KeywordsInv, K!Sweep PROVE KeywordsInv'
<1>1. KeywordsTyped /\ JobsFit /\ FollowedFit /\ SweepFits /\ CalmFits
  BY DEF KeywordsInv
<1> SUFFICES ASSUME NEW n, n = sweep.step, NEW now, now = K!Rows(K!Stages[n]) PROVE KeywordsInv'
  OBVIOUS
<1>2. /\ n \in 1..7 /\ UNCHANGED <<text, live, words, job, texts, calm, mixed>>
      /\ sweep' = [step |-> n + 1, swept |-> sweep.swept \cup now,
                   found |-> [x \in Things |-> IF x \in now THEN K!Found(x) ELSE sweep.found[x]],
                   was |-> [x \in Things |-> IF x \in now THEN words[x] ELSE sweep.was[x]]]
  BY StagesAre DEF K!Sweep
<1>3. /\ sweep'.step = n + 1 /\ sweep'.swept = sweep.swept \cup now
      /\ \A x \in Things : sweep'.found[x] = IF x \in now THEN K!Found(x) ELSE sweep.found[x]
      /\ \A x \in Things : sweep'.was[x] = IF x \in now THEN words[x] ELSE sweep.was[x]
  BY <1>2
<1>4. /\ now \subseteq Things /\ \A x \in now : Kind[x] = K!Stages[n] /\ (x \in K!Texts => x \in live)
      /\ \A x \in Things : Kind[x] = K!Stages[n] /\ (x \in K!Texts => x \in live) => x \in now
  BY DEF K!Rows
<1>5. sweep \in KeywordSweep /\ sweep.swept \subseteq Things
  BY <1>1 DEF KeywordsTyped, KeywordSweep
<1>6. \A x \in Things : K!Seen(x) \in SUBSET Words /\ K!Found(x) \in SUBSET Words
  <2>1. \A x \in Things : K!Seen(x) \in SUBSET Words
    BY <1>1, <1>5 DEF KeywordsTyped, KeywordSweep, K!Seen
  <2>2. ASSUME NEW x \in Things PROVE K!Found(x) \in SUBSET Words
    <3>1. CASE x \in K!Texts
      BY <1>1, <3>1 DEF KeywordsTyped, K!Found
    <3>2. CASE x \notin K!Texts
      BY <2>1, <3>2, KeywordsBounds DEF K!Found
    <3> QED
      BY <3>1, <3>2
  <2> QED
    BY <2>1, <2>2
<1>7. KeywordsTyped'
  <2>1. /\ [x \in Things |-> IF x \in now THEN K!Found(x) ELSE sweep.found[x]] \in [Things -> SUBSET Words]
        /\ [x \in Things |-> IF x \in now THEN words[x] ELSE sweep.was[x]] \in [Things -> SUBSET Words]
    BY <1>1, <1>5, <1>6 DEF KeywordsTyped, KeywordSweep
  <2>2. sweep' \in KeywordSweep
    BY <1>2, <1>4, <1>5, <2>1 DEF KeywordSweep
  <2> QED
    BY <1>1, <1>2, <2>2 DEF KeywordsTyped
<1>8. JobsFit' /\ FollowedFit'
  BY <1>1, <1>2 DEF JobsFit, FollowedFit, K!Busy
<1>9. \A p \in now \cap K!Texts : sweep'.found[p] = {text[p]}
  BY <1>3, <1>4 DEF K!Found
<1>10. SweepFits'
  <2>1. sweep'.swept \subseteq Passed(n + 1)
    BY <1>1, <1>2, <1>3, <1>4, <1>5, PassedNext DEF SweepFits
  <2>2. \A p \in (sweep'.swept \cap K!Texts) \ mixed : sweep'.found[p] = {text[p]}
    BY <1>1, <1>2, <1>3, <1>5, <1>9 DEF SweepFits
  <2>3. calm => \A t \in Jobs : job[t].pc = "idle"
    BY <1>1 DEF SweepFits
  <2>4. Passed(sweep'.step) = Passed(sweep.step)' \/ TRUE
    OBVIOUS
  <2> QED
    BY <1>2, <1>3, <2>1, <2>2, <2>3 DEF SweepFits, Passed
<1>11. CalmFits'
  <2> SUFFICES ASSUME calm PROVE CalmFits'
    BY <1>2 DEF CalmFits
  <2>1. /\ \A x \in sweep.swept : sweep.was[x] = words[x]
        /\ \A p \in live : p \in Passed(n) => p \in sweep.swept
        /\ \A p \in sweep.swept \cap K!Texts : sweep.found[p] = {text[p]}
        /\ \A x \in Passed(n) \ K!Texts :
             /\ x \in sweep.swept
             /\ \A w \in Words : w \in sweep.found[x] <=> \E y \in Sources[x] : w \in K!Seen(y)
    BY <1>1, <1>2 DEF CalmFits
  <2>2. \A y \in Passed(n) : y \in Things /\ y \notin now
    BY <1>2, <1>4, PassedNext DEF Passed
  <2>3. \A y \in Passed(n) : K!Seen(y)' = K!Seen(y)
    BY <1>2, <1>3, <2>2 DEF K!Seen
  <2>4. \A x \in sweep'.swept : sweep'.was[x] = words[x]
    BY <1>3, <1>4, <1>5, <2>1
  <2>5. \A p \in live : p \in Passed(n + 1) => p \in sweep'.swept
    <3> SUFFICES ASSUME NEW p \in live, p \in Passed(n + 1) PROVE p \in sweep'.swept
      OBVIOUS
    <3>1. p \in Things
      BY DEF Passed
    <3>2. p \in Passed(n) \/ Kind[p] = K!Stages[n]
      BY <1>2, <3>1, PassedNext
    <3> QED
      BY <1>3, <1>4, <2>1, <3>1, <3>2
  <2>6. \A p \in sweep'.swept \cap K!Texts : sweep'.found[p] = {text[p]}
    BY <1>3, <1>5, <1>9, <2>1
  <2>7. ASSUME NEW x \in Passed(n + 1) \ K!Texts
        PROVE  /\ x \in sweep'.swept
               /\ \A w \in Words : w \in sweep'.found[x] <=> \E y \in Sources[x] : w \in K!Seen(y)'
    <3>1. x \in Things /\ (x \in Passed(n) \/ Kind[x] = K!Stages[n])
      BY <1>2, PassedNext DEF Passed
    <3>2. \A y \in Sources[x] : K!Seen(y)' = K!Seen(y)
      BY <1>2, <2>3, PassedSources
    <3>3. CASE x \in Passed(n)
      <4>1. sweep'.found[x] = sweep.found[x] /\ x \in sweep'.swept
        BY <1>3, <2>1, <2>2, <3>3
      <4>2. \A w \in Words : w \in sweep.found[x] <=> \E y \in Sources[x] : w \in K!Seen(y)
        BY <2>1, <3>3
      <4> QED
        BY <3>2, <4>1, <4>2
    <3>4. CASE x \notin Passed(n)
      <4>1. x \in now /\ sweep'.found[x] = UNION {K!Seen(y) : y \in Sources[x]} /\ x \in sweep'.swept
        BY <1>3, <1>4, <3>1, <3>4 DEF K!Found
      <4> QED
        BY <3>2, <4>1
    <3> QED
      BY <3>3, <3>4
  <2> QED
    BY <1>2, <1>3, <2>4, <2>5, <2>6, <2>7 DEF CalmFits, Passed
<1>12. CalmFollows'
  BY <1>2, <1>3 DEF CalmFollows
<1> QED
  BY <1>7, <1>8, <1>10, <1>11, <1>12 DEF KeywordsInv

LEMMA SweepFails == ASSUME KeywordsInv, K!FailSweep PROVE KeywordsInv'
<1>1. KeywordsTyped /\ JobsFit /\ FollowedFit
  BY DEF KeywordsInv
<1>2. sweep' = K!NoSweep /\ calm' = FALSE /\ UNCHANGED <<text, live, words, job, texts, mixed>>
  BY DEF K!FailSweep
<1>3. KeywordsTyped'
  BY <1>1, <1>2, KeywordTypes DEF KeywordsTyped
<1>4. JobsFit' /\ FollowedFit'
  BY <1>1, <1>2 DEF JobsFit, FollowedFit, K!Busy
<1>5. SweepFits' /\ CalmFits' /\ CalmFollows'
  BY <1>2, KeywordTypes DEF SweepFits, CalmFits, CalmFollows
<1> QED
  BY <1>3, <1>4, <1>5 DEF KeywordsInv

LEMMA SweepEnds == ASSUME KeywordsInv, K!EndSweep PROVE KeywordsInv'
<1>1. KeywordsTyped /\ JobsFit /\ FollowedFit /\ SweepFits /\ CalmFits
  BY DEF KeywordsInv
<1>2. /\ sweep.step > 7 /\ sweep' = K!NoSweep
      /\ words' = [x \in Things |-> IF x \in sweep.swept /\ sweep.found[x] # sweep.was[x]
                                    THEN sweep.found[x] ELSE words[x]]
      /\ mixed' = IF calm THEN mixed \ sweep.swept ELSE mixed
      /\ UNCHANGED <<text, live, job, texts, calm>>
  BY StagesAre DEF K!EndSweep
<1>3. sweep \in KeywordSweep /\ sweep.swept \subseteq Things /\ sweep.step # 0 /\ Passed(sweep.step) = Things
  BY <1>1, <1>2, PassedAll DEF KeywordsTyped, KeywordSweep
<1>4. /\ words' \in [Things -> SUBSET Words]
      /\ \A x \in Things : words'[x] = words[x] \/ (x \in sweep.swept /\ words'[x] = sweep.found[x])
      /\ calm => \A x \in Things : words'[x] = K!Seen(x)
  <2>1. words' \in [Things -> SUBSET Words]
    BY <1>1, <1>2, <1>3 DEF KeywordsTyped, KeywordSweep
  <2>2. ASSUME calm, NEW x \in Things PROVE words'[x] = K!Seen(x)
    <3>1. x \in sweep.swept => sweep.was[x] = words[x]
      BY <1>1, <1>3, <2>2 DEF CalmFits
    <3> QED
      BY <1>2, <3>1 DEF K!Seen
  <2> QED
    BY <1>2, <2>1, <2>2
<1>5. KeywordsTyped'
  BY <1>1, <1>2, <1>4, KeywordTypes DEF KeywordsTyped
<1>6. \A p \in K!Texts : p \in Things
  BY DEF K!Texts
<1>7. \A p \in K!Texts : p \notin mixed' => words'[p] = words[p] \/ words'[p] = {text[p]}
  <2> SUFFICES ASSUME NEW p \in K!Texts, p \notin mixed', words'[p] # words[p]
               PROVE  words'[p] = {text[p]}
    OBVIOUS
  <2>1. p \in sweep.swept /\ words'[p] = sweep.found[p]
    BY <1>4, <1>6
  <2>2. CASE calm
    BY <1>1, <1>3, <2>1, <2>2 DEF CalmFits
  <2>3. CASE ~calm
    BY <1>1, <1>2, <1>3, <2>1, <2>3 DEF SweepFits
  <2> QED
    BY <2>2, <2>3
<1>8. JobsFit'
  <2> SUFFICES ASSUME NEW t \in Jobs, job[t].pc # "idle", job[t].p \notin mixed'
               PROVE  /\ \A u \in Jobs : job[u].pc # "idle" /\ job[u].p = job[t].p => u = t
                      /\ job[t].pc = "ready" =>
                           /\ job[t].read = text[job[t].p]
                           /\ words'[job[t].p] = job[t].was \/ words'[job[t].p] = {text[job[t].p]}
    BY <1>2 DEF JobsFit
  <2>1. ~calm /\ job[t].p \notin mixed /\ job[t].p \in K!Texts
    BY <1>1, <1>2 DEF SweepFits, KeywordsTyped, KeywordJob
  <2>2. words'[job[t].p] = words[job[t].p] \/ words'[job[t].p] = {text[job[t].p]}
    BY <1>7, <2>1
  <2> QED
    BY <1>1, <2>1, <2>2 DEF JobsFit
<1>9. \A p \in live : calm => words'[p] = {text[p]}
  <2> SUFFICES ASSUME NEW p \in live, calm PROVE words'[p] = {text[p]}
    OBVIOUS
  <2>1. p \in K!Texts /\ p \in Things
    BY <1>1, <1>6 DEF KeywordsTyped
  <2>2. p \in sweep.swept /\ sweep.found[p] = {text[p]}
    BY <1>1, <1>3, <2>1 DEF CalmFits
  <2> QED
    BY <1>4, <2>1, <2>2 DEF K!Seen
<1>10. FollowedFit'
  <2> SUFFICES ASSUME NEW p \in (live \cap K!Followed) \ mixed', ~K!Busy(p)
               PROVE  words'[p] = {text[p]}
    BY <1>2 DEF FollowedFit, K!Busy
  <2>1. CASE calm
    BY <1>9, <2>1
  <2>2. CASE ~calm
    <3>1. p \notin mixed /\ words[p] = {text[p]}
      BY <1>1, <1>2, <2>2 DEF FollowedFit
    <3> QED
      BY <1>7, <3>1, KeywordTypes
  <2> QED
    BY <2>1, <2>2
<1>11. SweepFits' /\ CalmFits'
  BY <1>1, <1>2, KeywordTypes DEF SweepFits, CalmFits
<1>12. CalmFollows'
  <2> SUFFICES ASSUME calm
               PROVE  \A x \in Things \ K!Texts : \A w \in Words :
                        w \in words'[x] <=> \E y \in Sources[x] : w \in words'[y]
    BY <1>2, <1>9 DEF CalmFollows
  <2>1. ASSUME NEW x \in Things \ K!Texts, NEW w \in Words
        PROVE  w \in words'[x] <=> \E y \in Sources[x] : w \in words'[y]
    <3>1. x \in sweep.swept /\ (w \in sweep.found[x] <=> \E y \in Sources[x] : w \in K!Seen(y))
      BY <1>1, <1>3 DEF CalmFits
    <3>2. words'[x] = sweep.found[x]
      BY <1>4, <3>1 DEF K!Seen
    <3>3. \A y \in Sources[x] : words'[y] = K!Seen(y)
      BY <1>4, KeywordsBounds
    <3> QED
      BY <3>1, <3>2, <3>3
  <2> QED
    BY <2>1
<1> QED
  BY <1>5, <1>8, <1>10, <1>11, <1>12 DEF KeywordsInv

LEMMA KeywordsStep == KeywordsInv /\ [K!Next]_(K!vars) => KeywordsInv'
<1> SUFFICES ASSUME KeywordsInv, [K!Next]_(K!vars) PROVE KeywordsInv'
  OBVIOUS
<1>1. ASSUME NEW p \in K!Texts, K!Hide(p) PROVE KeywordsInv'
  BY <1>1, TextHidden
<1>2. ASSUME NEW p \in K!Texts, NEW w \in Words, K!Edit(p, w) PROVE KeywordsInv'
  BY <1>2, TextEdited
<1>3. ASSUME NEW t \in Jobs, K!Load(t) \/ K!Store(t) \/ K!Fail(t) PROVE KeywordsInv'
  BY <1>3, TaskLoads, TaskStores, TaskFails
<1>4. CASE K!StartSweep \/ K!Sweep \/ K!EndSweep \/ K!FailSweep
  BY <1>4, SweepStarts, SweepGoesOn, SweepEnds, SweepFails
<1>5. CASE UNCHANGED K!vars
  <2>1. UNCHANGED <<text, live, words, job, sweep, texts, calm, mixed>>
    BY <1>5 DEF K!vars
  <2> QED
    BY <2>1 DEF KeywordsInv, KeywordsTyped, JobsFit, FollowedFit, K!Busy, SweepFits, Passed, CalmFits,
         K!Seen, CalmFollows
<1> QED
  BY <1>1, <1>2, <1>3, <1>4, <1>5 DEF K!Next

LEMMA KeywordsHold == KeywordsInv => K!KeywordsFollow
<1> SUFFICES ASSUME KeywordsInv PROVE K!KeywordsFollow
  OBVIOUS
<1>1. \A p \in (live \cap K!Followed) \ mixed : ~K!Busy(p) => words[p] = {text[p]}
  BY DEF KeywordsInv, FollowedFit
<1>2. ASSUME calm, sweep.step = 0
      PROVE  /\ \A p \in live \cap K!Texts : words[p] = {text[p]}
             /\ \A x \in Things \ K!Texts : words[x] = UNION {words[y] : y \in Sources[x]}
  <2>1. /\ \A p \in live : words[p] = {text[p]}
        /\ \A x \in Things \ K!Texts : \A w \in Words :
             w \in words[x] <=> \E y \in Sources[x] : w \in words[y]
    BY <1>2 DEF KeywordsInv, CalmFollows
  <2>2. \A x \in Things : words[x] \subseteq Words /\ Sources[x] \subseteq Things
    BY KeywordsBounds DEF KeywordsInv, KeywordsTyped
  <2>3. ASSUME NEW x \in Things \ K!Texts PROVE words[x] = UNION {words[y] : y \in Sources[x]}
    <3>1. \A w : w \in words[x] => w \in UNION {words[y] : y \in Sources[x]}
      BY <2>1, <2>2
    <3>2. \A w : w \in UNION {words[y] : y \in Sources[x]} => w \in words[x]
      BY <2>1, <2>2
    <3> QED
      BY <3>1, <3>2
  <2> QED
    BY <2>1, <2>3
<1> QED
  BY <1>1, <1>2 DEF K!KeywordsFollow

LEMMA KeywordsTypeOK == KeywordsInv => K!TypeOK
  BY KeywordTypes, StagesAre DEF KeywordsInv, KeywordsTyped, K!TypeOK, KeywordJob, KeywordSweep

\* Keywords are those of the text they stand for once no task is at work on it, and a sweep gives
\* columns, sites and users those of the texts that it found, whatever texts are edited, hidden or
\* published while it runs (tasks.py, cached keywords of models).
THEOREM KeywordsAlwaysFollow == PlatformSpec => []KeywordsFollow
<1> DEFINE Inv == part = "keywords" => KeywordsInv
<1>1. PlatformInit => Inv
  BY KeywordsInit DEF PlatformInit
<1>2. Inv /\ [PlatformNext]_platformVars => Inv'
  BY RunsAlone, KeywordsStep DEF K!vars, keywords
<1>3. Inv => KeywordsFollow
  BY KeywordsHold DEF KeywordsFollow
<1> QED BY <1>1, <1>2, <1>3, PTL DEF PlatformSpec

-----------------------------------------------------------------------------
(* Search.                                                                *)

Rebuild == [at : 0..5, step : {"idle", "open", "create", "fetch", "add", "commit"},
            todo : SUBSET Docs, written : SUBSET Docs, failed : BOOLEAN]
OfType(t) == {d \in Docs : TypeOf[d] = t}

SearchTyped ==
  /\ row \in [Docs -> {"none", "draft", "shown", "hidden", "gone"}]
  /\ \A d \in Docs : row[d] \in S!Rows(TypeOf[d])
  /\ disk \in [S!Types -> {"absent", "empty", "ready"}]
  /\ index \in [S!Types -> SUBSET Docs] /\ \A t \in S!Types : index[t] \subseteq OfType(t)
  /\ rebuild \in Rebuild /\ edits \in 0..MaxEdits /\ troubles \in 0..MaxTroubles
  /\ kept \subseteq Docs /\ promised \subseteq Docs /\ dropped \subseteq promised /\ outdated \subseteq Docs

\* What the rebuild at work has fetched, and is still searchable, it adds or has added;
\* and so is what was promised of its type, unless it fails.
RebuildFits ==
  /\ rebuild.step # "idle" => rebuild.at \in 1..5
  /\ rebuild.step \in {"fetch", "add", "commit"} => disk[S!Target] = "ready"
  /\ rebuild.step # "idle" => rebuild.todo \cup rebuild.written \subseteq OfType(S!Target)
  /\ rebuild.step = "idle" => rebuild.todo \cup rebuild.written = {}
  /\ rebuild.step = "commit" <=> rebuild.failed
  /\ rebuild.step = "add" => kept \subseteq rebuild.todo \cup rebuild.written
  /\ rebuild.step = "add" => promised \cap OfType(S!Target) \subseteq kept
  /\ rebuild.step \notin {"add", "commit"} => kept = {}

\* What is promised can be read and is in its index unless it was dropped; what is
\* outdated is not in it.
IndexFits ==
  /\ \A d \in kept : S!Current(d)
  /\ \A d \in promised : S!Current(d) /\ disk[TypeOf[d]] = "ready"
  /\ \A d \in promised : d \in index[TypeOf[d]] <=> d \notin dropped
  /\ \A d \in outdated : d \notin index[TypeOf[d]]

SearchInv == SearchTyped /\ RebuildFits /\ IndexFits
-----------------------------------------------------------------------------
LEMMA OrderIs ==
  /\ S!Types = {"question", "site", "submission", "answer", "article"}
  /\ Len(S!Order) = 5 /\ \A n \in 1..5 : S!Order[n] \in S!Types
<1>1. /\ Len(S!Order) = 5 /\ DOMAIN S!Order = 1..5
      /\ S!Order[1] = "question" /\ S!Order[2] = "site" /\ S!Order[3] = "submission"
      /\ S!Order[4] = "answer" /\ S!Order[5] = "article"
  BY DEF S!Order
<1>2. S!Types = {S!Order[n] : n \in 1..5}
  BY <1>1 DEF S!Types
<1>3. 1..5 = {1, 2, 3, 4, 5}
  OBVIOUS
<1>4. S!Types = {S!Order[1], S!Order[2], S!Order[3], S!Order[4], S!Order[5]}
  BY <1>2, <1>3
<1> QED
  BY <1>1, <1>2, <1>4

LEMMA SearchTypes ==
  /\ S!Idle \in Rebuild /\ S!Idle.at = 0 /\ S!Idle.step = "idle" /\ ~S!Idle.failed
  /\ S!Idle.todo = {} /\ S!Idle.written = {}
  /\ \A d \in Docs : TypeOf[d] \in S!Types
  /\ \A d \in Docs : "none" \in S!Rows(TypeOf[d])
                     /\ S!Rows(TypeOf[d]) \subseteq {"none", "draft", "shown", "hidden", "gone"}
<1>1. \A d \in Docs : "none" \in S!Rows(TypeOf[d])
                     /\ S!Rows(TypeOf[d]) \subseteq {"none", "draft", "shown", "hidden", "gone"}
  BY SearchBounds DEF S!Rows
<1> QED
  BY <1>1, OrderIs, SearchBounds DEF S!Idle, Rebuild

LEMMA SearchInit == S!Init => SearchInv
  BY SearchTypes, SearchBounds DEF S!Init, SearchInv, SearchTyped, RebuildFits, IndexFits

LEMMA TargetIs ==
  ASSUME SearchTyped, RebuildFits, rebuild.step # "idle"
  PROVE  S!Target \in S!Types /\ S!Target = S!Order[rebuild.at] /\ rebuild.at \in 1..5
  BY OrderIs DEF RebuildFits, S!Target

LEMMA DocEdited == ASSUME SearchInv, NEW d0 \in Docs, S!Edit(d0) PROVE SearchInv'
<1>1. SearchTyped /\ RebuildFits /\ IndexFits
  BY DEF SearchInv
<1>2. PICK to \in S!Rows(TypeOf[d0]) :
        /\ S!Later(row[d0], to) /\ row' = [row EXCEPT ![d0] = to]
        /\ kept' = kept \ (IF to = "shown" THEN {} ELSE {d0})
        /\ promised' = promised \ (IF to = "shown" THEN {} ELSE {d0})
        /\ dropped' = dropped \ (IF to = "shown" THEN {} ELSE {d0})
        /\ outdated' = IF to = "shown" THEN outdated \ {d0} ELSE outdated
        /\ edits < MaxEdits /\ edits' = edits + 1
        /\ UNCHANGED <<disk, index, rebuild, troubles>>
  BY DEF S!Edit
<1>3. /\ row' \in [Docs -> {"none", "draft", "shown", "hidden", "gone"}] /\ row'[d0] = to
      /\ \A d \in Docs : d # d0 => row'[d] = row[d]
      /\ \A d \in Docs : row'[d] \in S!Rows(TypeOf[d])
  BY <1>1, <1>2, SearchTypes DEF SearchTyped
<1>4. edits' \in 0..MaxEdits
  BY <1>1, <1>2, SearchBounds DEF SearchTyped
<1>5. SearchTyped'
  BY <1>1, <1>2, <1>3, <1>4 DEF SearchTyped
<1>6. RebuildFits'
  BY <1>1, <1>2 DEF RebuildFits, S!Target, OfType
<1>7. \A d \in Docs : S!Current(d) /\ ~S!Current(d)' => d = d0 /\ to # "shown"
  BY <1>2, <1>3 DEF S!Current
<1>8. IndexFits'
  <2>1. \A d \in kept' \cup promised' : d \in Docs /\ (d \in kept' => d \in kept) /\ (d \in promised' => d \in promised)
                            /\ (d = d0 => to = "shown")
    BY <1>1, <1>2 DEF SearchTyped
  <2>2. /\ \A d \in outdated' : d \in outdated
        /\ \A d \in promised' : d \in dropped' <=> d \in dropped
    BY <1>2
  <2> QED
    BY <1>1, <1>2, <1>7, <2>1, <2>2 DEF IndexFits
<1> QED
  BY <1>5, <1>6, <1>8 DEF SearchInv

LEMMA RebuildStarts == ASSUME SearchInv, S!Start PROVE SearchInv'
<1>1. SearchTyped /\ RebuildFits /\ IndexFits
  BY DEF SearchInv
<1>2. /\ rebuild.step = "idle" /\ rebuild' = [S!Idle EXCEPT !.at = 1, !.step = "open"]
      /\ UNCHANGED <<row, disk, index, edits, troubles, kept, promised, dropped, outdated>>
  BY DEF S!Start, S!On, S!past
<1>3. /\ rebuild' \in Rebuild /\ rebuild'.at = 1 /\ rebuild'.step = "open" /\ rebuild'.todo = {}
      /\ rebuild'.written = {} /\ ~rebuild'.failed
  <2>1. rebuild' = [at |-> 1, step |-> "open", todo |-> {}, written |-> {}, failed |-> FALSE]
    BY <1>2 DEF S!Idle
  <2> QED
    BY <2>1 DEF Rebuild
<1>4. SearchTyped' /\ IndexFits'
  BY <1>1, <1>2, <1>3 DEF SearchTyped, IndexFits, S!Current
<1>5. RebuildFits'
  BY <1>1, <1>2, <1>3 DEF RebuildFits
<1> QED
  BY <1>4, <1>5 DEF SearchInv

\* A rebuild that stops before it has fetched anything, or because the process dies.
LEMMA RebuildStops ==
  ASSUME SearchInv, rebuild' = S!Idle, kept' = {}, troubles' \in 0..MaxTroubles,
         UNCHANGED <<row, disk, index, edits, promised, dropped, outdated>>
  PROVE  SearchInv'
<1>1. SearchTyped /\ RebuildFits /\ IndexFits
  BY DEF SearchInv
<1>2. SearchTyped'
  BY <1>1, SearchTypes DEF SearchTyped
<1>3. RebuildFits' /\ IndexFits'
  BY <1>1, SearchTypes DEF RebuildFits, IndexFits, S!Current
<1> QED
  BY <1>2, <1>3 DEF SearchInv

\* Opening, creating and adding: nothing changes but the rebuild and its directory.
LEMMA RebuildMoves ==
  ASSUME SearchInv, rebuild' \in Rebuild, rebuild.step # "idle", rebuild'.step # "idle",
         rebuild'.at = rebuild.at,
         disk' \in [S!Types -> {"absent", "empty", "ready"}],
         \A t \in S!Types : disk[t] = "ready" => disk'[t] = "ready",
         rebuild'.todo \cup rebuild'.written \subseteq OfType(S!Target),
         kept' \subseteq Docs, \A d \in kept' : S!Current(d),
         rebuild'.step \in {"fetch", "add", "commit"} => disk'[S!Target] = "ready",
         rebuild'.step = "commit" <=> rebuild'.failed,
         rebuild'.step = "add" => kept' \subseteq rebuild'.todo \cup rebuild'.written,
         rebuild'.step \notin {"add", "commit"} => kept' = {},
         troubles' \in 0..MaxTroubles,
         rebuild'.step = "add" => promised \cap OfType(S!Target) \subseteq kept',
         UNCHANGED <<row, index, edits, promised, dropped, outdated>>
  PROVE  SearchInv'
<1>1. SearchTyped /\ RebuildFits /\ IndexFits
  BY DEF SearchInv
<1>2. S!Target' = S!Target /\ rebuild'.at \in 1..5
  BY <1>1 DEF S!Target, RebuildFits
<1>3. SearchTyped'
  BY <1>1 DEF SearchTyped
<1>4. RebuildFits'
  BY <1>2 DEF RebuildFits, OfType
<1>5. IndexFits'
  BY <1>1, SearchTypes DEF SearchTyped, IndexFits, S!Current
<1> QED
  BY <1>3, <1>4, <1>5 DEF SearchInv

LEMMA RebuildOpens == ASSUME SearchInv, S!Open PROVE SearchInv'
<1>1. SearchTyped /\ RebuildFits /\ IndexFits
  BY DEF SearchInv
<1>2. /\ rebuild.step = "open" /\ rebuild \in Rebuild
      /\ UNCHANGED <<row, index, edits, troubles, kept, promised, dropped, outdated>> /\ kept = {} /\ ~rebuild.failed
      /\ rebuild.todo \cup rebuild.written \subseteq OfType(S!Target) /\ S!Target \in S!Types
      /\ troubles \in 0..MaxTroubles /\ disk \in [S!Types -> {"absent", "empty", "ready"}]
  BY <1>1, TargetIs DEF S!Open, S!On, S!past, SearchTyped, RebuildFits
<1>3. CASE disk[S!Target] = "ready" /\ rebuild' = [rebuild EXCEPT !.step = "fetch"] /\ UNCHANGED disk
  <2>1. /\ rebuild' \in Rebuild /\ rebuild'.step = "fetch" /\ rebuild'.at = rebuild.at
        /\ rebuild'.todo = rebuild.todo /\ rebuild'.written = rebuild.written
        /\ rebuild'.failed = rebuild.failed
    BY <1>2, <1>3 DEF Rebuild
  <2> QED
    BY <1>2, <1>3, <2>1, RebuildMoves
<1>4. CASE /\ disk[S!Target] = "absent" /\ disk' = [disk EXCEPT ![S!Target] = "empty"]
           /\ rebuild' = [rebuild EXCEPT !.step = "create"]
  <2>1. /\ rebuild' \in Rebuild /\ rebuild'.step = "create" /\ rebuild'.at = rebuild.at
        /\ rebuild'.todo = rebuild.todo /\ rebuild'.written = rebuild.written
        /\ rebuild'.failed = rebuild.failed
    BY <1>2, <1>4 DEF Rebuild
  <2>2. /\ disk' \in [S!Types -> {"absent", "empty", "ready"}]
        /\ \A t \in S!Types : disk[t] = "ready" => disk'[t] = "ready"
    BY <1>2, <1>4
  <2> QED
    BY <1>2, <2>1, <2>2, RebuildMoves
<1>5. CASE rebuild' = S!Idle /\ UNCHANGED disk
  BY <1>2, <1>5, RebuildStops
<1> QED
  BY <1>3, <1>4, <1>5 DEF S!Open

LEMMA RebuildCreates == ASSUME SearchInv, S!Create PROVE SearchInv'
<1>1. SearchTyped /\ RebuildFits /\ IndexFits
  BY DEF SearchInv
<1>2. /\ rebuild.step = "create" /\ rebuild \in Rebuild /\ disk' = [disk EXCEPT ![S!Target] = "ready"]
      /\ rebuild' = [rebuild EXCEPT !.step = "fetch"]
      /\ UNCHANGED <<row, index, edits, troubles, kept, promised, dropped, outdated>> /\ kept = {} /\ ~rebuild.failed
      /\ rebuild.todo \cup rebuild.written \subseteq OfType(S!Target) /\ S!Target \in S!Types
      /\ troubles \in 0..MaxTroubles /\ disk \in [S!Types -> {"absent", "empty", "ready"}]
  BY <1>1, TargetIs DEF S!Create, S!On, S!past, SearchTyped, RebuildFits
<1>3. /\ rebuild' \in Rebuild /\ rebuild'.step = "fetch" /\ rebuild'.at = rebuild.at
      /\ rebuild'.todo = rebuild.todo /\ rebuild'.written = rebuild.written
      /\ rebuild'.failed = rebuild.failed
  BY <1>2 DEF Rebuild
<1>4. /\ disk' \in [S!Types -> {"absent", "empty", "ready"}] /\ disk'[S!Target] = "ready"
      /\ \A t \in S!Types : disk[t] = "ready" => disk'[t] = "ready"
  BY <1>2
<1> QED
  BY <1>2, <1>3, <1>4, RebuildMoves

LEMMA RebuildFetches == ASSUME SearchInv, S!Fetch PROVE SearchInv'
<1>1. SearchTyped /\ RebuildFits /\ IndexFits
  BY DEF SearchInv
<1>2. /\ rebuild.step = "fetch" /\ rebuild \in Rebuild
      /\ rebuild' = [rebuild EXCEPT !.step = "add", !.todo = S!Fetched(S!Target)]
      /\ kept' = {d \in S!Fetched(S!Target) : S!Current(d)}
      /\ UNCHANGED <<row, disk, index, edits, troubles, promised, dropped, outdated>>
      /\ rebuild.todo \cup rebuild.written \subseteq OfType(S!Target) /\ S!Target \in S!Types
      /\ disk[S!Target] = "ready"
      /\ troubles \in 0..MaxTroubles /\ disk \in [S!Types -> {"absent", "empty", "ready"}]
  BY <1>1, TargetIs DEF S!Fetch, S!On, SearchTyped, RebuildFits
<1>4. S!Fetched(S!Target) \subseteq OfType(S!Target) /\ OfType(S!Target) \subseteq Docs
  BY DEF S!Fetched, OfType
<1>5. /\ rebuild' \in Rebuild /\ rebuild'.step = "add" /\ rebuild'.at = rebuild.at
      /\ rebuild'.todo = S!Fetched(S!Target) /\ rebuild'.written = rebuild.written
      /\ rebuild'.failed = rebuild.failed
  BY <1>2, <1>4 DEF Rebuild
<1>6. ~rebuild.failed
  BY <1>1, <1>2 DEF RebuildFits
<1>7. promised \cap OfType(S!Target) \subseteq kept'
  BY <1>1, <1>2 DEF IndexFits, OfType, S!Fetched, S!Indexable, S!Current
<1> QED
  BY <1>2, <1>4, <1>5, <1>6, <1>7, RebuildMoves

LEMMA DocumentAdded == ASSUME SearchInv, NEW d \in Docs, S!AddDocument(d) PROVE SearchInv'
<1>1. SearchTyped /\ RebuildFits /\ IndexFits
  BY DEF SearchInv
<1>2. /\ rebuild.step = "add" /\ d \in rebuild.todo /\ rebuild \in Rebuild
      /\ rebuild' = [rebuild EXCEPT !.todo = @ \ {d}, !.written = @ \cup {d}]
      /\ UNCHANGED <<row, disk, index, edits, troubles, kept, promised, dropped, outdated>>
      /\ rebuild.todo \cup rebuild.written \subseteq OfType(S!Target) /\ S!Target \in S!Types
      /\ disk[S!Target] = "ready" /\ ~rebuild.failed /\ kept \subseteq rebuild.todo \cup rebuild.written
      /\ promised \cap OfType(S!Target) \subseteq kept
      /\ troubles \in 0..MaxTroubles /\ disk \in [S!Types -> {"absent", "empty", "ready"}]
      /\ kept \subseteq Docs /\ \A e \in kept : S!Current(e)
  BY <1>1, TargetIs DEF S!AddDocument, S!On, S!past, SearchTyped, RebuildFits, IndexFits
<1>3. /\ rebuild' \in Rebuild /\ rebuild'.step = "add" /\ rebuild'.at = rebuild.at
      /\ rebuild'.todo = rebuild.todo \ {d} /\ rebuild'.written = rebuild.written \cup {d}
      /\ rebuild'.failed = rebuild.failed
  <2>1. /\ rebuild.step = "add" /\ rebuild \in Rebuild
        /\ rebuild' = [rebuild EXCEPT !.todo = @ \ {d}, !.written = @ \cup {d}]
    BY <1>2
  <2> QED
    BY <2>1 DEF Rebuild
<1>4. /\ kept' \subseteq rebuild'.todo \cup rebuild'.written /\ kept' = kept /\ kept' \subseteq Docs
      /\ promised \cap OfType(S!Target) \subseteq kept' /\ \A e \in kept' : S!Current(e)
      /\ rebuild'.todo \cup rebuild'.written \subseteq OfType(S!Target)
  BY <1>2, <1>3
<1>5. /\ troubles' \in 0..MaxTroubles /\ UNCHANGED <<row, index, edits, promised, dropped, outdated>>
      /\ disk' \in [S!Types -> {"absent", "empty", "ready"}] /\ disk'[S!Target] = "ready"
      /\ \A t \in S!Types : disk[t] = "ready" => disk'[t] = "ready"
  BY <1>2
<1>6. /\ rebuild.step # "idle" /\ rebuild'.step # "idle" /\ rebuild'.step \in {"fetch", "add", "commit"}
      /\ (rebuild'.step = "commit" <=> rebuild'.failed)
  BY <1>2, <1>3
<1> QED
  BY <1>3, <1>4, <1>5, <1>6, RebuildMoves

LEMMA RebuildRaises == ASSUME SearchInv, S!Raise PROVE SearchInv'
<1>1. SearchTyped /\ RebuildFits /\ IndexFits
  BY DEF SearchInv
<1>2. /\ rebuild.step \in {"fetch", "add"} /\ rebuild \in Rebuild
      /\ rebuild' = [rebuild EXCEPT !.step = "commit", !.failed = TRUE]
      /\ troubles < MaxTroubles /\ troubles' = troubles + 1 /\ troubles \in 0..MaxTroubles
      /\ UNCHANGED <<row, disk, index, edits, kept, promised, dropped, outdated>>
      /\ rebuild.todo \cup rebuild.written \subseteq OfType(S!Target) /\ S!Target \in S!Types
      /\ disk[S!Target] = "ready" /\ disk \in [S!Types -> {"absent", "empty", "ready"}]
      /\ kept \subseteq Docs /\ \A e \in kept : S!Current(e)
  BY <1>1, TargetIs DEF S!Raise, S!On, S!past, SearchTyped, RebuildFits, IndexFits
<1>3. /\ rebuild' \in Rebuild /\ rebuild'.step = "commit" /\ rebuild'.at = rebuild.at
      /\ rebuild'.todo = rebuild.todo /\ rebuild'.written = rebuild.written /\ rebuild'.failed
  BY <1>2 DEF Rebuild
<1>4. troubles' \in 0..MaxTroubles
  BY <1>2, SearchBounds
<1> QED
  BY <1>2, <1>3, <1>4, RebuildMoves

LEMMA RebuildCommits == ASSUME SearchInv, S!Commit PROVE SearchInv'
<1>1. SearchTyped /\ RebuildFits /\ IndexFits
  BY DEF SearchInv
<1>2. /\ (rebuild.step = "add" /\ rebuild.todo = {}) \/ rebuild.step = "commit"
      /\ index' = [index EXCEPT ![S!Target] = rebuild.written]
      /\ rebuild' = IF rebuild.failed \/ rebuild.at = 5 THEN S!Idle
                    ELSE [S!Idle EXCEPT !.at = rebuild.at + 1, !.step = "open"]
      /\ promised' = promised \cup (kept \cap rebuild.written)
      /\ dropped' = (dropped \ S!OfTarget) \cup
           (IF rebuild.failed THEN (promised \cap S!OfTarget) \ rebuild.written ELSE {})
      /\ outdated' = (outdated \ S!OfTarget) \cup {d \in S!OfTarget \ rebuild.written : ~S!Current(d)}
      /\ kept' = {} /\ UNCHANGED <<row, disk, edits, troubles>>
  BY OrderIs DEF S!Commit, S!On, S!Committed
<1>3. /\ rebuild \in Rebuild /\ S!Target \in S!Types /\ rebuild.at \in 1..5
      /\ rebuild.todo \cup rebuild.written \subseteq OfType(S!Target) /\ disk[S!Target] = "ready"
      /\ ~rebuild.failed => kept \subseteq rebuild.written /\ promised \cap OfType(S!Target) \subseteq kept
  BY <1>1, <1>2, TargetIs DEF SearchTyped, RebuildFits
<1>4. S!OfTarget = OfType(S!Target) /\ OfType(S!Target) \subseteq Docs
  BY DEF S!OfTarget, OfType
<1>5. /\ index' \in [S!Types -> SUBSET Docs] /\ index'[S!Target] = rebuild.written
      /\ \A t \in S!Types : t # S!Target => index'[t] = index[t]
      /\ \A t \in S!Types : index'[t] \subseteq OfType(t)
  BY <1>1, <1>2, <1>3, <1>4 DEF SearchTyped
<1>6. /\ rebuild' \in Rebuild /\ rebuild'.step \in {"idle", "open"} /\ rebuild'.todo = {}
      /\ rebuild'.written = {} /\ (rebuild'.step # "idle" => rebuild'.at \in 1..5) /\ ~rebuild'.failed
  <2>1. CASE rebuild.failed \/ rebuild.at = 5
    BY <1>2, <2>1, SearchTypes
  <2>2. CASE ~(rebuild.failed \/ rebuild.at = 5)
    <3>1. rebuild.at + 1 \in 1..5 /\ rebuild.at + 1 \in 0..5
      BY <1>3, <2>2
    <3>2. rebuild' = [S!Idle EXCEPT !.at = rebuild.at + 1, !.step = "open"]
      BY <1>2, <2>2
    <3> QED
      BY <3>1, <3>2 DEF Rebuild, S!Idle
  <2> QED
    BY <2>1, <2>2
<1>7. SearchTyped'
  <2>1. promised' \subseteq Docs /\ dropped' \subseteq promised' /\ outdated' \subseteq Docs /\ kept' \subseteq Docs
    BY <1>1, <1>2, <1>4 DEF SearchTyped
  <2> QED
    BY <1>1, <1>2, <1>5, <1>6, <2>1 DEF SearchTyped, OfType
<1>8. RebuildFits'
  BY <1>2, <1>6 DEF RebuildFits
<1>9. IndexFits'
  <2>1. ASSUME NEW d \in promised'
        PROVE  /\ S!Current(d)' /\ disk'[TypeOf[d]] = "ready"
               /\ d \in index'[TypeOf[d]] <=> d \notin dropped'
    <3>1. CASE d \in promised \ OfType(S!Target)
      <4>1. d \in Docs /\ TypeOf[d] # S!Target /\ TypeOf[d] \in S!Types
        BY <1>1, <3>1, SearchTypes DEF SearchTyped, OfType
      <4>2. d \in dropped' <=> d \in dropped
        BY <1>2, <1>4, <3>1
      <4> QED
        BY <1>1, <1>2, <1>5, <3>1, <4>1, <4>2 DEF IndexFits, S!Current
    <3>2. CASE d \in promised \cap OfType(S!Target)
      <4>1. d \in Docs /\ TypeOf[d] = S!Target
        BY <3>2 DEF OfType
      <4>2. S!Current(d)' /\ disk'[TypeOf[d]] = "ready"
        BY <1>1, <1>2, <1>3, <3>2, <4>1 DEF IndexFits, S!Current
      <4>3. d \in dropped' <=> d \notin rebuild.written
        <5>1. CASE rebuild.failed
          BY <1>2, <1>4, <3>2, <5>1
        <5>2. CASE ~rebuild.failed
          BY <1>2, <1>3, <1>4, <3>2, <5>2
        <5> QED
          BY <5>1, <5>2
      <4> QED
        BY <1>5, <4>1, <4>2, <4>3
    <3>3. CASE d \in kept \cap rebuild.written /\ d \notin promised
      <4>1. d \in rebuild.written /\ TypeOf[d] = S!Target
        BY <1>3, <3>3 DEF OfType
      <4>2. d \notin dropped'
        BY <1>1, <1>2, <3>3 DEF SearchTyped
      <4> QED
        BY <1>1, <1>2, <1>3, <1>5, <3>3, <4>1, <4>2 DEF IndexFits, S!Current
    <3> QED
      BY <1>2, <3>1, <3>2, <3>3
  <2>2. ASSUME NEW d \in outdated' PROVE d \notin index'[TypeOf[d]]
    <3>1. CASE d \in outdated \ S!OfTarget
      <4>1. d \in Docs /\ TypeOf[d] # S!Target /\ TypeOf[d] \in S!Types
        BY <1>1, <1>4, <3>1, SearchTypes DEF SearchTyped, OfType
      <4> QED
        BY <1>1, <1>5, <3>1, <4>1 DEF IndexFits
    <3>2. CASE d \in S!OfTarget \ rebuild.written
      BY <1>4, <1>5, <3>2 DEF OfType
    <3> QED
      BY <1>2, <3>1, <3>2
  <2> QED
    BY <1>2, <2>1, <2>2 DEF IndexFits
<1> QED
  BY <1>7, <1>8, <1>9 DEF SearchInv

LEMMA SearchStep == SearchInv /\ [S!Next]_(S!vars) => SearchInv'
<1> SUFFICES ASSUME SearchInv, [S!Next]_(S!vars) PROVE SearchInv'
  OBVIOUS
<1>1. CASE S!Start \/ S!Open \/ S!Create \/ S!Fetch \/ S!Raise \/ S!Commit
  BY <1>1, RebuildStarts, RebuildOpens, RebuildCreates, RebuildFetches, RebuildRaises, RebuildCommits
<1>2. ASSUME NEW d \in Docs, S!Edit(d) \/ S!AddDocument(d) PROVE SearchInv'
  BY <1>2, DocEdited, DocumentAdded
<1>3. CASE S!Crash
  <2>1. troubles' \in 0..MaxTroubles
    BY <1>3, SearchBounds DEF S!Crash, SearchInv, SearchTyped
  <2> QED
    BY <1>3, <2>1, RebuildStops DEF S!Crash
<1>4. CASE UNCHANGED S!vars
  <2>1. UNCHANGED <<row, disk, index, rebuild, edits, troubles, kept, promised, dropped, outdated>>
    BY <1>4 DEF S!vars, S!past
  <2> QED
    BY <2>1 DEF SearchInv, SearchTyped, RebuildFits, IndexFits, S!Target, S!Current
<1> QED
  BY <1>1, <1>2, <1>3, <1>4 DEF S!Next

LEMMA SearchHolds == SearchInv => S!SearchIsHonest
<1> SUFFICES ASSUME SearchInv, NEW d \in Docs
             PROVE  /\ d \in promised => (d \in S!Results(TypeOf[d]) <=> d \notin dropped)
                    /\ d \in S!Results(TypeOf[d]) /\ ~S!Current(d) =>
                         TypeOf[d] = "question" /\ d \notin outdated
  BY DEF S!SearchIsHonest
<1>1. /\ TypeOf[d] \in {"question", "site", "submission", "answer", "article"}
      /\ row[d] \in {"none", "draft", "shown", "hidden", "gone"}
  BY SearchBounds DEF SearchInv, SearchTyped
<1>2. ASSUME d \in promised PROVE d \in S!Results(TypeOf[d]) <=> d \notin dropped
  <2>1. /\ row[d] = "shown" /\ disk[TypeOf[d]] = "ready"
        /\ d \in index[TypeOf[d]] <=> d \notin dropped
    BY <1>2 DEF SearchInv, IndexFits, S!Current
  <2>2. d \in S!Found(TypeOf[d]) <=> d \in index[TypeOf[d]]
    BY <2>1 DEF S!Found, S!Hits
  <2>3. S!Presents(d)
    BY <1>1, <2>1 DEF S!Presents, S!Current
  <2> QED
    BY <2>1, <2>2, <2>3 DEF S!Results
<1>3. ASSUME d \in S!Results(TypeOf[d]), ~S!Current(d)
      PROVE  TypeOf[d] = "question" /\ d \notin outdated
  <2>1. d \in S!Found(TypeOf[d]) /\ S!Presents(d) /\ row[d] # "shown"
    BY <1>3 DEF S!Results, S!Current
  <2>2. row[d] # "none"
    BY <2>1 DEF S!Found, S!Fetched, S!Indexable
  <2>3. TypeOf[d] = "question"
    <3>1. CASE TypeOf[d] = "answer"
      BY <1>1, <2>1, <2>2, <3>1 DEF S!Presents
    <3>2. CASE TypeOf[d] \notin {"question", "answer"}
      BY <1>3, <2>1, <3>2 DEF S!Presents
    <3> QED
      BY <3>1, <3>2
  <2>4. d \in index[TypeOf[d]]
    <3>1. d \notin S!Fetched(TypeOf[d])
      BY <2>1, <2>3 DEF S!Fetched, S!Indexable
    <3> QED
      BY <2>1, <3>1 DEF S!Found, S!Hits
  <2> QED
    BY <2>3, <2>4 DEF SearchInv, IndexFits
<1> QED
  BY <1>2, <1>3

LEMMA SearchTypeOK == SearchInv => S!TypeOK
<1> SUFFICES ASSUME SearchInv PROVE S!TypeOK
  OBVIOUS
<1>1. SearchTyped
  BY DEF SearchInv
<1>2. rebuild.at \in 0..Len(S!Order) /\ rebuild.todo \cup rebuild.written \subseteq Docs
  BY <1>1, OrderIs DEF SearchTyped, Rebuild
<1>3. \A t \in S!Types : index[t] \subseteq {d \in Docs : TypeOf[d] = t}
  BY <1>1 DEF SearchTyped, OfType
<1>4. kept \cup promised \cup outdated \subseteq Docs /\ dropped \subseteq promised
  BY <1>1 DEF SearchTyped
<1> QED
  BY <1>1, <1>2, <1>3, <1>4 DEF SearchTyped, S!TypeOK

\* Whatever a rebuild has committed and could be read ever since is found, unless the last
\* rebuild of its kind failed before it had written it, and then it is not; and nothing that
\* cannot be read is found, but the title of a question hidden since the last rebuild of the
\* questions began, however rebuilds, their failures, crashes and edits interleave.
THEOREM SearchAlwaysHonest == PlatformSpec => []SearchIsHonest
<1> DEFINE Inv == part = "search" => SearchInv
<1>1. PlatformInit => Inv
  BY SearchInit DEF PlatformInit
<1>2. Inv /\ [PlatformNext]_platformVars => Inv'
  BY RunsAlone, SearchStep DEF S!vars, S!past, searching
<1>3. Inv => SearchIsHonest
  BY SearchHolds DEF SearchIsHonest
<1> QED BY <1>1, <1>2, <1>3, PTL DEF PlatformSpec

-----------------------------------------------------------------------------
(* Signin.                                                                *)

SigninTyped ==
  /\ account \in [People -> G!Row] /\ tokens \subseteq People \ Retired /\ letters \subseteq Addresses
  /\ call \in [Slots -> G!Call] /\ calls \in 0..MaxCalls

\* A request on an account whose requests do not overlap has its row as it is.
CallFits(q, r) == q.row = r /\ (q.op = "login" => q.w = r.password)

CallsFit ==
  /\ \A s \in Slots : LET q == call[s] IN
       /\ q.pc = "idle" \/ q.pc = "audit" => ~q.logs
       /\ q.pc # "idle" => /\ q.a \in Addresses /\ q.row.email = q.a
                           /\ q.op = "login" => q.p \notin Retired
                           /\ q.p \in Careful => CallFits(q, account[q.p])
  /\ \A s, t \in Slots :
       call[s].pc # "idle" /\ call[t].pc # "idle" /\ call[s].p = call[t].p /\ call[s].p \in Careful => s = t

\* What the audit log tells of, or would have, or is about to.
Told == trail \cup failed \cup {G!Entry(call[s]) : s \in {t \in Slots : call[t].logs}}

LogFits ==
  /\ keys \subseteq Told /\ acts \subseteq Told
  /\ \A s \in Slots : call[s].pc \in {"mail", "commit"} /\ call[s].op # "update" => G!Entry(call[s]) \in Told

SigninInv ==
  /\ SigninTyped /\ CallsFit /\ LogFits
  /\ strays \cap Careful = {}
  /\ \A p \in People : p \in Careful => account[p].karma = Cardinality(account[p].filled)
-----------------------------------------------------------------------------
LEMMA SigninTypes ==
  /\ G!SomePassword \in Passwords /\ G!SomePerson \in People
  /\ \A p \in People : /\ G!FirstRow(p) \in G!Row /\ G!FirstRow(p).karma = 0 /\ G!FirstRow(p).filled = {}
  /\ G!NoChange \in G!Change /\ G!Changes \subseteq G!Change
  /\ G!NoCall \in G!Call /\ G!NoCall.pc = "idle" /\ ~G!NoCall.logs
<1>1. G!SomePassword \in Passwords /\ G!SomePerson \in People
  BY SigninBounds DEF G!SomePassword, G!SomePerson
<1>2. \A p \in People : G!FirstRow(p) \in G!Row /\ G!FirstRow(p).karma = 0 /\ G!FirstRow(p).filled = {}
  BY <1>1, SigninBounds DEF G!FirstRow, G!Row
<1>3. G!NoChange \in G!Change
  BY <1>1 DEF G!NoChange, G!Change
<1>4. G!Changes \subseteq G!Change
  <2> SUFFICES ASSUME NEW c \in G!Changes PROVE c \in G!Change
    OBVIOUS
  <2>1. CASE \E f \in SUBSET Profile : c = [G!NoChange EXCEPT !.to = f]
    BY <1>3, <2>1 DEF G!Change
  <2>2. CASE \E w \in Passwords : c = [G!NoChange EXCEPT !.what = "password", !.secret = w]
    BY <1>3, <2>2 DEF G!Change
  <2>3. CASE \E b \in BOOLEAN : c = [G!NoChange EXCEPT !.what = "flags", !.flag = b]
    BY <1>3, <2>3 DEF G!Change
  <2> QED
    BY <2>1, <2>2, <2>3 DEF G!Changes
<1>5. G!NoCall \in G!Call /\ G!NoCall.pc = "idle" /\ ~G!NoCall.logs
  BY <1>1, <1>2, <1>3 DEF G!NoCall, G!Call, G!Ops
<1> QED
  BY <1>1, <1>2, <1>3, <1>4, <1>5

LEMMA SigninInit == G!Init => SigninInv
<1> SUFFICES ASSUME G!Init PROVE SigninInv
  OBVIOUS
<1>1. \A s \in Slots : call[s] = G!NoCall
  BY DEF G!Init
<1>2. SigninTyped
  BY SigninTypes, SigninBounds DEF G!Init, SigninTyped
<1>3. CallsFit
  BY <1>1, SigninTypes DEF CallsFit
<1>4. LogFits
  BY <1>1, SigninTypes DEF G!Init, LogFits
<1>5. \A p \in People : account[p].karma = Cardinality(account[p].filled)
  BY SigninTypes, FS_EmptySet DEF G!Init
<1> QED
  BY <1>2, <1>3, <1>4, <1>5 DEF SigninInv, G!Init

LEMMA CallMoves ==
  ASSUME SigninTyped, NEW s \in Slots, NEW q \in G!Call, call' = [call EXCEPT ![s] = q]
  PROVE  /\ call' \in [Slots -> G!Call] /\ call'[s] = q
         /\ \A t \in Slots : t # s => call'[t] = call[t]
  BY DEF SigninTyped

LEMMA ToldIs ==
  \A k : k \in Told <=> \/ k \in trail \/ k \in failed
                        \/ \E s \in Slots : call[s].logs /\ k = G!Entry(call[s])
  BY DEF Told

LEMMA ToldThen ==
  \A k : k \in Told' <=> \/ k \in trail' \/ k \in failed'
                         \/ \E s \in Slots : call'[s].logs /\ k = G!Entry(call'[s])
  BY DEF Told, G!Entry

\* What a request was about to tell, it still is, or it is in the log, or the request has failed.
LEMMA ToldGrows ==
  ASSUME SigninTyped, NEW s \in Slots, NEW q \in G!Call, call' = [call EXCEPT ![s] = q],
         trail \subseteq trail', failed \subseteq failed',
         call[s].logs => \/ G!Entry(call[s]) \in trail' \/ G!Entry(call[s]) \in failed'
                         \/ q.logs /\ G!Entry(q) = G!Entry(call[s])
  PROVE  Told \subseteq Told'
<1> SUFFICES ASSUME NEW k \in Told PROVE k \in Told'
  OBVIOUS
<1>1. call'[s] = q /\ \A t \in Slots : t # s => call'[t] = call[t]
  BY CallMoves
<1>2. CASE k \in trail \/ k \in failed
  BY <1>2, ToldThen
<1>3. CASE \E t \in Slots : call[t].logs /\ k = G!Entry(call[t])
  <2>1. PICK t \in Slots : call[t].logs /\ k = G!Entry(call[t])
    BY <1>3
  <2>2. CASE t = s
    BY <1>1, <2>1, <2>2, ToldThen
  <2>3. CASE t # s
    BY <1>1, <2>1, <2>3, ToldThen
  <2> QED
    BY <2>2, <2>3
<1> QED
  BY <1>2, <1>3, ToldIs

\* A step of the request of s, while no account changes.
LEMMA CallGoesOn ==
  ASSUME SigninInv, NEW s \in Slots, NEW q \in G!Call, call' = [call EXCEPT ![s] = q],
         UNCHANGED <<account, acts, strays, tokens, trail>>, failed \subseteq failed',
         letters' \subseteq Addresses, calls' \in 0..MaxCalls,
         q.pc \in {"idle", "audit"} => ~q.logs,
         q.pc # "idle" => /\ q.a \in Addresses /\ q.row.email = q.a
                          /\ q.op = "login" => q.p \notin Retired
                          /\ q.p \in Careful => CallFits(q, account[q.p]),
         q.pc # "idle" /\ q.p \in Careful =>
           \A t \in Slots : call[t].pc # "idle" /\ call[t].p = q.p => t = s,
         call[s].logs => G!Entry(call[s]) \in failed' \/ (q.logs /\ G!Entry(q) = G!Entry(call[s])),
         keys' \subseteq Told',
         q.pc \in {"mail", "commit"} /\ q.op # "update" => G!Entry(q) \in Told'
  PROVE  SigninInv'
<1>1. SigninTyped /\ CallsFit /\ LogFits
  BY DEF SigninInv
<1>2. call' \in [Slots -> G!Call] /\ call'[s] = q /\ \A t \in Slots : t # s => call'[t] = call[t]
  BY <1>1, CallMoves
<1>3. SigninTyped'
  BY <1>1, <1>2 DEF SigninTyped
<1>4. ASSUME NEW t \in Slots
      PROVE  /\ call'[t].pc = "idle" \/ call'[t].pc = "audit" => ~call'[t].logs
             /\ call'[t].pc # "idle" =>
                  /\ call'[t].a \in Addresses /\ call'[t].row.email = call'[t].a
                  /\ call'[t].op = "login" => call'[t].p \notin Retired
                  /\ call'[t].p \in Careful => CallFits(call'[t], account[call'[t].p])
  <2>1. CASE t = s
    BY <1>2, <2>1
  <2>2. CASE t # s
    BY <1>1, <1>2, <2>2 DEF CallsFit
  <2> QED
    BY <2>1, <2>2
<1>5. ASSUME NEW t \in Slots, NEW u \in Slots, call'[t].pc # "idle", call'[u].pc # "idle",
             call'[t].p = call'[u].p, call'[t].p \in Careful
      PROVE  t = u
  <2>1. CASE t = s \/ u = s
    BY <1>2, <1>5, <2>1
  <2>2. CASE t # s /\ u # s
    BY <1>1, <1>2, <1>5, <2>2 DEF CallsFit
  <2> QED
    BY <2>1, <2>2
<1>6. CallsFit'
  BY <1>4, <1>5 DEF CallsFit, CallFits
<1>7. Told \subseteq Told'
  BY <1>1, ToldGrows
<1>8. LogFits'
  <2>1. ASSUME NEW t \in Slots, call'[t].pc \in {"mail", "commit"}, call'[t].op # "update"
        PROVE  G!Entry(call'[t]) \in Told'
    <3>1. CASE t = s
      BY <1>2, <2>1, <3>1
    <3>2. CASE t # s
      BY <1>1, <1>2, <1>7, <2>1, <3>2 DEF LogFits
    <3> QED
      BY <3>1, <3>2
  <2>2. acts' \subseteq Told'
    BY <1>1, <1>7 DEF LogFits
  <2>3. \A t \in Slots : G!Entry(call[t])' = G!Entry(call'[t])
    BY DEF G!Entry
  <2> QED
    BY <2>1, <2>2, <2>3 DEF LogFits
<1> QED
  BY <1>3, <1>6, <1>8 DEF SigninInv

LEMMA CallStarts ==
  ASSUME SigninInv, NEW s \in Slots, NEW q \in G!Call, G!Starts(s, q),
         q.pc = "audit" \/ (q.pc = "commit" /\ q.op = "update"), ~q.logs,
         q.a = account[q.p].email, q.row = account[q.p],
         q.op = "login" => q.w = account[q.p].password /\ q.p \notin Retired
  PROVE  SigninInv'
<1>1. SigninTyped /\ CallsFit /\ LogFits
  BY DEF SigninInv
<1>2. /\ call[s].pc = "idle" /\ calls < MaxCalls /\ account[q.p].email # NoAddress
      /\ q.p \in Careful => G!Idle(q.p)
      /\ call' = [call EXCEPT ![s] = q] /\ calls' = calls + 1
      /\ UNCHANGED <<account, tokens, letters, keys, trail, acts, failed, strays>>
  BY DEF G!Starts, G!past
<1>3. q.a \in Addresses /\ q.row.email = q.a
  BY <1>1, <1>2 DEF SigninTyped, G!Row, G!Call
<1>4. ~call[s].logs
  BY <1>1, <1>2 DEF CallsFit
<1>5. Told \subseteq Told'
  BY <1>1, <1>2, <1>4, ToldGrows
<1>6. keys' \subseteq Told'
  BY <1>1, <1>2, <1>5 DEF LogFits
<1>7. q.p \in Careful => \A t \in Slots : call[t].pc # "idle" /\ call[t].p = q.p => t = s
  BY <1>2 DEF G!Idle
<1>8. calls' \in 0..MaxCalls /\ letters' \subseteq Addresses
  BY <1>1, <1>2, SigninBounds DEF SigninTyped
<1>9. q.p \in Careful => CallFits(q, account[q.p])
  BY DEF CallFits
<1> QED
  BY <1>2, <1>3, <1>4, <1>6, <1>7, <1>8, <1>9, CallGoesOn

LEMMA AsksIs ==
  ASSUME SigninTyped, NEW op \in G!Ops, NEW p \in People, NEW w \in Passwords,
         NEW q, q = G!Asks(op, p, w)
  PROVE  /\ q \in G!Call /\ q.pc = "audit" /\ q.op = op /\ q.p = p /\ q.a = account[p].email
         /\ q.w = w /\ q.row = account[p] /\ q.change = G!NoChange /\ ~q.logs
<1>1. q = [pc |-> "audit", op |-> op, p |-> p, a |-> account[p].email, w |-> w,
           row |-> account[p], change |-> G!NoChange, logs |-> FALSE]
  BY DEF G!Asks, G!NoCall
<1>2. account[p] \in G!Row /\ account[p].email \in Addresses \cup {NoAddress}
  BY DEF SigninTyped, G!Row
<1> QED
  BY <1>1, <1>2, SigninTypes DEF G!Call

LEMMA SomeCallStarts ==
  ASSUME SigninInv, NEW s \in Slots,
         G!LoginWithPassword(s) \/ G!RecoverPassword(s) \/ G!ResetPassword(s) \/ G!UpdateMe(s)
  PROVE  SigninInv'
<1>1. SigninTyped
  BY DEF SigninInv
<1>2. {"login", "recover", "reset", "update"} = G!Ops
  BY DEF G!Ops
<1>3. CASE G!LoginWithPassword(s)
  <2>1. PICK p \in People \ Retired : G!Starts(s, G!Asks("login", p, account[p].password))
    BY <1>3 DEF G!LoginWithPassword
  <2>2. account[p].password \in Passwords
    BY <1>1 DEF SigninTyped, G!Row
  <2> SUFFICES ASSUME NEW q, q = G!Asks("login", p, account[p].password) PROVE SigninInv'
    OBVIOUS
  <2>3. /\ q \in G!Call /\ q.pc = "audit" /\ q.p = p /\ q.a = account[p].email
        /\ q.w = account[p].password /\ q.row = account[p] /\ ~q.logs
    BY <1>1, <1>2, <2>2, AsksIs
  <2> QED
    BY <2>1, <2>3, CallStarts
<1>4. CASE G!RecoverPassword(s)
  <2>1. PICK p \in People : G!Starts(s, G!Asks("recover", p, G!SomePassword))
    BY <1>4 DEF G!RecoverPassword
  <2> SUFFICES ASSUME NEW q, q = G!Asks("recover", p, G!SomePassword) PROVE SigninInv'
    OBVIOUS
  <2>2. /\ q \in G!Call /\ q.pc = "audit" /\ q.op = "recover" /\ q.p = p /\ q.a = account[p].email
        /\ q.row = account[p] /\ ~q.logs
    BY <1>1, <1>2, SigninTypes, AsksIs
  <2> QED
    BY <2>1, <2>2, CallStarts
<1>5. CASE G!ResetPassword(s)
  <2>1. PICK p \in People \ Retired, w \in Passwords : G!Starts(s, G!Asks("reset", p, w))
    BY <1>5 DEF G!ResetPassword
  <2> SUFFICES ASSUME NEW q, q = G!Asks("reset", p, w) PROVE SigninInv'
    OBVIOUS
  <2>2. /\ q \in G!Call /\ q.pc = "audit" /\ q.op = "reset" /\ q.p = p /\ q.a = account[p].email
        /\ q.row = account[p] /\ ~q.logs
    BY <1>1, <1>2, AsksIs
  <2> QED
    BY <2>1, <2>2, CallStarts
<1>6. CASE G!UpdateMe(s)
  <2>1. PICK p \in tokens, c \in G!Changes :
          G!Starts(s, [G!Asks("update", p, G!SomePassword) EXCEPT !.pc = "commit", !.change = c])
    BY <1>6 DEF G!UpdateMe
  <2>2. p \in People /\ c \in G!Change
    BY <1>1, SigninTypes DEF SigninTyped
  <2> SUFFICES ASSUME NEW q0, q0 = G!Asks("update", p, G!SomePassword),
                      NEW q, q = [q0 EXCEPT !.pc = "commit", !.change = c]
               PROVE  SigninInv'
    OBVIOUS
  <2>3. /\ q0 \in G!Call /\ q0.op = "update" /\ q0.p = p /\ q0.a = account[p].email
        /\ q0.row = account[p] /\ ~q0.logs
    <3>1. "update" \in G!Ops /\ G!SomePassword \in Passwords
      BY <1>2, SigninTypes
    <3> QED
      BY <1>1, <2>2, <3>1, AsksIs
  <2>4. /\ q \in G!Call /\ q.pc = "commit" /\ q.op = "update" /\ q.p = p /\ q.a = account[p].email
        /\ q.row = account[p] /\ ~q.logs
    BY <2>2, <2>3 DEF G!Call
  <2> QED
    BY <2>1, <2>4, CallStarts
<1> QED
  BY <1>3, <1>4, <1>5, <1>6

LEMMA CallAudits == ASSUME SigninInv, NEW s \in Slots, G!Audit(s) PROVE SigninInv'
<1>1. SigninTyped /\ CallsFit /\ LogFits
  BY DEF SigninInv
<1>2. call[s] \in G!Call
  BY <1>1 DEF SigninTyped
<1> SUFFICES ASSUME NEW q0, q0 = call[s], NEW b, b = (G!Entry(q0) \notin keys),
                    NEW q, q = [q0 EXCEPT !.pc = IF q0.op = "recover" THEN "mail" ELSE "commit",
                                          !.logs = b]
             PROVE  SigninInv'
  OBVIOUS
<1>3. /\ q0.pc = "audit" /\ keys' = keys \cup {G!Entry(q0)}
      /\ call' = [call EXCEPT ![s] = q]
      /\ UNCHANGED <<account, tokens, letters, trail, calls, acts, failed, strays>>
  BY <1>1 DEF G!Audit, G!past, SigninTyped
<1>4. b \in BOOLEAN
  OBVIOUS
<1>5. /\ q \in G!Call /\ q.pc \in {"mail", "commit"} /\ q.op = q0.op /\ q.p = q0.p /\ q.a = q0.a
      /\ q.w = q0.w /\ q.row = q0.row /\ q.logs = b
  BY <1>2, <1>4 DEF G!Call
<1>6. G!Entry(q) = G!Entry(q0)
  BY <1>5 DEF G!Entry
<1>7. /\ ~q0.logs /\ q0.a \in Addresses /\ q0.row.email = q0.a
      /\ q0.op = "login" => q0.p \notin Retired
      /\ q0.p \in Careful => CallFits(q0, account[q0.p])
      /\ q0.p \in Careful => \A t \in Slots : call[t].pc # "idle" /\ call[t].p = q0.p => t = s
  BY <1>1, <1>3 DEF CallsFit
<1>8. Told \subseteq Told'
  BY <1>1, <1>3, <1>5, <1>7, ToldGrows
<1>9. G!Entry(q) \in Told'
  <2>1. CASE b
    <3>1. call'[s] = q /\ q.logs
      BY <1>1, <1>3, <1>5, <2>1, CallMoves
    <3> QED
      BY <3>1, ToldThen
  <2>2. CASE ~b
    BY <1>1, <1>6, <1>8, <2>2 DEF LogFits
  <2> QED
    BY <2>1, <2>2
<1>10. keys' \subseteq Told'
  BY <1>1, <1>3, <1>6, <1>8, <1>9 DEF LogFits
<1>11. /\ q.a \in Addresses /\ q.row.email = q.a /\ (q.op = "login" => q.p \notin Retired)
       /\ q.p \in Careful => CallFits(q, account[q.p])
       /\ q.p \in Careful => \A t \in Slots : call[t].pc # "idle" /\ call[t].p = q.p => t = s
       /\ ~call[s].logs /\ q.pc \notin {"idle", "audit"}
  BY <1>5, <1>7 DEF CallFits
<1>12. calls' \in 0..MaxCalls /\ letters' \subseteq Addresses
  BY <1>1, <1>3 DEF SigninTyped
<1> QED
  BY <1>3, <1>5, <1>9, <1>10, <1>11, <1>12, CallGoesOn

LEMMA CallMails == ASSUME SigninInv, NEW s \in Slots, G!Mail(s) PROVE SigninInv'
<1>1. SigninTyped /\ CallsFit /\ LogFits
  BY DEF SigninInv
<1>2. call[s] \in G!Call
  BY <1>1 DEF SigninTyped
<1> SUFFICES ASSUME NEW q0, q0 = call[s], NEW q, q = [q0 EXCEPT !.pc = "commit"]
             PROVE  SigninInv'
  OBVIOUS
<1>3. /\ q0.pc = "mail" /\ letters' = letters \cup {q0.a}
      /\ call' = [call EXCEPT ![s] = q]
      /\ UNCHANGED <<account, tokens, keys, trail, calls, acts, failed, strays>>
  BY <1>1 DEF G!Mail, G!past, SigninTyped
<1>4. /\ q \in G!Call /\ q.pc = "commit" /\ q.op = q0.op /\ q.p = q0.p /\ q.a = q0.a
      /\ q.w = q0.w /\ q.row = q0.row /\ q.logs = q0.logs
  BY <1>2 DEF G!Call
<1>5. G!Entry(q) = G!Entry(q0)
  BY <1>4 DEF G!Entry
<1>6. /\ q0.a \in Addresses /\ q0.row.email = q0.a
      /\ q0.op = "login" => q0.p \notin Retired
      /\ q0.p \in Careful => CallFits(q0, account[q0.p])
      /\ q0.p \in Careful => \A t \in Slots : call[t].pc # "idle" /\ call[t].p = q0.p => t = s
  BY <1>1, <1>3 DEF CallsFit
<1>7. Told \subseteq Told'
  BY <1>1, <1>3, <1>4, <1>5, ToldGrows
<1>8. keys' \subseteq Told' /\ (q.op # "update" => G!Entry(q) \in Told')
  BY <1>1, <1>3, <1>4, <1>5, <1>7 DEF LogFits
<1>9. /\ q.a \in Addresses /\ q.row.email = q.a /\ (q.op = "login" => q.p \notin Retired)
      /\ q.p \in Careful => CallFits(q, account[q.p])
      /\ q.p \in Careful => \A t \in Slots : call[t].pc # "idle" /\ call[t].p = q.p => t = s
      /\ q.pc \notin {"idle", "audit"}
      /\ call[s].logs => q.logs /\ G!Entry(q) = G!Entry(call[s])
  BY <1>4, <1>5, <1>6 DEF CallFits
<1>10. calls' \in 0..MaxCalls /\ letters' \subseteq Addresses
  BY <1>1, <1>3, <1>6 DEF SigninTyped
<1> QED
  BY <1>3, <1>4, <1>8, <1>9, <1>10, CallGoesOn

LEMMA CallAborts == ASSUME SigninInv, NEW s \in Slots, G!Abort(s) PROVE SigninInv'
<1>1. SigninTyped /\ LogFits
  BY DEF SigninInv
<1>2. /\ failed' = IF call[s].logs THEN failed \cup {G!Entry(call[s])} ELSE failed
      /\ call' = [call EXCEPT ![s] = G!NoCall]
      /\ UNCHANGED <<account, tokens, letters, keys, trail, calls, acts, strays>>
  BY DEF G!Abort
<1>3. failed \subseteq failed' /\ (call[s].logs => G!Entry(call[s]) \in failed')
  BY <1>2
<1>4. Told \subseteq Told'
  BY <1>1, <1>2, <1>3, SigninTypes, ToldGrows
<1>5. keys' \subseteq Told' /\ calls' \in 0..MaxCalls /\ letters' \subseteq Addresses
  BY <1>1, <1>2, <1>4 DEF LogFits, SigninTyped
<1> QED
  BY <1>2, <1>3, <1>5, SigninTypes, CallGoesOn

-----------------------------------------------------------------------------
\* What a request makes of the row it finds, whose profile is worth its karma if it was so
\* when it was loaded.
LEMMA RowUpdated ==
  ASSUME NEW q \in G!Call, NEW now, now = account[q.p], now \in G!Row
  PROVE  /\ G!Updated(q) \in G!Row /\ G!Updated(q).email = now.email
         /\ q.row = now /\ now.karma = Cardinality(now.filled) =>
              G!Updated(q).karma = Cardinality(G!Updated(q).filled)
<1>1. /\ q.w \in Passwords /\ q.change \in G!Change /\ q.row \in G!Row
      /\ q.change.to \in SUBSET Profile /\ q.change.secret \in Passwords
      /\ q.row.filled \in SUBSET Profile /\ now.filled \in SUBSET Profile /\ now.karma \in Int
  BY DEF G!Call, G!Change, G!Row
<1>2. \A f \in SUBSET Profile : Cardinality(f) \in Nat /\ G!Cardinality(f) = Cardinality(f)
  <2>1. \A f \in SUBSET Profile : Cardinality(f) \in Nat
    BY SigninBounds, FS_Subset, FS_CardinalityType
  <2>2. \A f : G!Cardinality(f) = Cardinality(f)
    BY DEF G!Cardinality, Cardinality
  <2> QED
    BY <2>1, <2>2
<1>3. G!Filled(q) \in SUBSET Profile
  BY <1>1 DEF G!Filled
<1>4. /\ G!Karma(q) = now.karma + Cardinality(G!Filled(q)) - Cardinality(q.row.filled)
      /\ G!Karma(q) \in Int
  BY <1>1, <1>2, <1>3 DEF G!Karma
<1>5. CASE \E b \in BOOLEAN : G!Updated(q) = [now EXCEPT !.activated = b]
  BY <1>5 DEF G!Row
<1>6. CASE G!Updated(q) = now
  BY <1>6
<1>7. CASE \E w \in Passwords : G!Updated(q) = [now EXCEPT !.password = w]
  BY <1>7 DEF G!Row
<1>8. CASE G!Updated(q) = G!Profiled(q)
  <2> DEFINE r == G!Updated(q)
  <2>1. r \in G!Row /\ r.email = now.email /\ r.filled = G!Filled(q) /\ r.karma = G!Karma(q)
    BY <1>3, <1>4, <1>8 DEF G!Row, G!Profiled
  <2>2. ASSUME q.row = now, now.karma = Cardinality(now.filled) PROVE r.karma = Cardinality(r.filled)
    <3>1. Cardinality(now.filled) \in Nat /\ Cardinality(G!Filled(q)) \in Nat
      BY <1>1, <1>2, <1>3
    <3> QED
      BY <1>4, <2>1, <2>2, <3>1
  <2> QED
    BY <2>1, <2>2
<1>9. G!Activated(q) \in BOOLEAN
  <2>1. CASE q.op = "login"
    BY <2>1, Zenon DEF G!Activated
  <2>2. CASE q.op # "login"
    <3>1. now.activated \in BOOLEAN /\ q.change.flag \in BOOLEAN
      BY <1>1 DEF G!Row, G!Change
    <3> QED
      BY <2>2, <3>1, Zenon DEF G!Activated
  <2> QED
    BY <2>1, <2>2
<1>10. \/ \E b \in BOOLEAN : G!Updated(q) = [now EXCEPT !.activated = b]
       \/ G!Updated(q) = now
       \/ \E w \in Passwords : G!Updated(q) = [now EXCEPT !.password = w]
       \/ G!Updated(q) = G!Profiled(q)
  <2>1. CASE q.op = "login"
    BY <1>1, <2>1, <1>9 DEF G!Updated
  <2>2. CASE q.op = "recover"
    BY <2>2 DEF G!Updated
  <2>3. CASE q.op = "reset"
    BY <1>1, <2>3 DEF G!Updated
  <2>4. CASE q.op = "update"
    <3>1. G!Updated(q) = G!Changed(q)
      BY <2>4 DEF G!Updated
    <3>2. CASE q.change.what = "profile"
      BY <3>1, <3>2 DEF G!Changed
    <3>3. CASE q.change.what = "password"
      BY <1>1, <3>1, <3>3 DEF G!Changed
    <3>4. CASE q.change.what = "flags"
      BY <1>9, <3>1, <3>4 DEF G!Changed
    <3> QED
      BY <1>1, <3>2, <3>3, <3>4 DEF G!Change
  <2> QED
    BY <2>1, <2>2, <2>3, <2>4 DEF G!Call, G!Ops
<1> QED
  BY <1>5, <1>6, <1>7, <1>8, <1>10

LEMMA CallCommits == ASSUME SigninInv, NEW s \in Slots, G!Commit(s) PROVE SigninInv'
<1>1. /\ SigninTyped /\ CallsFit /\ LogFits /\ strays \cap Careful = {}
      /\ \A p \in People : p \in Careful => account[p].karma = Cardinality(account[p].filled)
  BY DEF SigninInv
<1>2. call[s] \in G!Call
  BY <1>1 DEF SigninTyped
<1> SUFFICES ASSUME NEW q, q = call[s] PROVE SigninInv'
  OBVIOUS
<1>3. /\ q.pc = "commit" /\ account' = [account EXCEPT ![q.p] = G!Updated(q)]
      /\ tokens' = IF q.op = "login" THEN tokens \cup {q.p} ELSE tokens
      /\ trail' = IF q.logs THEN trail \cup {G!Entry(q)} ELSE trail
      /\ acts' = IF q.op = "update" THEN acts ELSE acts \cup {G!Entry(q)}
      /\ strays' = IF G!Stray(q) THEN strays \cup {q.p} ELSE strays
      /\ call' = [call EXCEPT ![s] = G!NoCall]
      /\ UNCHANGED <<letters, keys, calls, failed>>
  BY DEF G!Commit
<1>4. /\ q.p \in People /\ account[q.p] \in G!Row
      /\ G!Updated(q) \in G!Row /\ G!Updated(q).email = account[q.p].email
  BY <1>1, <1>2, RowUpdated DEF SigninTyped, G!Call
<1>5. /\ q.a \in Addresses /\ q.row.email = q.a /\ (q.op = "login" => q.p \notin Retired)
      /\ q.p \in Careful => CallFits(q, account[q.p])
      /\ q.p \in Careful => \A t \in Slots : call[t].pc # "idle" /\ call[t].p = q.p => t = s
  BY <1>1, <1>3 DEF CallsFit
<1>6. /\ account' \in [People -> G!Row] /\ account'[q.p] = G!Updated(q)
      /\ \A p \in People : p # q.p => account'[p] = account[p]
  BY <1>1, <1>3, <1>4 DEF SigninTyped
<1>7. call' \in [Slots -> G!Call] /\ call'[s] = G!NoCall /\ \A t \in Slots : t # s => call'[t] = call[t]
  BY <1>1, <1>3, SigninTypes, CallMoves
<1>8. SigninTyped'
  <2>1. tokens' \subseteq People \ Retired
    BY <1>1, <1>3, <1>4, <1>5 DEF SigninTyped
  <2> QED
    BY <1>1, <1>3, <1>6, <1>7, <2>1 DEF SigninTyped
<1>9. ASSUME NEW t \in Slots
      PROVE  /\ call'[t].pc = "idle" \/ call'[t].pc = "audit" => ~call'[t].logs
             /\ call'[t].pc # "idle" =>
                  /\ call'[t].a \in Addresses /\ call'[t].row.email = call'[t].a
                  /\ call'[t].op = "login" => call'[t].p \notin Retired
                  /\ call'[t].p \in Careful => CallFits(call'[t], account'[call'[t].p])
  <2>1. CASE t = s
    BY <1>7, <2>1, SigninTypes
  <2>2. CASE t # s
    <3>1. call'[t] = call[t] /\ call[t].p \in People
      BY <1>1, <1>7, <2>2 DEF SigninTyped, G!Call
    <3>2. call[t].pc # "idle" /\ call[t].p \in Careful => account'[call[t].p] = account[call[t].p]
      BY <1>5, <1>6, <2>2, <3>1
    <3> QED
      BY <1>1, <3>1, <3>2 DEF CallsFit
  <2> QED
    BY <2>1, <2>2
<1>10. ASSUME NEW t \in Slots, NEW u \in Slots, call'[t].pc # "idle", call'[u].pc # "idle",
              call'[t].p = call'[u].p, call'[t].p \in Careful
       PROVE  t = u
  <2>1. t # s /\ u # s
    BY <1>7, <1>10, SigninTypes
  <2> QED
    BY <1>1, <1>7, <1>10, <2>1 DEF CallsFit
<1>11. CallsFit'
  BY <1>9, <1>10 DEF CallsFit, CallFits
<1>12. Told \subseteq Told'
  <2>1. trail \subseteq trail' /\ failed \subseteq failed' /\ (q.logs => G!Entry(q) \in trail')
    BY <1>3
  <2> QED
    BY <1>1, <1>3, <2>1, SigninTypes, ToldGrows
<1>13. LogFits'
  <2>1. ASSUME NEW t \in Slots, call'[t].pc \in {"mail", "commit"}, call'[t].op # "update"
        PROVE  G!Entry(call'[t]) \in Told'
    <3>1. t # s /\ call'[t] = call[t]
      BY <1>7, <2>1, SigninTypes
    <3> QED
      BY <1>1, <1>12, <2>1, <3>1 DEF LogFits
  <2>2. acts' \subseteq Told'
    <3>1. q.op # "update" => G!Entry(q) \in Told'
      BY <1>1, <1>3, <1>12 DEF LogFits
    <3> QED
      BY <1>1, <1>3, <1>12, <3>1 DEF LogFits
  <2>3. keys' \subseteq Told'
    BY <1>1, <1>3, <1>12 DEF LogFits
  <2>4. \A t \in Slots : G!Entry(call[t])' = G!Entry(call'[t])
    BY DEF G!Entry
  <2> QED
    BY <2>1, <2>2, <2>3, <2>4 DEF LogFits
<1>14. strays' \cap Careful = {}
  <2>1. q.p \in Careful => ~G!Stray(q)
    BY <1>5 DEF G!Stray, CallFits
  <2> QED
    BY <1>1, <1>3, <2>1
<1>15. ASSUME NEW p \in People, p \in Careful PROVE account'[p].karma = Cardinality(account'[p].filled)
  <2>1. CASE p = q.p
    BY <1>1, <1>2, <1>4, <1>5, <1>6, <1>15, <2>1, RowUpdated DEF CallFits
  <2>2. CASE p # q.p
    BY <1>1, <1>6, <1>15, <2>2
  <2> QED
    BY <2>1, <2>2
<1> QED
  BY <1>8, <1>11, <1>13, <1>14, <1>15 DEF SigninInv

-----------------------------------------------------------------------------
\* An account is opened, or gets another address, while no request on it is under way
\* unless its requests may overlap.
LEMMA AccountChanges ==
  ASSUME SigninInv, NEW p0 \in People, NEW r \in G!Row, account' = [account EXCEPT ![p0] = r],
         r.filled = account[p0].filled, r.karma = account[p0].karma,
         p0 \in Careful => \A t \in Slots : call[t].pc # "idle" => call[t].p # p0,
         UNCHANGED <<tokens, letters, keys, trail, call, calls, acts, failed, strays>>
  PROVE  SigninInv'
<1>1. /\ SigninTyped /\ CallsFit /\ LogFits /\ strays \cap Careful = {}
      /\ \A p \in People : p \in Careful => account[p].karma = Cardinality(account[p].filled)
  BY DEF SigninInv
<1>2. /\ account' \in [People -> G!Row] /\ account'[p0] = r
      /\ \A p \in People : p # p0 => account'[p] = account[p]
  BY <1>1 DEF SigninTyped
<1>3. SigninTyped'
  BY <1>1, <1>2 DEF SigninTyped
<1>4. ASSUME NEW t \in Slots, call[t].pc # "idle", call[t].p \in Careful
      PROVE  CallFits(call[t], account'[call[t].p])
  <2>1. call[t].p # p0 /\ call[t].p \in People
    BY <1>1, <1>4 DEF SigninTyped, G!Call
  <2> QED
    BY <1>1, <1>2, <1>4, <2>1 DEF CallsFit
<1>5. CallsFit'
  <2>1. \A t \in Slots :
          /\ call[t].pc = "idle" \/ call[t].pc = "audit" => ~call[t].logs
          /\ call[t].pc # "idle" => /\ call[t].a \in Addresses /\ call[t].row.email = call[t].a
                                    /\ call[t].op = "login" => call[t].p \notin Retired
                                    /\ call[t].p \in Careful => CallFits(call[t], account'[call[t].p])
    BY <1>1, <1>4 DEF CallsFit
  <2>2. \A t, u \in Slots :
          call[t].pc # "idle" /\ call[u].pc # "idle" /\ call[t].p = call[u].p /\ call[t].p \in Careful => t = u
    BY <1>1 DEF CallsFit
  <2> QED
    BY <2>1, <2>2 DEF CallsFit, CallFits
<1>6. LogFits'
  BY <1>1 DEF LogFits, Told, G!Entry
<1>7. \A p \in People : account'[p].karma = account[p].karma /\ account'[p].filled = account[p].filled
  BY <1>2
<1> QED
  BY <1>1, <1>3, <1>5, <1>6, <1>7 DEF SigninInv

LEMMA AccountOpened ==
  ASSUME SigninInv, NEW p \in People, NEW a \in Addresses, NEW w \in Passwords, G!OpenAccount(p, a, w)
  PROVE  SigninInv'
<1>1. SigninTyped /\ CallsFit
  BY DEF SigninInv
<1>2. account[p] \in G!Row
  BY <1>1 DEF SigninTyped
<1> SUFFICES ASSUME NEW r, r = [account[p] EXCEPT !.email = a, !.password = w] PROVE SigninInv'
  OBVIOUS
<1>3. r \in G!Row /\ r.filled = account[p].filled /\ r.karma = account[p].karma
  BY <1>2 DEF G!Row
<1>4. /\ account[p].email = NoAddress
      /\ UNCHANGED <<tokens, letters, keys, trail, call, calls, acts, failed, strays>>
  BY DEF G!OpenAccount, G!past
<1>5. account' = [account EXCEPT ![p] = r]
  BY <1>1 DEF G!OpenAccount, SigninTyped
<1>6. p \in Careful => \A t \in Slots : call[t].pc # "idle" => call[t].p # p
  BY <1>1, <1>4, SigninBounds DEF CallsFit, CallFits
<1> QED
  BY <1>3, <1>4, <1>5, <1>6, AccountChanges

LEMMA AddressChanged ==
  ASSUME SigninInv, NEW p \in People, NEW a \in Addresses, G!UpdateLoginEmail(p, a)
  PROVE  SigninInv'
<1>1. SigninTyped
  BY DEF SigninInv
<1>2. account[p] \in G!Row
  BY <1>1 DEF SigninTyped
<1> SUFFICES ASSUME NEW r, r = [account[p] EXCEPT !.email = a] PROVE SigninInv'
  OBVIOUS
<1>3. r \in G!Row /\ r.filled = account[p].filled /\ r.karma = account[p].karma
  BY <1>2 DEF G!Row
<1>4. /\ UNCHANGED <<tokens, letters, keys, trail, call, calls, acts, failed, strays>>
      /\ p \in Careful => G!Idle(p)
  BY DEF G!UpdateLoginEmail, G!past
<1>5. account' = [account EXCEPT ![p] = r]
  BY <1>1 DEF G!UpdateLoginEmail, SigninTyped
<1> QED
  BY <1>3, <1>4, <1>5, AccountChanges DEF G!Idle

LEMMA SigninStep == SigninInv /\ [G!Next]_(G!vars) => SigninInv'
<1> SUFFICES ASSUME SigninInv, [G!Next]_(G!vars) PROVE SigninInv'
  OBVIOUS
<1>1. ASSUME NEW s \in Slots,
             \/ G!LoginWithPassword(s) \/ G!RecoverPassword(s) \/ G!ResetPassword(s) \/ G!UpdateMe(s)
             \/ G!Audit(s) \/ G!Mail(s) \/ G!Commit(s) \/ G!Abort(s)
      PROVE  SigninInv'
  BY <1>1, SomeCallStarts, CallAudits, CallMails, CallCommits, CallAborts
<1>2. ASSUME NEW k \in keys, G!ExpireKey(k) PROVE SigninInv'
  <2>1. keys' \subseteq keys /\ UNCHANGED <<account, tokens, letters, trail, call, calls, acts, failed, strays>>
    BY <1>2 DEF G!ExpireKey, G!past
  <2>2. SigninTyped' /\ CallsFit'
    BY <2>1 DEF SigninInv, SigninTyped, CallsFit, CallFits
  <2>3. LogFits'
    BY <2>1 DEF SigninInv, LogFits, Told, G!Entry
  <2> QED
    BY <2>1, <2>2, <2>3 DEF SigninInv
<1>3. ASSUME NEW a \in letters, G!ExpireLetter(a) PROVE SigninInv'
  <2>1. letters' \subseteq letters /\ UNCHANGED <<account, tokens, keys, trail, call, calls, acts, failed, strays>>
    BY <1>3 DEF G!ExpireLetter, G!past
  <2>2. SigninTyped' /\ CallsFit'
    BY <2>1 DEF SigninInv, SigninTyped, CallsFit, CallFits
  <2>3. LogFits'
    BY <2>1 DEF SigninInv, LogFits, Told, G!Entry
  <2> QED
    BY <2>1, <2>2, <2>3 DEF SigninInv
<1>4. ASSUME NEW p \in People, NEW a \in Addresses, G!UpdateLoginEmail(p, a) PROVE SigninInv'
  BY <1>4, AddressChanged
<1>5. ASSUME NEW p \in People, NEW a \in Addresses, NEW w \in Passwords, G!OpenAccount(p, a, w)
      PROVE  SigninInv'
  BY <1>5, AccountOpened
<1>6. CASE UNCHANGED G!vars
  <2>1. UNCHANGED <<account, tokens, letters, keys, trail, call, calls, acts, failed, strays>>
    BY <1>6 DEF G!vars, G!past
  <2>2. SigninTyped' /\ CallsFit'
    BY <2>1 DEF SigninInv, SigninTyped, CallsFit, CallFits
  <2>3. LogFits'
    BY <2>1 DEF SigninInv, LogFits, Told, G!Entry
  <2> QED
    BY <2>1, <2>2, <2>3 DEF SigninInv
<1> QED
  BY <1>1, <1>2, <1>3, <1>4, <1>5, <1>6 DEF G!Next

LEMMA SigninHolds == SigninInv => G!CredentialsHold
<1> SUFFICES ASSUME SigninInv PROVE G!CredentialsHold
  OBVIOUS
<1>1. \A p \in Careful : account[p].karma = Cardinality(account[p].filled)
  BY SigninBounds DEF SigninInv
<1> QED
  BY <1>1 DEF SigninInv, LogFits, Told, G!CredentialsHold, G!Cardinality, Cardinality

LEMMA SigninTypeOK == SigninInv => G!TypeOK
  BY DEF SigninInv, SigninTyped, G!TypeOK

\* Accounts whose requests do not overlap are entered with the password and recovered through the
\* address that they have, and have the karma of their profiles; every log-in, letter and reset is
\* in the audit log, or its request has yet to commit or has failed (services/auth.py, me.py).
THEOREM CredentialsAlwaysHold == PlatformSpec => []CredentialsHold
<1> DEFINE Inv == part = "signin" => SigninInv
<1>1. PlatformInit => Inv
  BY SigninInit DEF PlatformInit
<1>2. Inv /\ [PlatformNext]_platformVars => Inv'
  BY RunsAlone, SigninStep DEF G!vars, G!past, signing
<1>3. Inv => CredentialsHold
  BY SigninHolds DEF CredentialsHold
<1> QED BY <1>1, <1>2, <1>3, PTL DEF PlatformSpec

-----------------------------------------------------------------------------
(* The inductive invariant.                                                *)

\* LinkRows are dated when they are committed, and not before their ids are drawn.
LinkRows ==
  \A n \in D!Ids :
    /\ dated[n] = D!NoDate \/ dated[n] \in 0..date
    /\ n > drawn => dated[n] = D!NoDate /\ n \notin void

\* A request that has made a row has it for itself, neither committed nor void.
LinkOwners ==
  /\ \A s \in Askers :
       LET q == asker[s] IN
       /\ q.own => /\ q.pc \in {"set", "show", "commit"}
                   /\ q.id \in 1..drawn /\ dated[q.id] = D!NoDate /\ q.id \notin void
       /\ q.pc \in {"set", "commit"} => q.own
  /\ \A s, t \in Askers :
       asker[s].own /\ asker[t].own /\ asker[s].id = asker[t].id => s = t

\* The id in Redis is that of a row that was made as long ago as it has been there, at
\* most, or that is being made, or is void; the nights it has been of no use, and those
\* it stays, are not more than it is kept for.
LinkKeyFits ==
  key.id # 0 =>
    /\ key.left \in 1..KeyLife /\ key.id \in 1..drawn
    /\ dated[key.id] # D!NoDate => date + key.left <= dated[key.id] + KeyLife
    /\ dated[key.id] = D!NoDate /\ key.id \notin void =>
         \E s \in Askers : asker[s].own /\ asker[s].id = key.id
    /\ dark + key.left <= KeyLife

\* A committed row that has not expired.
LinkFresh(n) == dated[n] >= 0 /\ date < dated[n] + LinkLife

\* Who shows another's row has one that has not expired, or that is not committed.
LinksShown ==
  \A s \in Askers :
    asker[s].pc = "show" /\ ~asker[s].own =>
      asker[s].id \in D!Ids /\ (LinkFresh(asker[s].id) \/ dated[asker[s].id] = D!NoDate)

DailyLinkInv == D!TypeOK /\ LinkRows /\ LinkOwners /\ LinkKeyFits /\ dark <= KeyLife /\ LinksShown

-----------------------------------------------------------------------------
LEMMA DailyLinkInit == D!Init => DailyLinkInv
  BY DailyLinkBounds, ConstantsAssumption DEF D!Init, DailyLinkInv, D!TypeOK, LinkRows, LinkOwners, LinkKeyFits, LinksShown, D!Ids, D!NoDate, D!NoKey,
         D!NoAsker, D!Asker

\* An id that Redis holds names a row that has not expired, unless it is not committed.
LEMMA LinkStaysFresh ==
  ASSUME D!TypeOK, LinkKeyFits, LinkRows, key.id # 0, dated[key.id] # D!NoDate
  PROVE LinkFresh(key.id)
  <1>1. key.id \in D!Ids /\ dated[key.id] \in 0..date
    BY DailyLinkBounds DEF D!TypeOK, LinkKeyFits, LinkRows, D!Ids
  <1> QED BY <1>1, DailyLinkBounds DEF D!TypeOK, LinkKeyFits, LinkFresh

LEMMA LinkAsked ==
  ASSUME DailyLinkInv, NEW s \in Askers, D!Get(s) PROVE DailyLinkInv'
  <1> USE DailyLinkBounds DEF DailyLinkInv, D!Get
  <1> DEFINE q == IF key.id = 0 THEN [pc |-> "create", id |-> 0, own |-> FALSE]
                                ELSE [pc |-> "show", id |-> key.id, own |-> FALSE]
  <1>1. q \in D!Asker /\ ~q.own /\ q.pc \in {"create", "show"} /\ (q.pc = "show" => q.id = key.id /\ key.id # 0)
    BY DEF D!TypeOK, D!Asker
  <1>2. asker' = [asker EXCEPT ![s] = q] /\ UNCHANGED <<dated, remaining, drawn, key, date, void, dark>>
    OBVIOUS
  <1> HIDE DEF q, D!Get
  <1>3. asker' \in [Askers -> D!Asker] /\ asker'[s] = q /\ \A t \in Askers \ {s} : asker'[t] = asker[t]
    BY <1>1, <1>2 DEF D!TypeOK
  <1>4. ~asker[s].own
    BY DEF LinkOwners, D!Get
  <1>5. D!TypeOK' /\ LinkRows' /\ (dark <= KeyLife)'
    BY <1>2, <1>3 DEF D!TypeOK, LinkRows
  <1>6. LinkOwners'
    BY <1>1, <1>2, <1>3 DEF LinkOwners
  <1>7. LinkKeyFits'
    BY <1>2, <1>3, <1>4 DEF LinkKeyFits
  <1>8. key.id # 0 => key.id \in D!Ids /\ (LinkFresh(key.id) \/ dated[key.id] = D!NoDate)
    <2>1. key.id # 0 => key.id \in D!Ids
      BY DEF D!TypeOK, D!Ids
    <2> QED
      BY <2>1, LinkStaysFresh
  <1>9. LinksShown'
    BY <1>1, <1>2, <1>3, <1>8 DEF LinksShown, LinkFresh
  <1> QED BY <1>5, <1>6, <1>7, <1>9

LEMMA LinkCreated ==
  ASSUME DailyLinkInv, NEW s \in Askers, D!Create(s) PROVE DailyLinkInv'
  <1> DEFINE q == [pc |-> "set", id |-> drawn + 1, own |-> TRUE]
  <1> USE DailyLinkBounds DEF DailyLinkInv
  <1>1. q \in D!Asker /\ q.own /\ q.pc = "set" /\ q.id = drawn + 1 /\ drawn + 1 \in D!Ids
    BY DEF D!Create, D!TypeOK, D!Asker, D!Ids
  <1>2. /\ asker' = [asker EXCEPT ![s] = q] /\ drawn' = drawn + 1
        /\ UNCHANGED <<dated, remaining, key, date, void, dark>>
    BY DEF D!Create
  <1> HIDE DEF q
  <1>3. asker' \in [Askers -> D!Asker] /\ asker'[s] = q /\ \A t \in Askers \ {s} : asker'[t] = asker[t]
    BY <1>1, <1>2 DEF D!TypeOK
  <1>4. ~asker[s].own
    BY DEF LinkOwners, D!Create
  <1>5. D!TypeOK' /\ LinkRows' /\ (dark <= KeyLife)'
    BY <1>1, <1>2, <1>3 DEF D!TypeOK, LinkRows, D!Ids
  <1>6. dated[q.id] = D!NoDate /\ q.id \notin void
    BY <1>1 DEF LinkRows, D!TypeOK, D!Ids
  <1>7. \A t \in Askers : asker[t].own => asker[t].id # q.id /\ asker[t].id \in 1..drawn'
    BY <1>1, <1>2 DEF LinkOwners, D!TypeOK
  <1>8. LinkOwners'
    BY <1>1, <1>2, <1>3, <1>6, <1>7 DEF LinkOwners, D!TypeOK
  <1>9. LinkKeyFits'
    BY <1>2, <1>3, <1>4 DEF LinkKeyFits, D!TypeOK
  <1>10. LinksShown'
    BY <1>1, <1>2, <1>3 DEF LinksShown, LinkFresh
  <1> QED BY <1>5, <1>8, <1>9, <1>10

LEMMA LinkSet ==
  ASSUME DailyLinkInv, NEW s \in Askers, D!Set(s) PROVE DailyLinkInv'
  <1> USE DailyLinkBounds DEF DailyLinkInv
  <1> DEFINE n == asker[s].id
  <1>1. asker[s].own /\ n \in 1..drawn /\ n \in D!Ids /\ dated[n] = D!NoDate /\ n \notin void
    BY DEF D!Set, LinkOwners, D!TypeOK, D!Ids, D!Asker
  <1>2. /\ key' \in [id : 0..MaxRows, left : Nat] /\ key'.id = n /\ key'.left = KeyLife
        /\ dark' = 0 /\ UNCHANGED <<dated, remaining, drawn, date, void>>
    BY <1>1 DEF D!Set, D!Kept, D!TypeOK, D!Ids
  <1>3. /\ asker' \in [Askers -> D!Asker] /\ asker'[s].own /\ asker'[s].id = n /\ asker'[s].pc = "show"
        /\ \A t \in Askers \ {s} : asker'[t] = asker[t]
    BY <1>1 DEF D!Set, D!TypeOK, D!Asker
  <1>4. D!TypeOK' /\ LinkRows' /\ (dark <= KeyLife)'
    BY <1>2, <1>3 DEF D!TypeOK, LinkRows
  <1>5. \A t \in Askers : asker'[t].own <=> asker[t].own
    BY <1>1, <1>3
  <1>6. \A t \in Askers : asker'[t].id = asker[t].id
    BY <1>3
  <1>7. LinkOwners'
    BY <1>2, <1>3, <1>5, <1>6 DEF LinkOwners
  <1>8. LinkKeyFits'
    BY <1>1, <1>2, <1>3 DEF LinkKeyFits
  <1>9. LinksShown'
    BY <1>2, <1>3 DEF LinksShown, LinkFresh
  <1> QED BY <1>4, <1>7, <1>8, <1>9

LEMMA LinkShown ==
  ASSUME DailyLinkInv, NEW s \in Askers, D!Show(s) PROVE DailyLinkInv'
  <1> USE DailyLinkBounds DEF DailyLinkInv
  <1>1. UNCHANGED <<dated, remaining, drawn, key, date, void, dark>>
    BY DEF D!Show
  <1>2. /\ asker' \in [Askers -> D!Asker] /\ (asker'[s].own <=> asker[s].own)
        /\ asker'[s].pc \in {"commit", "idle"}
        /\ asker'[s].own => asker'[s].id = asker[s].id
        /\ asker'[s].pc = "commit" => asker'[s].own
        /\ asker'[s].own => asker'[s].pc = "commit"
        /\ \A t \in Askers \ {s} : asker'[t] = asker[t]
    <2>1. asker[s] \in D!Asker /\ D!NoAsker \in D!Asker /\ D!NoAsker.pc = "idle" /\ ~D!NoAsker.own
      BY DEF D!TypeOK, D!Asker, D!NoAsker
    <2>2. CASE asker[s].own
      BY <2>1, <2>2 DEF D!Show, D!TypeOK, D!Asker
    <2>3. CASE ~asker[s].own
      BY <2>1, <2>3 DEF D!Show, D!TypeOK
    <2> QED BY <2>2, <2>3
  <1>3. D!TypeOK' /\ LinkRows' /\ (dark <= KeyLife)'
    BY <1>1, <1>2 DEF D!TypeOK, LinkRows
  <1>4. \A t \in Askers : /\ asker'[t].own <=> asker[t].own
                          /\ asker[t].own => asker'[t].id = asker[t].id
    BY <1>2
  <1>5. LinkOwners'
    BY <1>1, <1>2, <1>4 DEF LinkOwners
  <1>6. LinkKeyFits'
    BY <1>1, <1>4 DEF LinkKeyFits
  <1>7. LinksShown'
    BY <1>1, <1>2 DEF LinksShown, LinkFresh
  <1> QED BY <1>3, <1>5, <1>6, <1>7

LEMMA LinkCommitted ==
  ASSUME DailyLinkInv, NEW s \in Askers, D!Commit(s) PROVE DailyLinkInv'
  <1> USE DailyLinkBounds DEF DailyLinkInv
  <1> DEFINE n == asker[s].id
  <1>1. asker[s].own /\ n \in 1..drawn /\ n \in D!Ids /\ dated[n] = D!NoDate /\ n \notin void
    BY DEF D!Commit, LinkOwners, D!TypeOK, D!Ids, D!Asker
  <1>2. /\ dated' \in [D!Ids -> Int] /\ dated'[n] = date
        /\ \A m \in D!Ids \ {n} : dated'[m] = dated[m]
        /\ UNCHANGED <<remaining, drawn, key, date, void, dark>>
    BY <1>1 DEF D!Commit, D!TypeOK
  <1>3. /\ asker' \in [Askers -> D!Asker] /\ ~asker'[s].own /\ asker'[s].pc = "idle"
        /\ \A t \in Askers \ {s} : asker'[t] = asker[t]
    BY DEF D!Commit, D!TypeOK, D!Asker, D!NoAsker
  <1>4. D!TypeOK' /\ LinkRows' /\ (dark <= KeyLife)'
    <2>1. D!TypeOK' /\ (dark <= KeyLife)'
      BY <1>2, <1>3 DEF D!TypeOK
    <2>2. ASSUME NEW m \in D!Ids
          PROVE /\ dated'[m] = D!NoDate \/ dated'[m] \in 0..date
                /\ m > drawn => dated'[m] = D!NoDate /\ m \notin void
      <3>1. CASE m = n
        BY <3>1, <1>1, <1>2 DEF D!TypeOK, D!Ids
      <3>2. CASE m # n
        BY <3>2, <1>2 DEF LinkRows
      <3> QED BY <3>1, <3>2
    <2>3. LinkRows'
      BY <1>2, <2>2 DEF LinkRows
    <2> QED BY <2>1, <2>3
  <1>5. \A t \in Askers \ {s} : asker[t].own => asker[t].id # n /\ asker[t].id \in D!Ids
    BY <1>1 DEF LinkOwners, D!TypeOK, D!Ids
  <1>6. LinkOwners'
    BY <1>2, <1>3, <1>5 DEF LinkOwners
  <1>7. date # D!NoDate /\ date < date + LinkLife /\ date >= 0
    BY DEF D!TypeOK, D!NoDate
  <1>8. LinkKeyFits'
    <2>1. CASE key.id = 0
      BY <2>1, <1>2 DEF LinkKeyFits
    <2>2. CASE key.id = n
      BY <2>2, <1>1, <1>2, <1>7 DEF LinkKeyFits, D!TypeOK, D!Ids
    <2>3. CASE key.id \notin {0, n}
      <3>0. key.id \in D!Ids
        BY <2>3 DEF D!TypeOK, D!Ids
      <3>1. key.id \in D!Ids /\ dated'[key.id] = dated[key.id]
        BY <2>3, <3>0, <1>2
      <3>2. \A t \in Askers : asker[t].own /\ asker[t].id = key.id => asker'[t] = asker[t]
        BY <2>3, <1>3
      <3> QED BY <2>3, <3>1, <3>2, <1>2 DEF LinkKeyFits
    <2> QED BY <2>1, <2>2, <2>3
  <1>9. LinksShown'
    <2> SUFFICES ASSUME NEW t \in Askers, asker'[t].pc = "show", ~asker'[t].own
                 PROVE asker'[t].id \in D!Ids /\ (LinkFresh(asker[t].id)' \/ dated'[asker'[t].id] = D!NoDate)
      BY <1>3 DEF LinksShown, LinkFresh
    <2>1. t # s /\ asker'[t] = asker[t]
      BY <1>3
    <2>2. asker[t].id \in D!Ids /\ (LinkFresh(asker[t].id) \/ dated[asker[t].id] = D!NoDate)
      BY <2>1 DEF LinksShown
    <2>3. CASE asker[t].id = n
      BY <2>1, <2>2, <2>3, <1>2, <1>7 DEF LinkFresh
    <2>4. CASE asker[t].id # n
      BY <2>1, <2>2, <2>4, <1>2 DEF LinkFresh
    <2> QED BY <2>3, <2>4
  <1> QED BY <1>4, <1>6, <1>8, <1>9

LEMMA LinkFailed ==
  ASSUME DailyLinkInv, NEW s \in Askers, D!Fail(s) PROVE DailyLinkInv'
  <1> USE DailyLinkBounds DEF DailyLinkInv
  <1> DEFINE n == asker[s].id
  <1>1. asker[s].own => n \in 1..drawn /\ n \in D!Ids /\ dated[n] = D!NoDate /\ n \notin void
    BY DEF LinkOwners, D!TypeOK, D!Ids, D!Asker
  <1>2. /\ void' = IF asker[s].own THEN void \cup {n} ELSE void
        /\ UNCHANGED <<dated, remaining, drawn, key, date, dark>>
    BY DEF D!Fail
  <1>3. /\ asker' \in [Askers -> D!Asker] /\ ~asker'[s].own /\ asker'[s].pc = "idle"
        /\ \A t \in Askers \ {s} : asker'[t] = asker[t]
    BY DEF D!Fail, D!TypeOK, D!Asker, D!NoAsker
  <1>4. D!TypeOK' /\ LinkRows' /\ (dark <= KeyLife)'
    BY <1>1, <1>2, <1>3 DEF D!TypeOK, LinkRows
  <1>5. asker[s].own => \A t \in Askers \ {s} : asker[t].own => asker[t].id # n
    BY DEF LinkOwners
  <1>6. LinkOwners'
    BY <1>2, <1>3, <1>5 DEF LinkOwners
  <1>7. LinkKeyFits'
    <2>1. CASE asker[s].own /\ key.id = n
      BY <2>1, <1>1, <1>2 DEF LinkKeyFits, D!TypeOK
    <2>2. CASE ~asker[s].own
      BY <2>2, <1>2, <1>3 DEF LinkKeyFits
    <2>3. CASE asker[s].own /\ key.id # n
      BY <2>3, <1>2, <1>3 DEF LinkKeyFits
    <2> QED BY <2>1, <2>2, <2>3
  <1>8. LinksShown'
    BY <1>2, <1>3 DEF LinksShown, LinkFresh
  <1> QED BY <1>4, <1>6, <1>7, <1>8

LEMMA LinkConsumed ==
  ASSUME DailyLinkInv, NEW n \in D!Ids, D!try_consume_invitation_link_by_uuid(n)
  PROVE  DailyLinkInv'
  <1> USE DEF DailyLinkInv
  <1>1. /\ remaining[n] >= 1 /\ remaining' = [remaining EXCEPT ![n] = @ - 1]
        /\ UNCHANGED <<dated, drawn, key, asker, date, void, dark>>
    BY DEF D!try_consume_invitation_link_by_uuid
  <1>2. remaining' \in [D!Ids -> 0..Quota]
    BY <1>1, ConstantsAssumption DEF D!TypeOK
  <1>3. D!TypeOK'
    BY <1>1, <1>2 DEF D!TypeOK
  <1>4. LinkRows' /\ LinkOwners' /\ LinkKeyFits' /\ LinksShown'
    BY <1>1 DEF LinkRows, LinkOwners, LinkKeyFits, LinksShown, LinkFresh
  <1> QED BY <1>1, <1>3, <1>4

LEMMA LinkOfTomorrow == ASSUME DailyLinkInv, D!Tomorrow PROVE DailyLinkInv'
  <1> USE DailyLinkBounds DEF DailyLinkInv
  <1>1. date' = date + 1 /\ UNCHANGED <<dated, remaining, drawn, asker, void>>
    BY DEF D!Tomorrow
  <1>2. \A s \in Askers : asker[s].pc = "idle" /\ ~asker[s].own
    BY DEF D!Tomorrow, LinkOwners
  <1>3. dark' = (IF key.id # 0 /\ ~D!valid(key.id) THEN dark + 1 ELSE dark) /\ dark' \in Nat
    BY DEF D!Tomorrow, D!TypeOK
  <1>4. /\ key' \in [id : 0..MaxRows, left : Nat]
        /\ \/ key'.id = 0 
           \/ key'.id = key.id /\ key.left > 1 /\ key'.left = key.left - 1
    BY DEF D!Tomorrow, D!TypeOK, D!NoKey
  <1>5. D!TypeOK' /\ LinkRows'
    BY <1>1, <1>3, <1>4 DEF D!TypeOK, LinkRows
  <1>6. (dark <= KeyLife)'
    BY <1>3 DEF LinkKeyFits, D!TypeOK
  <1>7. LinkOwners' /\ LinksShown'
    BY <1>1, <1>2 DEF LinkOwners, LinksShown
  <1>8. LinkKeyFits'
    <2>1. CASE key'.id = 0
      BY <2>1 DEF LinkKeyFits
    <2>2. CASE key'.id # 0 /\ key'.id = key.id /\ key.left > 1 /\ key'.left = key.left - 1
      <3>1. key.id \in D!Ids /\ key.left \in 1..KeyLife /\ dated[key.id] \in Int
        BY <2>2 DEF LinkKeyFits, D!TypeOK, D!Ids
      <3>2. dated[key.id] # D!NoDate =>
              date' + key'.left <= dated'[key'.id] + KeyLife
        BY <2>2, <3>1, <1>1 DEF LinkKeyFits, D!TypeOK
      <3>3. dated[key.id] = D!NoDate => key.id \in void
        BY <2>2, <1>2 DEF LinkKeyFits
      <3>4. dark' + key'.left <= KeyLife
        BY <2>2, <3>1, <1>3 DEF LinkKeyFits, D!TypeOK
      <3> QED BY <2>2, <3>1, <3>2, <3>3, <3>4, <1>1 DEF LinkKeyFits, D!TypeOK
    <2> QED BY <1>4, <2>1, <2>2
  <1> QED BY <1>5, <1>6, <1>7, <1>8

LEMMA DailyLinkStep == ASSUME DailyLinkInv, [D!Next]_(D!vars) PROVE DailyLinkInv'
  <1>1. CASE UNCHANGED D!vars
    BY <1>1 DEF D!vars, DailyLinkInv, D!TypeOK, LinkRows, LinkOwners, LinkKeyFits, LinksShown, LinkFresh
  <1>2. CASE D!Next
    BY <1>2, LinkAsked, LinkCreated, LinkSet, LinkShown, LinkCommitted, LinkFailed, LinkConsumed, LinkOfTomorrow DEF D!Next
  <1> QED BY <1>1, <1>2

LEMMA DailyLinkGood == DailyLinkInv => D!DailyLinkHolds
  <1> SUFFICES ASSUME DailyLinkInv PROVE D!DailyLinkHolds
    OBVIOUS
  <1>1. ASSUME NEW n \in D!Ids, LinkFresh(n) PROVE D!valid(n) \/ D!UsedUp(n)
    <2>1. remaining[n] > 0 \/ remaining[n] = 0
      BY ConstantsAssumption DEF DailyLinkInv, D!TypeOK
    <2> QED
      BY <1>1, <2>1 DEF LinkFresh, D!valid, D!UsedUp
  <1>2. key.id # 0 => key.id \in D!Ids
    BY DailyLinkBounds DEF DailyLinkInv, D!TypeOK, D!Ids
  <1>3. key.id # 0 => \/ D!valid(key.id) \/ D!UsedUp(key.id)
                      \/ \E s \in Askers : asker[s].own /\ asker[s].id = key.id
                      \/ key.id \in void
    BY <1>1, <1>2, LinkStaysFresh DEF DailyLinkInv, LinkKeyFits
  <1>4. ASSUME NEW s \in Askers, asker[s].pc = "show", ~asker[s].own
        PROVE  D!valid(asker[s].id) \/ D!UsedUp(asker[s].id) \/ dated[asker[s].id] = D!NoDate
    BY <1>1, <1>4 DEF DailyLinkInv, LinksShown
  <1> QED BY <1>3, <1>4 DEF DailyLinkInv, D!DailyLinkHolds

LEMMA DailyLinkTypeOK == DailyLinkInv => D!TypeOK
  BY DEF DailyLinkInv

\* The daily link (services/invitations.py): as long as an id is kept for less long than its link
\* is valid, the id in Redis is that of a link that is valid or used up, or is just being made, or
\* has been rolled back, and is of no use for no more nights than an id is kept; nobody is shown a
\* link that has expired; whatever requests overlap, wherever they fail and whoever uses the link.
THEOREM DailyLinkAlwaysGood == PlatformSpec => []DailyLinkHolds
<1> DEFINE Inv == part = "link" => DailyLinkInv
<1>1. PlatformInit => Inv
  BY DailyLinkInit DEF PlatformInit
<1>2. Inv /\ [PlatformNext]_platformVars => Inv'
  BY RunsAlone, DailyLinkStep DEF D!vars, daily
<1>3. Inv => DailyLinkHolds
  BY DailyLinkGood DEF DailyLinkHolds
<1> QED BY <1>1, <1>2, <1>3, PTL DEF PlatformSpec

-----------------------------------------------------------------------------
(* Payments: scores.                                                       *)

LEMMA PayCardinality == ASSUME NEW X PROVE P!Cardinality(X) = Cardinality(X)
BY DEF P!Cardinality, Cardinality

Marks(sheet) == [f \in Fields |-> P!FieldScore(f, sheet[f])]
FullMarks == [f \in Fields |-> Worth[f] * P!Cardinality(Correct[f])]

LEMMA ProductGrows ==
  ASSUME NEW w \in Nat, NEW x \in Int, NEW y \in Int, x <= y
  PROVE  w * x \in Int /\ w * y \in Int /\ w * x <= w * y
<1>1. w * (y - x) >= 0
  OBVIOUS
<1>2. w * (y - x) = w * y - w * x
  OBVIOUS
<1> QED BY <1>1, <1>2

\* What is chosen from a set without repeating oneself is at most the set.
LEMMA EntriesFit ==
  ASSUME NEW n \in Nat, NEW s, s \in [1..n -> {s[k] : k \in 1..n}], NEW C, IsFiniteSet(C)
  PROVE  /\ P!Entries(s, C) \in Nat /\ P!Entries(s, C) <= n
         /\ Cardinality({s[k] : k \in 1..n}) = n => P!Entries(s, C) <= Cardinality(C)
<1> DEFINE E == {k \in 1..n : s[k] \in C}
           T == {s[k] : k \in 1..n}
<1>1. IsFiniteSet(1..n) /\ Cardinality(1..n) = n
  <2>1. 1 \in Int /\ n \in Int /\ (IF 1 > n THEN 0 ELSE n - 1 + 1) = n
    OBVIOUS
  <2>2. IsFiniteSet(1..n) /\ Cardinality(1..n) = (IF 1 > n THEN 0 ELSE n - 1 + 1)
    BY <2>1, FS_Interval
  <2> QED BY <2>1, <2>2
<1>2. P!Entries(s, C) = Cardinality(E)
  <2>1. P!Entries(s, C) = P!Cardinality(E)
    BY DEF P!Entries
  <2> QED BY <2>1, PayCardinality
<1>3. E \subseteq 1..n /\ IsFiniteSet(E) /\ Cardinality(E) \in Nat /\ Cardinality(E) <= n
  <2>1. E \subseteq 1..n
    OBVIOUS
  <2> HIDE DEF E
  <2> QED BY <1>1, <2>1, FS_Subset, FS_CardinalityType
<1>4. ASSUME Cardinality(T) = n PROVE Cardinality(E) <= Cardinality(C)
  <2>1. s \in Surjection(1..n, T)
    BY DEF Surjection
  <2>2. s \in Injection(1..n, T)
    <3> HIDE DEF T
    <3> QED BY <1>1, <1>4, <2>1, FS_Surjection
  <2> DEFINE e == [k \in E |-> s[k]]
  <2>3. e \in Injection(E, C)
    <3>1. \A i, j \in 1..n : s[i] = s[j] => i = j
      BY <2>2 DEF Injection, IsInjective
    <3>2. e \in [E -> C]
      OBVIOUS
    <3>3. \A i, j \in E : e[i] = e[j] => i = j
      BY <3>1
    <3>4. IsInjective(e)
      BY <3>3 DEF IsInjective
    <3> HIDE DEF e, E
    <3> QED BY <3>2, <3>4 DEF Injection
  <2> HIDE DEF E, e
  <2> QED BY <2>3, FS_Injection
<1> QED BY <1>2, <1>3, <1>4

LEMMA MarksTyped ==
  ASSUME NEW p \in People, NEW sheet \in P!Filled(p)
  PROVE  /\ \A f \in Fields : Marks(sheet)[f] \in Int /\ FullMarks[f] \in Int
         /\ ~P!Repeats(sheet) => \A f \in Fields : Marks(sheet)[f] <= FullMarks[f]
<1> SUFFICES ASSUME NEW f \in Fields
             PROVE  /\ Marks(sheet)[f] \in Int /\ FullMarks[f] \in Int
                    /\ ~P!Repeats(sheet) => Marks(sheet)[f] <= FullMarks[f]
  OBVIOUS
<1> DEFINE s == sheet[f]
           n == Len(sheet[f])
           e == P!Entries(sheet[f], Correct[f])
<1>1. n \in Nat /\ s \in [1..n -> {s[k] : k \in 1..n}] /\ IsFiniteSet(Correct[f]) /\ Worth[f] \in Nat
  BY PaymentsBounds DEF P!Filled
<1>2. /\ e \in Nat /\ e <= n
      /\ Cardinality({s[k] : k \in 1..n}) = n => e <= Cardinality(Correct[f])
  BY <1>1, EntriesFit
<1>3. Marks(sheet)[f] = IF f \in Multiple THEN Worth[f] * (2 * e - n) ELSE Worth[f] * e
  BY DEF Marks, P!FieldScore
<1>4. FullMarks[f] = Worth[f] * Cardinality(Correct[f]) /\ Cardinality(Correct[f]) \in Nat
  BY <1>1, PayCardinality, FS_CardinalityType DEF FullMarks
<1>5. Marks(sheet)[f] \in Int /\ FullMarks[f] \in Int
  BY <1>1, <1>2, <1>3, <1>4
<1>6. ASSUME ~P!Repeats(sheet) PROVE Marks(sheet)[f] <= FullMarks[f]
  <2>1. P!Cardinality(P!Range(s)) = n
    BY <1>6 DEF P!Repeats
  <2>2. P!Range(s) = {s[k] : k \in 1..n}
    BY <1>1 DEF P!Range
  <2>3. e <= Cardinality(Correct[f])
    BY <1>2, <2>1, <2>2, PayCardinality
  <2>4. 2 * e - n <= Cardinality(Correct[f]) /\ 2 * e - n \in Int
    BY <1>1, <1>2, <1>4, <2>3
  <2> HIDE DEF e, n
  <2>5. Worth[f] * e <= Worth[f] * Cardinality(Correct[f])
    BY <1>1, <1>2, <1>4, <2>3, ProductGrows
  <2>6. Worth[f] * (2 * e - n) <= Worth[f] * Cardinality(Correct[f])
    <3>1. PICK x \in Int : x = 2 * e - n
      BY <2>4
    <3>2. x <= Cardinality(Correct[f])
      BY <2>4, <3>1
    <3>3. Worth[f] * x <= Worth[f] * Cardinality(Correct[f])
      BY <1>1, <1>4, <3>2, ProductGrows
    <3> QED BY <3>1, <3>3
  <2> QED BY <1>3, <1>4, <2>5, <2>6
<1> QED BY <1>5, <1>6

\* What MapThenSumSet adds up.
LEMMA MarksAdd ==
  ASSUME NEW p \in People, NEW sheet \in P!Filled(p)
  PROVE  \E g : Adds(g, Marks(sheet), Fields)
                /\ P!MapThenSumSet(LAMBDA f : P!FieldScore(f, sheet[f]), Fields) = g[Fields]
<1>1. Marks(sheet) \in [Fields -> Int] /\ IsFiniteSet(Fields)
  BY MarksTyped, PaymentsBounds DEF Marks
<1>2. PICK g : Adds(g, Marks(sheet), Fields)
  BY <1>1, SumExists
<1> DEFINE Step(f) == f = [s \in SUBSET Fields |->
      IF s = {} THEN 0 ELSE P!FieldScore(First(s), sheet[First(s)]) + f[s \ {First(s)}]]
<1>3. ASSUME NEW f PROVE Step(f) <=> Adds(f, Marks(sheet), Fields)
  <2>1. \A s \in SUBSET Fields : s # {} =>
          Marks(sheet)[First(s)] = P!FieldScore(First(s), sheet[First(s)])
    BY FirstIn DEF Marks
  <2> QED BY <2>1 DEF Adds
<1>4. P!MapThenSumSet(LAMBDA f : P!FieldScore(f, sheet[f]), Fields) = (CHOOSE f : Step(f))[Fields]
  BY DEF P!MapThenSumSet, P!MapThenFoldSet, First
<1>5. Adds(CHOOSE f : Step(f), Marks(sheet), Fields)
  <2>1. Step(g)
    BY <1>2, <1>3
  <2>2. Step(CHOOSE f : Step(f))
    <3> HIDE DEF Step
    <3> QED BY <2>1
  <2> HIDE DEF Step
  <2> QED BY <1>3, <2>2
<1> HIDE DEF Step
<1> QED BY <1>4, <1>5

LEMMA FullAdds ==
  /\ FullMarks \in [Fields -> Int]
  /\ \E g : Adds(g, FullMarks, Fields) /\ P!FullScore = g[Fields]
<1>1. FullMarks \in [Fields -> Int] /\ IsFiniteSet(Fields)
  <2>1. ASSUME NEW f \in Fields PROVE FullMarks[f] \in Int
    <3>1. Worth[f] \in Nat /\ Cardinality(Correct[f]) \in Nat
      BY PaymentsBounds, FS_CardinalityType
    <3> QED BY <3>1, PayCardinality DEF FullMarks
  <2> QED BY <2>1, PaymentsBounds DEF FullMarks
<1>2. PICK g : Adds(g, FullMarks, Fields)
  BY <1>1, SumExists
<1> DEFINE Step(f) == f = [s \in SUBSET Fields |->
      IF s = {} THEN 0 ELSE Worth[First(s)] * P!Cardinality(Correct[First(s)]) + f[s \ {First(s)}]]
<1>3. ASSUME NEW f PROVE Step(f) <=> Adds(f, FullMarks, Fields)
  <2>1. \A s \in SUBSET Fields : s # {} =>
          FullMarks[First(s)] = Worth[First(s)] * P!Cardinality(Correct[First(s)])
    BY FirstIn DEF FullMarks
  <2> QED BY <2>1 DEF Adds
<1>4. P!FullScore = (CHOOSE f : Step(f))[Fields]
  BY DEF P!FullScore, P!MapThenSumSet, P!MapThenFoldSet, First
<1>5. Adds(CHOOSE f : Step(f), FullMarks, Fields)
  <2>1. Step(g)
    BY <1>2, <1>3
  <2>2. Step(CHOOSE f : Step(f))
    <3> HIDE DEF Step
    <3> QED BY <2>1
  <2> HIDE DEF Step
  <2> QED BY <1>3, <2>2
<1> HIDE DEF Step
<1> QED BY <1>1, <1>4, <1>5

\* A score is not negative and, unless a choice was listed twice, at most the full score.
LEMMA ScoreFits ==
  ASSUME NEW p \in People, NEW sheet \in P!Filled(p)
  PROVE  /\ P!Score(sheet) \in Nat
         /\ ~P!Repeats(sheet) => P!Score(sheet) <= P!FullScore
<1> DEFINE m == P!MapThenSumSet(LAMBDA f : P!FieldScore(f, sheet[f]), Fields)
<1>1. Marks(sheet) \in [Fields -> Int] /\ IsFiniteSet(Fields) /\ FullMarks \in [Fields -> Int]
  BY MarksTyped, FullAdds, PaymentsBounds DEF Marks
<1>2. PICK g : Adds(g, Marks(sheet), Fields) /\ m = g[Fields]
  BY MarksAdd
<1>3. PICK h : Adds(h, FullMarks, Fields) /\ P!FullScore = h[Fields]
  BY FullAdds
<1>4. m \in Int
  <2>1. Fields \in SUBSET Fields
    OBVIOUS
  <2> HIDE DEF m
  <2> QED BY <1>1, <1>2, <2>1, SumTyped
<1>5. P!Score(sheet) = (IF m <= 0 THEN 0 ELSE m)
  <2>1. P!Score(sheet) = CHOOSE x \in {0, m} : \A y \in {0, m} : x >= y
    BY DEF P!Score, P!Max
  <2> HIDE DEF m
  <2> QED BY <1>4, <2>1
<1>6. ~P!Repeats(sheet) => m <= P!FullScore
  <2> SUFFICES ASSUME ~P!Repeats(sheet) PROVE m <= P!FullScore
    OBVIOUS
  <2>1. \A f \in Fields : Marks(sheet)[f] <= FullMarks[f]
    BY MarksTyped
  <2>2. g[Fields] <= h[Fields]
    BY <1>1, <1>2, <1>3, <2>1, SumMonotone
  <2> HIDE DEF m
  <2> QED BY <1>2, <1>3, <2>2
<1>7. 0 <= P!FullScore
  <2> DEFINE z == [f \in Fields |-> 0]
  <2>1. z \in [Fields -> Int]
    OBVIOUS
  <2>2. \A f \in Fields : z[f] <= FullMarks[f]
    <3>1. \A f \in Fields : Worth[f] \in Nat /\ Cardinality(Correct[f]) \in Nat
      BY PaymentsBounds, FS_CardinalityType
    <3> QED BY <3>1, PayCardinality DEF FullMarks
  <2> DEFINE k == [s \in SUBSET Fields |-> 0]
  <2>3. Adds(k, z, Fields)
    BY FirstIn DEF Adds
  <2>4. k[Fields] = 0
    OBVIOUS
  <2> HIDE DEF z, k
  <2>5. k[Fields] <= h[Fields]
    BY <1>1, <1>3, <2>1, <2>2, <2>3, SumMonotone
  <2> QED BY <1>3, <2>4, <2>5
<1> HIDE DEF m
<1> QED BY <1>4, <1>5, <1>6, <1>7

-----------------------------------------------------------------------------
(* Payments: requests.                                                     *)

PayOrder == [pc : {"idle", "check", "write", "commit"}, op : {"none", "article", "site", "claim"},
             who : People, name : Subdomains \cup {P!NoName}, mine : Int, theirs : Int,
             marked : BOOLEAN, amount : Nat]

PayTyped ==
  /\ coins \in [People -> Int] /\ claimed \subseteq People /\ deposits \subseteq People
  /\ sites \subseteq Subdomains /\ asked \in 0..MaxPayments
  /\ order \in [Threads -> PayOrder]
  /\ spent \in [People -> Nat] /\ earned \in [People -> Seq(Nat)]

\* a is the score of a sheet that passes.
Earnt(p, a) == \E sheet \in P!Filled(p) : P!Passes(sheet) /\ a = P!Score(sheet)

PayRewards ==
  /\ claimed = deposits
  /\ \A p \in People :
       IF p \in deposits THEN earned[p] = <<earned[p][1]>> /\ Earnt(p, earned[p][1]) ELSE earned[p] = <<>>

\* What a request may rely on: what it checked, and the key it has inserted.
PaySound(j) ==
  /\ j.pc # "idle" => j.op # "none"
  /\ j.pc # "idle" /\ j.who # Superuser => j.mine >= 0
  /\ j.pc \in {"write", "commit"} /\ j.op # "claim" => P!Affords(j)
  /\ j.pc \in {"write", "commit"} /\ j.op = "claim" => Earnt(j.who, j.amount)
  /\ j.pc = "commit" /\ j.op = "claim" => j.who \notin deposits

\* Those about to commit hold different rows.
PayApart ==
  \A t, u \in Threads :
    t # u /\ order[t].pc = "commit" /\ order[u].pc = "commit"
      => P!Writes(order[t]) \cap P!Writes(order[u]) = {}

\* Someone careful has one request, which has loaded the balance there is.
PayExact(p) ==
  /\ coins[p] = FirstCoins[p] - spent[p] + P!Total(earned[p])
  /\ \A t \in Threads : order[t].pc # "idle" /\ order[t].who = p => order[t].mine = coins[p]
  /\ \A t, u \in Threads :
       /\ order[t].pc # "idle" /\ order[t].who = p /\ order[u].pc # "idle" /\ order[u].who = p
       => t = u

PayInv ==
  /\ PayTyped /\ PayRewards /\ PayApart
  /\ \A t \in Threads : PaySound(order[t])
  /\ \A p \in People \ {Superuser} : coins[p] >= 0 /\ (p \in Careful => PayExact(p))

LEMMA PayTotalIs ==
  ASSUME NEW q, IsFiniteSet(DOMAIN q), \A i \in DOMAIN q : q[i] \in Int
  PROVE  \E g : Adds(g, [i \in DOMAIN q |-> q[i]], DOMAIN q) /\ P!Total(q) = g[DOMAIN q]
<1> DEFINE Q == DOMAIN q
           v == [i \in Q |-> q[i]]
<1>1. v \in [Q -> Int]
  OBVIOUS
<1>2. PICK g : Adds(g, v, Q)
  <2> HIDE DEF Q, v
  <2> QED BY <1>1, SumExists DEF Q
<1> DEFINE Step(f) == f = [s \in SUBSET Q |-> IF s = {} THEN 0 ELSE q[First(s)] + f[s \ {First(s)}]]
<1>3. ASSUME NEW f PROVE Step(f) <=> Adds(f, v, Q)
  <2>1. \A s \in SUBSET Q : s # {} => v[First(s)] = q[First(s)]
    BY FirstIn
  <2> HIDE DEF Q, v
  <2> QED BY <2>1 DEF Adds
<1>4. P!Total(q) = (CHOOSE f : Step(f))[Q]
  BY DEF P!Total, P!FoldSeq, P!FoldFunction, P!FoldFunctionOnSet, P!MapThenFoldSet, First
<1>5. Adds(CHOOSE f : Step(f), v, Q)
  <2>1. Step(g)
    BY <1>2, <1>3
  <2>2. Step(CHOOSE f : Step(f))
    <3> HIDE DEF Step
    <3> QED BY <2>1
  <2> HIDE DEF Step, Q, v
  <2> QED BY <1>3, <2>2
<1> HIDE DEF Step
<1> QED BY <1>4, <1>5

LEMMA PayTotals ==
  /\ P!Total(<<>>) = 0
  /\ \A a \in Nat : P!Total(<<a>>) = a
<1>1. P!Total(<<>>) = 0
  <2>1. DOMAIN << >> = {} /\ IsFiniteSet({})
    BY FS_EmptySet
  <2>2. PICK g : Adds(g, [i \in DOMAIN << >> |-> << >>[i]], DOMAIN << >>) /\ P!Total(<<>>) = g[DOMAIN << >>]
    BY <2>1, PayTotalIs
  <2>3. g[{}] = 0
    BY <2>1, <2>2 DEF Adds
  <2> QED BY <2>1, <2>2, <2>3
<1>2. ASSUME NEW a \in Nat PROVE P!Total(<<a>>) = a
  <2> DEFINE q == <<a>>
             v == [i \in DOMAIN q |-> q[i]]
  <2>1. DOMAIN q = {1} /\ q[1] = a /\ IsFiniteSet({1})
    BY FS_Singleton
  <2>2. PICK g : Adds(g, v, DOMAIN q) /\ P!Total(q) = g[DOMAIN q]
    <3> HIDE DEF q
    <3> QED BY <2>1, PayTotalIs
  <2>3. v \in [{1} -> Int] /\ v[1] = a
    BY <2>1
  <2> HIDE DEF q, v
  <2>4. Adds(g, v, {1})
    BY <2>1, <2>2
  <2>5. {1} \in SUBSET {1} /\ First({1}) = 1 /\ {1} \ {1} = {}
    BY FirstIn
  <2>6. g[{}] = 0 /\ g[{1}] = v[1] + g[{1} \ {1}]
    BY <2>4, <2>5 DEF Adds
  <2> QED BY <2>1, <2>2, <2>3, <2>5, <2>6 DEF q
<1> QED BY <1>1, <1>2

LEMMA PayPrice == ASSUME NEW op PROVE P!Price(op) \in Nat
BY PaymentsBounds DEF P!Price

LEMMA FreeOrder == P!Free \in PayOrder /\ P!Free.pc = "idle"
BY PaymentsBounds DEF P!Free, PayOrder, P!NoName

LEMMA PayInit == PlatformInit => PayInv
<1> SUFFICES ASSUME PlatformInit PROVE PayInv
  OBVIOUS
<1>1. P!Init
  BY DEF PlatformInit
<1>2. /\ coins = FirstCoins /\ claimed = {} /\ deposits = {} /\ sites = {} /\ asked = 0
      /\ order = [t \in Threads |-> P!Free]
      /\ spent = [p \in People |-> 0] /\ earned = [p \in People |-> <<>>]
  BY <1>1 DEF P!Init
<1>3. PayTyped
  BY <1>2, FreeOrder, PaymentsBounds DEF PayTyped
<1>4. PayRewards
  BY <1>2 DEF PayRewards
<1>5. \A t \in Threads : order[t].pc = "idle"
  BY <1>2, FreeOrder
<1>6. PayApart /\ \A t \in Threads : PaySound(order[t])
  BY <1>5 DEF PayApart, PaySound
<1>7. ASSUME NEW p \in People PROVE coins[p] >= 0 /\ PayExact(p)
  <2>1. coins[p] = FirstCoins[p] /\ FirstCoins[p] \in Nat /\ spent[p] = 0 /\ earned[p] = <<>>
    BY <1>2, PaymentsBounds
  <2>2. P!Total(earned[p]) = 0
    BY <2>1, PayTotals
  <2>3. coins[p] = FirstCoins[p] - spent[p] + P!Total(earned[p])
    BY <2>1, <2>2
  <2> QED BY <1>5, <2>1, <2>3 DEF PayExact
<1> QED BY <1>3, <1>4, <1>6, <1>7 DEF PayInv

\* What a request has read or checked changes nothing else.
LEMMA PayLearn ==
  ASSUME PayInv, NEW t \in Threads, NEW j \in PayOrder, order' = [order EXCEPT ![t] = j],
         UNCHANGED <<P!store, P!past>>, asked' \in 0..MaxPayments, PaySound(j),
         j.pc = "commit" =>
           \A u \in Threads \ {t} :
             order[u].pc = "commit" => P!Writes(order[u]) \cap P!Writes(j) = {},
         j.pc # "idle" /\ j.who \in Careful \ {Superuser} =>
           /\ j.mine = coins[j.who]
           /\ \A u \in Threads \ {t} : order[u].pc = "idle" \/ order[u].who # j.who
  PROVE  PayInv'
<1>0. /\ coins' = coins /\ claimed' = claimed /\ deposits' = deposits /\ sites' = sites
      /\ spent' = spent /\ earned' = earned
  BY DEF P!store, P!past
<1>1. order' \in [Threads -> PayOrder] /\ order'[t] = j /\ \A u \in Threads \ {t} : order'[u] = order[u]
  BY DEF PayInv, PayTyped
<1>2. PayTyped'
  BY <1>0, <1>1 DEF PayInv, PayTyped
<1>3. PayRewards'
  BY <1>0 DEF PayInv, PayRewards
<1>4. ASSUME NEW u \in Threads PROVE PaySound(order[u])'
  <2>1. PaySound(order'[u])
    BY <1>1 DEF PayInv
  <2> QED BY <1>0, <2>1 DEF PaySound
<1>5. PayApart'
  <2> SUFFICES ASSUME NEW u \in Threads, NEW w \in Threads, u # w,
                      order'[u].pc = "commit", order'[w].pc = "commit"
               PROVE  P!Writes(order'[u]) \cap P!Writes(order'[w]) = {}
    BY DEF PayApart, P!Writes
  <2>1. CASE u # t /\ w # t
    BY <1>1, <2>1 DEF PayInv, PayApart
  <2>2. CASE u = t
    <3>1. P!Writes(order[w]) \cap P!Writes(j) = {}
      BY <1>1, <2>2
    <3> QED BY <1>1, <2>2, <3>1
  <2>3. CASE w = t
    <3>1. P!Writes(order[u]) \cap P!Writes(j) = {}
      BY <1>1, <2>3
    <3> QED BY <1>1, <2>3, <3>1
  <2> QED BY <2>1, <2>2, <2>3
<1>6. ASSUME NEW p \in People \ {Superuser}
      PROVE  (coins[p] >= 0 /\ (p \in Careful => PayExact(p)))'
  <2>1. coins'[p] >= 0
    BY <1>0 DEF PayInv
  <2>2. ASSUME p \in Careful PROVE PayExact(p)'
    <3>1. PayExact(p)
      BY <2>2 DEF PayInv
    <3>2. \A u \in Threads : order'[u].pc # "idle" /\ order'[u].who = p => order'[u].mine = coins[p]
      BY <1>1, <2>2, <3>1 DEF PayExact
    <3>3. \A u, w \in Threads :
            /\ order'[u].pc # "idle" /\ order'[u].who = p /\ order'[w].pc # "idle" /\ order'[w].who = p
            => u = w
      BY <1>1, <2>2, <3>1 DEF PayExact
    <3>4. P!Total(earned[p])' = P!Total(earned'[p])
      BY DEF P!Total, P!FoldSeq, P!FoldFunction, P!FoldFunctionOnSet, P!MapThenFoldSet
    <3> QED BY <1>0, <3>1, <3>2, <3>3, <3>4 DEF PayExact
  <2> QED BY <2>1, <2>2
<1> QED BY <1>2, <1>3, <1>4, <1>5, <1>6 DEF PayInv

LEMMA PaySettle ==
  ASSUME PayInv, NEW t \in Threads, P!Commit(t) PROVE PayInv'
<1> DEFINE j == order[t]
           who == order[t].who
<1>1. /\ j \in PayOrder /\ who \in People /\ j.mine \in Int /\ j.theirs \in Int /\ j.amount \in Nat
      /\ j.name \in Subdomains \cup {P!NoName} /\ j.pc = "commit"
      /\ coins \in [People -> Int] /\ order \in [Threads -> PayOrder]
      /\ spent \in [People -> Nat] /\ earned \in [People -> Seq(Nat)]
      /\ PaySound(j) /\ P!Price(j.op) \in Nat /\ Superuser \in People
  BY PayPrice, PaymentsBounds DEF PayInv, PayTyped, PayOrder, P!Commit
<1>2. /\ coins' = P!Balances(j)
      /\ claimed' = (IF j.op = "claim" THEN claimed \cup {who} ELSE claimed)
      /\ deposits' = (IF j.op = "claim" THEN deposits \cup {who} ELSE deposits)
      /\ sites' = sites \cup ({j.name} \ {P!NoName})
      /\ spent' = [spent EXCEPT ![who] = @ + P!Price(j.op)]
      /\ earned' = (IF j.op = "claim" THEN [earned EXCEPT ![who] = Append(@, j.amount)] ELSE earned)
      /\ order' = [order EXCEPT ![t] = P!Free] /\ asked' = asked
  BY DEF P!Commit
<1>3. \A u \in Threads \ {t} : order'[u] = order[u]
  BY <1>1, <1>2
<1>4. order'[t].pc = "idle" /\ order' \in [Threads -> PayOrder]
  BY <1>1, <1>2, FreeOrder
<1>5. /\ j.op = "claim" => coins' = [coins EXCEPT ![who] = j.mine + j.amount]
      /\ j.op # "claim" /\ who = Superuser => coins' = coins
      /\ j.op # "claim" /\ who # Superuser =>
           coins' = [coins EXCEPT ![who] = j.mine - P!Price(j.op),
                                  ![Superuser] = j.theirs + P!Price(j.op)]
  BY <1>2 DEF P!Balances
<1>6. coins' \in [People -> Int]
  <2>1. j.mine - P!Price(j.op) \in Int /\ j.theirs + P!Price(j.op) \in Int /\ j.mine + j.amount \in Int
    BY <1>1
  <2> QED BY <1>1, <1>5, <2>1
<1>7. j.op = "claim" => who \notin deposits /\ earned[who] = <<>> /\ earned'[who] = <<j.amount>>
                        /\ Earnt(who, j.amount)
  <2> SUFFICES ASSUME j.op = "claim"
               PROVE who \notin deposits /\ earned[who] = <<>> /\ earned'[who] = <<j.amount>>
                     /\ Earnt(who, j.amount)
    OBVIOUS
  <2>1. who \notin deposits /\ Earnt(who, j.amount)
    BY <1>1 DEF PaySound
  <2>2. earned[who] = <<>>
    BY <1>1, <2>1 DEF PayInv, PayRewards
  <2>3. earned'[who] = Append(<<>>, j.amount)
    BY <1>1, <1>2, <2>2
  <2>4. Append(<<>>, j.amount) = <<j.amount>>
    OBVIOUS
  <2> QED BY <2>1, <2>2, <2>3, <2>4
<1>8. \A p \in People : p # who => earned'[p] = earned[p] /\ spent'[p] = spent[p]
  BY <1>1, <1>2
<1>9. spent'[who] = spent[who] + P!Price(j.op) /\ (j.op # "claim" => earned' = earned)
  BY <1>1, <1>2
<1>10. PayTyped'
  <2>1. claimed' \subseteq People /\ deposits' \subseteq People /\ sites' \subseteq Subdomains
        /\ asked' \in 0..MaxPayments
    BY <1>1, <1>2 DEF PayInv, PayTyped
  <2>2. spent' \in [People -> Nat]
    <3>1. spent[who] \in Nat /\ spent' = [spent EXCEPT ![who] = spent[who] + P!Price(j.op)]
      BY <1>1, <1>2
    <3>2. spent[who] + P!Price(j.op) \in Nat
      BY <1>1, <3>1
    <3> QED BY <1>1, <3>1, <3>2
  <2>3. earned' \in [People -> Seq(Nat)]
    <3>1. earned[who] \in Seq(Nat) /\ Append(earned[who], j.amount) \in Seq(Nat)
      BY <1>1
    <3> QED BY <1>1, <1>2, <3>1
  <2> QED BY <1>4, <1>6, <2>1, <2>2, <2>3 DEF PayTyped
<1>11. PayRewards'
  <2>1. claimed' = deposits'
    BY <1>2 DEF PayInv, PayRewards
  <2>2. ASSUME NEW p \in People
        PROVE  IF p \in deposits' THEN earned'[p] = <<earned'[p][1]>> /\ Earnt(p, earned'[p][1])
               ELSE earned'[p] = <<>>
    <3>1. CASE j.op = "claim" /\ p = who
      <4>1. p \in deposits' /\ earned'[p] = <<j.amount>> /\ Earnt(p, j.amount)
        BY <1>2, <1>7, <3>1
      <4>2. earned'[p][1] = j.amount
        BY <4>1
      <4> QED BY <4>1, <4>2
    <3>2. CASE ~(j.op = "claim" /\ p = who)
      <4>1. (p \in deposits' <=> p \in deposits) /\ earned'[p] = earned[p]
        BY <1>2, <1>8, <1>9, <3>2
      <4> QED BY <4>1 DEF PayInv, PayRewards
    <3> QED BY <3>1, <3>2
  <2> QED BY <2>1, <2>2 DEF PayRewards, Earnt
<1>12. PayApart'
  BY <1>3, <1>4 DEF PayInv, PayApart, P!Writes
<1>13. ASSUME NEW u \in Threads PROVE PaySound(order[u])'
  <2>1. CASE u = t
    BY <1>4, <2>1 DEF PaySound
  <2>2. CASE u # t
    <3>1. order'[u] = order[u] /\ PaySound(order[u])
      BY <1>3, <2>2 DEF PayInv
    <3>2. order[u].pc = "commit" /\ order[u].op = "claim" => order[u].who \notin deposits'
      <4> SUFFICES ASSUME order[u].pc = "commit", order[u].op = "claim" PROVE order[u].who \notin deposits'
        OBVIOUS
      <4>1. order[u].who \notin deposits
        BY <3>1 DEF PaySound
      <4>2. P!Writes(order[u]) \cap P!Writes(j) = {}
        BY <1>1, <2>2 DEF PayInv, PayApart
      <4>3. P!Writes(order[u]) = {order[u].who}
        BY DEF P!Writes
      <4>4. j.op = "claim" => P!Writes(j) = {who}
        BY DEF P!Writes
      <4>5. j.op = "claim" => order[u].who # who
        BY <4>2, <4>3, <4>4
      <4> QED BY <1>2, <4>1, <4>5
    <3> QED BY <3>1, <3>2 DEF PaySound, Earnt, P!Affords
  <2> QED BY <2>1, <2>2
<1>14. ASSUME NEW p \in People \ {Superuser}
       PROVE  (coins[p] >= 0 /\ (p \in Careful => PayExact(p)))'
  <2>1. coins[p] \in Int /\ coins[p] >= 0
    BY <1>1 DEF PayInv
  <2>2. CASE p # who
    <3>1. coins'[p] = coins[p] /\ earned'[p] = earned[p] /\ spent'[p] = spent[p]
      BY <1>1, <1>5, <1>8, <2>2
    <3>2. ASSUME p \in Careful PROVE PayExact(p)'
      <4>1. PayExact(p)
        BY <3>2 DEF PayInv
      <4>2. \A u \in Threads : order'[u].pc # "idle" => u # t /\ order'[u] = order[u]
        BY <1>3, <1>4
      <4>3. P!Total(earned[p])' = P!Total(earned'[p])
        BY DEF P!Total, P!FoldSeq, P!FoldFunction, P!FoldFunctionOnSet, P!MapThenFoldSet
      <4> QED BY <3>1, <4>1, <4>2, <4>3 DEF PayExact
    <3> QED BY <2>1, <3>1, <3>2
  <2>3. CASE p = who
    <3>1. coins'[p] = (IF j.op = "claim" THEN j.mine + j.amount ELSE j.mine - P!Price(j.op))
      BY <1>1, <1>5, <2>3
    <3>2. j.mine >= 0 /\ (j.op # "claim" => j.mine >= P!Price(j.op))
      BY <1>1, <2>3 DEF PaySound, P!Affords
    <3>3. coins'[p] >= 0
      BY <1>1, <3>1, <3>2
    <3>4. ASSUME p \in Careful PROVE PayExact(p)'
      <4>1. PayExact(p)
        BY <3>4 DEF PayInv
      <4>2. \A u \in Threads : order'[u].pc # "idle" => u # t /\ order'[u] = order[u]
        BY <1>3, <1>4
      <4>3. \A u \in Threads : order'[u].pc # "idle" => order'[u].who # p
        BY <1>1, <2>3, <4>1, <4>2 DEF PayExact
      <4>4. j.mine = coins[p]
        BY <1>1, <2>3, <4>1 DEF PayExact
      <4>5. FirstCoins[p] \in Nat /\ spent[p] \in Nat /\ spent'[p] = spent[p] + P!Price(j.op)
        BY <1>1, <1>9, <2>3, PaymentsBounds
      <4>6. coins'[p] = FirstCoins[p] - spent'[p] + P!Total(earned'[p])
        <5>1. CASE j.op = "claim"
          <6>1. P!Total(earned[p]) = 0 /\ P!Total(earned'[p]) = j.amount
            BY <1>1, <1>7, <2>3, <5>1, PayTotals
          <6>2. P!Price(j.op) = 0
            BY <5>1 DEF P!Price
          <6>3. coins[p] = FirstCoins[p] - spent[p]
            BY <2>1, <4>1, <4>5, <6>1 DEF PayExact
          <6> HIDE DEF j
          <6> QED BY <1>1, <3>1, <4>4, <4>5, <5>1, <6>1, <6>2, <6>3
        <5>2. CASE j.op # "claim"
          <6>1. earned'[p] = earned[p]
            BY <1>9, <5>2
          <6>2. P!Total(earned[p]) \in Int
            <7>1. earned[p] = <<>> \/ (earned[p] = <<earned[p][1]>> /\ earned[p] \in Seq(Nat))
              BY <1>1 DEF PayInv, PayRewards
            <7>2. CASE earned[p] = <<>>
              BY <7>2, PayTotals
            <7>3. CASE earned[p] = <<earned[p][1]>> /\ earned[p] \in Seq(Nat)
              <8>1. PICK a \in Nat : a = earned[p][1]
                BY <7>3
              <8>2. earned[p] = <<a>>
                BY <7>3, <8>1
              <8>3. P!Total(<<a>>) = a
                BY PayTotals
              <8> QED BY <8>2, <8>3
            <7> QED BY <7>1, <7>2, <7>3
          <6>3. coins[p] = FirstCoins[p] - spent[p] + P!Total(earned[p])
            BY <4>1 DEF PayExact
          <6>4. PICK m \in Int : m = P!Total(earned[p])
            BY <6>2
          <6>5. P!Total(earned'[p]) = m
            BY <6>1, <6>4
          <6>6. coins'[p] = coins[p] - P!Price(j.op)
            BY <3>1, <4>4, <5>2
          <6>7. coins[p] = FirstCoins[p] - spent[p] + m
            BY <6>3, <6>4
          <6> HIDE DEF j
          <6> QED BY <1>1, <4>5, <6>5, <6>6, <6>7
        <5> QED BY <5>1, <5>2
      <4>7. P!Total(earned[p])' = P!Total(earned'[p])
        BY DEF P!Total, P!FoldSeq, P!FoldFunction, P!FoldFunctionOnSet, P!MapThenFoldSet
      <4> QED BY <4>3, <4>6, <4>7 DEF PayExact
    <3> QED BY <3>3, <3>4
  <2> QED BY <2>2, <2>3
<1> QED BY <1>10, <1>11, <1>12, <1>13, <1>14 DEF PayInv

LEMMA PayStep == PayInv /\ (P!Next \/ UNCHANGED paying) => PayInv'
<1> SUFFICES ASSUME PayInv, P!Next \/ UNCHANGED paying PROVE PayInv'
  OBVIOUS
<1>0. /\ order \in [Threads -> PayOrder] /\ asked \in 0..MaxPayments /\ MaxPayments \in Nat
      /\ coins \in [People -> Int] /\ claimed \subseteq People
      /\ \A t \in Threads : order[t] \in PayOrder /\ PaySound(order[t])
  BY PaymentsBounds DEF PayInv, PayTyped
<1>1. CASE UNCHANGED paying
  <2>1. /\ coins' = coins /\ claimed' = claimed /\ deposits' = deposits /\ sites' = sites
        /\ spent' = spent /\ earned' = earned /\ order' = order /\ asked' = asked
    BY <1>1 DEF paying
  <2>2. \A p \in People : P!Total(earned[p])' = P!Total(earned'[p])
    BY DEF P!Total, P!FoldSeq, P!FoldFunction, P!FoldFunctionOnSet, P!MapThenFoldSet
  <2>3. PayTyped' /\ PayRewards' /\ PayApart'
    BY <2>1 DEF PayInv, PayTyped, PayRewards, PayApart, P!Writes
  <2>4. \A t \in Threads : PaySound(order[t])'
    BY <2>1 DEF PayInv, PaySound
  <2>5. \A p \in People \ {Superuser} : (coins[p] >= 0 /\ (p \in Careful => PayExact(p)))'
    BY <2>1, <2>2 DEF PayInv, PayExact
  <2> QED BY <2>3, <2>4, <2>5 DEF PayInv
<1>2. ASSUME NEW t \in Threads, NEW p \in People, P!Begin(t, p) PROVE PayInv'
  <2>1. PICK op \in {"article", "site", "claim"} :
        \E name \in IF op = "site" THEN Subdomains ELSE {P!NoName} :
          order' = [order EXCEPT ![t] = [P!Free EXCEPT !.pc = "check", !.op = op, !.who = p,
                    !.name = name, !.mine = coins[p], !.marked = p \in claimed]]
    BY <1>2 DEF P!Begin
  <2>2. PICK name \in Subdomains \cup {P!NoName} :
          order' = [order EXCEPT ![t] = [P!Free EXCEPT !.pc = "check", !.op = op, !.who = p,
                    !.name = name, !.mine = coins[p], !.marked = p \in claimed]]
    BY <2>1
  <2>3. PICK b \in BOOLEAN : b = (p \in claimed)
    <3>1. p \in claimed => TRUE = (p \in claimed)
      OBVIOUS
    <3>2. p \notin claimed => FALSE = (p \in claimed)
      OBVIOUS
    <3>3. TRUE \in BOOLEAN /\ FALSE \in BOOLEAN
      OBVIOUS
    <3> QED BY <3>1, <3>2, <3>3
  <2>4. PICK j : j = [P!Free EXCEPT !.pc = "check", !.op = op, !.who = p,
                      !.name = name, !.mine = coins[p], !.marked = b]
    OBVIOUS
  <2>5. j \in PayOrder /\ j.pc = "check" /\ j.op = op /\ j.who = p /\ j.mine = coins[p]
    <3>1. coins[p] \in Int
      BY <1>0
    <3> QED BY <2>4, <3>1, FreeOrder DEF PayOrder
  <2>6. order' = [order EXCEPT ![t] = j]
    BY <2>2, <2>3, <2>4
  <2>7. PaySound(j)
    <3>1. p # Superuser => coins[p] >= 0
      BY DEF PayInv
    <3> QED BY <2>5, <3>1 DEF PaySound
  <2>8. asked' \in 0..MaxPayments /\ UNCHANGED <<P!store, P!past>>
    BY <1>0, <1>2 DEF P!Begin
  <2>9. j.who \in Careful => \A u \in Threads \ {t} : order[u].pc = "idle" \/ order[u].who # j.who
    BY <1>2, <2>5 DEF P!Begin
  <2> QED BY <2>5, <2>6, <2>7, <2>8, <2>9, PayLearn
<1>3. ASSUME NEW t \in Threads, NEW j \in PayOrder, order' = [order EXCEPT ![t] = j],
             UNCHANGED <<P!store, asked, P!past>>, PaySound(j), j.pc # "commit", order[t].pc # "idle",
             j.pc # "idle" => j.who = order[t].who /\ j.mine = order[t].mine
      PROVE  PayInv'
  <2>1. ASSUME j.pc # "idle", j.who \in Careful \ {Superuser}
        PROVE  /\ j.mine = coins[j.who]
               /\ \A u \in Threads \ {t} : order[u].pc = "idle" \/ order[u].who # j.who
    <3>1. PICK p \in People \ {Superuser} : p = j.who /\ p \in Careful
      BY <2>1 DEF PayOrder
    <3>2. PayExact(p)
      BY <3>1 DEF PayInv
    <3> QED BY <1>3, <2>1, <3>1, <3>2 DEF PayExact
  <2> QED BY <1>0, <1>3, <2>1, PayLearn
<1>4. ASSUME NEW t \in Threads, P!CheckCreation(t) PROVE PayInv'
  <2>1. PICK j : j = [order[t] EXCEPT !.pc = "write", !.theirs = coins[Superuser]]
    OBVIOUS
  <2>2. /\ order[t] \in PayOrder /\ PaySound(order[t]) /\ order[t].pc = "check"
        /\ order[t].op \in {"article", "site"} /\ P!Affords(order[t])
        /\ order' = [order EXCEPT ![t].pc = "write", ![t].theirs = coins[Superuser]]
        /\ UNCHANGED <<P!store, asked, P!past>>
    BY <1>0, <1>4 DEF P!CheckCreation
  <2>3. /\ j \in PayOrder /\ j.pc = "write" /\ j.op = order[t].op /\ j.who = order[t].who
        /\ j.mine = order[t].mine
    <3>1. coins[Superuser] \in Int
      BY <1>0, PaymentsBounds
    <3> QED BY <2>1, <2>2, <3>1 DEF PayOrder
  <2>4. order' = [order EXCEPT ![t] = j]
    BY <1>0, <2>1, <2>2
  <2>5. PaySound(j)
    BY <2>2, <2>3 DEF PaySound, P!Affords
  <2> QED BY <1>3, <2>2, <2>3, <2>4, <2>5
<1>5. ASSUME NEW t \in Threads, P!CheckClaim(t) PROVE PayInv'
  <2>1. PICK sheet \in P!Filled(order[t].who) :
          /\ P!Passes(sheet)
          /\ order' = [order EXCEPT ![t].pc = "write", ![t].amount = P!Score(sheet)]
    BY <1>5 DEF P!CheckClaim
  <2>2. /\ order[t] \in PayOrder /\ PaySound(order[t]) /\ order[t].pc = "check"
        /\ order[t].op = "claim" /\ UNCHANGED <<P!store, asked, P!past>>
    BY <1>0, <1>5 DEF P!CheckClaim
  <2>3. order[t].who \in People
    BY <2>2 DEF PayOrder
  <2>4. PICK a \in Nat : a = P!Score(sheet)
    BY <2>1, <2>3, ScoreFits
  <2>5. PICK j : j = [order[t] EXCEPT !.pc = "write", !.amount = a]
    OBVIOUS
  <2>6. /\ j \in PayOrder /\ j.pc = "write" /\ j.op = "claim" /\ j.who = order[t].who
        /\ j.mine = order[t].mine /\ j.amount = a
    BY <2>2, <2>5 DEF PayOrder
  <2>7. order' = [order EXCEPT ![t] = j]
    BY <1>0, <2>1, <2>4, <2>5
  <2>8. Earnt(j.who, j.amount)
    BY <2>1, <2>4, <2>6 DEF Earnt
  <2>9. PaySound(j)
    BY <2>2, <2>6, <2>8 DEF PaySound
  <2> QED BY <1>3, <2>2, <2>6, <2>7, <2>9
<1>6. ASSUME NEW t \in Threads, P!Write(t) PROVE PayInv'
  <2>1. PICK j : j = [order[t] EXCEPT !.pc = "commit"]
    OBVIOUS
  <2>2. /\ order[t] \in PayOrder /\ PaySound(order[t]) /\ order[t].pc = "write"
        /\ ~P!Waits(t) /\ ~P!KeyTaken(order[t]) /\ order' = [order EXCEPT ![t].pc = "commit"]
        /\ UNCHANGED <<P!store, asked, P!past>>
    BY <1>0, <1>6 DEF P!Write
  <2>3. /\ j \in PayOrder /\ j.pc = "commit" /\ j.op = order[t].op /\ j.who = order[t].who
        /\ j.mine = order[t].mine /\ j.amount = order[t].amount
    BY <2>1, <2>2 DEF PayOrder
  <2>4. order' = [order EXCEPT ![t] = j]
    BY <1>0, <2>1, <2>2
  <2>5. j.op = "claim" => j.who \notin deposits
    BY <2>2, <2>3 DEF P!KeyTaken
  <2>6. PaySound(j)
    BY <2>2, <2>3, <2>5 DEF PaySound, P!Affords
  <2>7. P!Writes(j) = P!Writes(order[t])
    BY <2>3 DEF P!Writes
  <2>8. \A u \in Threads \ {t} :
          order[u].pc = "commit" => P!Writes(order[u]) \cap P!Writes(j) = {}
    BY <2>2, <2>7 DEF P!Waits
  <2>9. ASSUME j.who \in Careful \ {Superuser}
        PROVE  /\ j.mine = coins[j.who]
               /\ \A u \in Threads \ {t} : order[u].pc = "idle" \/ order[u].who # j.who
    <3>1. PICK p \in People \ {Superuser} : p = j.who /\ p \in Careful
      BY <2>3, <2>9 DEF PayOrder
    <3>2. PayExact(p)
      BY <3>1 DEF PayInv
    <3> QED BY <2>2, <2>3, <3>1, <3>2 DEF PayExact
  <2> QED BY <1>0, <2>2, <2>3, <2>4, <2>6, <2>8, <2>9, PayLearn
<1>7. ASSUME NEW t \in Threads, P!Abort(t) PROVE PayInv'
  <2>1. PICK j : j = P!Free
    OBVIOUS
  <2>2. j \in PayOrder /\ j.pc = "idle" /\ PaySound(j)
    BY <2>1, FreeOrder DEF PaySound
  <2>3. order' = [order EXCEPT ![t] = j] /\ order[t].pc # "idle" /\ UNCHANGED <<P!store, asked, P!past>>
    BY <1>7, <2>1 DEF P!Abort
  <2> QED BY <1>3, <2>2, <2>3
<1> QED BY <1>1, <1>2, <1>4, <1>5, <1>6, <1>7, PaySettle DEF P!Next

LEMMA PayHolds == PayInv => P!PaymentsExact
<1> SUFFICES ASSUME PayInv PROVE P!PaymentsExact
  OBVIOUS
<1>1. claimed = deposits
  BY DEF PayInv, PayRewards
<1>2. ASSUME NEW p \in People
      PROVE  /\ earned[p] # <<>> <=> p \in deposits
             /\ Len(earned[p]) <= 1
             /\ \A n \in DOMAIN earned[p] :
                  /\ 10 * earned[p][n] >= 6 * P!FullScore
                  /\ (\A sheet \in P!Filled(p) : ~P!Repeats(sheet)) => earned[p][n] <= P!FullScore
  <2>1. CASE p \notin deposits
    <3>1. earned[p] = <<>>
      BY <2>1 DEF PayInv, PayRewards
    <3> QED BY <2>1, <3>1
  <2>2. CASE p \in deposits
    <3>1. PICK a : a = earned[p][1] /\ earned[p] = <<a>> /\ Earnt(p, a)
      BY <2>2 DEF PayInv, PayRewards
    <3>2. PICK sheet \in P!Filled(p) : P!Passes(sheet) /\ a = P!Score(sheet)
      BY <3>1 DEF Earnt
    <3>3. 10 * a >= 6 * P!FullScore
      BY <3>2 DEF P!Passes
    <3>4. ~P!Repeats(sheet) => a <= P!FullScore
      BY <3>2, ScoreFits
    <3>5. <<a>> # <<>> /\ Len(<<a>>) = 1 /\ DOMAIN <<a>> = {1} /\ <<a>>[1] = a
      OBVIOUS
    <3> QED BY <2>2, <3>1, <3>2, <3>3, <3>4, <3>5
  <2> QED BY <2>1, <2>2
<1>3. P!RewardedOnce
  BY <1>1, <1>2 DEF P!RewardedOnce
<1>4. P!SpendingExact
  BY DEF PayInv, PayExact, P!SpendingExact
<1> QED BY <1>3, <1>4 DEF P!PaymentsExact

\* However requests overlap, the welcome test pays once, with a score that passes
\* and is at most the full one; no one spends coins that are not there, and who
\* sends one request at a time has paid for exactly what was written and created.
THEOREM PaymentsAlwaysExact == PlatformSpec => []PaymentsExact
<1> DEFINE Inv == part = "payments" => PayInv
<1>1. PlatformInit => Inv
  BY PayInit
<1>2. Inv /\ [PlatformNext]_platformVars => Inv'
  BY RunsAlone, PayStep
<1>3. Inv => PaymentsExact
  BY PayHolds DEF PaymentsExact
<1> QED BY <1>1, <1>2, <1>3, PTL DEF PlatformSpec

-----------------------------------------------------------------------------
(* Reading: what Access does to the rows.                                  *)

Kinds == {"question", "answer", "article", "submission", "comment"}
Members == Readers \ {Visitor}
WrittenOf(kinds) == {d \in written : KindOf[d] \in kinds}

AccessTyped ==
  /\ open \subseteq Circles /\ belongs \subseteq Members \X Circles /\ moderator \in [Circles -> Members]
  /\ written \subseteq Writings /\ hidden \subseteq Writings
  /\ deleted \subseteq WrittenOf({"answer", "article", "comment"})
  /\ published \subseteq WrittenOf({"answer", "article"})
  /\ restricted \subseteq WrittenOf({"answer", "article"})

\* What is written stays written.
AccessMoves == AccessTyped' /\ written \subseteq written'

LEMMA AccessWrites ==
  ASSUME AccessTyped, NEW r \in Readers, NEW d \in Writings, R!A!Writes(r, d) PROVE AccessMoves
<1>1. ASSUME \/ R!A!PutQuestion(r, d) \/ R!A!PutSubmission(r, d) \/ R!A!PutComment(r, d)
      PROVE AccessMoves
  <2>1. UNCHANGED <<open, belongs, moderator, written, published, deleted, hidden, restricted>>
    BY <1>1 DEF R!A!PutQuestion, R!A!PutSubmission, R!A!PutComment, R!A!update_question,
       R!A!update_submission, R!A!update_comment, R!A!gates, R!A!rows, R!A!QuestionSchema, R!A!SubmissionShown, R!A!CommentShown,
       R!A!InSite
  <2> QED BY <2>1 DEF AccessTyped, AccessMoves, WrittenOf
<1>2. ASSUME \/ R!A!PostQuestion(r, d) \/ R!A!PostSubmission(r, d) \/ R!A!PostComment(r, d)
      PROVE AccessMoves
  <2>1. /\ UNCHANGED <<open, belongs, moderator, published, deleted, hidden, restricted>>
        /\ written' = written \cup {d}
    BY <1>2 DEF R!A!PostQuestion, R!A!PostSubmission, R!A!PostComment, R!A!create_question,
       R!A!create_submission, R!A!create_comment, R!A!Sites, R!A!Add, R!A!QuestionSchema,
       R!A!SubmissionShown, R!A!CommentShown, R!A!InSite
  <2> QED BY <2>1 DEF AccessTyped, AccessMoves, WrittenOf
<1>3. ASSUME \/ R!A!PostAnswer(r, d) \/ R!A!PutAnswer(r, d) \/ R!A!PostArticle(r, d) \/ R!A!PutArticle(r, d)
      PROVE AccessMoves
  <2>1. /\ UNCHANGED <<open, belongs, moderator, deleted, hidden>>
        /\ KindOf[d] \in {"answer", "article"} /\ written' = written \cup {d}
        /\ R!A!Release(d)
    BY <1>3 DEF R!A!PostAnswer, R!A!PutAnswer, R!A!PostArticle, R!A!PutArticle, R!A!create_answer,
       R!A!update_answer, R!A!create_article, R!A!update_article, R!A!Sites, R!A!Add, R!A!Unwritten,
       R!A!Written, R!A!AnswerPage, R!A!AnswerReadable, R!A!QuestionPreview, R!A!Live, R!A!InSite,
       R!A!ArticleSchema
  <2>2. published' \subseteq published \cup {d} /\ restricted' \subseteq restricted \cup {d}
    BY <2>1 DEF R!A!Release, R!A!Add
  <2> QED BY <2>1, <2>2 DEF AccessTyped, AccessMoves, WrittenOf
<1> QED BY <1>1, <1>2, <1>3 DEF R!A!Writes

LEMMA AccessRemoves ==
  ASSUME AccessTyped, NEW r \in Readers, NEW d \in Writings, R!A!Removes(r, d) PROVE AccessMoves
<1>1. ASSUME R!A!HideQuestion(r, d) \/ R!A!HideSubmission(r, d) \/ R!A!ModerateAnswer(r, d)
      PROVE AccessMoves
  <2>1. /\ UNCHANGED <<open, belongs, moderator, written, published, deleted, restricted>>
        /\ hidden' \subseteq hidden \cup {d}
    BY <1>1 DEF R!A!HideQuestion, R!A!HideSubmission, R!A!ModerateAnswer, R!A!hide_question,
       R!A!hide_submission, R!A!update_answer_by_mod, R!A!Sites, R!A!Add, R!A!QuestionSchema,
       R!A!AnswerPage, R!A!AnswerReadable, R!A!QuestionPreview, R!A!Live, R!A!InSite
  <2> QED BY <2>1 DEF AccessTyped, AccessMoves, WrittenOf
<1>2. ASSUME R!A!DeleteAnswer(r, d) \/ R!A!DeleteArticle(r, d) \/ R!A!DeleteComment(r, d)
      PROVE AccessMoves
  <2>1. /\ UNCHANGED <<open, belongs, moderator, written, published, hidden, restricted>>
        /\ deleted' = deleted \cup {d} /\ d \in WrittenOf({"answer", "article", "comment"})
    BY <1>2 DEF R!A!DeleteAnswer, R!A!DeleteArticle, R!A!DeleteComment, R!A!delete_answer,
       R!A!delete_article, R!A!delete_comment, R!A!Erase, R!A!Sites, R!A!Add, R!A!Written, WrittenOf
  <2> QED BY <2>1 DEF AccessTyped, AccessMoves, WrittenOf
<1> QED BY <1>1, <1>2 DEF R!A!Removes

LEMMA AccessStep == AccessTyped /\ R!A!Next => AccessMoves
<1> SUFFICES ASSUME AccessTyped, R!A!Next PROVE AccessMoves
  OBVIOUS
<1>1. ASSUME NEW r \in Readers, NEW d \in Writings, NEW guest, R!A!InviteAnswer(r, d, guest)
      PROVE AccessMoves
  <2>1. UNCHANGED <<open, belongs, moderator, written, published, deleted, hidden, restricted>>
    BY <1>1 DEF R!A!InviteAnswer, R!A!invite_answer, R!A!gates, R!A!rows
  <2> QED BY <2>1 DEF AccessTyped, AccessMoves, WrittenOf
<1>2. ASSUME NEW r \in Readers, NEW c \in Circles, R!A!Join(r, c) \/ R!A!Leave(r, c) PROVE AccessMoves
  <2>1. /\ UNCHANGED <<open, moderator, written, published, deleted, hidden, restricted>>
        /\ belongs' \subseteq belongs \cup {<<r, c>>} /\ r \in Members
    BY <1>2 DEF R!A!Join, R!A!Leave, R!A!remove_my_site_membership, R!A!Add, R!A!rows, R!A!LoggedIn,
       Members
  <2> QED BY <2>1 DEF AccessTyped, AccessMoves, WrittenOf
<1>3. ASSUME NEW r \in Readers, NEW c \in Circles, NEW heir \in R!A!Accounts, R!A!ConfigSite(r, c, heir)
      PROVE AccessMoves
  <2>1. /\ UNCHANGED <<open, belongs, written, published, deleted, hidden, restricted>>
        /\ moderator' = [moderator EXCEPT ![c] = heir] /\ heir \in Members
    BY <1>3 DEF R!A!ConfigSite, R!A!config_site, R!A!rows, R!A!Accounts, Members
  <2> QED BY <2>1 DEF AccessTyped, AccessMoves, WrittenOf
<1> QED BY <1>1, <1>2, <1>3, AccessWrites, AccessRemoves DEF R!A!Next

LEMMA AccessInit == PlatformInit => AccessTyped
<1> SUFFICES ASSUME PlatformInit PROVE AccessTyped
  OBVIOUS
<1>1. /\ open \in SUBSET Circles /\ moderator = ModeratorOf
      /\ belongs = {<<moderator[c], c>> : c \in Circles} /\ written \in SUBSET FirstWritten
      /\ published = {} /\ deleted = {} /\ hidden = {} /\ restricted = {}
  BY DEF PlatformInit, R!Init, R!A!Init
<1> QED BY <1>1, ReadingBounds DEF AccessTyped, WrittenOf, Members
-----------------------------------------------------------------------------
(* Reading: votes, marks and lists.                                        *)

Questions == {q \in Writings : KindOf[q] = "question"}

ReadTyped ==
  /\ AccessTyped
  /\ voted \subseteq Members \X written
  /\ marked \subseteq Members \X (written \ WrittenOf({"comment"}))
  /\ changes \in 0..MaxChanges /\ ticks \in 0..MaxTicks
  /\ gap \in [Readers -> [Questions -> 0..PendingLife + 1]]
  /\ pinned \in [shown : SUBSET Questions, life : 0..PinnedLife]
  /\ pending \in [Readers -> [shown : SUBSET Questions, life : 0..PendingLife]]

\* A kept list has the life that the gaps of what it shows leave it.
ReadLists ==
  /\ \A r \in Readers : \A q \in Questions : R!CanSee(r, q) => gap[r][q] = 0
  /\ \A r \in Readers : \A q \in pending[r].shown : gap[r][q] + pending[r].life <= PendingLife
  /\ \A q \in pinned.shown : \E r \in Readers : gap[r][q] + pinned.life <= PinnedLife

ReadInv == ReadTyped /\ ReadLists

LEMMA QuestionsAre == R!Of("question") = Questions /\ R!A!Of("question") = Questions
BY DEF R!Of, R!A!Of, Questions

LEMMA ReadInit == PlatformInit => ReadInv
<1> SUFFICES ASSUME PlatformInit PROVE ReadInv
  OBVIOUS
<1>1. /\ voted = {} /\ marked = {} /\ pinned = R!NoList /\ pending = [r \in Readers |-> R!NoList]
      /\ changes = 0 /\ ticks = 0 /\ gap = [r \in Readers |-> [q \in Questions |-> 0]]
  BY QuestionsAre DEF PlatformInit, R!Init
<1>2. R!NoList \in [shown : SUBSET Questions, life : {0}] /\ R!NoList.shown = {}
  BY DEF R!NoList
<1>3. ReadTyped
  BY <1>1, <1>2, AccessInit, ReadingBounds DEF ReadTyped
<1>4. ReadLists
  BY <1>1, <1>2 DEF ReadLists
<1> QED BY <1>3, <1>4 DEF ReadInv

LEMMA GapsFall ==
  ASSUME ReadInv, R!Seen
  PROVE  /\ gap' \in [Readers -> [Questions -> 0..PendingLife + 1]]
         /\ \A r \in Readers : \A q \in Questions : gap'[r][q] <= gap[r][q]
         /\ \A r \in Readers : \A q \in Questions : R!CanSee(r, q)' => gap'[r][q] = 0
<1>1. gap' = [r \in Readers |-> [q \in Questions |->
                IF R!CanSee(r, q) \/ R!CanSee(r, q)' THEN 0 ELSE gap[r][q]]]
  BY QuestionsAre DEF R!Seen, R!CanSee, R!QuestionPreview, R!InSite
<1>2. ASSUME NEW r \in Readers, NEW q \in Questions
      PROVE  /\ gap[r][q] \in 0..PendingLife + 1
             /\ gap'[r][q] \in 0..PendingLife + 1 /\ gap'[r][q] <= gap[r][q]
             /\ R!CanSee(r, q)' => gap'[r][q] = 0
  <2>1. gap[r][q] \in 0..PendingLife + 1 /\ PendingLife \in Nat
    BY ReadingBounds DEF ReadInv, ReadTyped
  <2>2. gap'[r][q] = 0 \/ gap'[r][q] = gap[r][q]
    BY <1>1
  <2>3. R!CanSee(r, q)' => gap'[r][q] = 0
    BY <1>1 DEF R!CanSee, R!QuestionPreview, R!InSite
  <2> QED BY <2>1, <2>2, <2>3
<1>3. gap' \in [Readers -> [Questions -> 0..PendingLife + 1]]
  BY <1>1, <1>2
<1> QED BY <1>2, <1>3

LEMMA ReadChange ==
  ASSUME ReadInv, R!More, R!Change, AccessMoves,
         voted' \subseteq Members \X written', marked' \subseteq Members \X (written' \ WrittenOf({"comment"})')
  PROVE  ReadInv'
<1>1. /\ changes' \in 0..MaxChanges /\ pinned' = pinned /\ pending' = pending /\ ticks' = ticks /\ R!Seen
  BY ReadingBounds DEF R!More, R!Change, R!lists, ReadInv, ReadTyped, R!Seen, R!CanSee, R!QuestionPreview, R!InSite
<1>2. /\ gap' \in [Readers -> [Questions -> 0..PendingLife + 1]]
      /\ \A r \in Readers : \A q \in Questions : gap'[r][q] <= gap[r][q]
      /\ \A r \in Readers : \A q \in Questions : R!CanSee(r, q)' => gap'[r][q] = 0
  BY <1>1, GapsFall
<1>3. ReadTyped'
  BY <1>1, <1>2 DEF ReadInv, ReadTyped, AccessMoves
<1>4. ASSUME NEW r \in Readers, NEW q \in Questions
      PROVE  gap[r][q] \in Nat /\ gap'[r][q] \in Nat /\ gap'[r][q] <= gap[r][q]
  BY <1>2, ReadingBounds DEF ReadInv, ReadTyped
<1>5. ASSUME NEW r \in Readers, NEW q \in pending[r].shown PROVE gap'[r][q] + pending[r].life <= PendingLife
  <2>1. q \in Questions /\ pending[r].life \in Nat /\ PendingLife \in Nat
    BY ReadingBounds DEF ReadInv, ReadTyped
  <2>2. gap[r][q] + pending[r].life <= PendingLife
    BY DEF ReadInv, ReadLists
  <2> QED BY <1>4, <2>1, <2>2
<1>6. ASSUME NEW q \in pinned.shown PROVE \E r \in Readers : gap'[r][q] + pinned.life <= PinnedLife
  <2>1. q \in Questions /\ pinned.life \in Nat /\ PinnedLife \in Nat
    BY ReadingBounds DEF ReadInv, ReadTyped
  <2>2. PICK r \in Readers : gap[r][q] + pinned.life <= PinnedLife
    BY DEF ReadInv, ReadLists
  <2> QED BY <1>4, <2>1, <2>2
<1>7. ReadLists'
  BY <1>1, <1>2, <1>5, <1>6 DEF ReadLists, R!CanSee, R!QuestionPreview, R!InSite
<1> QED BY <1>3, <1>7 DEF ReadInv

LEMMA ReadOperate == ReadInv /\ R!Operate => ReadInv'
<1> SUFFICES ASSUME ReadInv, R!Operate PROVE ReadInv'
  OBVIOUS
<1>1. R!A!Next /\ voted' = voted /\ marked' = marked /\ R!More /\ R!Change
  BY DEF R!Operate, R!Change, R!Seen, R!CanSee, R!QuestionPreview, R!InSite
<1>2. AccessMoves
  BY <1>1, AccessStep DEF ReadInv, ReadTyped
<1>3. voted' \subseteq Members \X written' /\ marked' \subseteq Members \X (written' \ WrittenOf({"comment"})')
  BY <1>1, <1>2 DEF ReadInv, ReadTyped, AccessMoves, WrittenOf
<1> QED BY <1>1, <1>2, <1>3, ReadChange

LEMMA StaysSo == ASSUME ReadInv, UNCHANGED R!gates PROVE AccessMoves /\ written' = written
<1>1. UNCHANGED <<open, belongs, moderator, written, published, deleted, hidden, restricted>>
  BY DEF R!gates, R!rows
<1> QED BY <1>1 DEF ReadInv, ReadTyped, AccessTyped, AccessMoves, WrittenOf

LEMMA VotesOnly ==
  ASSUME NEW r \in Readers, NEW d \in Writings, R!Vote(r, d)
  PROVE  /\ UNCHANGED R!gates
         /\ \/ voted' \subseteq voted
            \/ voted' = voted \cup {<<r, d>>} /\ r \in Members /\ d \in written
<1>1. R!W!Vote(r, d) => UNCHANGED R!gates /\ voted' = voted \cup {<<r, d>>} /\ r \in Members /\ d \in written
  BY DEF R!W!Vote, R!W!UpvoteQuestion, R!W!UpvoteAnswer, R!W!UpvoteArticle, R!W!UpvoteSubmission,
     R!W!UpvoteComment, R!W!upvote_question, R!W!upvote_answer, R!W!upvote_article,
     R!W!upvote_submission, R!W!upvote_comment, R!W!Upvoted, R!W!Add, R!W!Written, R!W!gates, R!W!rows,
     R!gates, R!rows, Members
<1>2. R!W!Cancel(r, d) => UNCHANGED R!gates /\ voted' \subseteq voted
  BY DEF R!W!Cancel, R!W!CancelUpvoteQuestion, R!W!CancelUpvoteAnswer, R!W!CancelUpvoteArticle,
     R!W!CancelUpvoteSubmission, R!W!CancelUpvoteComment, R!W!cancel_upvote_question,
     R!W!cancel_upvote_answer, R!W!cancel_upvote_article, R!W!cancel_upvote_submission,
     R!W!cancel_upvote_comment, R!W!Cancelled, R!W!gates, R!W!rows, R!gates, R!rows
<1> QED BY <1>1, <1>2 DEF R!Vote

LEMMA ReadVote ==
  ASSUME ReadInv, NEW r \in Readers, NEW d \in Writings, R!Vote(r, d) PROVE ReadInv'
<1>1. marked' = marked /\ R!More /\ R!Change
  BY DEF R!Vote, R!Change, R!Seen, R!CanSee, R!QuestionPreview, R!InSite
<1>2. UNCHANGED R!gates
  BY VotesOnly
<1>3. \/ voted' \subseteq voted
      \/ voted' = voted \cup {<<r, d>>} /\ r \in Members /\ d \in written
  BY VotesOnly
<1>4. UNCHANGED R!gates
  BY <1>2
<1>5. AccessMoves /\ written' = written
  BY <1>4, StaysSo
<1>6. voted' \subseteq Members \X written'
  BY <1>3, <1>5 DEF ReadInv, ReadTyped
<1>7. marked' \subseteq Members \X (written' \ WrittenOf({"comment"})')
  BY <1>1, <1>5 DEF ReadInv, ReadTyped, WrittenOf
<1> QED BY <1>1, <1>5, <1>6, <1>7, ReadChange

LEMMA ReadMark ==
  ASSUME ReadInv, NEW r \in Readers, NEW d \in Writings, R!Mark(r, d) PROVE ReadInv'
<1>1. /\ r \in Members /\ d \in written \ WrittenOf({"comment"})
      /\ marked' \subseteq marked \cup {<<r, d>>} /\ voted' = voted /\ UNCHANGED R!gates /\ R!More /\ R!Change
  BY DEF R!Mark, R!Change, R!Seen, R!CanSee, R!QuestionPreview, R!InSite, R!Of, Members, WrittenOf
<1>2. AccessMoves /\ written' = written
  BY <1>1, StaysSo
<1>3. voted' \subseteq Members \X written' /\ marked' \subseteq Members \X (written' \ WrittenOf({"comment"})')
  BY <1>1, <1>2 DEF ReadInv, ReadTyped, WrittenOf
<1> QED BY <1>1, <1>2, <1>3, ReadChange

\* While rows stay, so do pages.
LEMMA SeeingStays ==
  ASSUME UNCHANGED R!gates PROVE \A r, q : R!CanSee(r, q)' <=> R!CanSee(r, q)
BY DEF R!gates, R!rows, R!CanSee, R!QuestionPreview, R!InSite

LEMMA ReadFillPinned ==
  ASSUME ReadInv, NEW b \in Readers, R!FillPinned(b) PROVE ReadInv'
<1>1. /\ UNCHANGED R!gates /\ voted' = voted /\ marked' = marked /\ pending' = pending
      /\ changes' = changes /\ ticks' = ticks /\ gap' = gap
      /\ pinned' = [shown |-> R!FreshPinned(b), life |-> PinnedLife]
  BY DEF R!FillPinned
<1>2. \A q \in R!FreshPinned(b) : q \in Questions /\ R!CanSee(b, q)
  BY ReadingBounds DEF R!FreshPinned, R!CanSee, Questions
<1>3. AccessMoves /\ written' = written
  BY <1>1, StaysSo
<1>4. ReadTyped'
  <2>1. pinned' \in [shown : SUBSET Questions, life : 0..PinnedLife]
    BY <1>1, <1>2, ReadingBounds
  <2> QED BY <1>1, <1>3, <2>1 DEF ReadInv, ReadTyped, AccessMoves, WrittenOf
<1>5. \A q \in pinned'.shown : gap'[b][q] + pinned'.life <= PinnedLife
  <2>1. \A q \in R!FreshPinned(b) : gap[b][q] = 0
    BY <1>2 DEF ReadInv, ReadLists
  <2> QED BY <1>1, <2>1, ReadingBounds
<1>6. \A r \in Readers : \A q \in Questions : R!CanSee(r, q)' => gap'[r][q] = 0
  BY <1>1, SeeingStays DEF ReadInv, ReadLists
<1>7. ReadLists'
  BY <1>1, <1>5, <1>6 DEF ReadInv, ReadLists, R!CanSee, R!QuestionPreview, R!InSite
<1> QED BY <1>4, <1>7 DEF ReadInv

LEMMA ReadFillPending ==
  ASSUME ReadInv, NEW b \in Readers, R!FillPending(b) PROVE ReadInv'
<1>1. /\ UNCHANGED R!gates /\ voted' = voted /\ marked' = marked /\ pinned' = pinned
      /\ changes' = changes /\ ticks' = ticks /\ gap' = gap
      /\ pending' = [pending EXCEPT ![b] = [shown |-> R!FreshPending(b), life |-> PendingLife]]
  BY DEF R!FillPending
<1>2. \A q \in R!FreshPending(b) : q \in Questions /\ R!CanSee(b, q)
  BY DEF R!FreshPending, R!CanSee, R!Those, R!Of, Questions
<1>3. AccessMoves /\ written' = written
  BY <1>1, StaysSo
<1>4. /\ pending' \in [Readers -> [shown : SUBSET Questions, life : 0..PendingLife]]
      /\ pending'[b] = [shown |-> R!FreshPending(b), life |-> PendingLife]
      /\ \A r \in Readers \ {b} : pending'[r] = pending[r]
  BY <1>1, <1>2, ReadingBounds DEF ReadInv, ReadTyped
<1>5. ReadTyped'
  BY <1>1, <1>3, <1>4 DEF ReadInv, ReadTyped, AccessMoves, WrittenOf
<1>6. \A r \in Readers : \A q \in pending'[r].shown : gap'[r][q] + pending'[r].life <= PendingLife
  <2>1. \A q \in R!FreshPending(b) : gap[b][q] = 0
    BY <1>2 DEF ReadInv, ReadLists
  <2> QED BY <1>1, <1>4, <2>1, ReadingBounds DEF ReadInv, ReadLists
<1>7. \A r \in Readers : \A q \in Questions : R!CanSee(r, q)' => gap'[r][q] = 0
  BY <1>1, SeeingStays DEF ReadInv, ReadLists
<1>8. ReadLists'
  BY <1>1, <1>6, <1>7 DEF ReadInv, ReadLists, R!CanSee, R!QuestionPreview, R!InSite
<1> QED BY <1>5, <1>8 DEF ReadInv

LEMMA AgedList ==
  ASSUME NEW max \in Nat, NEW list \in [shown : SUBSET Questions, life : 0..max]
  PROVE  /\ R!Aged(list) \in [shown : SUBSET Questions, life : 0..max]
         /\ \A q \in R!Aged(list).shown : q \in list.shown /\ R!Aged(list).life + 1 <= list.life
BY DEF R!Aged, R!NoList

LEMMA ReadTick == ASSUME ReadInv, R!Tick PROVE ReadInv'
<1>1. /\ UNCHANGED R!gates /\ voted' = voted /\ marked' = marked /\ changes' = changes
      /\ ticks' \in 0..MaxTicks /\ pinned' = R!Aged(pinned)
      /\ pending' = [r \in Readers |-> R!Aged(pending[r])]
      /\ gap' = [r \in Readers |-> [q \in Questions |->
                   IF R!CanSee(r, q) THEN 0 ELSE R!Later(gap[r][q])]]
  BY QuestionsAre, ReadingBounds DEF R!Tick, ReadInv, ReadTyped
<1>2. AccessMoves /\ written' = written
  BY <1>1, StaysSo
<1>3. ASSUME NEW r \in Readers, NEW q \in Questions
      PROVE  /\ gap[r][q] \in Nat /\ gap'[r][q] \in 0..PendingLife + 1 /\ gap'[r][q] <= gap[r][q] + 1
             /\ R!CanSee(r, q) => gap'[r][q] = 0
  <2>1. gap[r][q] \in 0..PendingLife + 1 /\ PendingLife \in Nat
    BY ReadingBounds DEF ReadInv, ReadTyped
  <2>2. gap'[r][q] = IF R!CanSee(r, q) THEN 0 ELSE R!Later(gap[r][q])
    BY <1>1
  <2>3. R!Later(gap[r][q]) = IF gap[r][q] > PendingLife THEN gap[r][q] ELSE gap[r][q] + 1
    BY DEF R!Later
  <2> QED BY <2>1, <2>2, <2>3
<1>4. gap' \in [Readers -> [Questions -> 0..PendingLife + 1]]
  BY <1>1, <1>3
<1>5. /\ pinned \in [shown : SUBSET Questions, life : 0..PinnedLife] /\ PinnedLife \in Nat
      /\ PendingLife \in Nat
      /\ \A r \in Readers : pending[r] \in [shown : SUBSET Questions, life : 0..PendingLife]
  BY ReadingBounds DEF ReadInv, ReadTyped
<1>6. /\ pinned' \in [shown : SUBSET Questions, life : 0..PinnedLife]
      /\ \A q \in pinned'.shown : q \in pinned.shown /\ pinned'.life + 1 <= pinned.life
  BY <1>1, <1>5, AgedList
<1>7. ASSUME NEW r \in Readers
      PROVE  /\ pending'[r] \in [shown : SUBSET Questions, life : 0..PendingLife]
             /\ \A q \in pending'[r].shown : q \in pending[r].shown /\ pending'[r].life + 1 <= pending[r].life
  BY <1>1, <1>5, AgedList
<1>8. ReadTyped'
  <2>1. pending' \in [Readers -> [shown : SUBSET Questions, life : 0..PendingLife]]
    BY <1>1, <1>7
  <2> QED BY <1>1, <1>2, <1>4, <1>6, <2>1 DEF ReadInv, ReadTyped, AccessMoves, WrittenOf
<1>9. ASSUME NEW r \in Readers, NEW q \in pending'[r].shown
      PROVE  gap'[r][q] + pending'[r].life <= PendingLife
  <2>1. /\ q \in pending[r].shown /\ pending'[r].life + 1 <= pending[r].life /\ q \in Questions
        /\ pending'[r].life \in Nat /\ pending[r].life \in Nat
    BY <1>5, <1>7
  <2>2. gap[r][q] + pending[r].life <= PendingLife
    BY <2>1 DEF ReadInv, ReadLists
  <2>3. gap[r][q] \in Nat /\ gap'[r][q] \in Nat /\ gap'[r][q] <= gap[r][q] + 1
    BY <1>3, <1>5, <2>1
  <2> QED BY <1>5, <2>1, <2>2, <2>3
<1>10. ASSUME NEW q \in pinned'.shown PROVE \E r \in Readers : gap'[r][q] + pinned'.life <= PinnedLife
  <2>1. /\ q \in pinned.shown /\ pinned'.life + 1 <= pinned.life /\ q \in Questions
        /\ pinned'.life \in Nat /\ pinned.life \in Nat
    BY <1>5, <1>6
  <2>2. PICK r \in Readers : gap[r][q] + pinned.life <= PinnedLife
    BY <2>1 DEF ReadInv, ReadLists
  <2>3. gap[r][q] \in Nat /\ gap'[r][q] \in Nat /\ gap'[r][q] <= gap[r][q] + 1
    BY <1>3, <1>5, <2>1
  <2>4. gap'[r][q] + pinned'.life <= PinnedLife
    BY <1>5, <2>1, <2>2, <2>3
  <2> QED BY <2>4
<1>11. \A r \in Readers : \A q \in Questions : R!CanSee(r, q)' => gap'[r][q] = 0
  BY <1>1, <1>3, SeeingStays
<1>12. ReadLists'
  BY <1>9, <1>10, <1>11 DEF ReadLists, R!CanSee, R!QuestionPreview, R!InSite
<1> QED BY <1>8, <1>12 DEF ReadInv

LEMMA ReadStep == ReadInv /\ (R!Next \/ UNCHANGED reading) => ReadInv'
<1> SUFFICES ASSUME ReadInv, R!Next \/ UNCHANGED reading PROVE ReadInv'
  OBVIOUS
<1>1. ASSUME UNCHANGED reading \/ \E d \in Writings : R!Postprocess(d) PROVE ReadInv'
  <2>1. /\ open' = open /\ belongs' = belongs /\ moderator' = moderator /\ written' = written
        /\ published' = published /\ deleted' = deleted /\ hidden' = hidden /\ restricted' = restricted
        /\ voted' = voted /\ marked' = marked /\ pinned' = pinned /\ pending' = pending
        /\ changes' = changes /\ ticks' = ticks /\ gap' = gap
    BY <1>1 DEF reading, R!Postprocess, R!gates, R!rows, R!lists
  <2> QED BY <2>1 DEF ReadInv, ReadTyped, ReadLists, AccessTyped, WrittenOf, R!CanSee,
        R!QuestionPreview, R!InSite
<1>2. ASSUME NEW r \in Readers, NEW d \in Writings, R!Mark(r, d) \/ R!Vote(r, d) PROVE ReadInv'
  BY <1>2, ReadVote, ReadMark
<1>3. ASSUME NEW r \in Readers, R!FillPinned(r) \/ R!FillPending(r) PROVE ReadInv'
  BY <1>3, ReadFillPinned, ReadFillPending
<1> QED BY <1>1, <1>2, <1>3, ReadOperate, ReadTick, ReadingBounds DEF R!Next

-----------------------------------------------------------------------------
(* Reading: what becomes of what is written.                               *)

Rows == [verb : {"create", "upvote"}, about : Writings, by : Readers]

\* Questions and published answers.
ToAnnounce == WrittenOf({"question"}) \cup {d \in published : KindOf[d] = "answer"}

\* Each of them has its task to come, or had one that failed, or has an Activity.
EventInv ==
  /\ activities \in Seq(Rows) /\ tasks \subseteq written /\ lost \subseteq written
  /\ \A d \in ToAnnounce :
       d \in tasks \/ d \in lost \/ \E n \in DOMAIN activities : activities[n] = R!Created(d)

LEMMA ReadCardinality == \A U : R!Cardinality(U) = Cardinality(U)
BY DEF R!Cardinality, Cardinality

LEMMA CreatedIsRow == \A d \in Writings : R!Created(d) \in Rows
BY ReadingBounds DEF R!Created, R!Activity, Rows

LEMMA EventInit == PlatformInit => EventInv
<1> SUFFICES ASSUME PlatformInit PROVE EventInv
  OBVIOUS
<1> DEFINE Asked == R!Those("question")
<1>1. /\ activities \in [1..R!Cardinality(Asked) -> {R!Created(d) : d \in Asked}]
      /\ \A d \in Asked : \E n \in DOMAIN activities : activities[n] = R!Created(d)
      /\ tasks = {} /\ lost = {} /\ published = {} /\ written \subseteq FirstWritten
  BY DEF PlatformInit, R!Init, R!A!Init, R!Announced
<1>2. Asked = WrittenOf({"question"})
  BY <1>1, ReadingBounds DEF R!Those, R!Of, WrittenOf
<1>3. IsFiniteSet(Asked)
  <2>1. Asked \subseteq FirstWritten
    BY <1>1 DEF R!Those
  <2> QED BY <2>1, FS_Subset, ReadingBounds
<1>4. R!Cardinality(Asked) \in Nat
  BY <1>3, FS_CardinalityType, ReadCardinality
<1>5. {R!Created(d) : d \in Asked} \subseteq Rows
  BY CreatedIsRow DEF R!Those, R!Of
<1>6. activities \in Seq(Rows)
  <2> HIDE DEF Asked
  <2>1. activities \in [1..R!Cardinality(Asked) -> Rows]
    BY <1>1, <1>5
  <2> QED BY <1>4, <2>1
<1>7. ToAnnounce = Asked
  BY <1>1, <1>2 DEF ToAnnounce
<1> QED BY <1>1, <1>6, <1>7 DEF EventInv

\* A new Activity is added to those that are there.
LEMMA ActivityAppended ==
  ASSUME activities \in Seq(Rows), NEW row0 \in Rows, activities' = Append(activities, row0)
  PROVE  /\ activities' \in Seq(Rows)
         /\ \A n \in DOMAIN activities : n \in DOMAIN activities' /\ activities'[n] = activities[n]
         /\ \E n \in DOMAIN activities' : activities'[n] = row0
<1>1. /\ Len(activities) \in Nat /\ DOMAIN activities = 1..Len(activities)
      /\ DOMAIN activities' = 1..Len(activities) + 1 /\ activities'[Len(activities) + 1] = row0
  OBVIOUS
<1> QED BY <1>1

\* What nobody has to announce yet is announced by its task.
LEMMA EventsKept ==
  ASSUME EventInv, activities' \in Seq(Rows), tasks' \subseteq written', lost' \subseteq written',
         \A n \in DOMAIN activities : n \in DOMAIN activities' /\ activities'[n] = activities[n],
         lost \subseteq lost', \A d \in ToAnnounce' \ ToAnnounce : d \in tasks',
         \A d \in tasks : \/ d \in tasks' \cup lost'
                          \/ \E n \in DOMAIN activities' : activities'[n] = R!Created(d)
                          \/ d \notin ToAnnounce'
  PROVE  EventInv'
<1>1. ASSUME NEW d \in ToAnnounce'
      PROVE  d \in tasks' \/ d \in lost' \/ \E n \in DOMAIN activities' : activities'[n] = R!Created(d)
  <2>1. CASE d \notin ToAnnounce
    BY <2>1
  <2>2. CASE d \in tasks
    BY <2>2
  <2>3. CASE d \in lost
    BY <2>3
  <2>4. CASE \E n \in DOMAIN activities : activities[n] = R!Created(d)
    BY <2>4
  <2> QED BY <2>1, <2>2, <2>3, <2>4 DEF EventInv
<1>2. \A d : R!Created(d)' = R!Created(d)
  BY DEF R!Created, R!Activity
<1> QED BY <1>1, <1>2 DEF EventInv

LEMMA EventOperate == ASSUME ReadInv, ReadInv', EventInv, R!Operate PROVE EventInv'
<1>1. /\ tasks' = tasks \cup (R!ForTasks' \ R!ForTasks) /\ lost' = lost
      /\ \/ activities' = activities
         \/ \E d \in R!AtOnce' : activities' = Append(activities, R!Created(d))
  BY DEF R!Operate, R!AtOnce, R!ForTasks, R!Of
<1>2. R!ForTasks = ToAnnounce \cup {d \in written : d \in Writings /\ KindOf[d] = "comment"}
  BY DEF R!ForTasks, R!Of, ToAnnounce, WrittenOf, ReadInv, ReadTyped, AccessTyped
<1>3. R!ForTasks' = ToAnnounce' \cup {d \in written' : d \in Writings /\ KindOf[d] = "comment"}
  BY DEF R!ForTasks, R!Of, ToAnnounce, WrittenOf, ReadInv, ReadTyped, AccessTyped
<1>4. \A d \in ToAnnounce' \ ToAnnounce : d \in tasks'
  <2>1. \A d \in ToAnnounce' : d \in Writings /\ KindOf[d] # "comment"
    BY ReadingBounds DEF ToAnnounce, WrittenOf, ReadInv, ReadTyped, AccessTyped
  <2> QED BY <1>1, <1>2, <1>3, <2>1
<1>5. written \subseteq written'
  BY AccessStep DEF R!Operate, ReadInv, ReadTyped, AccessMoves
<1>6. tasks' \subseteq written' /\ lost' \subseteq written'
  <2>1. R!ForTasks' \subseteq written'
    BY DEF R!ForTasks, ReadInv, ReadTyped, AccessTyped, WrittenOf
  <2> QED BY <1>1, <1>5, <2>1 DEF EventInv
<1>7. /\ activities' \in Seq(Rows)
      /\ \A n \in DOMAIN activities : n \in DOMAIN activities' /\ activities'[n] = activities[n]
  <2>1. CASE activities' = activities
    BY <2>1 DEF EventInv
  <2>2. ASSUME NEW d \in R!AtOnce', activities' = Append(activities, R!Created(d)) PROVE <1>7
    <3>1. R!Created(d) \in Rows
      BY CreatedIsRow DEF R!AtOnce, R!Of
    <3> QED BY <2>2, <3>1, ActivityAppended DEF EventInv
  <2> QED BY <1>1, <2>1, <2>2
<1> QED BY <1>1, <1>4, <1>6, <1>7, EventsKept

LEMMA EventPostprocess ==
  ASSUME ReadInv, EventInv, NEW d \in Writings, R!Postprocess(d) PROVE EventInv'
<1>1. /\ d \in tasks /\ tasks' = tasks \ {d} /\ written' = written /\ published' = published
      /\ \/ activities' = Append(activities, R!Created(d)) /\ lost' = lost
         \/ KindOf[d] = "comment" /\ activities' = activities /\ lost' = lost
         \/ lost' = lost \cup {d} /\ activities' = activities
  BY DEF R!Postprocess, R!gates, R!rows
<1>2. ToAnnounce' = ToAnnounce
  BY <1>1 DEF ToAnnounce, WrittenOf
<1>3. tasks' \subseteq written' /\ lost' \subseteq written' /\ lost \subseteq lost'
  BY <1>1 DEF EventInv
<1>4. R!Created(d) \in Rows
  BY CreatedIsRow
<1>5. CASE activities' = Append(activities, R!Created(d)) /\ lost' = lost
  BY <1>1, <1>2, <1>3, <1>4, <1>5, ActivityAppended, EventsKept DEF EventInv
<1>6. CASE KindOf[d] = "comment" /\ activities' = activities /\ lost' = lost
  <2>1. d \notin ToAnnounce'
    BY <1>2, <1>6 DEF ToAnnounce, WrittenOf
  <2> QED BY <1>1, <1>2, <1>3, <1>6, <2>1, EventsKept DEF EventInv
<1>7. CASE lost' = lost \cup {d} /\ activities' = activities
  BY <1>1, <1>2, <1>3, <1>7, EventsKept DEF EventInv
<1> QED BY <1>1, <1>5, <1>6, <1>7

LEMMA EventVote ==
  ASSUME ReadInv, EventInv, NEW r \in Readers, NEW d \in Writings, R!Vote(r, d) PROVE EventInv'
<1>1. /\ activities' \in {activities, Append(activities, R!Activity("upvote", d, r))}
      /\ tasks' = tasks /\ lost' = lost
  BY DEF R!Vote
<1>2. UNCHANGED R!gates
  BY VotesOnly
<1>3. written' = written /\ published' = published
  BY <1>2 DEF R!gates, R!rows
<1>4. ToAnnounce' = ToAnnounce
  BY <1>3 DEF ToAnnounce, WrittenOf
<1>5. R!Activity("upvote", d, r) \in Rows
  BY DEF R!Activity, Rows
<1>6. /\ activities' \in Seq(Rows)
      /\ \A n \in DOMAIN activities : n \in DOMAIN activities' /\ activities'[n] = activities[n]
  BY <1>1, <1>5, ActivityAppended DEF EventInv
<1> QED BY <1>1, <1>3, <1>4, <1>6, EventsKept DEF EventInv

LEMMA EventStep ==
  ReadInv /\ EventInv /\ (R!Next \/ UNCHANGED reading) => EventInv'
<1> SUFFICES ASSUME ReadInv, EventInv, R!Next \/ UNCHANGED reading PROVE EventInv'
  OBVIOUS
<1>1. ASSUME activities' = activities, tasks' = tasks, lost' = lost, written' = written,
             published' = published
      PROVE  EventInv'
  <2>1. ToAnnounce' = ToAnnounce
    BY <1>1 DEF ToAnnounce, WrittenOf
  <2> QED BY <1>1, <2>1, EventsKept DEF EventInv
<1>2. CASE UNCHANGED reading
  BY <1>1, <1>2 DEF reading
<1>3. ASSUME NEW r \in Readers, NEW d \in Writings, R!Mark(r, d) PROVE EventInv'
  BY <1>1, <1>3 DEF R!Mark, R!gates, R!rows, R!events
<1>4. ASSUME NEW r \in Readers, R!FillPinned(r) \/ R!FillPending(r) PROVE EventInv'
  BY <1>1, <1>4 DEF R!FillPinned, R!FillPending, R!gates, R!rows, R!events
<1>5. CASE R!Tick
  BY <1>1, <1>5 DEF R!Tick, R!gates, R!rows, R!events
<1>6. CASE R!Operate
  BY <1>6, ReadOperate, EventOperate
<1> QED BY <1>2, <1>3, <1>4, <1>5, <1>6, EventVote, EventPostprocess, ReadingBounds DEF R!Next
-----------------------------------------------------------------------------
(* Reading: what the lists show.                                           *)

\* No list of a reader shows what its page would not.
LEMMA ListsAreTight ==
  ASSUME ReadInv, NEW r \in Readers, NEW d \in Writings, d \notin WrittenOf({"comment"}),
         d \in written, R!Preview(r, d)
  PROVE  R!Page(r, d) /\ d \notin deleted
<1>1. KindOf[d] \in Kinds \ {"comment"} /\ AuthorOf[d] \in Members
  BY ReadingBounds DEF Kinds, WrittenOf, Members
<1>2. CASE KindOf[d] = "question"
  <2>1. R!QuestionPreview(r, d)
    BY <1>2 DEF R!Preview
  <2>2. R!Page(r, d)
    BY <1>2, <2>1 DEF R!Page, R!QuestionPage, R!QuestionPreview, R!QuestionSchema
  <2> QED BY <1>2, <2>2 DEF ReadInv, ReadTyped, AccessTyped, WrittenOf
<1>3. CASE KindOf[d] = "answer"
  <2>1. R!AnswerReadable(r, d) /\ R!QuestionPreview(r, Parent[d])
    BY <1>3 DEF R!Preview, R!AnswerPreview
  <2>2. d \in published \/ r = AuthorOf[d]
    BY <2>1 DEF R!AnswerReadable, R!Live
  <2>3. R!Page(r, d)
    BY <1>3, <2>1, <2>2 DEF R!Page, R!AnswerPage
  <2> QED BY <2>1, <2>3 DEF R!AnswerReadable
<1>4. CASE KindOf[d] = "article"
  <2>1. R!ArticlePreview(r, d)
    BY <1>4 DEF R!Preview
  <2>2. R!Page(r, d)
    BY <1>4 DEF R!Page
  <2> QED BY <2>1, <2>2 DEF R!ArticlePreview
<1>5. CASE KindOf[d] = "submission"
  <2>1. R!Page(r, d)
    BY <1>5 DEF R!Page
  <2> QED BY <1>5, <2>1 DEF ReadInv, ReadTyped, AccessTyped, WrittenOf
<1> QED BY <1>1, <1>2, <1>3, <1>4, <1>5 DEF Kinds

LEMMA NoListIsLoose == ReadInv => R!NoListIsLooser
<1> SUFFICES ASSUME ReadInv, NEW r \in Readers
             PROVE  /\ \A list \in R!ListsOf(r) : \A d \in list : R!Page(r, d) /\ d \notin deleted
                    /\ \A d \in R!Those("article") \ deleted :
                         R!ArticlePage(r, d) => R!ArticlePreview(r, d)
                    /\ \A d \in R!Those("answer") :
                         r # Visitor => (R!Givable(r, d) <=> R!AnswerReadable(r, d))
  BY DEF R!NoListIsLooser
<1>1. \A kind : \A d \in R!Those(kind) : d \in Writings /\ KindOf[d] = kind /\ d \in written
  BY DEF R!Those, R!Of
<1>2. ASSUME NEW list \in R!ListsOf(r), NEW d \in list
      PROVE  d \in Writings /\ d \in written /\ d \notin WrittenOf({"comment"}) /\ R!Preview(r, d)
  <2>1. CASE d \in R!ProfileLists(r)
    BY <2>1 DEF R!ProfileLists, R!Of, WrittenOf, ReadInv, ReadTyped, AccessTyped
  <2>2. CASE d \in R!AnswersOnPage(r)
    <3>1. d \in R!Those("answer")
      BY <2>2 DEF R!AnswersOnPage
    <3>2. R!AnswerPreview(r, d)
      BY <2>2 DEF R!AnswersOnPage, R!AnswerPage, R!AnswerPreview
    <3> QED BY <1>1, <3>1, <3>2 DEF R!Preview, WrittenOf
  <2>3. CASE d \in R!AnswersListed(r) \/ d \in R!Featured(r)
    <3>1. d \in R!Those("answer") /\ R!AnswerPreview(r, d)
      BY <2>3 DEF R!AnswersListed, R!Featured
    <3> QED BY <1>1, <3>1 DEF R!Preview, WrittenOf
  <2>4. CASE d \in R!FormerQuestions(r)
    <3>1. d \in R!Those("question") /\ R!QuestionAtHand(r, d)
      BY <2>4 DEF R!FormerQuestions
    <3>2. R!QuestionPreview(r, d)
      BY <3>1 DEF R!QuestionAtHand, R!QuestionPage, R!QuestionSchema, R!QuestionPreview
    <3> QED BY <1>1, <3>1, <3>2 DEF R!Preview, WrittenOf
  <2>5. CASE d \in R!SuggestedAnswers(r)
    <3>1. d \in R!Those("answer") /\ R!AnswerPage(r, d)
      BY <2>5 DEF R!SuggestedAnswers
    <3>2. R!AnswerPreview(r, d)
      BY <3>1 DEF R!AnswerPage, R!AnswerPreview
    <3> QED BY <1>1, <3>1, <3>2 DEF R!Preview, WrittenOf
  <2>6. CASE d \in R!SuggestedSubmissions(r) \/ d \in R!SiteSubmissions(r) \/ d \in R!FrontSubmissions(r)
    <3>1. d \in R!Those("submission") /\ R!SubmissionShown(r, d)
      BY <2>6 DEF R!SuggestedSubmissions, R!SiteSubmissions, R!FrontSubmissions
    <3> QED BY <1>1, <3>1 DEF R!Preview, WrittenOf
  <2>7. CASE d \in R!SiteQuestions(r) \/ d \in R!TopicQuestions(r)
    <3>1. d \in R!Those("question") /\ R!QuestionPreview(r, d)
      BY <2>7 DEF R!SiteQuestions, R!TopicQuestions
    <3> QED BY <1>1, <3>1 DEF R!Preview, WrittenOf
  <2>8. CASE d \in R!ColumnArticles(r)
    <3>1. d \in R!Those("article") /\ R!ArticlePreview(r, d)
      BY <2>8 DEF R!ColumnArticles
    <3> QED BY <1>1, <3>1 DEF R!Preview, WrittenOf
  <2>9. CASE d \in R!Marked(r)
    <3>1. d \in Writings /\ <<r, d>> \in marked /\ R!Preview(r, d)
      BY <2>9 DEF R!Marked
    <3>2. d \in written \ WrittenOf({"comment"})
      BY <3>1 DEF ReadInv, ReadTyped
    <3> QED BY <3>1, <3>2
  <2> QED BY <2>1, <2>2, <2>3, <2>4, <2>5, <2>6, <2>7, <2>8, <2>9 DEF R!ListsOf
<1>3. \A d \in R!Those("article") \ deleted : R!ArticlePage(r, d) => R!ArticlePreview(r, d)
  <2> SUFFICES ASSUME NEW d \in R!Those("article") \ deleted, R!ArticlePage(r, d)
               PROVE  R!ArticlePreview(r, d)
    OBVIOUS
  <2>1. KindOf[d] = "article"
    BY <1>1
  <2>2. r = AuthorOf[d] \/ (d \in published /\ d \notin restricted)
    BY DEF R!ArticlePage, R!ArticleSchema
  <2> QED BY <2>1, <2>2 DEF R!ArticlePreview, R!Live
<1>4. \A d \in R!Those("answer") : r # Visitor => (R!Givable(r, d) <=> R!AnswerReadable(r, d))
  BY DEF R!Givable, R!AnswerReadable
<1> QED BY <1>2, <1>3, <1>4, ListsAreTight

\* What is not among the newest Activities of its site has as many newer ones as are read.
LEMMA NewestOrPushed ==
  ASSUME EventInv, NEW n \in DOMAIN activities
  PROVE  n \in R!Newest(R!CircleOfRow(activities[n])) \/ R!Cardinality(R!Newer(n)) >= FeedLimit
<1>1. Len(activities) \in Nat /\ DOMAIN activities = 1..Len(activities)
  BY DEF EventInv
<1>2. IsFiniteSet(1..Len(activities))
  BY <1>1, FS_Interval
<1>3. R!Newer(n) \subseteq 1..Len(activities)
  BY <1>1 DEF R!Newer
<1>4. R!Cardinality(R!Newer(n)) \in Nat
  BY <1>2, <1>3, FS_Subset, FS_CardinalityType, ReadCardinality
<1> QED BY <1>4, ReadingBounds DEF R!Newest

\* The feed of a site has what anyone may open there, until newer events push it out, and
\* leads where anyone may go.
LEMMA FeedHolds == ReadInv /\ EventInv => R!FeedFollows
<1> SUFFICES ASSUME ReadInv, EventInv, NEW c \in Circles
             PROVE  /\ \A d \in R!Those("question") \cup R!Those("answer") :
                         CircleOf[d] = c /\ R!Page(Visitor, d) =>
                           \/ \E e \in R!site_rss_xml(c) : e.about = d
                           \/ d \in tasks \cup lost
                           \/ R!Pushed(d)
                    /\ \A e \in R!site_rss_xml(c) :
                         \/ \A d \in e.leads : R!Page(Visitor, d)
                         \/ e.about \in deleted \cup restricted
                         \/ KindOf[e.about] = "answer" /\ Parent[e.about] \in hidden
  BY DEF R!FeedFollows
<1>1. \A d \in Writings : AuthorOf[d] # Visitor
  BY ReadingBounds
<1>2. \A x : R!InSite(Visitor, x) => x \in open
  BY DEF R!InSite, ReadInv, ReadTyped, AccessTyped, Members
<1>3. c \in open => R!InSite(Visitor, c)
  BY DEF R!InSite
<1>4. ASSUME NEW d \in R!Those("question") \cup R!Those("answer"), CircleOf[d] = c, R!Page(Visitor, d),
             d \notin tasks \cup lost, ~R!Pushed(d)
      PROVE  \E e \in R!site_rss_xml(c) : e.about = d
  <2>1. d \in Writings /\ d \in written /\ KindOf[d] \in {"question", "answer"}
    BY DEF R!Those, R!Of
  <2>2. c \in open /\ d \notin hidden /\ d \in ToAnnounce /\ (KindOf[d] = "answer" => d \in published)
    <3>1. CASE KindOf[d] = "question"
      <4>1. d \notin hidden /\ R!InSite(Visitor, c)
        BY <1>1, <1>4, <2>1, <3>1 DEF R!Page, R!QuestionPage, R!QuestionSchema
      <4> QED BY <1>2, <2>1, <3>1, <4>1 DEF ToAnnounce, WrittenOf
    <3>2. CASE KindOf[d] = "answer"
      <4>1. R!Live(d) /\ R!InSite(Visitor, c)
        BY <1>1, <1>4, <2>1, <3>2 DEF R!Page, R!AnswerPage, R!AnswerReadable
      <4>2. d \notin hidden /\ d \in published
        BY <3>2, <4>1 DEF R!Live
      <4> QED BY <1>2, <3>2, <4>1, <4>2 DEF ToAnnounce
    <3> QED BY <2>1, <3>1, <3>2
  <2>3. PICK n \in DOMAIN activities : activities[n] = R!Created(d)
    BY <1>4, <2>2 DEF EventInv
  <2>4. activities[n].verb = "create" /\ activities[n].about = d
    BY <2>3 DEF R!Created, R!Activity
  <2>5. n \in R!Newest(c)
    BY <1>4, <2>3, <2>4, NewestOrPushed DEF R!Pushed, R!CircleOfRow
  <2>6. R!retrieve_content(activities[n])
    BY <2>1, <2>2, <2>4 DEF R!retrieve_content
  <2>7. d \in R!get_site_activities(c)
    BY <2>4, <2>5, <2>6 DEF R!get_site_activities
  <2> DEFINE entry == [about |-> d, leads |-> IF KindOf[d] = "answer" THEN {Parent[d], d} ELSE {d}]
  <2>8. entry \in R!site_rss_xml(c)
    BY <2>2, <2>7 DEF R!site_rss_xml, R!build_rss
  <2> QED BY <2>8
<1>5. ASSUME NEW e \in R!site_rss_xml(c), e.about \notin deleted \cup restricted,
             ~(KindOf[e.about] = "answer" /\ Parent[e.about] \in hidden)
      PROVE  \A d \in e.leads : R!Page(Visitor, d)
  <2>1. PICK d \in R!get_site_activities(c) :
          e = [about |-> d, leads |-> IF KindOf[d] = "answer" THEN {Parent[d], d} ELSE {d}]
    BY DEF R!site_rss_xml, R!build_rss
  <2>2. PICK n \in R!Newest(c) : activities[n].about = d /\ R!retrieve_content(activities[n])
    BY DEF R!get_site_activities
  <2>3. activities[n] \in Rows /\ CircleOf[d] = c
    BY <2>2 DEF R!Newest, R!CircleOfRow, EventInv
  <2>4. d \in Writings
    BY <2>2, <2>3 DEF Rows
  <2>5. c \in open /\ KindOf[d] \in Kinds /\ e.about = d
    BY <2>1, <2>4, ReadingBounds DEF R!site_rss_xml, Kinds
  <2>6. \/ KindOf[d] = "question" /\ d \notin hidden
        \/ KindOf[d] = "answer" /\ d \notin hidden /\ d \in published
    BY <2>2, <2>5 DEF R!retrieve_content, Kinds
  <2>7. CASE KindOf[d] = "question"
    <3>1. e.leads = {d} /\ d \notin hidden
      BY <2>1, <2>6, <2>7
    <3> QED BY <1>3, <2>3, <2>5, <2>7, <3>1 DEF R!Page, R!QuestionPage, R!QuestionSchema
  <2>8. CASE KindOf[d] = "answer"
    <3>1. e.leads = {Parent[d], d} /\ d \notin hidden /\ d \in published
      BY <2>1, <2>6, <2>8
    <3>2. KindOf[Parent[d]] = "question" /\ CircleOf[Parent[d]] = c /\ Parent[d] \notin hidden
      BY <1>5, <2>3, <2>4, <2>5, <2>8, ReadingBounds
    <3>3. R!Page(Visitor, Parent[d]) /\ R!QuestionPreview(Visitor, Parent[d])
      BY <1>3, <2>5, <3>2 DEF R!Page, R!QuestionPage, R!QuestionSchema, R!QuestionPreview
    <3>4. R!AnswerReadable(Visitor, d)
      BY <1>3, <1>5, <2>3, <2>5, <3>1 DEF R!AnswerReadable, R!Live
    <3>5. R!Page(Visitor, d)
      BY <2>8, <3>1, <3>3, <3>4 DEF R!Page, R!AnswerPage
    <3> QED BY <3>1, <3>3, <3>5
  <2> QED BY <2>6, <2>7, <2>8
<1> QED BY <1>4, <1>5

LEMMA ReadHolds == ReadInv /\ EventInv => R!ListsHold /\ R!TypeOK
<1> SUFFICES ASSUME ReadInv, EventInv PROVE R!ListsHold /\ R!TypeOK
  OBVIOUS
<1>1. R!ListsAreRecent
  <2>1. ASSUME NEW r \in Readers, NEW q \in pending[r].shown PROVE gap[r][q] <= PendingLife
    <3>1. gap[r][q] + pending[r].life <= PendingLife
      BY DEF ReadInv, ReadLists
    <3>2. gap[r][q] \in Int /\ pending[r].life \in Nat /\ PendingLife \in Nat
      BY ReadingBounds DEF ReadInv, ReadTyped
    <3> QED BY <3>1, <3>2
  <2>2. ASSUME NEW q \in pinned.shown PROVE \E r \in Readers : gap[r][q] <= PinnedLife
    <3>1. PICK r \in Readers : gap[r][q] + pinned.life <= PinnedLife
      BY DEF ReadInv, ReadLists
    <3>2. gap[r][q] \in Int /\ pinned.life \in Nat /\ PinnedLife \in Nat
      BY ReadingBounds DEF ReadInv, ReadTyped
    <3> QED BY <3>1, <3>2
  <2> QED BY <2>1, <2>2 DEF R!ListsAreRecent
<1>2. R!ListsHold
  BY <1>1, NoListIsLoose, FeedHolds DEF R!ListsHold
<1>3. R!A!TypeOK
  BY DEF R!A!TypeOK, R!A!Accounts, R!A!Of, ReadInv, ReadTyped, AccessTyped, WrittenOf, Members
<1>4. R!W!TypeOK
  BY DEF R!W!TypeOK, R!W!Accounts, ReadInv, ReadTyped, Members
<1>5. R!TypeOK
  BY <1>3, <1>4, QuestionsAre
  DEF R!TypeOK, R!IsList, R!Accounts, ReadInv, ReadTyped, Members, EventInv, Rows
<1> QED BY <1>2, <1>5

\* However rows have been hidden, deleted and restricted since, no list shows a reader
\* what its page would not; the feed of a site has what anyone may open there, but for what
\* newer events have pushed out and what its task has still to announce or has failed to;
\* and a kept list has nothing that has been out of reach for longer than it is kept.
THEOREM ListsAlwaysHold == PlatformSpec => []ListsHold
<1> DEFINE Inv == part = "reading" => ReadInv /\ EventInv
<1>1. PlatformInit => Inv
  BY ReadInit, EventInit
<1>2. Inv /\ [PlatformNext]_platformVars => Inv'
  BY RunsAlone, ReadStep, EventStep
<1>3. Inv => ListsHold
  BY ReadHolds DEF ListsHold
<1> QED BY <1>1, <1>2, <1>3, PTL DEF PlatformSpec

LEMMA NobodyWrites ==
  ASSUME ReadInv PROVE A!NobodyWritesBlindly
<1> SUFFICES ASSUME NEW r \in Readers, NEW d \in Writings, A!Writes(r, d),
                    ~(KindOf[d] = "question" /\ d \in hidden), ~(KindOf[d] = "article" /\ d \in deleted)
             PROVE  A!Preview(r, d)'
  BY DEF A!NobodyWritesBlindly, A!WritesBlindly
<1>1. d \in deleted => d \in written
  BY DEF ReadInv, ReadTyped, AccessTyped, WrittenOf
<1>2. CASE A!PostQuestion(r, d) \/ A!PutQuestion(r, d)
  <2>1. KindOf[d] = "question" /\ A!QuestionSchema(r, d)' /\ hidden' = hidden
    BY <1>2 DEF A!PostQuestion, A!create_question, A!PutQuestion, A!update_question, A!Unwritten,
       A!Written, A!gates, A!rows, A!QuestionSchema, A!InSite
  <2> QED BY <2>1 DEF A!Preview, A!QuestionPreview, A!QuestionSchema, A!InSite
<1>3. CASE A!PostAnswer(r, d) \/ A!PutAnswer(r, d)
  <2>1. KindOf[d] = "answer" /\ A!AnswerPage(r, d)'
    BY <1>3 DEF A!PostAnswer, A!create_answer, A!PutAnswer, A!update_answer, A!Unwritten, A!Written,
       A!AnswerPage, A!AnswerReadable, A!QuestionPreview, A!Live, A!InSite
  <2> QED BY <2>1 DEF A!Preview, A!AnswerPreview, A!AnswerPage, A!AnswerReadable, A!QuestionPreview, A!Live, A!InSite
<1>4. CASE A!PostArticle(r, d) \/ A!PutArticle(r, d)
  <2>1. KindOf[d] = "article" /\ r = AuthorOf[d] /\ deleted' = deleted /\ d \notin deleted
    BY <1>1, <1>4 DEF A!PostArticle, A!create_article, A!PutArticle, A!update_article, A!Unwritten, A!Written,
       A!ArticleSchema
  <2> QED BY <2>1 DEF A!Preview, A!ArticlePreview
<1>5. CASE A!PostSubmission(r, d) \/ A!PutSubmission(r, d)
  <2>1. KindOf[d] = "submission" /\ A!SubmissionShown(r, d)'
    BY <1>5 DEF A!PostSubmission, A!create_submission, A!PutSubmission, A!update_submission,
       A!Unwritten, A!Written, A!SubmissionShown, A!InSite
  <2> QED BY <2>1 DEF A!Preview, A!SubmissionShown, A!InSite
<1>6. CASE A!PostComment(r, d) \/ A!PutComment(r, d)
  <2>1. KindOf[d] = "comment" /\ A!CommentShown(r, d)'
    BY <1>6 DEF A!PostComment, A!create_comment, A!PutComment, A!update_comment, A!Unwritten, A!Written,
       A!CommentShown, A!InSite
  <2> QED BY <2>1 DEF A!Preview, A!CommentShown, A!InSite
<1> QED BY <1>2, <1>3, <1>4, <1>5, <1>6 DEF A!Writes

\* Whoever adds or changes something can then read it where others would, whatever was
\* hidden, deleted or left meanwhile, hidden questions and deleted articles aside.
THEOREM WritersAlwaysSee == PlatformSpec => WritersSee
<1> DEFINE Inv == part = "reading" => ReadInv
<1>1. PlatformInit => Inv
  BY ReadInit
<1>2. Inv /\ [PlatformNext]_platformVars => Inv'
  BY RunsAlone, ReadStep
<1>3. Inv => (part = "reading" => A!NobodyWritesBlindly)
  BY NobodyWrites
<1> QED BY <1>1, <1>2, <1>3, PTL DEF PlatformSpec, WritersSee

-----------------------------------------------------------------------------
(* Routes.                                                                 *)

NobodysOwn == \A r \in Readers, d \in Writings : <<r, d>> \in voted => r # AuthorOf[d]

LEMMA NobodysOwnStep ==
  NobodysOwn /\ (R!Next \/ UNCHANGED reading) => NobodysOwn'
<1> SUFFICES ASSUME NobodysOwn, R!Next \/ UNCHANGED reading PROVE NobodysOwn'
  OBVIOUS
<1>1. CASE voted' \subseteq voted
  BY <1>1 DEF NobodysOwn
<1>2. UNCHANGED reading \/ R!Operate \/ R!Tick => voted' = voted
  BY DEF reading, R!Operate, R!Tick
<1>3. ASSUME NEW r \in Readers, NEW d \in Writings, R!Mark(r, d) PROVE voted' = voted
  BY <1>3 DEF R!Mark
<1>4. ASSUME NEW r \in Readers, R!FillPinned(r) \/ R!FillPending(r) PROVE voted' = voted
  BY <1>4 DEF R!FillPinned, R!FillPending
<1>5. ASSUME NEW d \in Writings, R!Postprocess(d) PROVE voted' = voted
  BY <1>5 DEF R!Postprocess
<1>6. ASSUME NEW r \in Readers, NEW d \in Writings, R!Vote(r, d) PROVE NobodysOwn'
  <2>1. R!W!Vote(r, d) => voted' = voted \cup {<<r, d>>} /\ (<<r, d>> \in voted \/ r # AuthorOf[d])
    BY DEF R!W!Vote, R!W!UpvoteQuestion, R!W!UpvoteAnswer, R!W!UpvoteArticle, R!W!UpvoteSubmission,
       R!W!UpvoteComment, R!W!upvote_question, R!W!upvote_answer, R!W!upvote_article,
       R!W!upvote_submission, R!W!upvote_comment, R!W!Upvoted, R!W!Add, R!W!Again
  <2>2. R!W!Cancel(r, d) => voted' \subseteq voted
    BY DEF R!W!Cancel, R!W!CancelUpvoteQuestion, R!W!CancelUpvoteAnswer, R!W!CancelUpvoteArticle,
       R!W!CancelUpvoteSubmission, R!W!CancelUpvoteComment, R!W!cancel_upvote_question,
       R!W!cancel_upvote_answer, R!W!cancel_upvote_article, R!W!cancel_upvote_submission,
       R!W!cancel_upvote_comment, R!W!Cancelled
  <2>3. R!W!Vote(r, d) \/ R!W!Cancel(r, d)
    BY <1>6 DEF R!Vote
  <2> QED BY <2>1, <2>2, <2>3 DEF NobodysOwn
<1> QED BY <1>1, <1>2, <1>3, <1>4, <1>5, <1>6, ReadingBounds DEF R!Next

LEMMA WCardinality == \A U : W!Cardinality(U) = Cardinality(U)
BY DEF W!Cardinality, Cardinality

\* The author of d has no vote among those of d.
LEMMA TalliesFit ==
  ASSUME ReadInv, NobodysOwn, NEW r \in Readers, NEW d \in written, NEW t \in W!Tallies(r, d)
  PROVE  t.count < W!Cardinality(W!Accounts) /\ (t.upvoted => t.count > 0)
<1> DEFINE V == {s \in W!Accounts : <<s, d>> \in voted}
<1>1. t = W!Tally(r, d)
  BY DEF W!Tallies, W!get_question_upvotes, W!get_answer_upvotes, W!get_submission_upvotes,
     W!get_comment_upvotes, W!TallyOf
<1>2. t.count = Cardinality(V) /\ (t.upvoted <=> <<r, d>> \in voted)
  BY <1>1, WCardinality DEF W!Tally
<1>3. d \in Writings /\ AuthorOf[d] \in W!Accounts
  BY ReadingBounds DEF ReadInv, ReadTyped, AccessTyped, W!Accounts
<1>4. IsFiniteSet(W!Accounts)
  BY RoutesBounds, FS_Subset DEF W!Accounts
<1>5. V \in SUBSET (W!Accounts \ {AuthorOf[d]})
  BY <1>3 DEF NobodysOwn, W!Accounts
<1>6. /\ IsFiniteSet(W!Accounts \ {AuthorOf[d]})
      /\ Cardinality(W!Accounts \ {AuthorOf[d]}) = Cardinality(W!Accounts) - 1
  BY <1>3, <1>4, FS_RemoveElement
<1>7. IsFiniteSet(V) /\ Cardinality(V) <= Cardinality(W!Accounts) - 1
  <2> HIDE DEF V
  <2> QED BY <1>5, <1>6, FS_Subset
<1>8. Cardinality(V) \in Nat /\ Cardinality(W!Accounts) \in Nat
  BY <1>4, <1>7, FS_CardinalityType
<1>9. <<r, d>> \in voted => V # {}
  BY DEF ReadInv, ReadTyped, Members, W!Accounts
<1>10. V # {} => Cardinality(V) # 0
  <2> HIDE DEF V
  <2> QED BY <1>7, FS_EmptySet
<1>11. t.count < W!Cardinality(W!Accounts)
  <2> HIDE DEF V
  <2>1. W!Cardinality(W!Accounts) = Cardinality(W!Accounts)
    BY WCardinality
  <2>2. Cardinality(V) < Cardinality(W!Accounts)
    BY <1>7, <1>8
  <2> QED BY <1>2, <2>1, <2>2
<1>12. t.upvoted => t.count > 0
  <2> HIDE DEF V
  <2> QED BY <1>2, <1>8, <1>9, <1>10
<1> QED BY <1>11, <1>12

LEMMA QuestionRoutesAgree ==
  ASSUME ReadInv, NEW r \in Readers, NEW q \in W!Of("question") \cap written
  PROVE  /\ W!GetQuestionArchives(r, q) \/ W!GetQuestionSubscription(r, q) => W!GetQuestion(r, q)
         /\ W!GetQuestion(r, q) => W!GetQuestionPage(r, q)
         /\ W!GetQuestionPage(r, q) =>
              {d \in W!Of("answer") : Parent[d] = q /\ W!GetAnswer(r, d)} \subseteq W!GetQuestionAnswers(r, q)
<1>1. W!GetQuestionArchives(r, q) \/ W!GetQuestionSubscription(r, q) => W!GetQuestion(r, q)
  BY DEF W!GetQuestionArchives, W!GetQuestionSubscription, W!GetQuestion, W!get_readable_question,
     W!QuestionAtHand
<1>2. W!GetQuestion(r, q) => W!GetQuestionPage(r, q)
  BY DEF W!GetQuestion, W!GetQuestionPage, W!QuestionAtHand, W!QuestionPage
<1>3. ASSUME NEW d \in W!Of("answer"), Parent[d] = q, W!GetAnswer(r, d)
      PROVE  d \in W!GetQuestionAnswers(r, q)
  BY <1>3 DEF W!GetAnswer, W!Written, W!AnswerPage, W!AnswerPreview, W!QuestionPreview, W!GetQuestionAnswers
<1> QED BY <1>1, <1>2, <1>3

LEMMA PageIsReportable ==
  ASSUME ReadInv, NEW r \in Readers, NEW d \in written,
         r # Visitor, r # AuthorOf[d], d \notin deleted, W!Page(r, d)
  PROVE  W!CreateReport(r, {d})
<1>1. d \in Writings
  BY DEF ReadInv, ReadTyped, AccessTyped
<1>2. KindOf[d] \in {"question", "answer", "article", "submission", "comment"}
  BY <1>1, ReadingBounds
<1>3. CircleOf[d] # NoCircle => W!InSite(r, CircleOf[d])
  <2>1. CASE KindOf[d] = "question"
    BY <2>1 DEF W!Page, W!QuestionPage, W!QuestionSchema
  <2>2. CASE KindOf[d] = "answer"
    BY <2>2 DEF W!Page, W!AnswerPage, W!AnswerReadable
  <2>3. CASE KindOf[d] = "article"
    BY <1>1, <2>3, ReadingBounds
  <2>4. CASE KindOf[d] = "submission"
    BY <2>4 DEF W!Page, W!Preview, W!SubmissionShown
  <2>5. CASE KindOf[d] = "comment"
    BY <2>5 DEF W!Page, W!Preview, W!CommentShown
  <2> QED BY <1>2, <2>1, <2>2, <2>3, <2>4, <2>5
<1>4. Cardinality({d}) = 1
  BY FS_Singleton
<1> QED BY <1>3, <1>4, WCardinality DEF W!CreateReport, W!create_report, W!create_with_author

LEMMA WritingRoutesAgree ==
  ASSUME ReadInv, NEW r \in Readers, NEW d \in written
  PROVE  /\ W!GetAnswerDraft(r, d) \/ W!GetAnswerArchives(r, d) => d \in deleted \/ W!BookmarkAnswer(r, d)
         /\ W!GetAnswer(r, d) /\ r # Visitor => W!BookmarkAnswer(r, d)
         /\ W!GetArticleDraft(r, d) \/ W!GetArticleArchives(r, d) => W!GetArticle(r, d) \/ d \in restricted
<1>1. W!GetAnswerDraft(r, d) \/ W!GetAnswerArchives(r, d) => d \in deleted \/ W!BookmarkAnswer(r, d)
  BY DEF W!GetAnswerDraft, W!get_answer_draft, W!GetAnswerArchives, W!Own, W!Written, W!BookmarkAnswer,
     W!get_readable_answer, W!AnswerReadable
<1>2. W!GetAnswer(r, d) /\ r # Visitor => W!BookmarkAnswer(r, d)
  BY DEF W!GetAnswer, W!AnswerPage, W!BookmarkAnswer, W!get_readable_answer
<1>3. W!GetArticleDraft(r, d) \/ W!GetArticleArchives(r, d) => W!GetArticle(r, d) \/ d \in restricted
  BY DEF W!GetArticleDraft, W!get_article_draft, W!GetArticleArchives, W!list_article_archives, W!Written,
     W!GetArticle, W!ArticlePage, W!ArticleSchema
<1> QED BY <1>1, <1>2, <1>3

LEMMA MembersAreKnown ==
  ASSUME ReadInv, NEW r \in Readers, NEW c \in Circles, NEW u \in W!Accounts
  PROVE  /\ c \in W!GetUserSiteProfiles(r, u) <=> W!ViewProfile(r, c, u) /\ u \notin Retired
         /\ W!ViewProfile(r, c, u) => u \in W!GetProfiles(r, c)
         /\ W!GetProfiles(r, c) # {} => W!GetSiteInfo(r, c) \/ c \in W!GetModeratedSites(r)
         /\ r = u /\ u \notin Retired => W!site_profiles_for_user(u) = W!GetUserSiteProfiles(r, u)
         /\ c \in W!SiteMaps => W!GetSiteInfo(r, c)
<1>1. c \in W!GetUserSiteProfiles(r, u) <=> W!ViewProfile(r, c, u) /\ u \notin Retired
  BY DEF W!ViewProfile, W!view_profile, W!GetUserSiteProfiles, W!list_user_site_profiles
<1>2. W!ViewProfile(r, c, u) => u \in W!GetProfiles(r, c)
  BY DEF W!ViewProfile, W!view_profile, W!GetProfiles, W!list_site_profiles
<1>3. W!GetProfiles(r, c) # {} => W!GetSiteInfo(r, c) \/ c \in W!GetModeratedSites(r)
  BY DEF W!GetProfiles, W!list_site_profiles, W!GetSiteInfo, W!get_site_info, W!GetModeratedSites
<1>4. r = u /\ u \notin Retired => W!site_profiles_for_user(u) = W!GetUserSiteProfiles(r, u)
  BY DEF W!Accounts, W!site_profiles_for_user, W!GetUserSiteProfiles, W!list_user_site_profiles, W!InSite
<1>5. c \in W!SiteMaps => W!GetSiteInfo(r, c)
  BY DEF W!SiteMaps, W!GetSiteInfo, W!get_site_info, W!InSite
<1> QED BY <1>1, <1>2, <1>3, <1>4, <1>5

LEMMA ListedIsCounted ==
  ASSUME ReadInv, NEW r \in Readers, NEW u \in W!Accounts \ {r}
  PROVE  W!Listed(r, u) \subseteq W!Counted(u)
<1>1. W!list_user_questions(r, u) \subseteq W!Counted(u)
  BY DEF W!list_user_questions, W!Counted, W!Of
<1>2. W!list_user_articles(r, u) \subseteq W!Counted(u)
  BY DEF W!list_user_articles, W!Counted, W!Of, W!ArticlePreview
<1>3. W!list_user_submissions(r, u) \subseteq W!Counted(u)
  BY DEF W!list_user_submissions, W!Counted, W!Of, W!SubmissionShown
<1>4. W!list_user_answers(r, u) \subseteq W!Counted(u)
  BY DEF W!list_user_answers, W!Counted, W!Of, W!AnswerPreview, W!AnswerReadable
<1> QED BY <1>1, <1>2, <1>3, <1>4 DEF W!Listed

LEMMA RoutesHold == ReadInv /\ NobodysOwn => W!RoutesAgree
<1> SUFFICES ASSUME ReadInv, NobodysOwn PROVE W!RoutesAgree
  OBVIOUS
<1>1. \A d \in written : d \in Writings
  BY DEF ReadInv, ReadTyped, AccessTyped
<1>2. \A r \in Readers, d \in written : <<r, d>> \in voted => r # AuthorOf[d]
  BY <1>1 DEF NobodysOwn
<1> QED BY <1>2, QuestionRoutesAgree, WritingRoutesAgree, TalliesFit, PageIsReportable, MembersAreKnown,
           ListedIsCounted DEF W!RoutesAgree

\* Routes about one thing agree, whoever has voted, joined, left, written, hidden, deleted or
\* restricted what: nothing derived from a thing is more permissive than it, and nobody has
\* voted for what is his own.
THEOREM RoutesAlwaysAgree == PlatformSpec => []RoutesAgree
<1> DEFINE Inv == part = "reading" => ReadInv /\ NobodysOwn
<1>1. PlatformInit => Inv
  BY ReadInit DEF PlatformInit, R!Init, NobodysOwn
<1>2. Inv /\ [PlatformNext]_platformVars => Inv'
  BY RunsAlone, ReadStep, NobodysOwnStep
<1>3. Inv => RoutesAgree
  BY RoutesHold DEF RoutesAgree
<1> QED BY <1>1, <1>2, <1>3, PTL DEF PlatformSpec

-----------------------------------------------------------------------------
(* Membership, whose theorems are about a behaviour of its own: types, and  *)
(* what links count.                                                       *)

LEMMA IdleType == Idle \in Request /\ Idle.pc = "idle" /\ ~Idle.found
  <1>1. Someone \in Users
    BY ConstantsAssumption DEF Someone
  <1>2. (CHOOSE l \in Links : TRUE) \in Links
    BY ConstantsAssumption
  <1>3. (CHOOSE a \in Applications : TRUE) \in Applications
    BY ConstantsAssumption
  <1> QED BY <1>1, <1>2, <1>3 DEF Idle, Request, Steps, Ops

LEMMA NoRowType == NoRow \in Row /\ ~NoRow.made
  BY ConstantsAssumption DEF NoRow, Row, Someone

\* A request that starts.
Fresh(q) ==
  /\ q.pc \in {"link", "inviter", "application"} /\ ~q.found
  /\ UsesLink(q) <=> q.pc = "link"
  /\ q.op = "invite" <=> q.pc = "inviter"
  /\ q.op = "apply" =>
       /\ ~app[q.id].made
       /\ \A t \in Slots : Busy(t) /\ req[t].op = "apply" => req[t].id # q.id
  /\ q.op = "approve" => q.id \in Of(q.user)

Begins(s) ==
  BeginApply(s) \/ BeginApprove(s) \/ BeginLeave(s) \/ BeginInvite(s) \/ BeginLink(s)

LEMMA BeginType ==
  ASSUME NEW s \in Slots, TypeOK, Begins(s)
  PROVE \E q \in Request : Fresh(q) /\ Start(s, q)
  <1>1. ASSUME BeginApply(s) PROVE \E q \in Request : Fresh(q) /\ Start(s, q)
    <2>1. PICK u \in Users, a \in Applications, auto \in BOOLEAN :
            /\ ~app[a].made
            /\ \A t \in Slots : Busy(t) /\ req[t].op = "apply" => req[t].id # a
            /\ Start(s, [Idle EXCEPT !.pc = "application", !.op = "apply", !.user = u,
                                     !.id = a, !.auto = auto])
      BY <1>1 DEF BeginApply
    <2> DEFINE q == [Idle EXCEPT !.pc = "application", !.op = "apply", !.user = u,
                                 !.id = a, !.auto = auto]
    <2>2. q \in Request /\ q.pc = "application" /\ q.op = "apply" /\ q.id = a /\ ~q.found
      BY IdleType DEF Request, Steps, Ops, Idle
    <2>3. Start(s, q)
      BY <2>1
    <2> HIDE DEF q
    <2> QED BY <2>1, <2>2, <2>3 DEF Fresh, UsesLink
  <1>2. ASSUME BeginApprove(s) PROVE \E q \in Request : Fresh(q) /\ Start(s, q)
    <2>1. PICK a \in Applications :
            /\ app[a].made
            /\ Start(s, [Idle EXCEPT !.pc = "application", !.op = "approve",
                                     !.user = app[a].user, !.id = a])
      BY <1>2 DEF BeginApprove
    <2> DEFINE q == [Idle EXCEPT !.pc = "application", !.op = "approve",
                                 !.user = app[a].user, !.id = a]
    <2>2. app[a].user \in Users
      BY DEF TypeOK, Row
    <2>3. q \in Request /\ q.pc = "application" /\ q.op = "approve" /\ q.id = a
          /\ q.user = app[a].user /\ ~q.found
      BY <2>2, IdleType DEF Request, Steps, Ops, Idle
    <2>4. Start(s, q)
      BY <2>1
    <2> HIDE DEF q
    <2> QED BY <2>1, <2>3, <2>4 DEF Fresh, UsesLink, Of
  <1>3. ASSUME BeginLeave(s) PROVE \E q \in Request : Fresh(q) /\ Start(s, q)
    <2>1. PICK u \in Users :
            Start(s, [Idle EXCEPT !.pc = "application", !.op = "leave", !.user = u])
      BY <1>3 DEF BeginLeave
    <2> DEFINE q == [Idle EXCEPT !.pc = "application", !.op = "leave", !.user = u]
    <2>2. q \in Request /\ q.pc = "application" /\ q.op = "leave" /\ ~q.found
      BY IdleType DEF Request, Steps, Ops, Idle
    <2>3. Start(s, q)
      BY <2>1
    <2> HIDE DEF q
    <2> QED BY <2>2, <2>3 DEF Fresh, UsesLink
  <1>4. ASSUME BeginInvite(s) PROVE \E q \in Request : Fresh(q) /\ Start(s, q)
    <2>1. PICK u \in Users, v \in Users :
            Start(s, [Idle EXCEPT !.pc = "inviter", !.op = "invite", !.user = u, !.by = v])
      BY <1>4 DEF BeginInvite
    <2> DEFINE q == [Idle EXCEPT !.pc = "inviter", !.op = "invite", !.user = u, !.by = v]
    <2>2. q \in Request /\ q.pc = "inviter" /\ q.op = "invite" /\ ~q.found
      BY IdleType DEF Request, Steps, Ops, Idle
    <2>3. Start(s, q)
      BY <2>1
    <2> HIDE DEF q
    <2> QED BY <2>2, <2>3 DEF Fresh, UsesLink
  <1>5. ASSUME BeginLink(s) PROVE \E q \in Request : Fresh(q) /\ Start(s, q)
    <2>1. PICK u \in Users, l \in Links, op \in {"join", "open"} :
            Start(s, [Idle EXCEPT !.pc = "link", !.op = op, !.user = u, !.link = l])
      BY <1>5 DEF BeginLink
    <2> DEFINE q == [Idle EXCEPT !.pc = "link", !.op = op, !.user = u, !.link = l]
    <2>2. q \in Request /\ q.pc = "link" /\ q.op = op /\ ~q.found
      BY IdleType DEF Request, Steps, Ops, Idle
    <2>3. Start(s, q)
      BY <2>1
    <2> HIDE DEF q
    <2> QED BY <2>2, <2>3 DEF Fresh, UsesLink
  <1> QED BY <1>1, <1>2, <1>3, <1>4, <1>5 DEF Begins

\* A request that has read something: what it keeps and what it learns.
Same(r, q) == q.op = r.op /\ q.user = r.user /\ q.link = r.link

Kept(r, q) == Same(r, q) /\ q.quota = r.quota

FollowsLink(r, q) ==
  /\ r.pc = "link" /\ Same(r, q) /\ q.quota = quota[r.link] /\ quota[r.link] >= 1
  /\ q.id = r.id /\ q.found = r.found
  /\ q.pc = IF r.op = "join" THEN "profile" ELSE "commit"

FollowsInviter(r, q) ==
  /\ r.pc = "inviter" /\ Kept(r, q) /\ q.pc = "profile"
  /\ q.id = r.id /\ q.found = r.found

FollowsApplication(r, q) ==
  /\ r.pc = "application" /\ Kept(r, q) /\ q.pc \in {"profile", "commit"}
  /\ \/ r.op = "apply" /\ Of(r.user) = {} /\ q.id = r.id /\ q.found = r.found
     \/ r.op = "approve" /\ Pending(r.id) /\ q.id = r.id /\ q.found = r.found
     \/ /\ r.op \in {"invite", "leave"}
        /\ r.op = "leave" => q.pc = "profile"
        /\ \/ Of(r.user) = {} /\ q.id = r.id /\ q.found = r.found
           \/ q.id \in Of(r.user) /\ q.found

FollowsProfile(r, q) ==
  /\ r.pc = "profile" /\ Kept(r, q)
  /\ q.id = r.id /\ q.found = r.found
  /\ r.op = "leave" => q.inside = member[r.user]
  /\ q.pc = IF r.op = "invite" THEN "application" ELSE "commit"

Follows(r, q) ==
  FollowsLink(r, q) \/ FollowsInviter(r, q) \/ FollowsApplication(r, q) \/ FollowsProfile(r, q)

Reads(s) == ReadLink(s) \/ ReadInviter(s) \/ ReadApplication(s) \/ ReadProfile(s)

LEMMA ReadType ==
  ASSUME NEW s \in Slots, TypeOK, Reads(s)
  PROVE Busy(s) /\ \E q \in Request : Learn(s, q) /\ (q = Idle \/ Follows(req[s], q))
  <1>0. req[s] \in Request
    BY DEF TypeOK
  <1> DEFINE r == req[s]
             Learns(q) == q \in Request /\ Learn(s, q) /\ Follows(r, q)
  <1>1. ASSUME ReadLink(s) PROVE Busy(s) /\ \E q : Learns(q)
    <2> DEFINE q == [r EXCEPT !.quota = quota[r.link],
                              !.pc = IF r.op = "join" THEN "profile" ELSE "commit"]
    <2>1. r.pc = "link" /\ quota[r.link] >= 1 /\ Learn(s, q)
      BY <1>1 DEF ReadLink, At, Spendable
    <2>2. quota[r.link] \in Nat
      BY <1>0 DEF TypeOK, Request
    <2>3. q \in Request /\ FollowsLink(r, q)
      BY <1>0, <2>1, <2>2 DEF Request, Steps, FollowsLink, Same
    <2> HIDE DEF q
    <2> QED BY <2>1, <2>3 DEF Busy, Follows
  <1>2. ASSUME ReadInviter(s) PROVE Busy(s) /\ \E q : Learns(q)
    <2> DEFINE q == [r EXCEPT !.pc = "profile"]
    <2>1. r.pc = "inviter" /\ Learn(s, q)
      BY <1>2 DEF ReadInviter, At
    <2>2. q \in Request /\ FollowsInviter(r, q)
      BY <1>0, <2>1 DEF Request, Steps, FollowsInviter, Kept, Same
    <2> HIDE DEF q
    <2> QED BY <2>1, <2>2 DEF Busy, Follows
  <1>3. ASSUME ReadApplication(s) PROVE Busy(s) /\ \E q : Learns(q)
    <2>0. r.pc = "application"
      BY <1>3 DEF ReadApplication, At
    <2>1. ASSUME r.op = "apply", Unapplied(r.user),
                 Learn(s, [r EXCEPT !.pc = IF r.auto THEN "profile" ELSE "commit"])
          PROVE \E q : Learns(q)
      <3> DEFINE q == [r EXCEPT !.pc = IF r.auto THEN "profile" ELSE "commit"]
      <3>1. q \in Request /\ FollowsApplication(r, q)
        BY <1>0, <2>0, <2>1 DEF Request, Steps, FollowsApplication, Kept, Same, Unapplied
      <3>2. Learn(s, q)
        BY <2>1
      <3> HIDE DEF q
      <3> QED BY <3>1, <3>2 DEF Follows
    <2>2. ASSUME r.op = "approve", Pending(r.id), Learn(s, [r EXCEPT !.pc = "profile"])
          PROVE \E q : Learns(q)
      <3> DEFINE q == [r EXCEPT !.pc = "profile"]
      <3>1. q \in Request /\ FollowsApplication(r, q)
        BY <1>0, <2>0, <2>2 DEF Request, Steps, FollowsApplication, Kept, Same
      <3>2. Learn(s, q)
        BY <2>2
      <3> HIDE DEF q
      <3> QED BY <3>1, <3>2 DEF Follows
    <2>3. ASSUME r.op \in {"invite", "leave"}, Of(r.user) = {},
                 Learn(s, [r EXCEPT !.pc = IF r.op = "leave" THEN "profile" ELSE "commit"])
          PROVE \E q : Learns(q)
      <3> DEFINE q == [r EXCEPT !.pc = IF r.op = "leave" THEN "profile" ELSE "commit"]
      <3>1. q \in Request /\ FollowsApplication(r, q)
        BY <1>0, <2>0, <2>3 DEF Request, Steps, FollowsApplication, Kept, Same
      <3>2. Learn(s, q)
        BY <2>3
      <3> HIDE DEF q
      <3> QED BY <3>1, <3>2 DEF Follows
    <2>4. ASSUME r.op \in {"invite", "leave"}, NEW a \in Of(r.user),
                 Learn(s, [r EXCEPT !.pc = IF r.op = "leave" THEN "profile" ELSE "commit",
                                    !.id = a, !.found = TRUE])
          PROVE \E q : Learns(q)
      <3> DEFINE q == [r EXCEPT !.pc = IF r.op = "leave" THEN "profile" ELSE "commit",
                                !.id = a, !.found = TRUE]
      <3>0. a \in Applications
        BY DEF Of
      <3>1. q \in Request /\ FollowsApplication(r, q)
        BY <1>0, <2>0, <2>4, <3>0 DEF Request, Steps, FollowsApplication, Kept, Same
      <3>2. Learn(s, q)
        BY <2>4
      <3> HIDE DEF q
      <3> QED BY <3>1, <3>2 DEF Follows
    <2> QED BY <1>3, <2>0, <2>1, <2>2, <2>3, <2>4 DEF ReadApplication, Busy
  <1>4. ASSUME ReadProfile(s)
        PROVE Busy(s) /\ (Learn(s, Idle) \/ \E q : Learns(q))
    <2>0. r.pc = "profile"
      BY <1>4 DEF ReadProfile, At
    <2>1. ASSUME r.op # "leave",
                 Learn(s, [r EXCEPT !.pc = IF r.op = "invite" THEN "application" ELSE "commit"])
          PROVE \E q : Learns(q)
      <3> DEFINE q == [r EXCEPT !.pc = IF r.op = "invite" THEN "application" ELSE "commit"]
      <3>1. q \in Request /\ FollowsProfile(r, q)
        BY <1>0, <2>0, <2>1 DEF Request, Steps, FollowsProfile, Kept, Same
      <3>2. Learn(s, q)
        BY <2>1
      <3> HIDE DEF q
      <3> QED BY <3>1, <3>2 DEF Follows
    <2>2. ASSUME r.op = "leave",
                 Learn(s, [r EXCEPT !.pc = "commit", !.inside = member[r.user]])
          PROVE \E q : Learns(q)
      <3> DEFINE q == [r EXCEPT !.pc = "commit", !.inside = member[r.user]]
      <3>0. member[r.user] \in BOOLEAN
        BY <1>0 DEF TypeOK, Request
      <3>1. q \in Request /\ FollowsProfile(r, q)
        BY <1>0, <2>0, <2>2, <3>0 DEF Request, Steps, FollowsProfile, Kept, Same
      <3>2. Learn(s, q)
        BY <2>2
      <3> HIDE DEF q
      <3> QED BY <3>1, <3>2 DEF Follows
    <2> QED BY <1>4, <2>0, <2>1, <2>2 DEF ReadProfile, Busy
  <1> HIDE DEF r
  <1> QED BY <1>1, <1>2, <1>3, <1>4, IdleType DEF Reads, r

-----------------------------------------------------------------------------
(* What holds however requests interleave.                                 *)

\* The request has loaded the quota of its link.
Loaded(q) == UsesLink(q) /\ q.pc \in {"profile", "commit"}

\* A quota that was loaded allowed one more use, and later uses only add to what it
\* counted.
Counted ==
  \A s \in Slots : Loaded(req[s]) =>
    req[s].quota >= 1 /\ req[s].quota + uses[req[s].link] >= Quota

\* Only requests that use a link wait for one, only invitations for the inviter.
Routed ==
  \A s \in Slots : /\ At(s, "link") <=> UsesLink(req[s]) /\ Busy(s) /\ ~Loaded(req[s])
                   /\ At(s, "inviter") => req[s].op = "invite"

QuotaInv == TypeOK /\ Counted /\ Routed /\ QuotaNotWasted

LEMMA QuotaInit == Init => QuotaInv
  <1> SUFFICES ASSUME Init PROVE QuotaInv
    OBVIOUS
  <1>1. TypeOK
    BY IdleType, NoRowType, ConstantsAssumption DEF Init, TypeOK
  <1>2. Counted /\ Routed
    BY IdleType DEF Init, Counted, Routed, Loaded, UsesLink, At, Busy
  <1>3. QuotaNotWasted
    BY ConstantsAssumption DEF Init, QuotaNotWasted
  <1> QED BY <1>1, <1>2, <1>3 DEF QuotaInv

\* The actions that write: each ends its request.
Commits(s) ==
  \/ CommitApply(s) \/ CommitApprove(s) \/ CommitInvite(s)
  \/ CommitLeave(s) \/ CommitJoin(s) \/ CommitOpen(s)

LEMMA NextCases ==
  ASSUME Next
  PROVE \E s \in Slots : Begins(s) \/ Reads(s) \/ Commits(s) \/ Abort(s)
  BY DEF Next, Begins, Reads, Commits

LEMMA WithdrawnType ==
  ASSUME TypeOK, NEW q \in Request
  PROVE /\ Withdrawn(q) \in [Applications -> Row]
        /\ \A a \in Applications :
             /\ Withdrawn(q)[a].made = app[a].made /\ Withdrawn(q)[a].user = app[a].user
             /\ Withdrawn(q)[a].pending <=> app[a].pending /\ ~(q.found /\ a = q.id)
             /\ ~(q.found /\ a = q.id) => Withdrawn(q)[a] = app[a]
  <1>1. app \in [Applications -> Row] /\ q.id \in Applications
    BY DEF TypeOK, Request
  <1> QED BY <1>1 DEF Withdrawn, Row

\* What every commit leaves well typed.
LEMMA CommitType ==
  ASSUME NEW s \in Slots, TypeOK, Commits(s)
  PROVE /\ At(s, "commit") /\ req' = [req EXCEPT ![s] = Idle] /\ UNCHANGED served
        /\ member' \in [Users -> BOOLEAN] /\ app' \in [Applications -> Row]
        /\ left' \in [Users -> BOOLEAN]
  <1>0. req[s] \in Request
    BY DEF TypeOK
  <1> DEFINE r == req[s]
  <1>1. CASE CommitApply(s)
    <2>1. [made |-> TRUE, user |-> r.user, pending |-> TRUE] \in Row
      BY <1>0 DEF Request, Row
    <2> QED BY <1>1, <2>1 DEF CommitApply, Admit, Finish, TypeOK
  <1>2. CASE CommitApprove(s)
    BY <1>0, <1>2 DEF CommitApprove, Approved, Admit, Finish, TypeOK, Request, history
  <1>3. CASE CommitInvite(s)
    BY <1>0, <1>3, WithdrawnType DEF CommitInvite, Admit, Finish, TypeOK
  <1>4. CASE CommitLeave(s)
    BY <1>0, <1>4, WithdrawnType DEF CommitLeave, Finish, TypeOK
  <1>5. CASE CommitJoin(s)
    BY <1>5 DEF CommitJoin, Admit, Finish, TypeOK
  <1>6. CASE CommitOpen(s)
    BY <1>6 DEF CommitOpen, Finish, TypeOK
  <1> QED BY <1>1, <1>2, <1>3, <1>4, <1>5, <1>6 DEF Commits

\* Every commit either leaves the links alone or is one use of a link.
LEMMA CommitCounts ==
  ASSUME NEW s \in Slots, Commits(s)
  PROVE \/ UNCHANGED <<quota, uses>> /\ ~UsesLink(req[s])
        \/ /\ UsesLink(req[s])
           /\ quota' = [quota EXCEPT ![req[s].link] = req[s].quota - 1]
           /\ uses' = [uses EXCEPT ![req[s].link] = @ + 1]
  BY DEF Commits, CommitApply, CommitApprove, CommitInvite, CommitLeave, CommitJoin,
         CommitOpen, Spent, UsesLink, history

LEMMA QuotaStep ==
  ASSUME QuotaInv, [Next]_vars
  PROVE QuotaInv'
  <1>0. TypeOK /\ req \in [Slots -> Request]
    BY DEF QuotaInv, TypeOK
  <1>1. CASE UNCHANGED vars
    BY <1>0, <1>1 DEF vars, store, history, QuotaInv, TypeOK, Counted, Routed, Loaded,
                      UsesLink, At, Busy, QuotaNotWasted
  <1>2. ASSUME NEW s \in Slots, Begins(s) PROVE QuotaInv'
    <2>1. PICK q \in Request : Fresh(q) /\ Start(s, q)
      BY <1>0, <1>2, BeginType
    <2>2. TypeOK'
      BY <1>0, <2>1, ConstantsAssumption DEF Start, TypeOK, store, history
    <2>3. (Counted /\ Routed)'
      BY <1>0, <2>1 DEF Start, Fresh, QuotaInv, Counted, Routed, Loaded, UsesLink, At,
                        Busy, history
    <2> QED BY <2>1, <2>2, <2>3 DEF Start, QuotaInv, QuotaNotWasted, store, history
  <1>3. ASSUME NEW s \in Slots, NEW q \in Request, Learn(s, q), Busy(s),
               q = Idle \/ Follows(req[s], q)
        PROVE QuotaInv'
    <2>1. TypeOK'
      BY <1>0, <1>3 DEF Learn, TypeOK, store, history
    <2>2. req'[s] = q /\ \A t \in Slots \ {s} : req'[t] = req[t]
      BY <1>0, <1>3 DEF Learn
    <2>3. req[s].link \in Links /\ quota \in [Links -> Nat] /\ uses \in [Links -> Nat]
      BY <1>0 DEF TypeOK, Request
    <2>4. Loaded(q) => q.quota >= 1 /\ q.quota + uses[q.link] >= Quota
      BY <1>3, <2>3, IdleType DEF QuotaInv, Counted, Routed, Loaded, QuotaNotWasted, Follows,
         FollowsLink, FollowsInviter, FollowsApplication, FollowsProfile, Kept, Same,
         UsesLink, At
    <2>5. Counted'
      BY <1>3, <2>2, <2>4 DEF Learn, history, QuotaInv, Counted, Loaded, UsesLink
    <2>6. /\ q.pc = "link" <=> UsesLink(q) /\ q.pc # "idle" /\ ~Loaded(q)
          /\ q.pc = "inviter" => q.op = "invite"
      BY <1>3, IdleType DEF QuotaInv, Routed, Loaded, Follows, FollowsLink, FollowsInviter,
         FollowsApplication, FollowsProfile, Kept, Same, UsesLink, At, Busy
    <2>7. Routed'
      BY <2>2, <2>6 DEF QuotaInv, Routed, Loaded, UsesLink, At, Busy
    <2> QED BY <1>3, <2>1, <2>5, <2>7 DEF Learn, QuotaInv, QuotaNotWasted, store, history
  <1>4. ASSUME NEW s \in Slots, Reads(s) PROVE QuotaInv'
    BY <1>0, <1>3, <1>4, ReadType
  <1>5. ASSUME NEW s \in Slots, Abort(s) PROVE QuotaInv'
    BY <1>3, <1>5, IdleType DEF Abort
  <1>6. ASSUME NEW s \in Slots, Commits(s) PROVE QuotaInv'
    <2>1. At(s, "commit") /\ req' = [req EXCEPT ![s] = Idle] /\ UNCHANGED served
      BY <1>0, <1>6, CommitType
    <2>2. req'[s] = Idle /\ \A t \in Slots \ {s} : req'[t] = req[t]
      BY <1>0, <2>1
    <2>3. Routed'
      BY <2>2, IdleType DEF QuotaInv, Routed, Loaded, UsesLink, At, Busy
    <2>4. quota \in [Links -> Nat] /\ uses \in [Links -> Nat] /\ Quota \in Nat
          /\ \A t \in Slots : req[t].link \in Links /\ req[t].quota \in Nat
      BY <1>0, ConstantsAssumption DEF TypeOK, Request
    <2>5. UsesLink(req[s]) =>
            req[s].quota >= 1 /\ req[s].quota + uses[req[s].link] >= Quota
      BY <2>1 DEF QuotaInv, Counted, Loaded, At
    <2>6. /\ quota' \in [Links -> Nat] /\ uses' \in [Links -> Nat]
          /\ QuotaNotWasted' /\ \A l \in Links : uses'[l] >= uses[l]
      <3> DEFINE l == req[s].link
                 n == req[s].quota
      <3>1. CASE UNCHANGED <<quota, uses>>
        BY <2>4, <3>1 DEF QuotaInv, QuotaNotWasted
      <3>2. CASE /\ n >= 1 /\ n + uses[l] >= Quota
                 /\ quota' = [quota EXCEPT ![l] = n - 1]
                 /\ uses' = [uses EXCEPT ![l] = @ + 1]
        <4>1. l \in Links /\ n \in Nat
          BY <2>4
        <4> HIDE DEF l, n
        <4> QED BY <2>4, <3>2, <4>1 DEF QuotaInv, QuotaNotWasted
      <3> QED BY <1>6, <2>5, <3>1, <3>2, CommitCounts
    <2>7. Counted'
      <3>1. ~Loaded(Idle)
        BY IdleType DEF Loaded
      <3>2. uses' \in [Links -> Nat]
        BY <2>6
      <3>3. ASSUME NEW t \in Slots, Loaded(req'[t])
            PROVE req'[t].quota >= 1 /\ req'[t].quota + uses'[req'[t].link] >= Quota
        <4>1. req'[t] = req[t]
          BY <2>2, <3>1, <3>3
        <4>2. req[t].quota >= 1 /\ req[t].quota + uses[req[t].link] >= Quota
          BY <3>3, <4>1 DEF QuotaInv, Counted
        <4> QED BY <2>4, <2>6, <3>2, <4>1, <4>2
      <3> QED BY <3>3 DEF Counted, Loaded, UsesLink
    <2>8. TypeOK'
      BY <1>0, <1>6, <2>6, CommitType, IdleType DEF TypeOK
    <2> QED BY <2>3, <2>6, <2>7, <2>8 DEF QuotaInv
  <1> QED BY <1>1, <1>2, <1>4, <1>5, <1>6, NextCases

LEMMA QuotaAlways == Spec => []QuotaInv
  <1>1. Init => QuotaInv
    BY QuotaInit
  <1>2. QuotaInv /\ [Next]_vars => QuotaInv'
    BY QuotaStep
  <1> QED BY <1>1, <1>2, PTL DEF Spec

\* Every reachable state is well typed: in particular no quota becomes negative.
THEOREM TypeCorrect == Spec => []TypeOK
  <1>1. QuotaInv => TypeOK
    BY DEF QuotaInv
  <1> QED BY <1>1, QuotaAlways, PTL

\* However the uses of a link overlap, none of them takes away more than itself.
THEOREM QuotaNeverWasted == Spec => []QuotaNotWasted
  <1>1. QuotaInv => QuotaNotWasted
    BY DEF QuotaInv
  <1> QED BY <1>1, QuotaAlways, PTL

-----------------------------------------------------------------------------
(* What holds for links whose uses do not overlap.                         *)

OnePerLink ==
  \A s, t \in Slots :
    /\ Busy(s) /\ UsesLink(req[s]) /\ Busy(t) /\ UsesLink(req[t])
    /\ req[s].link = req[t].link /\ req[s].link \in IsolatedLinks
    => s = t

LinkCurrent ==
  \A s \in Slots : Loaded(req[s]) /\ req[s].link \in IsolatedLinks
                      => req[s].quota = quota[req[s].link]

LinkInv == OnePerLink /\ LinkCurrent /\ QuotaExact

LEMMA LinkInit == Init => LinkInv
  BY IdleType, ConstantsAssumption
     DEF Init, LinkInv, OnePerLink, LinkCurrent, QuotaExact, Loaded, Busy

LEMMA LinkStep ==
  ASSUME QuotaInv, LinkInv, [Next]_vars
  PROVE LinkInv'
  <1>0. TypeOK /\ req \in [Slots -> Request]
    BY DEF QuotaInv, TypeOK
  <1>1. CASE UNCHANGED vars
    BY <1>1 DEF vars, store, history, LinkInv, OnePerLink, LinkCurrent, QuotaExact,
                Loaded, UsesLink, Busy
  <1>2. ASSUME NEW s \in Slots, Begins(s) PROVE LinkInv'
    <2>1. PICK q \in Request : Fresh(q) /\ Start(s, q)
      BY <1>0, <1>2, BeginType
    <2>2. req'[s] = q /\ \A t \in Slots \ {s} : req'[t] = req[t]
      BY <1>0, <2>1 DEF Start
    <2>3. OnePerLink'
      BY <2>1, <2>2 DEF Start, LinkInv, OnePerLink, UsesLink, Busy
    <2>4. (LinkCurrent /\ QuotaExact)'
      BY <2>1, <2>2 DEF Start, Fresh, LinkInv, LinkCurrent, QuotaExact, Loaded, UsesLink,
                        store, history
    <2> QED BY <2>3, <2>4 DEF LinkInv
  <1>3. ASSUME NEW s \in Slots, NEW q \in Request, Learn(s, q), Busy(s),
               q = Idle \/ Follows(req[s], q)
        PROVE LinkInv'
    <2>1. req'[s] = q /\ \A t \in Slots \ {s} : req'[t] = req[t]
      BY <1>0, <1>3 DEF Learn
    <2>2. q.pc # "idle" => Same(req[s], q)
      BY <1>3, IdleType DEF Follows, FollowsLink, FollowsInviter, FollowsApplication,
         FollowsProfile, Kept
    <2>3. OnePerLink'
      BY <1>3, <2>1, <2>2 DEF LinkInv, OnePerLink, UsesLink, Busy, Same
    <2>4. Loaded(q) /\ q.link \in IsolatedLinks => q.quota = quota[q.link]
      BY <1>3, IdleType DEF QuotaInv, Routed, LinkInv, LinkCurrent, Loaded, UsesLink, At, Follows,
         FollowsLink, FollowsInviter, FollowsApplication, FollowsProfile, Kept, Same
    <2>5. LinkCurrent'
      BY <1>3, <2>1, <2>4 DEF Learn, store, LinkInv, LinkCurrent, Loaded, UsesLink
    <2> QED BY <1>3, <2>3, <2>5 DEF Learn, LinkInv, QuotaExact, store, history
  <1>4. ASSUME NEW s \in Slots, Reads(s) PROVE LinkInv'
    BY <1>0, <1>3, <1>4, ReadType
  <1>5. ASSUME NEW s \in Slots, Abort(s) PROVE LinkInv'
    BY <1>3, <1>5, IdleType DEF Abort
  <1>6. ASSUME NEW s \in Slots, Commits(s) PROVE LinkInv'
    <2>1. At(s, "commit") /\ req'[s] = Idle /\ \A t \in Slots \ {s} : req'[t] = req[t]
      BY <1>0, <1>6, CommitType
    <2>2. OnePerLink'
      BY <2>1, IdleType DEF LinkInv, OnePerLink, UsesLink, Busy
    <2>3. CASE UNCHANGED <<quota, uses>>
      BY <2>1, <2>2, <2>3, IdleType DEF LinkInv, LinkCurrent, QuotaExact, Loaded, UsesLink
    <2>4. CASE /\ UsesLink(req[s])
               /\ quota' = [quota EXCEPT ![req[s].link] = req[s].quota - 1]
               /\ uses' = [uses EXCEPT ![req[s].link] = @ + 1]
      <3>1. /\ quota \in [Links -> Nat] /\ uses \in [Links -> Nat] /\ Quota \in Nat
            /\ req[s].link \in Links /\ \A t \in Slots : req[t].link \in Links
        BY <1>0, ConstantsAssumption DEF TypeOK, Request
      <3>2. req[s].link \in IsolatedLinks => req[s].quota = quota[req[s].link]
        BY <2>1, <2>4 DEF LinkInv, LinkCurrent, Loaded, At
      <3>3. QuotaExact'
        <4> DEFINE l == req[s].link
                   n == req[s].quota
        <4>1. \A k \in IsolatedLinks : k \in Links /\ quota[k] + uses[k] = Quota
          BY ConstantsAssumption DEF LinkInv, QuotaExact
        <4>2. l \in Links /\ (l \in IsolatedLinks => n = quota[l])
              /\ quota' = [quota EXCEPT ![l] = n - 1] /\ uses' = [uses EXCEPT ![l] = @ + 1]
          BY <2>4, <3>1, <3>2
        <4> HIDE DEF l, n
        <4> QED BY <3>1, <4>1, <4>2 DEF QuotaExact
      <3>4. \A t \in Slots \ {s} : Loaded(req[t]) /\ req[t].link \in IsolatedLinks
                                     => req[t].link # req[s].link
        BY <2>1, <2>4 DEF LinkInv, OnePerLink, Loaded, Busy, At
      <3>5. LinkCurrent'
        BY <2>1, <2>4, <3>1, <3>4, IdleType DEF LinkInv, LinkCurrent, Loaded, UsesLink
      <3> QED BY <2>2, <3>3, <3>5 DEF LinkInv
    <2> QED BY <1>6, <2>3, <2>4, CommitCounts
  <1> QED BY <1>1, <1>2, <1>4, <1>5, <1>6, NextCases

\* When nothing else is using a link, what its quota has lost is its committed uses.
THEOREM QuotasExact == Spec => []QuotaExact
  <1>1. Init => QuotaInv /\ LinkInv
    BY QuotaInit, LinkInit
  <1>2. QuotaInv /\ LinkInv /\ [Next]_vars => (QuotaInv /\ LinkInv)'
    BY QuotaStep, LinkStep
  <1>3. LinkInv => QuotaExact
    BY DEF LinkInv
  <1> QED BY <1>1, <1>2, <1>3, PTL DEF Spec

-----------------------------------------------------------------------------
(* What holds for users whom only one request at a time concerns.          *)

OnePerUser ==
  \A s, t \in Slots :
    \A u \in IsolatedUsers :
      Busy(s) /\ Concerns(req[s], u) /\ Busy(t) /\ Concerns(req[t], u) => s = t

\* The id of an application to be made is new, and nobody else's.
NewIds ==
  \A s \in Slots : Busy(s) /\ req[s].op = "apply" =>
    /\ ~app[req[s].id].made
    /\ \A t \in Slots : Busy(t) /\ req[t].op = "apply" /\ req[t].id = req[s].id => s = t

\* The application a request has loaded, or is about, is one of its user.
IdOf(q) == q.op = "approve" \/ q.found => q.op # "apply" /\ q.id \in Of(q.user)

Ids == \A s \in Slots : Busy(s) => IdOf(req[s])

\* What a request has read of its user is still so.
Current(q) ==
  /\ q.op = "apply" /\ q.pc \in {"profile", "commit"} => Of(q.user) = {}
  /\ q.op = "approve" /\ q.pc \in {"profile", "commit"} => Pending(q.id)
  /\ \/ q.op = "leave" /\ q.pc \in {"profile", "commit"}
     \/ q.op = "invite" /\ q.pc = "commit"
     => q.found \/ Of(q.user) = {}
  /\ q.op = "leave" /\ q.pc = "commit" => q.inside = member[q.user]

AllCurrent ==
  \A s \in Slots :
    Busy(s) /\ req[s].op # "open" /\ req[s].user \in IsolatedUsers => Current(req[s])

UserInv == OnePerUser /\ NewIds /\ Ids /\ AllCurrent /\ LeavingIsFinal /\ AppliedOnce

LEMMA UserInit == Init => UserInv
  <1> SUFFICES ASSUME Init PROVE UserInv
    OBVIOUS
  <1>1. \A s \in Slots : ~Busy(s)
    BY IdleType DEF Init, Busy
  <1>2. \A u \in Users : Of(u) = {}
    BY NoRowType DEF Init, Of
  <1>3. LeavingIsFinal /\ AppliedOnce
    BY <1>2, NoRowType, ConstantsAssumption DEF Init, LeavingIsFinal, AppliedOnce
  <1> QED BY <1>1, <1>3 DEF UserInv, OnePerUser, NewIds, Ids, AllCurrent

\* Requests that start or read: the store stays.
LEMMA UserReads ==
  ASSUME TypeOK, UserInv, NEW s \in Slots, NEW q \in Request,
         req' = [req EXCEPT ![s] = q], UNCHANGED <<store, history>>,
         q.pc # "idle" => IdOf(q),
         q.pc # "idle" /\ q.op # "open" /\ q.user \in IsolatedUsers => Current(q),
         q.pc # "idle" /\ q.op = "apply" =>
           /\ ~app[q.id].made
           /\ \A t \in Slots \ {s} : Busy(t) /\ req[t].op = "apply" => req[t].id # q.id,
         \A u \in IsolatedUsers : \A t \in Slots \ {s} :
           q.pc # "idle" /\ Concerns(q, u) /\ Busy(t) => ~Concerns(req[t], u)
  PROVE UserInv'
  <1>0. req'[s] = q /\ \A t \in Slots \ {s} : req'[t] = req[t]
    BY DEF TypeOK
  <1>1. member' = member /\ app' = app /\ left' = left
    BY DEF store, history
  <1>2. OnePerUser'
    BY <1>0 DEF UserInv, OnePerUser, Concerns, Busy
  <1>3. NewIds'
    BY <1>0, <1>1 DEF UserInv, NewIds, Busy
  <1>4. Ids'
    BY <1>0, <1>1 DEF UserInv, Ids, IdOf, Of, Busy
  <1>5. AllCurrent'
    BY <1>0, <1>1 DEF UserInv, AllCurrent, Current, Pending, Of, Busy
  <1>6. (LeavingIsFinal /\ AppliedOnce)'
    BY <1>1 DEF UserInv, LeavingIsFinal, AppliedOnce, Of
  <1> QED BY <1>2, <1>3, <1>4, <1>5, <1>6 DEF UserInv

\* A commit writes the membership and the applications of its own user only.
LEMMA CommitWrites ==
  ASSUME TypeOK, NewIds, Ids, NEW s \in Slots, Commits(s)
  PROVE /\ \A u \in Users : u # req[s].user \/ req[s].op = "open" =>
             member'[u] = member[u] /\ left'[u] = left[u]
        /\ \A a \in Applications :
             /\ app[a].made => app'[a].made /\ app'[a].user = app[a].user
             /\ app'[a].made /\ ~app[a].made => req[s].op = "apply" /\ a = req[s].id
                                                /\ app'[a].user = req[s].user
             /\ app[a].made /\ app[a].user # req[s].user => app'[a] = app[a]
             /\ req[s].op = "open" => app'[a] = app[a]
  <1>0. /\ req[s] \in Request /\ member \in [Users -> BOOLEAN]
        /\ app \in [Applications -> Row] /\ left \in [Users -> BOOLEAN]
    BY DEF TypeOK
  <1>1. At(s, "commit") /\ Busy(s)
    BY CommitType DEF At, Busy
  <1>2. CASE CommitApply(s)
    <2>1. req[s].op = "apply" /\ ~app[req[s].id].made /\ req[s].id \in Applications
          /\ req[s].user \in Users
      BY <1>0, <1>1, <1>2 DEF CommitApply, NewIds, Request
    <2>2. \A u \in Users \ {req[s].user} : member'[u] = member[u] /\ left'[u] = left[u]
      BY <1>0, <1>2, <2>1 DEF CommitApply, Admit
    <2>3. \/ app' = app
          \/ app' = [app EXCEPT ![req[s].id] = [made |-> TRUE, user |-> req[s].user,
                                               pending |-> TRUE]]
      BY <1>2 DEF CommitApply
    <2> QED BY <1>0, <2>1, <2>2, <2>3
  <1>3. CASE CommitApprove(s)
    <2>1. req[s].op = "approve" /\ app' = app /\ left' = left
          /\ member' = [member EXCEPT ![req[s].user] = TRUE]
      BY <1>0, <1>3 DEF CommitApprove, Approved, Admit, Request, history
    <2> QED BY <1>0, <2>1
  <1>4. ASSUME req[s].op \in {"invite", "leave"}, app' = Withdrawn(req[s]),
               \E b \in BOOLEAN : \/ member' = member
                                 \/ member' = [member EXCEPT ![req[s].user] = b],
               \E b \in BOOLEAN : left' = [left EXCEPT ![req[s].user] = b]
        PROVE /\ \A u \in Users : u # req[s].user \/ req[s].op = "open" =>
                   member'[u] = member[u] /\ left'[u] = left[u]
              /\ \A a \in Applications :
                   /\ app'[a].made = app[a].made /\ app'[a].user = app[a].user
                   /\ app[a].made /\ app[a].user # req[s].user => app'[a] = app[a]
    <2>1. req[s].found => req[s].id \in Of(req[s].user)
      BY <1>1 DEF Ids, IdOf
    <2>2. \A u \in Users : u # req[s].user => member'[u] = member[u] /\ left'[u] = left[u]
      BY <1>0, <1>4
    <2>3. \A a \in Applications :
            /\ app'[a].made = app[a].made /\ app'[a].user = app[a].user
            /\ app[a].made /\ app[a].user # req[s].user => app'[a] = app[a]
      BY <1>0, <1>4, <2>1, WithdrawnType DEF Of
    <2> QED BY <1>4, <2>2, <2>3
  <1>5. CASE CommitInvite(s)
    BY <1>4, <1>5 DEF CommitInvite, Admit
  <1>6. CASE CommitLeave(s)
    BY <1>4, <1>6 DEF CommitLeave
  <1>7. CASE CommitJoin(s)
    <2>1. req[s].op = "join" /\ app' = app
          /\ member' = [member EXCEPT ![req[s].user] = TRUE]
          /\ left' = [left EXCEPT ![req[s].user] = FALSE]
      BY <1>7 DEF CommitJoin, Admit
    <2> QED BY <1>0, <2>1
  <1>8. CASE CommitOpen(s)
    BY <1>8 DEF CommitOpen
  <1> QED BY <1>2, <1>3, <1>5, <1>6, <1>7, <1>8 DEF Commits

\* What the user of a commit is left with.
LEMMA CommitOutcome ==
  ASSUME TypeOK, UserInv, NEW s \in Slots, Commits(s), req[s].op # "open",
         NEW u \in IsolatedUsers, req[s].user = u
  PROVE /\ left'[u] => ~member'[u] /\ \A a \in Of(u)' : ~app'[a].pending
        /\ \A a, b \in Of(u)' : a = b
  <1>0. /\ req[s] \in Request /\ member \in [Users -> BOOLEAN]
        /\ app \in [Applications -> Row] /\ left \in [Users -> BOOLEAN]
    BY DEF TypeOK
  <1>1. At(s, "commit") /\ Busy(s) /\ u \in Users
    BY <1>0, CommitType DEF At, Busy, Request
  <1>2. left[u] => ~member[u] /\ \A a \in Of(u) : ~app[a].pending
    BY DEF UserInv, LeavingIsFinal
  <1>3. \A a, b \in Of(u) : a = b
    BY DEF UserInv, AppliedOnce, Of
  <1>4. Current(req[s]) /\ IdOf(req[s])
    BY <1>1 DEF UserInv, AllCurrent, Ids
  <1>5. CASE CommitApply(s)
    <2>1. req[s].op = "apply" /\ Of(u) = {} /\ ~left'[u]
      BY <1>0, <1>1, <1>4, <1>5 DEF CommitApply, Current, At
    <2>2. \A a \in Applications : app'[a].made /\ app'[a].user = u => a = req[s].id
      <3>1. \A a \in Applications : app[a].made => app[a].user # u
        BY <2>1 DEF Of
      <3>2. \A a \in Applications :
              /\ app[a].made => app'[a].user = app[a].user
              /\ app'[a].made /\ ~app[a].made => a = req[s].id
        BY CommitWrites DEF UserInv
      <3> QED BY <3>1, <3>2
    <2> QED BY <2>1, <2>2 DEF Of
  <1>6. CASE CommitApprove(s)
    <2>1. app' = app /\ left' = left
      BY <1>0, <1>6 DEF CommitApprove, Approved, Request, history
    <2>2. Pending(req[s].id) /\ req[s].id \in Of(u)
      BY <1>1, <1>4, <1>6 DEF CommitApprove, Current, IdOf, At
    <2>3. ~left[u]
      BY <1>2, <2>2 DEF Pending
    <2> QED BY <1>3, <2>1, <2>3 DEF Of
  <1>7. ASSUME app' = Withdrawn(req[s])
        PROVE Of(u)' = Of(u)
    BY <1>0, <1>7, WithdrawnType DEF Of
  <1>8. CASE CommitInvite(s)
    <2>1. ~left'[u] /\ Of(u)' = Of(u)
      BY <1>0, <1>1, <1>7, <1>8 DEF CommitInvite
    <2> QED BY <1>3, <2>1
  <1>9. CASE CommitLeave(s)
    <2>1. /\ app' = Withdrawn(req[s]) /\ req[s].op = "leave" /\ req[s].inside = member[u]
          /\ member' = IF req[s].inside THEN [member EXCEPT ![u] = FALSE] ELSE member
          /\ req[s].found \/ Of(u) = {}
      BY <1>1, <1>4, <1>9 DEF CommitLeave, Current, At
    <2>2. ~member'[u] /\ Of(u)' = Of(u)
      BY <1>0, <1>1, <1>7, <2>1
    <2>3. \A a \in Of(u) : req[s].found /\ a = req[s].id
      BY <1>3, <1>4, <2>1 DEF IdOf
    <2>4. \A a \in Of(u) : ~app'[a].pending
      BY <1>0, <2>1, <2>3, WithdrawnType DEF Of
    <2> QED BY <1>3, <2>2, <2>4
  <1>10. CASE CommitJoin(s)
    <2>1. app' = app /\ ~left'[u]
      BY <1>0, <1>1, <1>10 DEF CommitJoin
    <2> QED BY <1>3, <2>1 DEF Of
  <1>11. ~CommitOpen(s)
    BY DEF CommitOpen
  <1> QED BY <1>5, <1>6, <1>8, <1>9, <1>10, <1>11 DEF Commits

LEMMA UserStep ==
  ASSUME QuotaInv, UserInv, [Next]_vars
  PROVE UserInv'
  <1>0. TypeOK /\ req \in [Slots -> Request]
    BY DEF QuotaInv, TypeOK
  <1>1. CASE UNCHANGED vars
    BY <1>1 DEF vars, store, history, UserInv, OnePerUser, NewIds, Ids, IdOf, AllCurrent,
                Current, Pending, LeavingIsFinal, AppliedOnce, Of, Concerns, Busy
  <1>2. ASSUME NEW s \in Slots, Begins(s) PROVE UserInv'
    <2>1. PICK q \in Request : Fresh(q) /\ Start(s, q)
      BY <1>0, <1>2, BeginType
    <2>2. IdOf(q) /\ Current(q)
      BY <2>1 DEF Fresh, IdOf, Current, UsesLink
    <2>3. \A u \in IsolatedUsers : \A t \in Slots \ {s} :
            Concerns(q, u) /\ Busy(t) => ~Concerns(req[t], u)
      BY <2>1 DEF Start, Concerns
    <2> QED BY <1>0, <2>1, <2>2, <2>3, UserReads DEF Start, Fresh
  <1>3. ASSUME NEW s \in Slots, NEW q \in Request, Learn(s, q), Busy(s),
               q = Idle \/ Follows(req[s], q)
        PROVE UserInv'
    <2>1. q.pc # "idle" => Same(req[s], q) /\ Follows(req[s], q)
      BY <1>3, IdleType DEF Follows, FollowsLink, FollowsInviter, FollowsApplication,
         FollowsProfile, Kept
    <2>2. IdOf(req[s])
      BY <1>3 DEF UserInv, Ids
    <2>3. q.pc # "idle" => IdOf(q)
      BY <2>1, <2>2 DEF Follows, FollowsLink, FollowsInviter, FollowsApplication,
         FollowsProfile, Kept, Same, IdOf
    <2>4. q.pc # "idle" /\ q.op = "apply" => q.id = req[s].id
      BY <2>1 DEF Follows, FollowsLink, FollowsInviter, FollowsApplication,
         FollowsProfile, Kept, Same
    <2>5. q.pc # "idle" /\ q.op = "apply" =>
            /\ ~app[q.id].made
            /\ \A t \in Slots \ {s} : Busy(t) /\ req[t].op = "apply" => req[t].id # q.id
      BY <1>3, <2>1, <2>4 DEF UserInv, NewIds, Same
    <2>6. \A u \in IsolatedUsers : \A t \in Slots \ {s} :
            q.pc # "idle" /\ Concerns(q, u) /\ Busy(t) => ~Concerns(req[t], u)
      BY <1>3, <2>1 DEF UserInv, OnePerUser, Concerns, Same
    <2>7. ASSUME q.pc # "idle", q.op # "open", q.user \in IsolatedUsers
          PROVE Current(q)
      <3>1. Current(req[s]) /\ Same(req[s], q) /\ Follows(req[s], q)
        BY <1>3, <2>1, <2>7 DEF UserInv, AllCurrent, Same
      <3>2. CASE FollowsLink(req[s], q)
        BY <3>1, <3>2 DEF QuotaInv, Routed, FollowsLink, Same, At, Current, UsesLink
      <3>3. CASE FollowsInviter(req[s], q)
        BY <3>1, <3>3 DEF QuotaInv, Routed, FollowsInviter, Same, At, Current
      <3>4. CASE FollowsApplication(req[s], q)
        BY <3>1, <3>4 DEF FollowsApplication, Same, Current
      <3>5. CASE FollowsProfile(req[s], q)
        BY <3>1, <3>5 DEF FollowsProfile, Same, Current
      <3> QED BY <3>1, <3>2, <3>3, <3>4, <3>5 DEF Follows
    <2> QED BY <1>0, <1>3, <2>3, <2>5, <2>6, <2>7, UserReads DEF Learn
  <1>4. ASSUME NEW s \in Slots, Reads(s) PROVE UserInv'
    BY <1>0, <1>3, <1>4, ReadType
  <1>5. ASSUME NEW s \in Slots, Abort(s) PROVE UserInv'
    BY <1>3, <1>5, IdleType DEF Abort
  <1>6. ASSUME NEW s \in Slots, Commits(s) PROVE UserInv'
    <2>1. At(s, "commit") /\ Busy(s) /\ req'[s] = Idle /\ ~Busy(s)'
          /\ \A t \in Slots \ {s} : req'[t] = req[t]
      BY <1>0, <1>6, CommitType, IdleType DEF At, Busy
    <2>2. (OnePerUser /\ NewIds /\ Ids)'
      <3>1. OnePerUser'
        BY <2>1 DEF UserInv, OnePerUser, Concerns, Busy
      <3>2. \A a \in Applications :
              /\ app[a].made => app'[a].made /\ app'[a].user = app[a].user
              /\ app'[a].made /\ ~app[a].made => req[s].op = "apply" /\ a = req[s].id
        BY <1>0, <1>6, CommitWrites DEF UserInv
      <3>3. \A t \in Slots : req[t].id \in Applications
        BY <1>0 DEF Request
      <3>4. NewIds'
        BY <2>1, <3>2, <3>3 DEF UserInv, NewIds, Busy
      <3>5. Ids'
        BY <2>1, <3>2 DEF UserInv, Ids, IdOf, Of, Busy
      <3> QED BY <3>1, <3>4, <3>5
    <2>3. ASSUME NEW u \in IsolatedUsers, req[s].op = "open" \/ req[s].user # u
          PROVE /\ Of(u)' = Of(u) /\ member'[u] = member[u] /\ left'[u] = left[u]
                /\ \A a \in Of(u) : app'[a] = app[a]
      <3>1. u \in Users
        BY ConstantsAssumption
      <3>2. member'[u] = member[u] /\ left'[u] = left[u]
        BY <1>0, <1>6, <2>3, <3>1, CommitWrites DEF UserInv
      <3>3. \A a \in Applications :
              /\ app[a].made => app'[a].made /\ app'[a].user = app[a].user
              /\ app'[a].made /\ ~app[a].made => app'[a].user # u
              /\ app[a].made /\ app[a].user = u => app'[a] = app[a]
        BY <1>0, <1>6, <2>3, CommitWrites DEF UserInv
      <3> QED BY <3>2, <3>3 DEF Of
    <2>4. AllCurrent'
      <3>1. ASSUME NEW t \in Slots \ {s}, Busy(t), req[t].op # "open",
                   req[t].user \in IsolatedUsers
            PROVE Current(req[t])'
        <4>1. PICK u \in IsolatedUsers : u = req[t].user
          BY <3>1
        <4>2. req[s].op = "open" \/ req[s].user # u
          BY <2>1, <3>1, <4>1 DEF UserInv, OnePerUser, Concerns
        <4>3. /\ Of(u)' = Of(u) /\ member'[u] = member[u]
              /\ \A a \in Of(u) : app'[a] = app[a]
          BY <2>3, <4>2
        <4>4. Current(req[t]) /\ IdOf(req[t])
          BY <3>1 DEF UserInv, AllCurrent, Ids
        <4>5. req'[t] = req[t]
          BY <2>1
        <4>6. Of(req[t].user)' = Of(req[t].user) /\ member'[req[t].user] = member[req[t].user]
          BY <4>1, <4>3, <4>5 DEF Of
        <4>7. req[t].op = "approve" /\ Pending(req[t].id) => Pending(req[t].id)'
          BY <4>1, <4>3, <4>4, <4>5 DEF IdOf, Pending
        <4> QED BY <4>4, <4>5, <4>6, <4>7 DEF Current
      <3> QED BY <2>1, <3>1 DEF AllCurrent, Busy
    <2>5. ASSUME NEW u \in IsolatedUsers
          PROVE /\ left'[u] => ~member'[u] /\ \A a \in Of(u)' : ~app'[a].pending
                /\ \A a, b \in Of(u)' : a = b
      <3>1. CASE req[s].op # "open" /\ req[s].user = u
        BY <1>0, <1>6, <3>1, CommitOutcome
      <3>2. CASE req[s].op = "open" \/ req[s].user # u
        <4>1. left[u] => ~member[u] /\ \A a \in Of(u) : ~app[a].pending
          BY DEF UserInv, LeavingIsFinal
        <4>2. \A a, b \in Of(u) : a = b
          BY DEF UserInv, AppliedOnce, Of
        <4> QED BY <2>3, <3>2, <4>1, <4>2
      <3> QED BY <3>1, <3>2
    <2>6. LeavingIsFinal'
      BY <2>5 DEF LeavingIsFinal
    <2>7. AppliedOnce'
      BY <2>5 DEF AppliedOnce, Of
    <2> QED BY <2>2, <2>4, <2>6, <2>7 DEF UserInv
  <1> QED BY <1>1, <1>2, <1>4, <1>5, <1>6, NextCases

LEMMA UserAlways == Spec => []UserInv
  <1>1. Init => QuotaInv /\ UserInv
    BY QuotaInit, UserInit
  <1>2. QuotaInv /\ UserInv /\ [Next]_vars => (QuotaInv /\ UserInv)'
    BY QuotaStep, UserStep
  <1> QED BY <1>1, <1>2, PTL DEF Spec

\* When nothing else concerns the user, who leaves stays out until he joins, applies
\* or is invited again: no approval of an old application brings him back.
THEOREM LeavingStaysFinal == Spec => []LeavingIsFinal
  <1>1. UserInv => LeavingIsFinal
    BY DEF UserInv
  <1> QED BY <1>1, UserAlways, PTL

\* When nothing else concerns the user, he never has two applications.
THEOREM NeverAppliedTwice == Spec => []AppliedOnce
  <1>1. UserInv => AppliedOnce
    BY DEF UserInv
  <1> QED BY <1>1, UserAlways, PTL
-----------------------------------------------------------------------------
(* All components.                                                         *)

\* Whichever component a behaviour of the platform runs, it is a behaviour of Membership
\* as well, of which every theorem above then holds.
THEOREM PlatformRunsMembership == PlatformSpec => Spec
<1>1. PlatformInit => Init
  BY DEF PlatformInit
<1>2. [PlatformNext]_platformVars => [Next]_vars
  <2> SUFFICES ASSUME [PlatformNext]_platformVars PROVE [Next]_vars
    OBVIOUS
  <2>1. CASE UNCHANGED platformVars
    BY <2>1 DEF platformVars, vars
  <2>2. CASE PlatformNext
    BY <2>2 DEF PlatformNext, RunMembership, RunPayments, RunSearch, RunReading, RunSignin, RunKeywords,
       RunWebhooks, RunDailyLink, vars
  <2> QED BY <2>1, <2>2
<1> QED BY <1>1, <1>2, PTL DEF PlatformSpec, Spec

LEMMA TypesFollow ==
  /\ QuotaInv => TypeOK
  /\ PayInv => P!TypeOK
  /\ SearchInv => S!TypeOK
  /\ ReadInv /\ EventInv => R!TypeOK
  /\ SigninInv => G!TypeOK
  /\ KeywordsInv => K!TypeOK
  /\ WebhooksInv => H!TypeOK
  /\ DailyLinkInv => D!TypeOK
<1>1. QuotaInv => TypeOK
  BY DEF QuotaInv
<1>2. PayInv => P!TypeOK
  BY DEF PayInv, PayTyped, PayOrder, P!TypeOK
<1>3. SearchInv => S!TypeOK
  BY OrderIs DEF SearchInv, SearchTyped, Rebuild, OfType, S!TypeOK
<1>4. ReadInv /\ EventInv => R!TypeOK
  BY ReadHolds
<1>5. SigninInv => G!TypeOK
  BY DEF SigninInv, SigninTyped, G!TypeOK
<1>6. KeywordsInv => K!TypeOK
  <2> SUFFICES ASSUME KeywordsTyped PROVE K!TypeOK
    BY DEF KeywordsInv
  <2>1. sweep.step \in 0..(Len(K!Stages) + 1) /\ sweep.swept \subseteq Things
    <3>1. Len(K!Stages) + 1 = 8
      BY DEF K!Stages
    <3> QED BY <3>1 DEF KeywordsTyped, KeywordSweep
  <2>2. job \in [Jobs -> [pc : {"idle", "due", "ready"}, p : K!Texts, read : Words, was : SUBSET Words]]
    BY DEF KeywordsTyped, KeywordJob
  <2> QED BY <2>1, <2>2 DEF KeywordsTyped, K!TypeOK
<1>7. WebhooksInv => H!TypeOK
  BY DEF WebhooksInv, HooksTyped, Errand, H!TypeOK
<1>8. DailyLinkInv => D!TypeOK
  BY DEF DailyLinkInv
<1> QED BY <1>1, <1>2, <1>3, <1>4, <1>5, <1>6, <1>7, <1>8

\* Every component of the platform keeps to its types, whatever its constants are.
THEOREM PlatformAlwaysTyped == PlatformSpec => []AllTypesOK
<1> DEFINE Inv ==
      /\ part = "membership" => QuotaInv
      /\ part = "payments" => PayInv
      /\ part = "search" => SearchInv
      /\ part = "reading" => ReadInv /\ EventInv
      /\ part = "signin" => SigninInv
      /\ part = "keywords" => KeywordsInv
      /\ part = "webhooks" => WebhooksInv
      /\ part = "link" => DailyLinkInv
<1>1. PlatformInit => Inv
  BY QuotaInit, PayInit, SearchInit, ReadInit, EventInit, SigninInit, KeywordsInit, WebhooksInit,
     DailyLinkInit
     DEF PlatformInit
<1>2. Inv /\ [PlatformNext]_platformVars => Inv'
  <2> SUFFICES ASSUME Inv, [PlatformNext]_platformVars PROVE Inv'
    OBVIOUS
  <2>1. part = "membership" => QuotaInv'
    BY RunsAlone, QuotaStep
  <2>2. part = "payments" => PayInv'
    BY RunsAlone, PayStep
  <2>3. part = "search" => SearchInv'
    BY RunsAlone, SearchStep DEF S!vars, S!past, searching
  <2>4. part = "reading" => ReadInv' /\ EventInv'
    BY RunsAlone, ReadStep, EventStep
  <2>5. part = "signin" => SigninInv'
    BY RunsAlone, SigninStep DEF G!vars, G!past, signing
  <2>6. part = "keywords" => KeywordsInv'
    BY RunsAlone, KeywordsStep DEF K!vars, keywords
  <2>7. part = "webhooks" => WebhooksInv'
    BY RunsAlone, WebhooksStep
  <2>8. part = "link" => DailyLinkInv'
    BY RunsAlone, DailyLinkStep DEF D!vars, daily
  <2> QED BY <2>1, <2>2, <2>3, <2>4, <2>5, <2>6, <2>7, <2>8, RunsAlone
<1>3. Inv => AllTypesOK
  BY TypesFollow DEF AllTypesOK
<1> QED BY <1>1, <1>2, <1>3, PTL DEF PlatformSpec
=============================================================================
