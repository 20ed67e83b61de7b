------------------------- MODULE OrganizationProofs -------------------------
(***************************************************************************)
(* Proofs about the components that keep an organisation: Billing,         *)
(* MiraQuota and AuditChain. They share no variable; each has its own      *)
(* inductive invariant and theorems.                                       *)
(***************************************************************************)
EXTENDS Billing, MiraQuota, AuditChain, FiniteSetTheorems, SequenceTheorems, TLAPS

(***************************************************************************)
(* Billing: type correctness, a pack that is bought once is credited once, *)
(* nobody gets a second trial, and, of requests that neither overlap nor   *)
(* fail, exact add-ons and stages.                                         *)
(***************************************************************************)
(* A request that works has an event that Stripe has sent.                 *)
Working(h) == req[h].pc # "idle"
HasEvent ==
    \A h \in BillingReqs : Working(h) =>
        \E e \in StripeEvents : req[h].id = {e} /\ req[h].ev = event[e] /\ event[e] \in Sent

(* The mark goes to one request: whoever is about to credit a pack set it, *)
(* is the only one to do so, and nobody has credited it before.            *)
Crediting(h) == req[h].pc = "write" /\ req[h].ev.kind = "pack"
Packs ==
    /\ \A h \in BillingReqs : req[h].pc \in {"read", "derive", "store"} => req[h].ev.kind # "pack"
    /\ \A e \in StripeEvents : credited[e] <= 1 /\ (credited[e] = 1 => event[e].kind = "pack" /\ e \in marked)
    /\ \A h \in BillingReqs, e \in StripeEvents :
          Crediting(h) /\ req[h].id = {e} => e \in marked /\ credited[e] = 0
    /\ \A g, h \in BillingReqs : Crediting(g) /\ Crediting(h) /\ req[g].id = req[h].id => g = h

(* What only an invoice or the base plan can write is untouched before     *)
(* one comes, and a trial that ended stays in the past.                    *)
OneTrial ==
    /\ ranOut => account.trial = "past"
    /\ ~billed => /\ account.status = "none" /\ account.sub = NoSub
                  /\ ~account.paid /\ ~account.churned

BillingInv == BillingTypeOK /\ HasEvent /\ Packs /\ OneTrial

----------------------------------------------------------------------------
(* What Stripe sends has the type of an event of a request.                *)
Events == [kind : Kinds \cup {"none"}, sub : Subs \cup {NoSub}, status : SubStatus]
LEMMA SentEvents == Sent \subseteq Events /\ NoEvent \in Events /\ NoEvent \notin Sent
<1>1. NoEvent \in Events
  BY DEF NoEvent, Events, SubStatus
<1>2. ASSUME NEW ev \in Sent PROVE ev \in Events /\ ev.kind # "none"
  BY DEF Sent, Events, Kinds, SubStatus, Alive, Healthy, Subs
<1>3. QED
  BY <1>1, <1>2 DEF NoEvent

(* The type invariant, without its product. *)
LEMMA TypeParts ==
    BillingTypeOK <=>
      /\ account \in Accounts /\ marked \subseteq StripeEvents
      /\ credited \in [StripeEvents -> Nat] /\ event \in [StripeEvents -> Sent \cup {NoEvent}]
      /\ req \in [BillingReqs -> Deliveries]
      /\ alone \in BOOLEAN /\ ranOut \in BOOLEAN /\ billed \in BOOLEAN /\ addonAlive \in BOOLEAN
  BY DEF BillingTypeOK

LEMMA IdleRequest == Idle \in Deliveries /\ Idle.pc = "idle"
  BY SentEvents DEF Idle, Deliveries, NoSettings, Stages, Events

(* The initial states satisfy the invariant. *)
LEMMA BillingInitInv == BillingInit => BillingInv
<1> SUFFICES ASSUME BillingInit PROVE BillingInv
  OBVIOUS
<1>1. account \in Accounts
  BY DEF BillingInit, Accounts, SubStatus, Stages
<1>2. BillingTypeOK
  BY <1>1, IdleRequest, TypeParts DEF BillingInit
<1>3. HasEvent /\ Packs
  BY IdleRequest DEF BillingInit, HasEvent, Packs, Working, Crediting
<1>4. OneTrial
  BY DEF BillingInit, OneTrial
<1>5. QED
  BY <1>2, <1>3, <1>4 DEF BillingInv

(* The settings document and the columns of a subscription.                *)
Seen == [addons : SUBSET {"addon", "package"}, addonSub : Subs \cup {NoSub}, paid : BOOLEAN]
LEMMA SettingsRow ==
    ASSUME NEW a \in Accounts, NEW seen \in Seen
    PROVE  WithSettings(a, seen) \in Accounts /\ WithSettings(a, seen).trial = a.trial
  BY DEF WithSettings, Accounts, Seen

LEMMA SubscribedRow ==
    ASSUME NEW a \in Accounts, NEW ev \in Events, ev.sub \in Subs, NEW seen \in Seen
    PROVE  Subscribed(a, ev, seen) \in Accounts /\ Subscribed(a, ev, seen).trial = a.trial
<1> DEFINE b == WithSettings(a, seen)
           first == ev.status = "active" /\ ~seen.paid
<1>1. b \in Accounts /\ b.trial = a.trial
  BY SettingsRow
<1> HIDE DEF b
<1>2. ASSUME NEW x \in BOOLEAN, NEW y \in BOOLEAN, NEW z \in BOOLEAN
      PROVE  LET c == [b EXCEPT !.status = ev.status, !.sub = ev.sub, !.paid = x, !.converted = y, !.trialOpen = z]
             IN  c \in Accounts /\ c.trial = b.trial
  BY <1>1 DEF Accounts, Events
<1> HIDE DEF first
<1>3. [b EXCEPT !.status = ev.status, !.sub = ev.sub, !.paid = b.paid \/ first,
                !.converted = b.converted \/ first, !.trialOpen = b.trialOpen /\ ~first] \in Accounts
  <2>1. (b.paid \/ first) \in BOOLEAN /\ (b.converted \/ first) \in BOOLEAN /\ (b.trialOpen /\ ~first) \in BOOLEAN
    OBVIOUS
  <2>2. QED
    BY <1>2, <2>1
<1>4. Subscribed(a, ev, seen) =
        [b EXCEPT !.status = ev.status, !.sub = ev.sub, !.paid = b.paid \/ first,
                  !.converted = b.converted \/ first, !.trialOpen = b.trialOpen /\ ~first]
  BY DEF Subscribed, b, first
<1>5. QED
  BY <1>1, <1>3, <1>4 DEF Accounts

(* An event applied to a row leaves a row, and the columns of the base     *)
(* plan to the events of the base plan and to invoices.                    *)
LEMMA AppliedRow ==
    ASSUME NEW a \in Accounts, NEW ev \in Sent, ev.kind # "pack", NEW seen \in Seen
    PROVE  /\ Applied(a, ev, seen) \in Accounts
           /\ Applied(a, ev, seen).trial = a.trial
           /\ ev.kind \notin {"paid", "failed"} /\ ev.sub \notin BaseSubs =>
                 /\ Applied(a, ev, seen).status = a.status /\ Applied(a, ev, seen).sub = a.sub
                 /\ Applied(a, ev, seen).paid = a.paid /\ Applied(a, ev, seen).churned = a.churned
<1> DEFINE row == Applied(a, ev, seen)
<1>0. ev \in Events
  BY SentEvents
<1>1. CASE ev.kind = "updated" /\ ev.sub \in BaseSubs
  <2>1. ev.sub \in Subs
    BY <1>1 DEF Subs
  <2>2. row = applySubscriptionState(a, ev, seen)
    BY <1>1, SubsAssumption DEF Applied
  <2>3. Subscribed(a, ev, seen) \in Accounts /\ Subscribed(a, ev, seen).trial = a.trial
    BY <1>0, <2>1, SubscribedRow
  <2>4. mergePackageAddons(seen.addons, ev) \in SUBSET {"addon", "package"}
    BY DEF mergePackageAddons, Seen
  <2>5. QED
    BY <1>1, <2>2, <2>3, <2>4 DEF applySubscriptionState, Accounts
<1>2. CASE ev.kind = "updated" /\ ev.sub \in AddonSubs
  <2>1. row = applyAddon(a, ev, seen)
    BY <1>2, SubsAssumption DEF Applied
  <2>2. (seen.addons \ {"addon"}) \cup (IF ev.status \in Healthy THEN {"addon"} ELSE {}) \in SUBSET {"addon", "package"}
    BY DEF Seen
  <2>3. QED
    BY <1>2, <2>1, <2>2 DEF applyAddon, Accounts, Subs
<1>3. CASE ev.kind = "deleted" /\ ev.sub \in BaseSubs
  <2>1. row = churn(a, seen)
    BY <1>3, SubsAssumption DEF Applied
  <2>2. WithSettings(a, seen) \in Accounts /\ WithSettings(a, seen).trial = a.trial
    BY SettingsRow
  <2>3. QED
    BY <1>3, <2>1, <2>2 DEF churn, Accounts, SubStatus
<1>4. CASE ev.kind = "deleted" /\ ev.sub \in AddonSubs
  <2>1. row = removeAddon(a, ev, seen)
    BY <1>4, SubsAssumption DEF Applied
  <2>2. seen.addons \ {"addon"} \in SUBSET {"addon", "package"}
    BY DEF Seen
  <2>3. CASE seen.addonSub \notin {NoSub, ev.sub}
    BY <1>4, <2>1, <2>3 DEF removeAddon
  <2>4. CASE seen.addonSub \in {NoSub, ev.sub}
    <3>1. row = [a EXCEPT !.addons = seen.addons \ {"addon"}, !.addonSub = NoSub]
      BY <2>1, <2>4 DEF removeAddon
    <3>2. QED
      BY <1>4, <2>2, <3>1 DEF Accounts
  <2>5. QED
    BY <2>3, <2>4
<1>5. CASE ev.kind \in {"paid", "failed"}
  BY <1>5 DEF Applied, Accounts, SubStatus, Alive
<1>6. CASE ev.kind = "checkout"
  <2>1. row = [WithSettings(a, seen) EXCEPT !.sub = ev.sub] /\ ev.sub \in BaseSubs
    BY <1>6 DEF Applied, Sent
  <2>2. WithSettings(a, seen) \in Accounts /\ WithSettings(a, seen).trial = a.trial
    BY SettingsRow
  <2>3. QED
    BY <2>1, <2>2 DEF Accounts, Subs
<1>7. CASE ev.kind = "confirm"
  <2>1. row = Subscribed(a, ev, seen) /\ ev.sub \in BaseSubs
    BY <1>7 DEF Applied, Sent
  <2>2. QED
    BY <1>0, <2>1, SubscribedRow DEF Subs
<1>8. \/ ev.kind \in {"updated", "deleted"} /\ ev.sub \in BaseSubs \cup AddonSubs
      \/ ev.kind \in {"paid", "failed", "checkout", "confirm"}
  BY DEF Sent, Subs
<1>9. QED
  BY <1>1, <1>2, <1>3, <1>4, <1>5, <1>6, <1>7, <1>8

----------------------------------------------------------------------------
(* Requests that end or move on, and leave the books and the row alone.    *)

LEMMA RequestTypes ==
    ASSUME BillingTypeOK, NEW h \in BillingReqs
    PROVE  /\ req[h] \in Deliveries
           /\ \A pc \in {"idle", "mark", "read", "write", "derive", "store"} :
                 /\ [req EXCEPT ![h].pc = pc] \in [BillingReqs -> Deliveries]
                 /\ [req EXCEPT ![h].pc = pc][h] = [req[h] EXCEPT !.pc = pc]
           /\ [req EXCEPT ![h] = Idle] \in [BillingReqs -> Deliveries]
<1>1. req \in [BillingReqs -> Deliveries] /\ Idle \in Deliveries
  BY IdleRequest, TypeParts
<1>2. ASSUME NEW pc \in {"idle", "mark", "read", "write", "derive", "store"}
      PROVE  [req[h] EXCEPT !.pc = pc] \in Deliveries
  BY <1>1 DEF Deliveries
<1>3. [req EXCEPT ![h] = Idle] \in [BillingReqs -> Deliveries] /\ req[h] \in Deliveries
  BY <1>1
<1>4. QED
  BY <1>1, <1>2, <1>3

(* A request that ends needs no event, and stands in nobody's way.         *)
LEMMA EndKeeps ==
    ASSUME BillingInv, NEW h \in BillingReqs, req' = [req EXCEPT ![h] = Idle],
           UNCHANGED <<marked, credited, event>>
    PROVE  HasEvent' /\ Packs'
<1>1. /\ ~Working(h)' /\ ~Crediting(h)' /\ req'[h].pc = "idle"
      /\ \A g \in BillingReqs : g # h => req'[g] = req[g]
  BY IdleRequest, RequestTypes DEF BillingInv, Working, Crediting, BillingTypeOK
<1>2. HasEvent'
  BY <1>1 DEF BillingInv, HasEvent, Working
<1>3. Packs'
  BY <1>1 DEF BillingInv, Packs, Crediting
<1>4. QED
  BY <1>2, <1>3

(* A request that moves on with the event it has, but not to the credit of *)
(* a pack.                                                                 *)
LEMMA MoveKeeps ==
    ASSUME BillingInv, NEW h \in BillingReqs, Working(h), req' \in [BillingReqs -> Deliveries],
           req'[h].id = req[h].id, req'[h].ev = req[h].ev, req[h].ev.kind # "pack",
           \A g \in BillingReqs : g # h => req'[g] = req[g],
           credited' = credited, event' = event, marked \subseteq marked'
    PROVE  HasEvent' /\ Packs'
<1>1. HasEvent'
  BY DEF BillingInv, HasEvent, Working
<1>2. ~Crediting(h)' /\ ~Crediting(h)
  BY DEF Crediting
<1>3. Packs'
  BY <1>2 DEF BillingInv, Packs, Crediting
<1>4. QED
  BY <1>1, <1>3

(* An event arrives at a free request. *)
LEMMA ArrivesKeeps ==
    ASSUME BillingInv, NEW h \in BillingReqs, NEW e \in StripeEvents, Arrives(h, e)
    PROVE  BillingInv'
<1> USE DEF BillingInv
<1>1. /\ event' \in [StripeEvents -> Sent \cup {NoEvent}] /\ event'[e] \in Sent
      /\ \A d \in StripeEvents : event[d] \in Sent => event'[d] = event[d]
      /\ event[e] \notin Sent => event[e] = NoEvent
      /\ \A d \in StripeEvents : d # e => event'[d] = event[d]
  BY SentEvents, TypeParts DEF Arrives
<1>2. /\ req[h].pc = "idle" /\ UNCHANGED <<account, marked, credited, ranOut, billed, addonAlive>>
      /\ alone' \in BOOLEAN
  BY TypeParts DEF Arrives, Begins, Quiet
<1>3. event'[e] \in Events
  BY <1>1, SentEvents
<1>4. /\ req' \in [BillingReqs -> Deliveries]
      /\ req'[h].pc \in {"read", "mark"} /\ (req'[h].pc = "read" => event'[e].kind = "confirm")
      /\ req'[h].id = {e} /\ req'[h].ev = event'[e]
      /\ \A g \in BillingReqs : g # h => req'[g] = req[g]
  <2>1. req' = [req EXCEPT ![h] = [Idle EXCEPT !.pc = IF event'[e].kind = "confirm" THEN "read" ELSE "mark",
                                               !.id = {e}, !.ev = event'[e]]]
    BY DEF Arrives
  <2> DEFINE new == [Idle EXCEPT !.pc = IF event'[e].kind = "confirm" THEN "read" ELSE "mark",
                                 !.id = {e}, !.ev = event'[e]]
  <2>2. /\ new \in Deliveries /\ new.pc \in {"read", "mark"} /\ (new.pc = "read" => event'[e].kind = "confirm")
        /\ new.id = {e} /\ new.ev = event'[e]
    BY <1>3, IdleRequest DEF Deliveries, Events, Idle
  <2> HIDE DEF new
  <2>3. req' = [req EXCEPT ![h] = new]
    BY <2>1 DEF new
  <2>4. QED
    BY <2>2, <2>3, TypeParts
<1>5. BillingTypeOK'
  BY <1>1, <1>2, <1>4 DEF BillingTypeOK
<1>6. HasEvent'
  <2>1. ASSUME NEW g \in BillingReqs, g # h, Working(g)'
        PROVE  \E d \in StripeEvents : req'[g].id = {d} /\ req'[g].ev = event'[d] /\ event'[d] \in Sent
    <3>1. PICK d \in StripeEvents : req[g].id = {d} /\ req[g].ev = event[d] /\ event[d] \in Sent
      BY <1>4, <2>1 DEF HasEvent, Working
    <3>2. QED
      BY <1>1, <1>4, <2>1, <3>1
  <2>2. QED
    BY <1>1, <1>4, <2>1 DEF HasEvent, Working
<1>7. Packs'
  <2>1. \A d \in StripeEvents : credited[d] = 1 => event'[d].kind = "pack"
    <3>1. NoEvent.kind # "pack"
      BY DEF NoEvent
    <3>2. QED
      BY <1>1, <3>1 DEF Packs
  <2>2. ~Crediting(h)' /\ ~Crediting(h) /\ (\A g \in BillingReqs : g # h => (Crediting(g)' <=> Crediting(g)))
    BY <1>2, <1>4 DEF Crediting
  <2>3. QED
    BY <1>2, <1>4, <2>1, <2>2 DEF Packs
<1>8. OneTrial'
  BY <1>2 DEF OneTrial
<1>9. QED
  BY <1>5, <1>6, <1>7, <1>8

(* The mark: the insert succeeds for the first request alone. *)
LEMMA MarkKeeps ==
    ASSUME BillingInv, NEW h \in BillingReqs, MarkEvent(h)
    PROVE  BillingInv'
<1> USE DEF BillingInv
<1>1. req[h].pc = "mark" /\ UNCHANGED <<account, credited, event, alone, ranOut, billed, addonAlive>>
  BY DEF MarkEvent, ghosts
<1>2. OneTrial'
  BY <1>1 DEF OneTrial
<1>3. CASE req[h].id \subseteq marked /\ req' = [req EXCEPT ![h] = Idle] /\ UNCHANGED marked
  <2>1. BillingTypeOK'
    BY <1>1, <1>3, RequestTypes DEF BillingTypeOK
  <2>2. QED
    BY <1>1, <1>2, <1>3, <2>1, EndKeeps
<1>4. CASE /\ req[h].id \cap marked = {} /\ marked' = marked \cup req[h].id
           /\ Goto(h, IF req[h].ev.kind \in {"failed", "pack"} THEN "write" ELSE "read")
  <2>1. PICK e \in StripeEvents : req[h].id = {e} /\ req[h].ev = event[e] /\ event[e] \in Sent
    BY <1>1 DEF HasEvent, Working
  <2>2. e \notin marked /\ marked' = marked \cup {e}
    BY <1>4, <2>1
  <2>3. PICK where \in {"write", "read"} : /\ where = (IF req[h].ev.kind \in {"failed", "pack"} THEN "write" ELSE "read")
                                           /\ req' = [req EXCEPT ![h].pc = where]
    BY <1>4 DEF Goto
  <2>4. /\ req' \in [BillingReqs -> Deliveries]
        /\ req'[h].pc = where /\ req'[h].id = {e} /\ req'[h].ev = req[h].ev
        /\ \A g \in BillingReqs : g # h => req'[g] = req[g]
    <3>1. req \in [BillingReqs -> Deliveries]
      BY TypeParts
    <3>2. QED
      BY <2>1, <2>3, <3>1 DEF Deliveries
  <2>5. BillingTypeOK'
    BY <1>1, <2>2, <2>4 DEF BillingTypeOK
  <2>6. HasEvent'
    BY <1>1, <2>1, <2>4 DEF HasEvent, Working
  <2>7. Packs'
    <3>1. credited[e] = 0
      BY <2>2, TypeParts DEF Packs
    <3>2. \A g \in BillingReqs : Crediting(g) => req[g].id # {e}
      BY <2>2 DEF Packs
    <3>3. \A g \in BillingReqs : g # h => (Crediting(g)' <=> Crediting(g))
      BY <2>4 DEF Crediting
    <3>4. req'[h].pc \in {"read", "derive", "store"} => req'[h].ev.kind # "pack"
      BY <2>3, <2>4
    <3>5. \A g \in BillingReqs : g # h /\ Crediting(g) => req[g].id # req'[h].id
      BY <2>4, <3>2
    <3>6. \A d \in StripeEvents : req'[h].id = {d} => d = e
      BY <2>4
    <3>7. QED
      BY <1>1, <2>2, <2>4, <3>1, <3>3, <3>4, <3>5, <3>6 DEF Packs, Crediting
  <2>8. QED
    BY <1>2, <2>5, <2>6, <2>7
<1>5. QED
  BY <1>3, <1>4 DEF MarkEvent

(* What a request carries, changed field by field.                         *)
LEMMA RecordMoves ==
    ASSUME NEW P, NEW I, NEW E, NEW S, NEW G, NEW p \in P, NEW s \in S, NEW g \in G,
           NEW d \in [pc : P, id : I, ev : E, seen : S, stage : G]
    PROVE  /\ [d EXCEPT !.pc = p, !.seen = s] \in [pc : P, id : I, ev : E, seen : S, stage : G]
           /\ [d EXCEPT !.pc = p, !.seen = s, !.stage = g] \in [pc : P, id : I, ev : E, seen : S, stage : G]
           /\ [d EXCEPT !.pc = p, !.seen = s].id = d.id /\ [d EXCEPT !.pc = p, !.seen = s].ev = d.ev
           /\ [d EXCEPT !.pc = p, !.seen = s, !.stage = g].id = d.id
           /\ [d EXCEPT !.pc = p, !.seen = s, !.stage = g].ev = d.ev
  OBVIOUS

LEMMA RequestMoves ==
    ASSUME NEW h \in BillingReqs, req[h] \in Deliveries, NEW s \in Seen, NEW g \in Stages
    PROVE  /\ [req[h] EXCEPT !.pc = "write", !.seen = s] \in Deliveries
           /\ [req[h] EXCEPT !.pc = "store", !.seen = s, !.stage = g] \in Deliveries
           /\ [req[h] EXCEPT !.pc = "write", !.seen = s].id = req[h].id
           /\ [req[h] EXCEPT !.pc = "write", !.seen = s].ev = req[h].ev
           /\ [req[h] EXCEPT !.pc = "store", !.seen = s, !.stage = g].id = req[h].id
           /\ [req[h] EXCEPT !.pc = "store", !.seen = s, !.stage = g].ev = req[h].ev
<1> DEFINE P == {"idle", "mark", "read", "write", "derive", "store"}
<1> DEFINE I == SUBSET StripeEvents
<1> DEFINE E == [kind : Kinds \cup {"none"}, sub : Subs \cup {NoSub}, status : SubStatus]
<1>1. Deliveries = [pc : P, id : I, ev : E, seen : Seen, stage : Stages] /\ "write" \in P /\ "store" \in P
  BY DEF Deliveries, Seen
<1> HIDE DEF P, I, E
<1> DEFINE d == req[h]
<1>2. d \in [pc : P, id : I, ev : E, seen : Seen, stage : Stages]
  BY <1>1
<1> HIDE DEF d
<1>3. QED
  <2>1. /\ [d EXCEPT !.pc = "write", !.seen = s] \in Deliveries
        /\ [d EXCEPT !.pc = "write", !.seen = s].id = d.id /\ [d EXCEPT !.pc = "write", !.seen = s].ev = d.ev
    BY <1>1, <1>2, RecordMoves
  <2>2. /\ [d EXCEPT !.pc = "store", !.seen = s, !.stage = g] \in Deliveries
        /\ [d EXCEPT !.pc = "store", !.seen = s, !.stage = g].id = d.id
        /\ [d EXCEPT !.pc = "store", !.seen = s, !.stage = g].ev = d.ev
    BY <1>1, <1>2, RecordMoves
  <2>3. QED
    BY <2>1, <2>2 DEF d

(* A read, a stage computed: the request moves on. *)
LEMMA ReadKeeps ==
    ASSUME BillingInv, NEW h \in BillingReqs, ReadRow(h) \/ DeriveStage(h)
    PROVE  BillingInv'
<1> USE DEF BillingInv
<1>1. /\ req[h].pc \in {"read", "derive"}
      /\ UNCHANGED <<account, marked, credited, event, alone, ranOut, billed, addonAlive>>
  BY DEF ReadRow, DeriveStage, ghosts
<1>2. req \in [BillingReqs -> Deliveries] /\ account \in Accounts
  BY TypeParts
<1>3. /\ req' \in [BillingReqs -> Deliveries] /\ req'[h].id = req[h].id /\ req'[h].ev = req[h].ev
      /\ \A g \in BillingReqs : g # h => req'[g] = req[g]
  <2>1. CASE ReadRow(h)
    <3> DEFINE seen == [addons |-> account.addons, addonSub |-> account.addonSub, paid |-> account.paid]
    <3>1. seen \in Seen
      BY <1>2 DEF Accounts, Seen
    <3>2. req' = [req EXCEPT ![h].pc = "write", ![h].seen = seen]
      BY <2>1 DEF ReadRow
    <3> HIDE DEF seen
    <3>3. req[h] \in Deliveries
      BY <1>2
    <3> DEFINE new == [req[h] EXCEPT !.pc = "write", !.seen = seen]
    <3>4. new \in Deliveries /\ new.id = req[h].id /\ new.ev = req[h].ev
      <4>1. req[h].stage \in Stages
        BY <3>3 DEF Deliveries
      <4>2. QED
        BY <3>1, <3>3, <4>1, RequestMoves
    <3>5. req' = [req EXCEPT ![h] = new]
      BY <3>2
    <3> HIDE DEF new
    <3>6. QED
      BY <1>2, <3>4, <3>5
  <2>2. CASE DeriveStage(h)
    <3>1. deriveLifecycleStage(account) \in Stages
      BY DEF deriveLifecycleStage, Stages
    <3>2. NoSettings \in Seen
      BY DEF NoSettings, Seen
    <3>3. req' = [req EXCEPT ![h].pc = "store", ![h].seen = NoSettings, ![h].stage = deriveLifecycleStage(account)]
      BY <2>2 DEF DeriveStage
    <3> DEFINE stage == deriveLifecycleStage(account)
    <3> HIDE DEF stage
    <3>4. req[h] \in Deliveries /\ stage \in Stages
      BY <1>2, <3>1 DEF stage
    <3> DEFINE new == [req[h] EXCEPT !.pc = "store", !.seen = NoSettings, !.stage = stage]
    <3>5. new \in Deliveries /\ new.id = req[h].id /\ new.ev = req[h].ev
      BY <3>2, <3>4, RequestMoves
    <3>6. req' = [req EXCEPT ![h] = new]
      BY <3>3 DEF stage
    <3> HIDE DEF new
    <3>7. QED
      BY <1>2, <3>5, <3>6
  <2>3. QED
    BY <2>1, <2>2
<1>4. BillingTypeOK'
  BY <1>1, <1>3 DEF BillingTypeOK
<1>5. OneTrial'
  BY <1>1 DEF OneTrial
<1>6. HasEvent' /\ Packs'
  <2>1. Working(h) /\ req[h].ev.kind # "pack"
    BY <1>1 DEF Working, Packs
  <2>2. QED
    BY <1>1, <1>3, <2>1, MoveKeeps
<1>7. QED
  BY <1>4, <1>5, <1>6

(* The row is written, or the stage, or a request fails. *)
LEMMA WriteKeeps ==
    ASSUME BillingInv, NEW h \in BillingReqs, WriteRow(h) \/ StoreStage(h) \/ RequestFails(h)
    PROVE  BillingInv'
<1> USE DEF BillingInv
<1>0. req \in [BillingReqs -> Deliveries] /\ account \in Accounts
  BY TypeParts
<1>1. UNCHANGED <<marked, credited, event, ranOut>>
  BY DEF WriteRow, StoreStage, RequestFails, ghosts
<1>2. CASE WriteRow(h)
  <2> DEFINE ev == req[h].ev
  <2>1. ev \in Sent /\ ev.kind # "pack" /\ Working(h) /\ req[h].seen \in Seen
    BY <1>0, <1>2 DEF WriteRow, HasEvent, Working, Deliveries, Seen
  <2>2. /\ account' = Applied(account, ev, req[h].seen)
        /\ billed' = (billed \/ ev.kind \in {"paid", "failed"} \/ ev.sub \in BaseSubs)
        /\ alone' = alone /\ addonAlive' \in BOOLEAN
        /\ \/ req' = [req EXCEPT ![h].pc = "derive"]
           \/ req' = [req EXCEPT ![h] = Idle]
    <3>1. addonAlive' = IF Speaks(account, ev) THEN ev.kind = "updated" /\ ev.status \in Healthy ELSE addonAlive
      BY <1>2 DEF WriteRow
    <3>2. addonAlive' \in BOOLEAN
      BY <3>1, TypeParts
    <3>3. req' = [req EXCEPT ![h] = IF Recomputes(ev, req[h].seen) THEN [req[h] EXCEPT !.pc = "derive"] ELSE Idle]
      BY <1>2 DEF WriteRow
    <3>4. QED
      BY <1>2, <3>2, <3>3 DEF WriteRow
  <2>3. account' \in Accounts /\ OneTrial'
    <3> DEFINE row == Applied(account, ev, req[h].seen)
    <3>1. /\ row \in Accounts /\ row.trial = account.trial
          /\ ev.kind \notin {"paid", "failed"} /\ ev.sub \notin BaseSubs =>
               /\ row.status = account.status /\ row.sub = account.sub
               /\ row.paid = account.paid /\ row.churned = account.churned
      BY <1>0, <2>1, AppliedRow
    <3> HIDE DEF row, ev
    <3>2. QED
      BY <1>1, <2>2, <3>1 DEF OneTrial, row
  <2>4. req' \in [BillingReqs -> Deliveries]
    <3>1. CASE req' = [req EXCEPT ![h].pc = "derive"]
      BY <3>1, RequestTypes
    <3>2. CASE req' = [req EXCEPT ![h] = Idle]
      BY <3>2, RequestTypes
    <3>3. QED
      BY <2>2, <3>1, <3>2
  <2>5. BillingTypeOK'
    BY <1>1, <2>2, <2>3, <2>4, TypeParts DEF BillingTypeOK
  <2>6. HasEvent' /\ Packs'
    <3>1. CASE req' = [req EXCEPT ![h] = Idle]
      BY <1>1, <3>1, EndKeeps
    <3>2. CASE req' = [req EXCEPT ![h].pc = "derive"]
      <4>1. /\ req'[h].id = req[h].id /\ req'[h].ev = req[h].ev
            /\ \A g \in BillingReqs : g # h => req'[g] = req[g]
        BY <1>0, <3>2 DEF Deliveries
      <4>2. QED
        BY <1>1, <2>1, <2>4, <4>1, MoveKeeps
    <3>3. QED
      BY <2>2, <3>1, <3>2
  <2>7. QED
    BY <2>3, <2>5, <2>6
<1>3. CASE StoreStage(h) \/ RequestFails(h)
  <2>1. /\ req' = [req EXCEPT ![h] = Idle] /\ UNCHANGED <<billed, addonAlive>> /\ alone' \in BOOLEAN
    BY <1>3, TypeParts DEF StoreStage, RequestFails, ghosts
  <2>2. account' \in Accounts /\ account'.trial = account.trial /\ account'.status = account.status
        /\ account'.sub = account.sub /\ account'.paid = account.paid /\ account'.churned = account.churned
    <3>1. CASE RequestFails(h)
      BY <1>0, <3>1 DEF RequestFails
    <3>2. CASE StoreStage(h)
      <4>1. account' = [account EXCEPT !.stage = req[h].stage] /\ req[h].stage \in Stages
        BY <1>0, <3>2 DEF StoreStage, Deliveries
      <4>2. QED
        BY <1>0, <4>1 DEF Accounts
    <3>3. QED
      BY <1>3, <3>1, <3>2
  <2>3. BillingTypeOK'
    BY <1>1, <2>1, <2>2, RequestTypes DEF BillingTypeOK
  <2>4. OneTrial'
    BY <1>1, <2>1, <2>2 DEF OneTrial
  <2>5. QED
    BY <1>1, <2>1, <2>3, <2>4, EndKeeps
<1>4. QED
  BY <1>2, <1>3

(* The pack is credited. *)
LEMMA CreditKeeps ==
    ASSUME BillingInv, NEW h \in BillingReqs, CreditPack(h)
    PROVE  BillingInv'
<1> USE DEF BillingInv
<1>1. /\ Crediting(h) /\ Working(h) /\ req' = [req EXCEPT ![h] = Idle]
      /\ UNCHANGED <<account, marked, event, alone, ranOut, billed, addonAlive>>
  BY DEF CreditPack, Crediting, Working, ghosts
<1>2. PICK e \in StripeEvents : req[h].id = {e} /\ req[h].ev = event[e] /\ event[e] \in Sent
  BY <1>1 DEF HasEvent
<1>3. credited \in [StripeEvents -> Nat] /\ e \in marked /\ credited[e] = 0 /\ event[e].kind = "pack"
  BY <1>1, <1>2, TypeParts DEF Packs, Crediting
<1>4. credited' \in [StripeEvents -> Nat] /\ credited'[e] = 1 /\ \A d \in StripeEvents : d # e => credited'[d] = credited[d]
  BY <1>2, <1>3 DEF CreditPack
<1>5. BillingTypeOK'
  BY <1>1, <1>4, RequestTypes DEF BillingTypeOK
<1>6. /\ req'[h].pc = "idle"
      /\ \A g \in BillingReqs : g # h => req'[g] = req[g]
  BY <1>1, IdleRequest, TypeParts
<1>7. HasEvent'
  BY <1>1, <1>6 DEF HasEvent, Working
<1>8. Packs'
  <2>1. \A g \in BillingReqs : g # h /\ Crediting(g) => req[g].id # {e}
    BY <1>1, <1>2 DEF Packs
  <2>2. \A g \in BillingReqs, d \in StripeEvents :
           g # h /\ Crediting(g) /\ req[g].id = {d} => d \in marked /\ credited'[d] = 0
    BY <1>4, <2>1 DEF Packs
  <2>3. QED
    BY <1>1, <1>3, <1>4, <1>6, <2>2 DEF Packs, Crediting
<1>9. OneTrial'
  BY <1>1 DEF OneTrial
<1>10. QED
  BY <1>5, <1>7, <1>8, <1>9

(* The trial begins, runs out, and is closed. *)
LEMMA TrialKeeps ==
    ASSUME BillingInv, ActivateTrial \/ TrialRunsOut \/ CronCloses
    PROVE  BillingInv'
<1> USE DEF BillingInv
<1>1. UNCHANGED <<marked, credited, event, req, alone, billed, addonAlive>>
  BY DEF ActivateTrial, TrialRunsOut, CronCloses, ghosts
<1>2. account \in Accounts
  BY TypeParts
<1>3. /\ account' \in Accounts /\ ranOut' \in BOOLEAN
      /\ account'.status = account.status /\ account'.sub = account.sub
      /\ account'.paid = account.paid /\ account'.churned = account.churned
      /\ ranOut' => account'.trial = "past"
  <2>1. CASE ActivateTrial
    BY <1>2, <2>1, TypeParts DEF ActivateTrial, NeverTrialedNorPaid, OneTrial, ghosts, Accounts
  <2>2. CASE TrialRunsOut
    BY <1>2, <2>2, TypeParts DEF TrialRunsOut, Accounts
  <2>3. CASE CronCloses
    BY <1>2, <2>3, TypeParts DEF CronCloses, ghosts, Accounts, OneTrial
  <2>4. QED
    BY <2>1, <2>2, <2>3
<1>4. BillingTypeOK'
  BY <1>1, <1>3 DEF BillingTypeOK
<1>5. HasEvent' /\ Packs'
  BY <1>1 DEF HasEvent, Packs, Working, Crediting
<1>6. OneTrial'
  BY <1>1, <1>3 DEF OneTrial
<1>7. QED
  BY <1>4, <1>5, <1>6

(* Every step preserves the invariant. *)
LEMMA BillingStepInv == BillingInv /\ [BillingNext]_billingVars => BillingInv'
<1> SUFFICES ASSUME BillingInv, [BillingNext]_billingVars PROVE BillingInv'
  OBVIOUS
<1>1. CASE UNCHANGED billingVars
  <2>1. UNCHANGED <<account, marked, credited, event, req, alone, ranOut, billed, addonAlive>>
    BY <1>1 DEF billingVars, ghosts
  <2>2. QED
    BY <2>1 DEF BillingInv, BillingTypeOK, HasEvent, Packs, Working, Crediting, OneTrial
<1>2. ASSUME NEW h \in BillingReqs, NEW e \in StripeEvents, Arrives(h, e) PROVE BillingInv'
  BY <1>2, ArrivesKeeps
<1>3. ASSUME NEW h \in BillingReqs,
             MarkEvent(h) \/ ReadRow(h) \/ WriteRow(h) \/ CreditPack(h)
             \/ DeriveStage(h) \/ StoreStage(h) \/ RequestFails(h)
      PROVE BillingInv'
  BY <1>3, MarkKeeps, ReadKeeps, WriteKeeps, CreditKeeps
<1>4. ASSUME ActivateTrial \/ TrialRunsOut \/ CronCloses PROVE BillingInv'
  BY <1>4, TrialKeeps
<1>5. QED
  BY <1>1, <1>2, <1>3, <1>4 DEF BillingNext

----------------------------------------------------------------------------
(* The inductive invariant. *)
THEOREM BillingInvariance == BillingSpec => []BillingInv
<1>1. BillingInit => BillingInv
  BY BillingInitInv
<1>2. BillingInv /\ [BillingNext]_billingVars => BillingInv'
  BY BillingStepInv
<1>3. QED
  BY <1>1, <1>2, PTL DEF BillingSpec

(* The variables of Billing keep their shapes. *)
THEOREM BillingTypeCorrectness == BillingSpec => []BillingTypeOK
<1>1. BillingInv => BillingTypeOK
  BY DEF BillingInv
<1>2. QED
  BY <1>1, BillingInvariance, PTL

(* A pack that is bought once is credited once (markEventProcessed before  *)
(* creditMiraPack), however often its event comes.                         *)
THEOREM PacksAreCreditedOnce == BillingSpec => []PacksCreditedOnce
<1>1. BillingInv => PacksCreditedOnce
  BY DEF BillingInv, Packs, PacksCreditedOnce
<1>2. QED
  BY <1>1, BillingInvariance, PTL

(* Once the window of the trial has ended, who neither paid nor subscribed *)
(* is refused for good (neverTrialedNorPaidWhere, deriveLifecycleStage).   *)
THEOREM TrialsAreOne == BillingSpec => []NoSecondTrial
<1>1. ASSUME BillingInv PROVE NoSecondTrial
  <2> SUFFICES ASSUME ranOut, ~billed PROVE Refused(account)
    BY DEF NoSecondTrial
  <2>1. /\ account.trial = "past" /\ account.status = "none" /\ account.sub = NoSub
        /\ ~account.paid /\ ~account.churned
    BY <1>1 DEF BillingInv, OneTrial
  <2>2. QED
    BY <2>1 DEF Refused, deriveLifecycleStage
<1>2. QED
  BY <1>1, BillingInvariance, PTL

(* Requests that never overlap and never fail.  One is at work at a time,  *)
(* so what it read is still there when it writes, and the stage is stale   *)
(* only between its write and the stage it stores.                         *)
ToldStages == {"ACTIVE", "PAST_DUE", "CHURNED"}
Tells(stage) == \A s \in ToldStages : deriveLifecycleStage(account) = s <=> stage = s
OneRequest == \A g, h \in BillingReqs : req[g] # Idle /\ req[h] # Idle => g = h
SeesTheRow == \A h \in BillingReqs :
    req[h].pc = "write" /\ req[h].ev.kind \notin {"failed", "pack"} =>
        req[h].seen.addons = account.addons /\ req[h].seen.addonSub = account.addonSub
AddonExact == "addon" \in account.addons <=> addonAlive
StageExact ==
    /\ (\A h \in BillingReqs : req[h].pc \notin {"derive", "store"}) => Tells(account.stage)
    /\ \A h \in BillingReqs : req[h].pc = "store" => Tells(req[h].stage)
Alone == alone => OneRequest /\ SeesTheRow /\ AddonExact /\ StageExact

(* The stages that are told look at three columns. *)
LEMMA ToldByColumns ==
    ASSUME NEW a, NEW b, a.churned = b.churned, a.status = b.status, a.sub = b.sub, NEW s \in ToldStages
    PROVE  deriveLifecycleStage(a) = s <=> deriveLifecycleStage(b) = s
  BY DEF deriveLifecycleStage, ToldStages

(* What a write leaves of the add-on, if it read the row as it is.         *)
LEMMA AppliedAddon ==
    ASSUME NEW a \in Accounts, NEW ev \in Sent, ev.kind # "pack", NEW seen \in Seen,
           ev.kind # "failed" => seen.addons = a.addons /\ seen.addonSub = a.addonSub
    PROVE  "addon" \in Applied(a, ev, seen).addons <=>
             IF Speaks(a, ev) THEN ev.kind = "updated" /\ ev.status \in Healthy ELSE "addon" \in a.addons
<1> DEFINE row == Applied(a, ev, seen)
<1>0. ev \in Events /\ WithSettings(a, seen) \in Accounts /\ WithSettings(a, seen).addons = seen.addons
  BY SentEvents, SettingsRow DEF WithSettings, Accounts
<1>1. CASE ev.kind = "updated" /\ ev.sub \in BaseSubs
  <2>1. row = [Subscribed(a, ev, seen) EXCEPT !.addons = mergePackageAddons(seen.addons, ev)] /\ ~Speaks(a, ev)
    BY <1>1, SubsAssumption DEF Applied, applySubscriptionState, Speaks
  <2>2. Subscribed(a, ev, seen) \in Accounts
    BY <1>0, <1>1, SubscribedRow DEF Subs
  <2>3. row.addons = mergePackageAddons(seen.addons, ev)
    BY <2>1, <2>2 DEF Accounts
  <2>4. QED
    BY <1>1, <2>1, <2>3 DEF mergePackageAddons
<1>2. CASE ev.kind = "updated" /\ ev.sub \in AddonSubs
  <2>1. row = applyAddon(a, ev, seen) /\ Speaks(a, ev)
    BY <1>2, SubsAssumption DEF Applied, Speaks
  <2>2. QED
    BY <1>2, <2>1 DEF applyAddon, Accounts
<1>3. CASE ev.kind = "deleted" /\ ev.sub \in BaseSubs
  <2>1. row = churn(a, seen) /\ ~Speaks(a, ev)
    BY <1>3, SubsAssumption DEF Applied, Speaks
  <2>2. QED
    BY <1>0, <1>3, <2>1 DEF churn, Accounts
<1>4. CASE ev.kind = "deleted" /\ ev.sub \in AddonSubs
  <2>1. row = removeAddon(a, ev, seen) /\ (Speaks(a, ev) <=> a.addonSub \in {NoSub, ev.sub})
    BY <1>4, SubsAssumption DEF Applied, Speaks
  <2>2. CASE seen.addonSub \notin {NoSub, ev.sub}
    BY <1>4, <2>1, <2>2 DEF removeAddon
  <2>3. CASE seen.addonSub \in {NoSub, ev.sub}
    <3>1. row = [a EXCEPT !.addons = seen.addons \ {"addon"}, !.addonSub = NoSub]
      BY <2>1, <2>3 DEF removeAddon
    <3>2. row.addons = seen.addons \ {"addon"}
      BY <3>1 DEF Accounts
    <3>3. QED
      BY <1>4, <2>1, <2>3, <3>2
  <2>4. QED
    BY <2>2, <2>3
<1>5. CASE ev.kind \in {"paid", "failed"}
  BY <1>5 DEF Applied, Accounts, Speaks
<1>6. CASE ev.kind = "checkout"
  <2>1. row = [WithSettings(a, seen) EXCEPT !.sub = ev.sub] /\ ~Speaks(a, ev)
    BY <1>6 DEF Applied, Speaks
  <2>2. QED
    BY <1>0, <1>6, <2>1 DEF Accounts
<1>7. CASE ev.kind = "confirm"
  <2>1. row = Subscribed(a, ev, seen) /\ ~Speaks(a, ev)
    BY <1>7 DEF Applied, Speaks
  <2> DEFINE b == WithSettings(a, seen)
             first == ev.status = "active" /\ ~seen.paid
  <2>2. b \in Accounts /\ b.addons = seen.addons
    BY <1>0
  <2>3. row = [b EXCEPT !.status = ev.status, !.sub = ev.sub, !.paid = b.paid \/ first,
                        !.converted = b.converted \/ first, !.trialOpen = b.trialOpen /\ ~first]
    BY <2>1 DEF Subscribed
  <2> HIDE DEF b, first
  <2>4. row.addons = b.addons
    BY <2>2, <2>3 DEF Accounts
  <2>5. QED
    BY <1>7, <2>1, <2>2, <2>4
<1>8. \/ ev.kind \in {"updated", "deleted"} /\ ev.sub \in BaseSubs \cup AddonSubs
      \/ ev.kind \in {"paid", "failed", "checkout", "confirm"}
  BY DEF Sent, Subs
<1>9. QED
  BY <1>1, <1>2, <1>3, <1>4, <1>5, <1>6, <1>7, <1>8

(* A write that recomputes nothing leaves the columns a stage is told by,  *)
(* and none writes the stage.                                              *)
LEMMA AppliedColumns ==
    ASSUME NEW a \in Accounts, NEW ev \in Sent, ev.kind # "pack", NEW seen \in Seen, ~Recomputes(ev, seen)
    PROVE  LET row == Applied(a, ev, seen) IN
           row.churned = a.churned /\ row.status = a.status /\ row.sub = a.sub /\ row.stage = a.stage
<1>1. CASE ev.kind = "paid"
  BY <1>1 DEF Applied, Accounts
<1>2. CASE ev.kind = "updated" /\ ev.sub \in AddonSubs
  BY <1>2, SubsAssumption DEF Applied, applyAddon, Accounts
<1>3. CASE ev.kind = "deleted" /\ ev.sub \in AddonSubs
  <2>1. Applied(a, ev, seen) = removeAddon(a, ev, seen)
    BY <1>3, SubsAssumption DEF Applied
  <2>2. QED
    BY <2>1 DEF removeAddon, Accounts
<1>4. QED
  BY <1>1, <1>2, <1>3 DEF Recomputes

(* Where requests stand after a step: one of them moved, the others not.   *)
LEMMA OneMoves ==
    ASSUME OneRequest, NEW h \in BillingReqs, req[h] # Idle,
           \A g \in BillingReqs : g # h => req'[g] = req[g]
    PROVE  OneRequest' /\ \A g \in BillingReqs : g # h => req[g] = Idle /\ req'[g] = Idle
  BY DEF OneRequest

(* A request of a customer nobody else works for takes a step that writes  *)
(* neither the row nor what it read of it.                                 *)
LEMMA AloneStays ==
    ASSUME Alone, alone' => alone, UNCHANGED <<account, addonAlive>>,
           NEW h \in BillingReqs, req[h] # Idle, \A g \in BillingReqs : g # h => req'[g] = req[g],
           alone => \/ /\ req[h].pc \notin {"derive", "store"} /\ req'[h].pc \notin {"write", "derive", "store"}
                    \/ /\ req[h].pc \notin {"derive", "store"} /\ req'[h].pc = "write"
                       /\ req'[h].ev.kind \in {"failed", "pack"}
    PROVE  Alone'
<1> SUFFICES ASSUME alone' PROVE OneRequest' /\ SeesTheRow' /\ AddonExact' /\ StageExact'
  BY DEF Alone
<1>1. /\ OneRequest /\ SeesTheRow /\ AddonExact /\ StageExact
      /\ OneRequest' /\ \A g \in BillingReqs : g # h => req[g] = Idle /\ req'[g] = Idle
  BY OneMoves DEF Alone
<1>2. SeesTheRow'
  BY <1>1 DEF SeesTheRow, Idle
<1>3. Tells(account.stage)
  BY <1>1, IdleRequest DEF StageExact
<1>4. QED
  BY <1>1, <1>2, <1>3 DEF AddonExact, StageExact, Tells

LEMMA AloneInit == BillingInit => Alone
<1> SUFFICES ASSUME BillingInit PROVE Alone
  OBVIOUS
<1>1. OneRequest /\ SeesTheRow
  BY IdleRequest DEF BillingInit, OneRequest, SeesTheRow
<1>2. AddonExact
  BY DEF BillingInit, AddonExact
<1>3. deriveLifecycleStage(account) \notin ToldStages /\ account.stage \notin ToldStages
  BY DEF BillingInit, deriveLifecycleStage, Healthy, ToldStages
<1>4. \A h \in BillingReqs : req[h].pc = "idle"
  BY IdleRequest DEF BillingInit
<1>5. QED
  BY <1>1, <1>2, <1>3, <1>4 DEF Alone, StageExact, Tells

LEMMA AloneStep == BillingInv /\ Alone /\ [BillingNext]_billingVars => Alone'
<1> SUFFICES ASSUME BillingInv, Alone, [BillingNext]_billingVars PROVE Alone'
  OBVIOUS
<1> USE DEF Alone
<1>0. req \in [BillingReqs -> Deliveries] /\ account \in Accounts /\ Idle.pc = "idle"
  BY TypeParts, IdleRequest DEF BillingInv
<1>1. CASE UNCHANGED billingVars
  <2>1. UNCHANGED <<account, req, alone, addonAlive>>
    BY <1>1 DEF billingVars, ghosts
  <2>2. QED
    BY <2>1 DEF OneRequest, SeesTheRow, AddonExact, StageExact, Tells
<1>2. ASSUME NEW h \in BillingReqs, NEW e \in StripeEvents, Arrives(h, e) PROVE Alone'
  <2> SUFFICES ASSUME alone' PROVE OneRequest' /\ SeesTheRow' /\ AddonExact' /\ StageExact'
    OBVIOUS
  <2>1. alone /\ (\A g \in BillingReqs : req[g] = Idle) /\ UNCHANGED <<account, addonAlive>>
    BY <1>2 DEF Arrives, Begins, Quiet
  <2> DEFINE new == [Idle EXCEPT !.pc = IF event'[e].kind = "confirm" THEN "read" ELSE "mark",
                                 !.id = {e}, !.ev = event'[e]]
  <2>2. req' = [req EXCEPT ![h] = new] /\ new.pc \in {"read", "mark"}
    BY <1>2 DEF Arrives, Idle
  <2> HIDE DEF new
  <2>3. req'[h].pc \in {"read", "mark"} /\ \A g \in BillingReqs : g # h => req'[g] = Idle
    BY <1>0, <2>1, <2>2
  <2>4. OneRequest' /\ SeesTheRow'
    BY <1>0, <2>3 DEF OneRequest, SeesTheRow
  <2>5. Tells(account.stage)
    BY <1>0, <2>1 DEF StageExact
  <2>6. StageExact'
    BY <1>0, <2>1, <2>3, <2>5 DEF StageExact, Tells
  <2>7. QED
    BY <2>1, <2>4, <2>6 DEF AddonExact
<1>3. ASSUME NEW h \in BillingReqs, MarkEvent(h) PROVE Alone'
  <2>1. /\ req[h].pc = "mark" /\ UNCHANGED <<account, alone, addonAlive>>
        /\ \/ Goto(h, IF req[h].ev.kind \in {"failed", "pack"} THEN "write" ELSE "read")
           \/ req' = [req EXCEPT ![h] = Idle]
    BY <1>3 DEF MarkEvent, ghosts
  <2>2. req[h] # Idle /\ \A g \in BillingReqs : g # h => req'[g] = req[g]
    BY <1>0, <2>1 DEF Goto
  <2>3. \/ req'[h].pc \in {"idle", "read"}
        \/ req'[h].pc = "write" /\ req'[h].ev.kind \in {"failed", "pack"}
    <3>1. CASE req' = [req EXCEPT ![h] = Idle]
      BY <1>0, <3>1
    <3>2. CASE Goto(h, IF req[h].ev.kind \in {"failed", "pack"} THEN "write" ELSE "read")
      <4>1. PICK where \in {"write", "read"} : /\ where = (IF req[h].ev.kind \in {"failed", "pack"} THEN "write" ELSE "read")
                                               /\ req' = [req EXCEPT ![h].pc = where]
        BY <3>2 DEF Goto
      <4>2. req'[h].pc = where /\ req'[h].ev = req[h].ev
        BY <1>0, <4>1 DEF Deliveries
      <4>3. QED
        BY <4>1, <4>2
    <3>3. QED
      BY <2>1, <3>1, <3>2
  <2>4. QED
    BY <2>1, <2>2, <2>3, AloneStays
<1>4. ASSUME NEW h \in BillingReqs, ReadRow(h) PROVE Alone'
  <2> DEFINE seen == [addons |-> account.addons, addonSub |-> account.addonSub, paid |-> account.paid]
  <2>1. req[h].pc = "read" /\ UNCHANGED <<account, alone, addonAlive>> /\ req' = [req EXCEPT ![h].pc = "write", ![h].seen = seen]
    BY <1>4 DEF ReadRow, ghosts
  <2>2. req[h] # Idle /\ req'[h].seen = seen /\ req'[h].pc = "write" /\ \A g \in BillingReqs : g # h => req'[g] = req[g]
    BY <1>0, <2>1 DEF Deliveries
  <2> SUFFICES ASSUME alone PROVE OneRequest' /\ SeesTheRow' /\ AddonExact' /\ StageExact'
    BY <2>1
  <2>3. OneRequest' /\ \A g \in BillingReqs : g # h => req[g] = Idle /\ req'[g] = Idle
    BY <2>2, OneMoves
  <2>4. SeesTheRow'
    BY <1>0, <2>1, <2>2, <2>3 DEF SeesTheRow
  <2>5. Tells(account.stage)
    BY <1>0, <2>1, <2>3 DEF StageExact
  <2>6. StageExact'
    BY <1>0, <2>1, <2>2, <2>3, <2>5 DEF StageExact, Tells
  <2>7. QED
    BY <2>1, <2>3, <2>4, <2>6 DEF AddonExact
<1>5. ASSUME NEW h \in BillingReqs, WriteRow(h) PROVE Alone'
  <2> DEFINE ev == req[h].ev
             seen == req[h].seen
             row == Applied(account, ev, seen)
  <2>1. /\ req[h].pc = "write" /\ ev.kind # "pack" /\ account' = row /\ alone' = alone
        /\ addonAlive' = IF Speaks(account, ev) THEN ev.kind = "updated" /\ ev.status \in Healthy ELSE addonAlive
        /\ req' = [req EXCEPT ![h] = IF Recomputes(ev, seen) THEN [req[h] EXCEPT !.pc = "derive"] ELSE Idle]
    BY <1>5 DEF WriteRow
  <2>2. ev \in Sent /\ seen \in Seen
    BY <1>0, <2>1 DEF BillingInv, HasEvent, Working, Deliveries, Seen
  <2>3. req[h] # Idle /\ \A g \in BillingReqs : g # h => req'[g] = req[g]
    BY <1>0, <2>1
  <2> SUFFICES ASSUME alone PROVE OneRequest' /\ SeesTheRow' /\ AddonExact' /\ StageExact'
    BY <2>1
  <2>4. OneRequest' /\ \A g \in BillingReqs : g # h => req[g] = Idle /\ req'[g] = Idle
    BY <2>3, OneMoves
  <2>5. req'[h].pc = IF Recomputes(ev, seen) THEN "derive" ELSE "idle"
    <3>1. CASE Recomputes(ev, seen)
      <4>1. req' = [req EXCEPT ![h].pc = "derive"]
        BY <2>1, <3>1
      <4>2. QED
        BY <1>0, <3>1, <4>1 DEF Deliveries
    <3>2. CASE ~Recomputes(ev, seen)
      BY <1>0, <2>1, <3>2
    <3>3. QED
      BY <3>1, <3>2
  <2>6. SeesTheRow'
    BY <1>0, <2>4, <2>5 DEF SeesTheRow
  <2>7. AddonExact'
    <3>1. ev.kind # "failed" => seen.addons = account.addons /\ seen.addonSub = account.addonSub
      BY <2>1 DEF SeesTheRow
    <3>2. "addon" \in row.addons <=>
            IF Speaks(account, ev) THEN ev.kind = "updated" /\ ev.status \in Healthy ELSE "addon" \in account.addons
      BY <1>0, <2>1, <2>2, <3>1, AppliedAddon
    <3> HIDE DEF row, ev
    <3>3. QED
      BY <2>1, <3>2 DEF AddonExact
  <2>8. StageExact'
    <3>1. CASE Recomputes(ev, seen)
      BY <1>0, <2>4, <2>5, <3>1 DEF StageExact
    <3>2. CASE ~Recomputes(ev, seen)
      <4>1. row.churned = account.churned /\ row.status = account.status /\ row.sub = account.sub /\ row.stage = account.stage
        BY <1>0, <2>1, <2>2, <3>2, AppliedColumns
      <4>2. Tells(account.stage)
        BY <1>0, <2>1, <2>4 DEF StageExact
      <4> HIDE DEF row
      <4>3. \A s \in ToldStages : deriveLifecycleStage(account') = s <=> account'.stage = s
        BY <2>1, <4>1, <4>2, ToldByColumns DEF Tells
      <4>4. \A g \in BillingReqs : req'[g].pc = "idle"
        BY <1>0, <2>4, <2>5, <3>2
      <4>5. QED
        BY <4>3, <4>4 DEF StageExact, Tells
    <3>3. QED
      BY <3>1, <3>2
  <2>9. QED
    BY <2>4, <2>6, <2>7, <2>8
<1>6. ASSUME NEW h \in BillingReqs, CreditPack(h) PROVE Alone'
  <2>1. req[h].pc = "write" /\ UNCHANGED <<account, alone, addonAlive>> /\ req' = [req EXCEPT ![h] = Idle]
    BY <1>6 DEF CreditPack, ghosts
  <2>2. req[h] # Idle /\ req'[h].pc = "idle" /\ \A g \in BillingReqs : g # h => req'[g] = req[g]
    BY <1>0, <2>1
  <2>3. QED
    BY <2>1, <2>2, AloneStays
<1>7. ASSUME NEW h \in BillingReqs, DeriveStage(h) PROVE Alone'
  <2> DEFINE stage == deriveLifecycleStage(account)
  <2>1. /\ req[h].pc = "derive" /\ UNCHANGED <<account, alone, addonAlive>>
        /\ req' = [req EXCEPT ![h].pc = "store", ![h].seen = NoSettings, ![h].stage = stage]
    BY <1>7 DEF DeriveStage, ghosts
  <2>2. req[h] # Idle /\ req'[h].pc = "store" /\ req'[h].stage = stage /\ \A g \in BillingReqs : g # h => req'[g] = req[g]
    <3> HIDE DEF stage
    <3>1. QED
      BY <1>0, <2>1 DEF Deliveries
  <2> SUFFICES ASSUME alone PROVE OneRequest' /\ SeesTheRow' /\ AddonExact' /\ StageExact'
    BY <2>1
  <2>3. OneRequest' /\ \A g \in BillingReqs : g # h => req[g] = Idle /\ req'[g] = Idle
    BY <2>2, OneMoves
  <2>4. SeesTheRow'
    BY <1>0, <2>2, <2>3 DEF SeesTheRow
  <2>5. StageExact'
    BY <2>1, <2>2 DEF StageExact, Tells
  <2>6. QED
    BY <2>1, <2>3, <2>4, <2>5 DEF AddonExact
<1>8. ASSUME NEW h \in BillingReqs, StoreStage(h) PROVE Alone'
  <2>1. /\ req[h].pc = "store" /\ UNCHANGED <<alone, addonAlive>> /\ req' = [req EXCEPT ![h] = Idle]
        /\ account' = [account EXCEPT !.stage = req[h].stage]
    BY <1>8 DEF StoreStage, ghosts
  <2>2. req[h] # Idle /\ req'[h].pc = "idle" /\ \A g \in BillingReqs : g # h => req'[g] = req[g]
    BY <1>0, <2>1
  <2>3. /\ account'.stage = req[h].stage /\ account'.addons = account.addons /\ account'.addonSub = account.addonSub
        /\ account'.churned = account.churned /\ account'.status = account.status /\ account'.sub = account.sub
    BY <1>0, <2>1 DEF Accounts
  <2> SUFFICES ASSUME alone PROVE OneRequest' /\ SeesTheRow' /\ AddonExact' /\ StageExact'
    BY <2>1
  <2>4. OneRequest' /\ \A g \in BillingReqs : g # h => req[g] = Idle /\ req'[g] = Idle
    BY <2>2, OneMoves
  <2>5. SeesTheRow'
    BY <1>0, <2>2, <2>4 DEF SeesTheRow
  <2>6. \A s \in ToldStages : deriveLifecycleStage(account') = s <=> account'.stage = s
    <3>1. \A s \in ToldStages : deriveLifecycleStage(account') = s <=> deriveLifecycleStage(account) = s
      BY <2>3, ToldByColumns
    <3>2. Tells(req[h].stage)
      BY <2>1 DEF StageExact
    <3>3. QED
      BY <2>3, <3>1, <3>2 DEF Tells
  <2>7. StageExact'
    BY <1>0, <2>2, <2>4, <2>6 DEF StageExact, Tells
  <2>8. QED
    BY <2>1, <2>3, <2>4, <2>5, <2>7 DEF AddonExact
<1>9. ASSUME NEW h \in BillingReqs, RequestFails(h) PROVE Alone'
  BY <1>9 DEF RequestFails
<1>10. CASE ActivateTrial \/ TrialRunsOut \/ CronCloses
  <2>1. UNCHANGED <<req, alone, addonAlive>>
    BY <1>10 DEF ActivateTrial, TrialRunsOut, CronCloses, ghosts
  <2>2. /\ account'.stage = account.stage /\ account'.addons = account.addons /\ account'.addonSub = account.addonSub
        /\ account'.churned = account.churned /\ account'.status = account.status /\ account'.sub = account.sub
    BY <1>0, <1>10 DEF ActivateTrial, TrialRunsOut, CronCloses, Accounts
  <2>3. \A s \in ToldStages : deriveLifecycleStage(account') = s <=> deriveLifecycleStage(account) = s
    BY <2>2, ToldByColumns
  <2>4. StageExact => StageExact'
    BY <2>1, <2>2, <2>3 DEF StageExact, Tells
  <2>5. OneRequest => OneRequest'
    BY <2>1 DEF OneRequest
  <2>6. SeesTheRow => SeesTheRow'
    BY <2>1, <2>2 DEF SeesTheRow
  <2>7. QED
    BY <2>1, <2>2, <2>4, <2>5, <2>6 DEF AddonExact
<1>11. QED
  BY <1>1, <1>2, <1>3, <1>4, <1>5, <1>6, <1>7, <1>8, <1>9, <1>10 DEF BillingNext

LEMMA AloneInvariant == BillingSpec => [](BillingInv /\ Alone)
<1>1. BillingInit => BillingInv /\ Alone
  BY BillingInitInv, AloneInit
<1>2. BillingInv /\ Alone /\ [BillingNext]_billingVars => (BillingInv /\ Alone)'
  BY BillingStepInv, AloneStep
<1>3. QED
  BY <1>1, <1>2, PTL DEF BillingSpec

(* Plan events keep the add-on another subscription pays for, and bring    *)
(* none back, while requests do not overlap or fail (applySubscriptionState*)
(* and handleAddon* write the settings document they read).                *)
THEOREM AddonsAreExact == BillingSpec => []AddonsAreExactAlone
<1>1. Alone => AddonsAreExactAlone
  BY DEF Alone, AddonExact, AddonsAreExactAlone
<1>2. QED
  BY <1>1, AloneInvariant, PTL

(* Between requests that neither overlap nor fail the stored stage says    *)
(* that a customer pays, owes or left exactly when the columns do          *)
(* (recomputeLifecycle after every write that concerns it).                *)
THEOREM StagesAreExact == BillingSpec => []StageIsExactAlone
<1>1. ASSUME Alone PROVE StageIsExactAlone
  <2> SUFFICES ASSUME alone, Quiet PROVE Tells(account.stage)
    BY DEF StageIsExactAlone, Tells, ToldStages
  <2>1. \A h \in BillingReqs : req[h].pc = "idle"
    BY IdleRequest DEF Quiet
  <2>2. QED
    BY <1>1, <2>1 DEF Alone, StageExact
<1>2. QED
  BY <1>1, AloneInvariant, PTL

----------------------------------------------------------------------------
(***************************************************************************)
(* MiraQuota: type correctness, the bound on what concurrent consumers     *)
(* charge beyond a quota, and a lead that is paid for once when nothing    *)
(* races or fails for its business.                                        *)
(***************************************************************************)
Workers == Consumers \cup Landings
WorkerPCs == {"idle", "dedup", "create", "entitle", "quota", "charge", "promote", "last", "land", "over"}
Tiers == TierQuotas \cup {NoTier}
WorkerRecs == [pc : WorkerPCs, row : Rows \cup {NoRow}, key : LedgerKeys, share : Tiers]

(* At work on a row, from the gate it passed to its promotion.             *)
Paying(c) == worker[c].pc \in {"entitle", "quota", "charge", "promote", "last"}

(* Whoever is past the look at the quota is about to charge one unit.      *)
Charging(k) == {c \in Consumers : worker[c].pc = "charge" /\ worker[c].key = k}

(* The largest quota a ledger has had, and what is charged to it or about  *)
(* to be.                                                                  *)
Best(k) == QuotaOf(k, topTier[k])
Due(k) == ledger[k] + Cardinality(Charging(k))

(* With the units that are about to be charged the quota is overshot by    *)
(* less than there are consumers.                                          *)
OvershootInv == \A k \in LedgerKeys : Due(k) = 0 \/ Due(k) <= Best(k) + Cardinality(Consumers) - 1

(* No tier is larger than the largest of its month: neither the one held   *)
(* now nor one that was read before the quota is looked at.                *)
SharesFit ==
    /\ tier <= topTier[month]
    /\ \A c \in Consumers : worker[c].pc = "quota" /\ worker[c].key # TRIAL_LEDGER_KEY
                              => worker[c].share <= topTier[worker[c].key]

(* Where a worker stands: its row is one, and is stored once paid for.     *)
WorkersFit ==
    /\ \A c \in Consumers : worker[c].pc \in {"dedup", "create"} => worker[c].row \in Rows
    /\ \A c \in Consumers : Paying(c) => worker[c].row \in Rows /\ alvo[worker[c].row] # "none"
    /\ \A p \in Landings : worker[p].pc = "land" => worker[p].row \in Rows /\ alvo[worker[p].row] # "none"

(* What holds of a business that two were never at work on at once.        *)
OneRow(l) == \A q, r \in Rows : alvo[q] # "none" /\ alvo[r] # "none" /\ q[2] = l /\ r[2] = l => q = r
OneWorker(l) == \A c, d \in Consumers : Paying(c) /\ Paying(d) /\ LeadOf(c) = l /\ LeadOf(d) = l => c = d
OneCreator(l) ==
    l \in Places => \A c, d \in Searches :
        worker[c].pc = "create" /\ worker[d].pc = "create" /\ LeadOf(c) = l /\ LeadOf(d) = l => c = d /\ ~Stored(l)
CountedOnce(l) ==
    /\ \A r \in counted : r[2] = l => alvo[r] \notin {"none", "QUALIFYING"}
    /\ \A c \in Consumers, r \in counted : Paying(c) /\ LeadOf(c) = l => r[2] # l
PaidFor(l) == (\E r \in counted : r[2] = l) \/ (\E c \in Consumers : Promoting(c) /\ LeadOf(c) = l)
Books(l) == paid[l] = IF PaidFor(l) THEN 1 ELSE 0
LeadInv(l) == OneRow(l) /\ OneWorker(l) /\ OneCreator(l) /\ CountedOnce(l) /\ Books(l)

MiraInv == MiraTypeOK /\ OvershootInv /\ SharesFit /\ WorkersFit /\ \A l \in Leads \ raced : LeadInv(l)

----------------------------------------------------------------------------
LEMMA MiraTypes ==
    /\ MiraTypeOK => worker \in [Workers -> WorkerRecs]
    /\ Waiting \in WorkerRecs /\ Waiting.pc = "idle"
    /\ LedgerKeys \subseteq Nat /\ Tiers \subseteq Nat
    /\ MiraTypeOK => (LedgerKey \in LedgerKeys /\ \A k \in LedgerKeys : Best(k) \in Nat)
<1>1. MiraTypeOK => worker \in [Workers -> WorkerRecs]
  BY DEF MiraTypeOK, Workers, WorkerRecs, WorkerPCs, Tiers
<1>2. TRIAL_LEDGER_KEY \in LedgerKeys /\ LedgerKeys \subseteq Nat /\ Months \subseteq LedgerKeys
  BY MiraBounds DEF LedgerKeys, TRIAL_LEDGER_KEY, Months
<1>3. Waiting \in WorkerRecs /\ Waiting.pc = "idle"
  BY <1>2 DEF Waiting, WorkerRecs, WorkerPCs, Tiers
<1>4. MiraTypeOK => LedgerKey \in LedgerKeys
  BY <1>2 DEF MiraTypeOK, LedgerKey
<1>5. ASSUME MiraTypeOK, NEW k \in LedgerKeys PROVE Best(k) \in Nat
  <2>1. CASE k = TRIAL_LEDGER_KEY
    BY <2>1, MiraBounds DEF Best, QuotaOf
  <2>2. CASE k # TRIAL_LEDGER_KEY
    <3>1. packs[k] \in Nat /\ topTier[k] \in Nat
      BY <1>5, <2>2 DEF LedgerKeys, MiraTypeOK
    <3>2. QED
      BY <2>2, <3>1 DEF Best, QuotaOf
  <2>3. QED
    BY <2>1, <2>2
<1>6. Tiers \subseteq Nat
  BY MiraBounds DEF Tiers, NoTier
<1>7. QED
  BY <1>1, <1>2, <1>3, <1>4, <1>5, <1>6

(* Holding a tier raises the largest of its month, if it is larger.        *)
LEMMA HoldsTier ==
    ASSUME MiraTypeOK, NEW m \in LedgerKeys, NEW t \in Nat, Holds(m, t)
    PROVE  /\ topTier' \in [LedgerKeys -> Nat] /\ t <= topTier'[m]
           /\ \A k \in LedgerKeys : topTier[k] <= topTier'[k]
<1>1. topTier \in [LedgerKeys -> Nat]
  BY DEF MiraTypeOK
<1>2. QED
  BY <1>1 DEF Holds

LEMMA MovesWorker ==
    ASSUME worker \in [Workers -> WorkerRecs], NEW w \in Workers, NEW p \in WorkerPCs, MovesTo(w, p)
    PROVE  /\ worker' \in [Workers -> WorkerRecs]
           /\ worker'[w].pc = p /\ worker'[w].row = worker[w].row /\ worker'[w].key = worker[w].key
           /\ \A v \in Workers : v # w => worker'[v] = worker[v]
  BY DEF MovesTo, WorkerRecs

LEMMA RestsWorker ==
    ASSUME worker \in [Workers -> WorkerRecs], NEW w \in Workers, Rests(w)
    PROVE  /\ worker' \in [Workers -> WorkerRecs] /\ worker'[w].pc = "idle"
           /\ \A v \in Workers : v # w => worker'[v] = worker[v]
  BY MiraTypes DEF Rests

(* Who consumes is not a landing, and there are finitely many.             *)
LEMMA ConsumersAre ==
    /\ IsFiniteSet(Consumers) /\ Cardinality(Consumers) \in Nat
    /\ Searches \subseteq Consumers /\ Reviews \subseteq Consumers
    /\ Consumers \subseteq Workers /\ Landings \subseteq Workers
    /\ \A c \in Consumers : c \notin Landings
  BY MiraActors, FS_CardinalityType DEF Consumers, Workers
----------------------------------------------------------------------------
(* What a step does to the workers: one of them moves, the others stand.   *)
Stirs(w) == /\ worker' \in [Workers -> WorkerRecs]
            /\ \A v \in Workers : v # w => worker'[v] = worker[v]

LEMMA MiraLooks ==
    ASSUME MiraTypeOK, NEW s \in Searches, SearchLooks(s)
    PROVE  /\ Stirs(s) /\ worker'[s].pc \in {"dedup", "over"}
           /\ worker'[s].pc = "dedup" => worker'[s].row \in Rows
           /\ tried' \in [Searches -> SUBSET Leads]
           /\ UNCHANGED <<alvo, counted, landed, ledger, paid, packs, tier, trial, month, topTier, raced, miraFaults>>
<1>0. s \in Workers /\ worker \in [Workers -> WorkerRecs] /\ tried \in [Searches -> SUBSET Leads]
  BY ConsumersAre, MiraTypes DEF MiraTypeOK
<1>1. CASE \E l \in Leads \ tried[s] :
               /\ worker' = [worker EXCEPT ![s].pc = "dedup", ![s].row = <<s, l>>]
               /\ tried' = [tried EXCEPT ![s] = @ \cup {l}]
  <2>1. PICK l \in Leads : /\ worker' = [worker EXCEPT ![s].pc = "dedup", ![s].row = <<s, l>>]
                           /\ tried' = [tried EXCEPT ![s] = @ \cup {l}]
    BY <1>1
  <2>2. <<s, l>> \in Rows
    BY DEF Rows
  <2>3. tried' \in [Searches -> SUBSET Leads]
    BY <2>1, <1>0
  <2>4. Stirs(s) /\ worker'[s].pc = "dedup" /\ worker'[s].row = <<s, l>>
    BY <2>1, <2>2, <1>0 DEF Stirs, WorkerRecs, WorkerPCs
  <2>5. QED
    BY <2>2, <2>3, <2>4 DEF SearchLooks, rowsKept, booksKept, accountKept
<1>2. CASE MovesTo(s, "over") /\ UNCHANGED tried
  <2>1. Stirs(s) /\ worker'[s].pc = "over"
    BY <1>2, <1>0, MovesWorker DEF WorkerPCs, Stirs
  <2>2. QED
    BY <2>1, <1>2, <1>0 DEF SearchLooks, rowsKept, booksKept, accountKept
<1>3. QED
  BY <1>1, <1>2 DEF SearchLooks

LEMMA MiraDedups ==
    ASSUME MiraTypeOK, NEW s \in Searches, SearchDedups(s)
    PROVE  /\ Stirs(s) /\ worker[s].pc = "dedup"
           /\ \/ worker'[s].pc = "idle" /\ raced' = raced
              \/ /\ worker'[s].pc = "create" /\ worker'[s].row = worker[s].row
                 /\ ~Stored(LeadOf(s))
                 /\ raced' = IF LeadOf(s) \in Places /\ \E o \in Searches : Stands(o, "create") /\ LeadOf(o) = LeadOf(s)
                             THEN raced \cup {LeadOf(s)} ELSE raced
           /\ UNCHANGED <<alvo, counted, landed, ledger, paid, packs, tier, trial, month, topTier, tried, miraFaults>>
<1>0. s \in Workers /\ worker \in [Workers -> WorkerRecs] /\ "create" \in WorkerPCs
  BY ConsumersAre, MiraTypes DEF WorkerPCs
<1>1. CASE Rests(s) /\ UNCHANGED raced
  BY <1>0, <1>1, RestsWorker DEF Stirs, SearchDedups, rowsKept, booksKept, accountKept, Stands
<1>2. CASE ~(Rests(s) /\ UNCHANGED raced)
  <2>1. MovesTo(s, "create")
    BY <1>2 DEF SearchDedups
  <2>2. Stirs(s) /\ worker'[s].pc = "create" /\ worker'[s].row = worker[s].row
    BY <1>0, <2>1, MovesWorker DEF Stirs
  <2>3. QED
    BY <1>2, <2>2 DEF SearchDedups, rowsKept, booksKept, accountKept, Stands
<1>3. QED
  BY <1>1, <1>2

LEMMA MiraCreates ==
    ASSUME MiraTypeOK, NEW s \in Searches, SearchCreates(s)
    PROVE  /\ Stirs(s) /\ worker[s].pc = "create"
           /\ \/ worker'[s].pc = "idle" /\ alvo' = alvo
              \/ /\ LeadOf(s) \in Places \/ ~Stored(LeadOf(s))
                 /\ alvo' = [alvo EXCEPT ![worker[s].row] = "QUALIFYING"]
                 /\ \/ worker'[s].pc = "entitle" /\ worker'[s].row = worker[s].row
                    \/ worker'[s].pc = "idle"
           /\ UNCHANGED <<counted, landed, ledger, paid, packs, tier, trial, month, topTier, tried, raced, miraFaults>>
<1>0. s \in Workers /\ worker \in [Workers -> WorkerRecs] /\ "entitle" \in WorkerPCs
  BY ConsumersAre, MiraTypes DEF WorkerPCs
<1>1. MovesTo(s, "entitle") => Stirs(s) /\ worker'[s].pc = "entitle" /\ worker'[s].row = worker[s].row
  BY <1>0, MovesWorker DEF Stirs
<1>2. Rests(s) => Stirs(s) /\ worker'[s].pc = "idle"
  BY <1>0, RestsWorker DEF Stirs
<1>3. QED
  BY <1>1, <1>2 DEF SearchCreates, booksKept, accountKept, Stands

LEMMA MiraReviews ==
    ASSUME MiraTypeOK, NEW v \in Reviews, ReviewReads(v)
    PROVE  /\ Stirs(v) /\ worker[v].pc = "idle" /\ worker'[v].pc = "entitle"
           /\ worker'[v].row \in Rows /\ alvo[worker'[v].row] = "QUALIFYING"
           /\ raced' = IF AtWorkOn(worker'[v].row) # {} THEN raced \cup {worker'[v].row[2]} ELSE raced
           /\ UNCHANGED <<alvo, counted, landed, ledger, paid, packs, tier, trial, month, topTier, tried, miraFaults>>
<1>0. v \in Workers /\ worker \in [Workers -> WorkerRecs]
  BY ConsumersAre, MiraTypes
<1>1. PICK r \in Rows : /\ alvo[r] = "QUALIFYING"
                        /\ worker' = [worker EXCEPT ![v].pc = "entitle", ![v].row = r]
                        /\ raced' = IF AtWorkOn(r) # {} THEN raced \cup {r[2]} ELSE raced
  BY DEF ReviewReads
<1>2. Stirs(v) /\ worker'[v].pc = "entitle" /\ worker'[v].row = r
  BY <1>0, <1>1 DEF Stirs, WorkerRecs, WorkerPCs
<1>3. QED
  BY <1>1, <1>2 DEF ReviewReads, rowsKept, booksKept, accountKept, Stands

(* Leaving the row: what Exceeded, a promotion and a failure end with.     *)
Leaves(c) == Stirs(c) /\ worker'[c].pc \in {"idle", "over"}
LEMMA MiraLeaves ==
    ASSUME MiraTypeOK, NEW c \in Consumers, Rests(c) \/ MovesTo(c, "over")
    PROVE  Leaves(c)
  BY ConsumersAre, MiraTypes, RestsWorker, MovesWorker DEF Leaves, Stirs, WorkerPCs

LEMMA MiraEntitles ==
    ASSUME MiraTypeOK, NEW c \in Consumers, ConsumeEntitles(c)
    PROVE  /\ worker[c].pc = "entitle"
           /\ \/ Leaves(c)
              \/ /\ Stirs(c) /\ worker'[c].pc = "quota" /\ worker'[c].row = worker[c].row
                 /\ worker'[c].key = LedgerKey /\ worker'[c].share = tier
           /\ UNCHANGED <<alvo, counted, landed, ledger, paid, packs, tier, trial, month, topTier, tried, raced, miraFaults>>
<1>0. c \in Workers /\ worker \in [Workers -> WorkerRecs] /\ LedgerKey \in LedgerKeys /\ tier \in Tiers
  BY ConsumersAre, MiraTypes DEF MiraTypeOK, Tiers
<1>1. ASSUME worker' = [worker EXCEPT ![c].pc = "quota", ![c].key = LedgerKey, ![c].share = tier]
      PROVE  /\ Stirs(c) /\ worker'[c].pc = "quota" /\ worker'[c].row = worker[c].row
             /\ worker'[c].key = LedgerKey /\ worker'[c].share = tier
  <2>1. worker[c] \in WorkerRecs /\ "quota" \in WorkerPCs
    BY <1>0 DEF WorkerPCs
  <2>2. /\ worker'[c] = [worker[c] EXCEPT !.pc = "quota", !.key = LedgerKey, !.share = tier]
        /\ \A v \in Workers : v # c => worker'[v] = worker[v]
    BY <1>0, <1>1
  <2>3. worker'[c] \in WorkerRecs
    BY <1>0, <2>1, <2>2 DEF WorkerRecs
  <2>4. worker' \in [Workers -> WorkerRecs]
    BY <1>0, <1>1, <2>2, <2>3
  <2>5. QED
    BY <2>1, <2>2, <2>4 DEF Stirs, WorkerRecs
<1>2. Exceeded(c) => Leaves(c)
  BY MiraLeaves DEF Exceeded
<1>3. QED
  BY <1>1, <1>2 DEF ConsumeEntitles, rowsKept, booksKept, accountKept, Stands

LEMMA MiraChecks ==
    ASSUME MiraTypeOK, NEW c \in Consumers, ConsumeChecks(c)
    PROVE  /\ worker[c].pc = "quota"
           /\ \/ Leaves(c)
              \/ /\ ~Blocked(worker[c].key, worker[c].share) /\ Stirs(c)
                 /\ worker'[c].pc = "charge" /\ worker'[c].row = worker[c].row /\ worker'[c].key = worker[c].key
           /\ UNCHANGED <<alvo, counted, landed, ledger, paid, packs, tier, trial, month, topTier, tried, raced, miraFaults>>
<1>0. c \in Workers /\ worker \in [Workers -> WorkerRecs] /\ "charge" \in WorkerPCs
  BY ConsumersAre, MiraTypes DEF WorkerPCs
<1>1. MovesTo(c, "charge") => /\ Stirs(c) /\ worker'[c].pc = "charge"
                              /\ worker'[c].row = worker[c].row /\ worker'[c].key = worker[c].key
  BY <1>0, MovesWorker DEF Stirs
<1>2. Exceeded(c) => Leaves(c)
  BY MiraLeaves DEF Exceeded
<1>3. QED
  BY <1>1, <1>2 DEF ConsumeChecks, rowsKept, booksKept, accountKept, Stands

LEMMA MiraCharges ==
    ASSUME MiraTypeOK, NEW c \in Consumers, ConsumeCharges(c)
    PROVE  /\ worker[c].pc = "charge" /\ Charges(c)
           /\ Stirs(c) /\ worker'[c].pc \in {"promote", "last"} /\ worker'[c].row = worker[c].row
           /\ UNCHANGED <<alvo, counted, landed, packs, tier, trial, month, topTier, tried, raced, miraFaults>>
<1>0. c \in Workers /\ worker \in [Workers -> WorkerRecs] /\ {"promote", "last"} \subseteq WorkerPCs
  BY ConsumersAre, MiraTypes DEF WorkerPCs
<1>1. ASSUME NEW p \in {"promote", "last"}, MovesTo(c, p)
      PROVE  Stirs(c) /\ worker'[c].pc = p /\ worker'[c].row = worker[c].row
  BY <1>0, <1>1, MovesWorker DEF Stirs
<1>2. QED
  BY <1>1 DEF ConsumeCharges, rowsKept, accountKept, Stands

LEMMA MiraPromotes ==
    ASSUME MiraTypeOK, NEW c \in Consumers, Promotes(c)
    PROVE  /\ worker[c].pc \in {"promote", "last"} /\ Leaves(c)
           /\ alvo' = [alvo EXCEPT ![worker[c].row] = "READY"] /\ counted' = counted \cup {worker[c].row}
           /\ UNCHANGED <<landed, ledger, paid, packs, tier, trial, month, topTier, tried, raced, miraFaults>>
  BY MiraLeaves DEF Promotes, Promoting, booksKept, accountKept

LEMMA MiraThrows ==
    ASSUME MiraTypeOK, NEW c \in Consumers, CallThrows(c)
    PROVE  /\ Leaves(c)
           /\ \/ worker[c].pc = "charge" /\ Charges(c) /\ raced' = raced \cup {LeadOf(c)}
              \/ Promoting(c) /\ UNCHANGED <<ledger, paid>> /\ raced' = raced \cup {LeadOf(c)}
              \/ ~Promoting(c) /\ UNCHANGED <<ledger, paid>> /\ raced' = raced
           /\ miraFaults' = miraFaults + 1
           /\ UNCHANGED <<alvo, counted, landed, packs, tier, trial, month, topTier, tried>>
<1>1. Leaves(c)
  BY MiraLeaves DEF CallThrows
<1>2. QED
  BY <1>1 DEF CallThrows, Stands, rowsKept, booksKept, accountKept

LEMMA MiraLandReads ==
    ASSUME MiraTypeOK, NEW p \in Landings, LandReads(p)
    PROVE  /\ Stirs(p) /\ worker'[p].pc = "land" /\ worker'[p].row \in Rows /\ alvo[worker'[p].row] # "none"
           /\ UNCHANGED <<alvo, counted, landed, ledger, paid, packs, tier, trial, month, topTier, tried, raced, miraFaults>>
<1>0. p \in Workers /\ worker \in [Workers -> WorkerRecs]
  BY ConsumersAre, MiraTypes
<1>1. PICK r \in Rows : /\ alvo[r] \in {"READY", "DELIVERED", "QUALIFYING"}
                        /\ worker' = [worker EXCEPT ![p].pc = "land", ![p].row = r]
  BY DEF LandReads
<1>2. Stirs(p) /\ worker'[p].pc = "land" /\ worker'[p].row = r
  BY <1>0, <1>1 DEF Stirs, WorkerRecs, WorkerPCs
<1>3. QED
  BY <1>1, <1>2 DEF LandReads, rowsKept, booksKept, accountKept

LEMMA MiraLandStores ==
    ASSUME MiraTypeOK, NEW p \in Landings, LandStores(p)
    PROVE  /\ Stirs(p) /\ worker[p].pc = "land" /\ worker'[p].pc = "idle"
           /\ alvo' = [alvo EXCEPT ![worker[p].row] = "DELIVERED"] /\ landed' = landed \cup {worker[p].row}
           /\ UNCHANGED <<counted, ledger, paid, packs, tier, trial, month, topTier, tried, raced, miraFaults>>
<1>0. p \in Workers /\ worker \in [Workers -> WorkerRecs]
  BY ConsumersAre, MiraTypes
<1>1. QED
  BY <1>0, RestsWorker DEF LandStores, Stirs, Stands, booksKept, accountKept
----------------------------------------------------------------------------
(* Type correctness. *)
LEMMA MiraTypeStep == MiraTypeOK /\ WorkersFit /\ MiraNext => MiraTypeOK'
<1> SUFFICES ASSUME MiraTypeOK, WorkersFit, MiraNext PROVE MiraTypeOK'
  OBVIOUS
<1> USE ConsumersAre
<1> DEFINE Statuses == {"none", "QUALIFYING", "READY", "DELIVERED", "ARCHIVED"}
<1>0. /\ alvo \in [Rows -> Statuses] /\ counted \subseteq Rows /\ landed \subseteq Rows
      /\ ledger \in [LedgerKeys -> Nat] /\ packs \in [Months -> Nat] /\ tier \in Tiers /\ trial \in BOOLEAN
      /\ topTier \in [LedgerKeys -> Nat] /\ month \in Months /\ tried \in [Searches -> SUBSET Leads]
      /\ worker \in [Workers -> WorkerRecs]
      /\ paid \in [Leads -> Nat] /\ raced \subseteq Leads /\ miraFaults \in Nat
  BY MiraTypes DEF MiraTypeOK, Tiers
<1>1. /\ \A c \in Consumers : worker[c].pc \in {"dedup", "create"} \/ Paying(c) => worker[c].row \in Rows /\ LeadOf(c) \in Leads
      /\ \A p \in Landings : worker[p].pc = "land" => worker[p].row \in Rows
      /\ \A r \in Rows : r[2] \in Leads
  BY DEF WorkersFit, LeadOf, Rows
<1> DEFINE Typed ==
               /\ alvo' \in [Rows -> Statuses] /\ counted' \subseteq Rows /\ landed' \subseteq Rows
               /\ ledger' \in [LedgerKeys -> Nat] /\ packs' \in [Months -> Nat] /\ tier' \in Tiers /\ trial' \in BOOLEAN
               /\ topTier' \in [LedgerKeys -> Nat] /\ month' \in Months /\ tried' \in [Searches -> SUBSET Leads]
               /\ worker' \in [Workers -> WorkerRecs]
               /\ paid' \in [Leads -> Nat] /\ raced' \subseteq Leads /\ miraFaults' \in Nat
<1>2. Typed => MiraTypeOK'
  BY DEF MiraTypeOK, Workers, WorkerRecs, WorkerPCs, Tiers
<1>3. ASSUME NEW c \in Consumers, worker[c].pc = "charge", Charges(c)
      PROVE  ledger' \in [LedgerKeys -> Nat] /\ paid' \in [Leads -> Nat]
  <2>1. worker[c].key \in LedgerKeys /\ LeadOf(c) \in Leads
    BY <1>0, <1>1, <1>3 DEF WorkerRecs, Paying
  <2>2. ledger[worker[c].key] + 1 \in Nat /\ paid[LeadOf(c)] + 1 \in Nat
    BY <1>0, <2>1
  <2>3. QED
    BY <1>0, <1>3, <2>1, <2>2 DEF Charges
<1>a. ASSUME NEW s \in Searches, SearchLooks(s) PROVE MiraTypeOK'
  BY <1>a, <1>0, <1>2, MiraLooks DEF Stirs
<1>b. ASSUME NEW s \in Searches, SearchDedups(s) PROVE MiraTypeOK'
  <2>1. LeadOf(s) \in Leads
    BY <1>b, <1>1, MiraDedups
  <2>2. QED
    BY <1>b, <2>1, <1>0, <1>2, MiraDedups DEF Stirs
<1>c. ASSUME NEW s \in Searches, SearchCreates(s) PROVE MiraTypeOK'
  BY <1>c, <1>0, <1>1, <1>2, MiraCreates DEF Stirs
<1>d. ASSUME NEW v \in Reviews, ReviewReads(v) PROVE MiraTypeOK'
  <2>1. raced' \subseteq Leads
    <3>1. worker'[v].row \in Rows
      BY <1>d, MiraReviews
    <3>2. worker'[v].row[2] \in Leads
      BY <3>1, <1>1
    <3>3. raced' = raced \cup {worker'[v].row[2]} \/ raced' = raced
      BY <1>d, MiraReviews
    <3>4. QED
      BY <3>2, <3>3, <1>0
  <2>2. QED
    BY <1>d, <2>1, <1>0, <1>2, MiraReviews DEF Stirs
<1>e. ASSUME NEW c \in Consumers, ConsumeEntitles(c) PROVE MiraTypeOK'
  BY <1>e, <1>0, <1>2, MiraEntitles DEF Stirs, Leaves
<1>f. ASSUME NEW c \in Consumers, ConsumeChecks(c) PROVE MiraTypeOK'
  BY <1>f, <1>0, <1>2, MiraChecks DEF Stirs, Leaves
<1>g. ASSUME NEW c \in Consumers, ConsumeCharges(c) PROVE MiraTypeOK'
  BY <1>g, <1>0, <1>2, <1>3, MiraCharges DEF Stirs
<1>h. ASSUME NEW c \in Consumers, Promotes(c) PROVE MiraTypeOK'
  <2>1. worker[c].row \in Rows
    BY <1>h, <1>1, MiraPromotes DEF Paying
  <2>2. QED
    BY <1>h, <2>1, <1>0, <1>2, MiraPromotes DEF Stirs, Leaves
<1>i. ASSUME NEW c \in Consumers, CallThrows(c) PROVE MiraTypeOK'
  <2>1. worker[c].pc = "charge" \/ Promoting(c) => LeadOf(c) \in Leads
    BY <1>1 DEF Paying, Promoting
  <2>2. ledger' \in [LedgerKeys -> Nat] /\ paid' \in [Leads -> Nat] /\ raced' \subseteq Leads
    BY <1>i, <2>1, <1>0, <1>3, MiraThrows
  <2>3. QED
    BY <1>i, <2>2, <1>0, <1>2, MiraThrows DEF Stirs, Leaves
<1>j. ASSUME NEW r \in Rows, Archives(r) PROVE MiraTypeOK'
  BY <1>j, <1>0, <1>2 DEF Archives, booksKept, accountKept
<1>k. ASSUME NEW p \in Landings, LandReads(p) PROVE MiraTypeOK'
  BY <1>k, <1>0, <1>2, MiraLandReads DEF Stirs
<1>l. ASSUME NEW p \in Landings, LandStores(p) PROVE MiraTypeOK'
  BY <1>l, <1>0, <1>1, <1>2, MiraLandStores DEF Stirs
<1>m. CASE activateMiraTrial
  BY <1>m, <1>0, <1>2 DEF activateMiraTrial, rowsKept, booksKept
<1>q. CASE TierChanges
  <2>1. tier' \in Tiers /\ tier' \in Nat
    BY <1>q, MiraTypes DEF TierChanges, Tiers
  <2>2. topTier' \in [LedgerKeys -> Nat]
    BY <1>q, <2>1, HoldsTier DEF TierChanges, MiraTypeOK, LedgerKeys
  <2>3. QED
    BY <1>q, <1>0, <1>2, <2>1, <2>2 DEF TierChanges, rowsKept, booksKept
<1>n. CASE creditMiraPack
  BY <1>n, <1>0, <1>2 DEF creditMiraPack, rowsKept, booksKept
<1>o. CASE MonthTurns
  <2>1. month' \in Months
    BY <1>o, <1>0, MiraBounds DEF MonthTurns, Months
  <2>2. topTier' \in [LedgerKeys -> Nat]
    BY <1>o, <1>0, <2>1, MiraTypes, HoldsTier DEF MonthTurns, LedgerKeys
  <2>3. QED
    BY <1>o, <1>0, <1>2, <2>1, <2>2 DEF MonthTurns, rowsKept, booksKept
<1>p. QED
  BY <1>a, <1>b, <1>c, <1>d, <1>e, <1>f, <1>g, <1>h, <1>i, <1>j, <1>k, <1>l, <1>m, <1>n, <1>o, <1>q DEF MiraNext

----------------------------------------------------------------------------
(* Workers stand on rows that are stored. *)
LEMMA MiraFitStep == MiraTypeOK /\ WorkersFit /\ MiraNext => WorkersFit'
<1> SUFFICES ASSUME MiraTypeOK, WorkersFit, MiraNext PROVE WorkersFit'
  OBVIOUS
<1> USE ConsumersAre DEF Paying
<1>0. alvo \in [Rows -> {"none", "QUALIFYING", "READY", "DELIVERED", "ARCHIVED"}]
  BY DEF MiraTypeOK
<1> DEFINE Fits(w) == /\ w \in Consumers /\ worker'[w].pc \in {"dedup", "create"} => worker'[w].row \in Rows
                      /\ w \in Consumers /\ Paying(w)' => worker'[w].row \in Rows /\ alvo'[worker'[w].row] # "none"
                      /\ w \in Landings /\ worker'[w].pc = "land" => worker'[w].row \in Rows /\ alvo'[worker'[w].row] # "none"
           Grows == \A r \in Rows : alvo[r] # "none" => alvo'[r] # "none"
<1>1. ASSUME NEW w \in Workers, Stirs(w), Grows, Fits(w) PROVE WorkersFit'
  <2>1. \A v \in Workers : Fits(v)
    BY <1>1 DEF Stirs, WorkersFit
  <2>2. QED
    BY <2>1 DEF WorkersFit
<1>2. ASSUME worker' = worker, Grows PROVE WorkersFit'
  BY <1>2 DEF WorkersFit
<1>3. ASSUME NEW w \in Workers, Leaves(w), Grows PROVE WorkersFit'
  BY <1>1, <1>3 DEF Leaves
<1>a. ASSUME NEW s \in Searches, SearchLooks(s) PROVE WorkersFit'
  BY <1>a, <1>1, MiraLooks
<1>b. ASSUME NEW s \in Searches, SearchDedups(s) PROVE WorkersFit'
  BY <1>b, <1>1, MiraDedups DEF WorkersFit
<1>c. ASSUME NEW s \in Searches, SearchCreates(s) PROVE WorkersFit'
  <2>1. worker[s].row \in Rows
    BY <1>c, MiraCreates DEF WorkersFit
  <2>2. QED
    BY <1>c, <2>1, <1>0, <1>1, MiraCreates
<1>d. ASSUME NEW v \in Reviews, ReviewReads(v) PROVE WorkersFit'
  BY <1>d, <1>1, MiraReviews
<1>e. ASSUME NEW c \in Consumers, ConsumeEntitles(c) PROVE WorkersFit'
  BY <1>e, <1>1, <1>3, MiraEntitles DEF WorkersFit
<1>f. ASSUME NEW c \in Consumers, ConsumeChecks(c) PROVE WorkersFit'
  BY <1>f, <1>1, <1>3, MiraChecks DEF WorkersFit
<1>g. ASSUME NEW c \in Consumers, ConsumeCharges(c) PROVE WorkersFit'
  BY <1>g, <1>1, MiraCharges DEF WorkersFit
<1>h. ASSUME NEW c \in Consumers, Promotes(c) PROVE WorkersFit'
  BY <1>h, <1>0, <1>3, MiraPromotes
<1>i. ASSUME NEW c \in Consumers, CallThrows(c) PROVE WorkersFit'
  BY <1>i, <1>3, MiraThrows
<1>j. ASSUME NEW r \in Rows, Archives(r) PROVE WorkersFit'
  BY <1>j, <1>0, <1>2 DEF Archives
<1>k. ASSUME NEW p \in Landings, LandReads(p) PROVE WorkersFit'
  BY <1>k, <1>1, MiraLandReads
<1>l. ASSUME NEW p \in Landings, LandStores(p) PROVE WorkersFit'
  BY <1>l, <1>0, <1>1, MiraLandStores
<1>m. CASE activateMiraTrial \/ TierChanges \/ creditMiraPack \/ MonthTurns
  BY <1>m, <1>2 DEF activateMiraTrial, TierChanges, creditMiraPack, MonthTurns, rowsKept
<1>n. QED
  BY <1>a, <1>b, <1>c, <1>d, <1>e, <1>f, <1>g, <1>h, <1>i, <1>j, <1>k, <1>l, <1>m DEF MiraNext
----------------------------------------------------------------------------
(* The overshoot.  A unit that is about to be charged was free when it was *)
(* looked at, and at most every consumer is about to charge one.           *)
LEMMA ChargingIsFinite ==
    ASSUME NEW S, S \subseteq Consumers
    PROVE  IsFiniteSet(S) /\ Cardinality(S) \in Nat /\ Cardinality(S) <= Cardinality(Consumers)
  BY ConsumersAre, FS_Subset, FS_CardinalityType

(* What is due to a ledger is a number, and so is its bound.               *)
LEMMA DueIsANumber ==
    ASSUME MiraTypeOK, NEW k \in LedgerKeys
    PROVE  /\ Due(k) \in Nat /\ Best(k) \in Nat /\ Cardinality(Consumers) \in Nat
           /\ ledger[k] \in Nat /\ IsFiniteSet(Charging(k)) /\ Cardinality(Charging(k)) \in Nat
<1>1. IsFiniteSet(Charging(k)) /\ Cardinality(Charging(k)) \in Nat
  BY ChargingIsFinite DEF Charging
<1>2. ledger[k] \in Nat
  BY DEF MiraTypeOK
<1>3. QED
  BY <1>1, <1>2, MiraTypes, ConsumersAre DEF Due

(* Without a charge, and with nobody new about to charge, nothing is       *)
(* overshot further.                                                       *)
LEMMA OvershootStays ==
    ASSUME MiraTypeOK, MiraTypeOK', OvershootInv, ledger' = ledger,
           \A k \in LedgerKeys : Best(k) <= Best(k)' /\ Charging(k)' \subseteq Charging(k)
    PROVE  OvershootInv'
<1> SUFFICES ASSUME NEW k \in LedgerKeys
             PROVE  Due(k)' = 0 \/ Due(k)' <= Best(k)' + Cardinality(Consumers) - 1
  BY DEF OvershootInv
<1>1. Due(k) = 0 \/ Due(k) <= Best(k) + Cardinality(Consumers) - 1
  BY DEF OvershootInv
<1>2. /\ Due(k) \in Nat /\ Best(k) \in Nat /\ Cardinality(Consumers) \in Nat /\ ledger[k] \in Nat
      /\ IsFiniteSet(Charging(k)) /\ Cardinality(Charging(k)) \in Nat
  BY DueIsANumber
<1>3. Best(k)' \in Nat
  <2>1. topTier'[k] \in Nat /\ (k # TRIAL_LEDGER_KEY => packs'[k] \in Nat)
    BY DEF LedgerKeys, MiraTypeOK
  <2>2. QED
    BY <2>1, MiraBounds DEF Best, QuotaOf
<1>4. Cardinality(Charging(k)') \in Nat /\ Cardinality(Charging(k)') <= Cardinality(Charging(k))
  BY <1>2, FS_Subset, FS_CardinalityType
<1>5. Due(k)' <= Due(k) /\ Due(k)' \in Nat
  BY <1>2, <1>4 DEF Due
<1>6. QED
  BY <1>1, <1>2, <1>3, <1>5

(* A charge takes its unit from those that were about to be.               *)
LEMMA OvershootCharge ==
    ASSUME MiraTypeOK, OvershootInv, NEW c \in Consumers, worker[c].pc = "charge", Charges(c),
           Stirs(c), worker'[c].pc # "charge", UNCHANGED <<packs, topTier>>
    PROVE  OvershootInv'
<1> DEFINE key == worker[c].key
<1>0. worker \in [Workers -> WorkerRecs] /\ c \in Workers /\ key \in LedgerKeys /\ ledger \in [LedgerKeys -> Nat]
  BY MiraTypes, ConsumersAre DEF WorkerRecs, MiraTypeOK
<1> SUFFICES ASSUME NEW k \in LedgerKeys
             PROVE  Due(k)' = 0 \/ Due(k)' <= Best(k)' + Cardinality(Consumers) - 1
  BY DEF OvershootInv
<1>1. Due(k) = 0 \/ Due(k) <= Best(k) + Cardinality(Consumers) - 1
  BY DEF OvershootInv
<1>2. IsFiniteSet(Charging(k)) /\ Cardinality(Charging(k)) \in Nat /\ ledger[k] \in Nat
  BY DueIsANumber
<1>3. Best(k)' = Best(k)
  BY DEF Best, QuotaOf
<1>4. Charging(k)' = Charging(k) \ {c}
  BY <1>0, ConsumersAre DEF Charging, Stirs
<1>5. Cardinality(Charging(k)') = IF c \in Charging(k) THEN Cardinality(Charging(k)) - 1 ELSE Cardinality(Charging(k))
  BY <1>2, <1>4, FS_RemoveElement
<1>6. ledger'[k] = IF k = key THEN ledger[k] + 1 ELSE ledger[k]
  BY <1>0 DEF Charges
<1>7. c \in Charging(k) <=> k = key
  BY DEF Charging
<1>8. Due(k)' = Due(k)
  BY <1>2, <1>5, <1>6, <1>7 DEF Due
<1>9. QED
  BY <1>1, <1>3, <1>8

LEMMA MiraOvershootStep == MiraTypeOK /\ MiraTypeOK' /\ OvershootInv /\ SharesFit /\ MiraNext => OvershootInv'
<1> SUFFICES ASSUME MiraTypeOK, MiraTypeOK', OvershootInv, SharesFit, MiraNext PROVE OvershootInv'
  OBVIOUS
<1> USE ConsumersAre
<1>0. \A k \in LedgerKeys : Best(k) \in Nat
  BY MiraTypes
<1>1. ASSUME ledger' = ledger, packs' = packs, topTier' = topTier,
             \A c \in Consumers : worker'[c] = worker[c] \/ worker'[c].pc # "charge"
      PROVE  OvershootInv'
  <2>1. \A k \in LedgerKeys : Best(k)' = Best(k) /\ Charging(k)' \subseteq Charging(k)
    BY <1>1 DEF Best, QuotaOf, Charging
  <2>2. QED
    BY <2>1, <1>0, <1>1, OvershootStays
<1>2. ASSUME ledger' = ledger, packs' = packs, topTier' = topTier, NEW w \in Workers, Stirs(w), worker'[w].pc # "charge"
      PROVE  OvershootInv'
  BY <1>1, <1>2 DEF Stirs
<1>a. ASSUME NEW s \in Searches, SearchLooks(s) PROVE OvershootInv'
  BY <1>a, <1>2, MiraLooks
<1>b. ASSUME NEW s \in Searches, SearchDedups(s) PROVE OvershootInv'
  BY <1>b, <1>2, MiraDedups
<1>c. ASSUME NEW s \in Searches, SearchCreates(s) PROVE OvershootInv'
  BY <1>c, <1>2, MiraCreates
<1>d. ASSUME NEW v \in Reviews, ReviewReads(v) PROVE OvershootInv'
  BY <1>d, <1>2, MiraReviews
<1>e. ASSUME NEW c \in Consumers, ConsumeEntitles(c) PROVE OvershootInv'
  BY <1>e, <1>2, MiraEntitles DEF Leaves
<1>f. ASSUME NEW c \in Consumers, ConsumeChecks(c) PROVE OvershootInv'
  <2>1. CASE Leaves(c)
    BY <1>f, <2>1, <1>2, MiraChecks DEF Leaves
  <2>2. CASE ~Leaves(c)
    <3> DEFINE key == worker[c].key
    <3>1. /\ ~Blocked(key, worker[c].share) /\ Stirs(c) /\ worker'[c].pc = "charge" /\ worker'[c].key = key
          /\ ledger' = ledger /\ packs' = packs /\ topTier' = topTier /\ worker[c].pc = "quota"
      BY <1>f, <2>2, MiraChecks
    <3> SUFFICES ASSUME NEW k \in LedgerKeys
                 PROVE  Due(k)' = 0 \/ Due(k)' <= Best(k)' + Cardinality(Consumers) - 1
      BY DEF OvershootInv
    <3>2. /\ Due(k) = 0 \/ Due(k) <= Best(k) + Cardinality(Consumers) - 1
          /\ Best(k)' = Best(k) /\ ledger[k] \in Nat /\ Best(k) \in Nat
      BY <3>1, DueIsANumber DEF OvershootInv, Best, QuotaOf
    <3>3. Cardinality(Charging(k)') \in Nat /\ Cardinality(Charging(k)') <= Cardinality(Consumers)
      BY ChargingIsFinite DEF Charging
    <3>4. CASE k = key
      <4>1. ledger[k] < QuotaOf(k, worker[c].share)
        <5>1. QuotaOf(k, worker[c].share) \in Nat
          <6>1. worker[c].share \in Nat /\ (k # TRIAL_LEDGER_KEY => packs[k] \in Nat)
            BY MiraTypes DEF WorkerRecs, LedgerKeys, MiraTypeOK
          <6>2. QED
            BY <6>1, MiraBounds DEF QuotaOf
        <5>2. ~(ledger[k] + 0 >= QuotaOf(k, worker[c].share))
          BY <3>1, <3>4 DEF Blocked, Spent
        <5>3. QED
          BY <5>1, <5>2, <3>2
      <4>2. QuotaOf(k, worker[c].share) <= Best(k)
        <5>1. CASE k = TRIAL_LEDGER_KEY
          BY <5>1, MiraBounds DEF Best, QuotaOf
        <5>2. CASE k # TRIAL_LEDGER_KEY
          <6>1. worker[c].share <= topTier[k]
            BY <5>2, <3>1, <3>4 DEF SharesFit
          <6>2. worker[c].share \in Nat /\ packs[k] \in Nat /\ topTier[k] \in Nat
            BY <5>2, MiraTypes DEF WorkerRecs, LedgerKeys, MiraTypeOK
          <6>3. QED
            BY <5>2, <6>1, <6>2 DEF Best, QuotaOf
        <5>3. QED
          BY <5>1, <5>2
      <4>3. QuotaOf(k, worker[c].share) \in Nat
        <5>1. worker[c].share \in Nat /\ (k # TRIAL_LEDGER_KEY => packs[k] \in Nat)
          BY MiraTypes DEF WorkerRecs, LedgerKeys, MiraTypeOK
        <5>2. QED
          BY <5>1, MiraBounds DEF QuotaOf
      <4>4. ledger[k] <= Best(k) - 1
        BY <4>1, <4>2, <4>3, <3>2
      <4>5. QED
        BY <4>4, <3>1, <3>2, <3>3, ConsumersAre DEF Due
    <3>5. CASE k # key
      <4>1. Charging(k)' = Charging(k)
        BY <3>1, <3>5 DEF Charging, Stirs
      <4>2. Due(k)' = Due(k)
        BY <4>1, <3>1 DEF Due
      <4>3. QED
        BY <4>2, <3>2
    <3>6. QED
      BY <3>4, <3>5
  <2>3. QED
    BY <2>1, <2>2
<1>g. ASSUME NEW c \in Consumers, ConsumeCharges(c) PROVE OvershootInv'
  BY <1>g, MiraCharges, OvershootCharge
<1>h. ASSUME NEW c \in Consumers, Promotes(c) PROVE OvershootInv'
  BY <1>h, <1>2, MiraPromotes DEF Leaves
<1>i. ASSUME NEW c \in Consumers, CallThrows(c) PROVE OvershootInv'
  <2>1. Leaves(c) /\ UNCHANGED <<packs, topTier>> /\ (ledger' = ledger \/ (worker[c].pc = "charge" /\ Charges(c)))
    BY <1>i, MiraThrows
  <2>2. QED
    BY <2>1, <1>2, OvershootCharge DEF Leaves
<1>j. ASSUME NEW r \in Rows, Archives(r) PROVE OvershootInv'
  BY <1>j, <1>1 DEF Archives, booksKept, accountKept
<1>k. ASSUME NEW p \in Landings, LandReads(p) PROVE OvershootInv'
  BY <1>k, <1>2, MiraLandReads
<1>l. ASSUME NEW p \in Landings, LandStores(p) PROVE OvershootInv'
  BY <1>l, <1>2, MiraLandStores
<1>m. CASE activateMiraTrial
  BY <1>m, <1>1 DEF activateMiraTrial, booksKept
(* The tier, the month and a pack raise the largest quota or leave it. *)
<1>3. ASSUME ledger' = ledger, worker' = worker,
             \A k \in LedgerKeys : topTier[k] <= topTier'[k] /\ (k # TRIAL_LEDGER_KEY => packs[k] <= packs'[k])
      PROVE  OvershootInv'
  <2>1. ASSUME NEW k \in LedgerKeys PROVE Best(k) <= Best(k)' /\ Charging(k)' = Charging(k)
    <3>1. Charging(k)' = Charging(k)
      BY <1>3 DEF Charging
    <3>2. CASE k = TRIAL_LEDGER_KEY
      BY <3>1, <3>2, MiraBounds DEF Best, QuotaOf
    <3>3. CASE k # TRIAL_LEDGER_KEY
      <4>1. topTier[k] \in Nat /\ topTier'[k] \in Nat /\ packs[k] \in Nat /\ packs'[k] \in Nat
        BY <3>3 DEF LedgerKeys, MiraTypeOK
      <4>2. QED
        BY <3>1, <3>3, <4>1, <1>3 DEF Best, QuotaOf
    <3>4. QED
      BY <3>2, <3>3
  <2>2. QED
    BY <2>1, <1>3, OvershootStays
<1>4. /\ topTier \in [LedgerKeys -> Nat] /\ packs \in [Months -> Nat] /\ month \in Months /\ month \in LedgerKeys
      /\ topTier' \in [LedgerKeys -> Nat] /\ packs' \in [Months -> Nat]
  BY DEF MiraTypeOK, LedgerKeys
<1>5. \A k \in LedgerKeys : topTier[k] <= topTier[k] /\ (k # TRIAL_LEDGER_KEY => packs[k] <= packs[k])
  BY <1>4 DEF LedgerKeys
<1>n. CASE creditMiraPack
  <2>1. /\ packs' = [packs EXCEPT ![month] = @ + 1] /\ UNCHANGED <<worker, ledger, topTier>>
    BY <1>n DEF creditMiraPack, booksKept
  <2>2. \A m \in Months : packs[m] <= packs'[m]
    BY <2>1, <1>4
  <2>3. QED
    BY <2>1, <2>2, <1>3, <1>5 DEF LedgerKeys
<1>o. CASE TierChanges
  <2>1. Holds(month, tier') /\ UNCHANGED <<worker, ledger, packs>> /\ tier' \in Nat
    BY <1>o, MiraTypes DEF TierChanges, booksKept, Tiers
  <2>2. \A k \in LedgerKeys : topTier[k] <= topTier'[k]
    <3>1. PICK t \in Nat : Holds(month, t)
      BY <2>1
    <3>2. QED
      BY <3>1, <1>4, HoldsTier
  <2>3. QED
    BY <2>1, <2>2, <1>3, <1>5
<1>p. CASE MonthTurns
  <2>1. Holds(month', tier) /\ UNCHANGED <<worker, ledger, packs>> /\ tier \in Nat /\ month' \in LedgerKeys
    BY <1>p, MiraTypes DEF MonthTurns, booksKept, Tiers, MiraTypeOK, LedgerKeys
  <2>2. \A k \in LedgerKeys : topTier[k] <= topTier'[k]
    <3>1. PICK m \in LedgerKeys, t \in Nat : Holds(m, t)
      BY <2>1
    <3>2. QED
      BY <3>1, HoldsTier
  <2>3. QED
    BY <2>1, <2>2, <1>3, <1>5
<1>q. QED
  BY <1>a, <1>b, <1>c, <1>d, <1>e, <1>f, <1>g, <1>h, <1>i, <1>j, <1>k, <1>l, <1>m, <1>n, <1>o, <1>p DEF MiraNext
----------------------------------------------------------------------------
(* A tier that was read is no larger than the largest of the month it was  *)
(* read in.                                                                *)
LEMMA MiraSharesStep == MiraTypeOK /\ SharesFit /\ MiraNext => SharesFit'
<1> SUFFICES ASSUME MiraTypeOK, SharesFit, MiraNext PROVE SharesFit'
  OBVIOUS
<1> USE ConsumersAre
<1>0. /\ worker \in [Workers -> WorkerRecs] /\ month \in LedgerKeys /\ tier \in Nat /\ Tiers \subseteq Nat
      /\ topTier \in [LedgerKeys -> Nat]
  BY MiraTypes DEF MiraTypeOK, LedgerKeys, Tiers
<1>1. ASSUME UNCHANGED <<tier, month, topTier>>,
             \A c \in Consumers : worker'[c] = worker[c] \/ worker'[c].pc # "quota"
      PROVE  SharesFit'
  BY <1>1 DEF SharesFit
<1>2. ASSUME UNCHANGED <<tier, month, topTier>>, NEW w \in Workers, Stirs(w), worker'[w].pc # "quota"
      PROVE  SharesFit'
  BY <1>1, <1>2 DEF Stirs
<1>3. ASSUME NEW m \in LedgerKeys, NEW t \in Nat, Holds(m, t), m = month', t = tier', worker' = worker
      PROVE  SharesFit'
  <2>1. t <= topTier'[m] /\ \A k \in LedgerKeys : topTier[k] <= topTier'[k] /\ topTier[k] \in Nat /\ topTier'[k] \in Nat
    BY <1>0, <1>3, HoldsTier
  <2>2. ASSUME NEW c \in Consumers, worker'[c].pc = "quota", worker'[c].key # TRIAL_LEDGER_KEY
        PROVE  worker'[c].share <= topTier'[worker'[c].key]
    <3>1. worker[c].key \in LedgerKeys /\ worker[c].share \in Nat
      BY <1>0 DEF WorkerRecs
    <3>2. worker[c].share <= topTier[worker[c].key]
      BY <1>3, <2>2 DEF SharesFit
    <3>3. QED
      BY <3>1, <3>2, <2>1, <1>3
  <2>3. QED
    BY <2>1, <2>2, <1>3 DEF SharesFit
<1>a. ASSUME NEW s \in Searches, SearchLooks(s) \/ SearchDedups(s) \/ SearchCreates(s) PROVE SharesFit'
  BY <1>a, <1>2, MiraLooks, MiraDedups, MiraCreates
<1>b. ASSUME NEW v \in Reviews, ReviewReads(v) PROVE SharesFit'
  BY <1>b, <1>2, MiraReviews
<1>c. ASSUME NEW c \in Consumers, ConsumeEntitles(c) PROVE SharesFit'
  <2>1. CASE Leaves(c)
    BY <1>c, <2>1, <1>2, MiraEntitles DEF Leaves
  <2>2. CASE ~Leaves(c)
    <3>1. /\ Stirs(c) /\ worker'[c].key = LedgerKey /\ worker'[c].share = tier
          /\ UNCHANGED <<tier, month, topTier>>
      BY <1>c, <2>2, MiraEntitles
    <3>2. worker'[c].key # TRIAL_LEDGER_KEY => worker'[c].share <= topTier[worker'[c].key]
      BY <3>1 DEF LedgerKey, SharesFit
    <3>3. QED
      BY <3>1, <3>2 DEF SharesFit, Stirs
  <2>3. QED
    BY <2>1, <2>2
<1>d. ASSUME NEW c \in Consumers, ConsumeChecks(c) \/ ConsumeCharges(c) \/ Promotes(c) \/ CallThrows(c)
      PROVE SharesFit'
  BY <1>d, <1>2, MiraChecks, MiraCharges, MiraPromotes, MiraThrows DEF Leaves
<1>e. ASSUME NEW r \in Rows, Archives(r) PROVE SharesFit'
  BY <1>e, <1>1 DEF Archives, accountKept
<1>f. ASSUME NEW p \in Landings, LandReads(p) \/ LandStores(p) PROVE SharesFit'
  BY <1>f, <1>2, MiraLandReads, MiraLandStores
<1>g. CASE activateMiraTrial \/ creditMiraPack
  BY <1>g, <1>1 DEF activateMiraTrial, creditMiraPack
<1>h. CASE TierChanges
  <2>1. tier' \in Nat /\ UNCHANGED <<month, worker>> /\ Holds(month, tier')
    BY <1>h, MiraTypes DEF TierChanges, Tiers
  <2>2. QED
    BY <2>1, <1>0, <1>3
<1>i. CASE MonthTurns
  <2>1. month' \in LedgerKeys /\ UNCHANGED <<tier, worker>> /\ Holds(month', tier)
    BY <1>i, MiraBounds DEF MonthTurns, MiraTypeOK, LedgerKeys, Months
  <2>2. QED
    BY <2>1, <1>0, <1>3
<1>j. QED
  BY <1>a, <1>b, <1>c, <1>d, <1>e, <1>f, <1>g, <1>h, <1>i DEF MiraNext
----------------------------------------------------------------------------
(* A business that two were never at work on at once. *)
LEMMA StoredRows ==
    ASSUME NEW l \in Leads
    PROVE  /\ Stored(l) <=> \E r \in Rows : r[2] = l /\ alvo[r] # "none"
           /\ Stored(l)' <=> \E r \in Rows : r[2] = l /\ alvo'[r] # "none"
<1>1. \A s \in Searches : <<s, l>> \in Rows /\ <<s, l>>[2] = l
  BY DEF Rows
<1>2. \A r \in Rows : r[2] = l => \E s \in Searches : r = <<s, l>>
  BY DEF Rows
<1>3. QED
  BY <1>1, <1>2 DEF Stored

(* A step that leaves the rows of a business stored or not, waits for      *)
(* nothing new, and puts nobody to work on it.                             *)
Calm(c, l) ==
    /\ Paying(c)' /\ LeadOf(c)' = l => Paying(c) /\ worker'[c].row = worker[c].row
    /\ Promoting(c)' /\ LeadOf(c)' = l => Promoting(c)
    /\ Promoting(c) /\ LeadOf(c) = l => Promoting(c)' /\ worker'[c].row = worker[c].row
RowsCalm(l) ==
    \A r \in Rows : r[2] = l =>
        /\ alvo'[r] = "none" <=> alvo[r] = "none"
        /\ alvo'[r] = "QUALIFYING" => alvo[r] = "QUALIFYING"
        /\ r \in counted' <=> r \in counted

LEMMA CreatorCalm ==
    ASSUME NEW l \in Leads, OneCreator(l), RowsCalm(l),
           \A s \in Searches : worker'[s].pc = "create" /\ LeadOf(s)' = l
                                => worker[s].pc = "create" /\ LeadOf(s) = l
    PROVE  OneCreator(l)'
<1>1. Stored(l)' <=> Stored(l)
  BY StoredRows DEF RowsCalm
<1>2. QED
  BY <1>1 DEF OneCreator

LEMMA LeadCalm ==
    ASSUME MiraTypeOK, MiraTypeOK', NEW l \in Leads, LeadInv(l), paid'[l] = paid[l], RowsCalm(l),
           OneCreator(l)', \A c \in Consumers : Calm(c, l)
    PROVE  LeadInv(l)'
<1>0. counted \subseteq Rows /\ counted' \subseteq Rows
  BY DEF MiraTypeOK
<1>1. OneRow(l)'
  BY DEF LeadInv, OneRow, RowsCalm
<1>2. OneWorker(l)'
  BY DEF LeadInv, OneWorker, Calm, LeadOf
<1>4. OneCreator(l)'
  OBVIOUS
<1>5. CountedOnce(l)'
  <2>1. \A r \in counted' : r[2] = l => r \in Rows /\ r \in counted
    BY <1>0 DEF RowsCalm
  <2>2. \A c \in Consumers : Paying(c)' /\ LeadOf(c)' = l => Paying(c) /\ LeadOf(c) = l
    BY DEF Calm, LeadOf
  <2>3. QED
    BY <2>1, <2>2 DEF LeadInv, CountedOnce, RowsCalm
<1>6. PaidFor(l)' <=> PaidFor(l)
  <2>1. (\E r \in counted' : r[2] = l) <=> (\E r \in counted : r[2] = l)
    BY <1>0 DEF RowsCalm
  <2>2. \A c \in Consumers : Promoting(c)' /\ LeadOf(c)' = l <=> Promoting(c) /\ LeadOf(c) = l
    <3> SUFFICES ASSUME NEW c \in Consumers
                 PROVE Promoting(c)' /\ LeadOf(c)' = l <=> Promoting(c) /\ LeadOf(c) = l
      OBVIOUS
    <3>1. Promoting(c)' => Paying(c)'
      BY DEF Promoting, Paying
    <3>2. Calm(c, l)
      OBVIOUS
    <3>3. QED
      BY <3>1, <3>2 DEF Calm, LeadOf
  <2>3. QED
    BY <2>1, <2>2 DEF PaidFor
<1>7. Books(l)'
  BY <1>6 DEF LeadInv, Books
<1>8. QED
  BY <1>1, <1>2, <1>4, <1>5, <1>7 DEF LeadInv
LEMMA MiraLeadStep ==
    ASSUME MiraTypeOK, MiraTypeOK', WorkersFit, \A l \in Leads \ raced : LeadInv(l), MiraNext
    PROVE  \A l \in Leads \ raced' : LeadInv(l)'
<1> USE ConsumersAre
<1>0. /\ alvo \in [Rows -> {"none", "QUALIFYING", "READY", "DELIVERED", "ARCHIVED"}]
      /\ counted \subseteq Rows /\ worker \in [Workers -> WorkerRecs] /\ paid \in [Leads -> Nat] /\ raced \subseteq Leads
  BY MiraTypes DEF MiraTypeOK
<1> DEFINE Good == \A l \in Leads \ raced' : LeadInv(l)'
(* Nothing changes but a worker, who takes up no work on a business. *)
<1>1. ASSUME NEW l \in Leads, LeadInv(l), NEW w \in Workers, Stirs(w), paid'[l] = paid[l], RowsCalm(l),
             w \in Consumers => Calm(w, l),
             w \in Searches /\ worker'[w].pc = "create" /\ LeadOf(w)' = l => worker[w].pc = "create" /\ LeadOf(w) = l
      PROVE  LeadInv(l)'
  <2>1. \A c \in Consumers : Calm(c, l)
    BY <1>1 DEF Stirs, Calm, Paying, Promoting, LeadOf
  <2>2. \A s \in Searches : worker'[s].pc = "create" /\ LeadOf(s)' = l => worker[s].pc = "create" /\ LeadOf(s) = l
    BY <1>1 DEF Stirs, LeadOf
  <2>3. OneCreator(l)'
    BY <1>1, <2>2, CreatorCalm DEF LeadInv
  <2>4. QED
    BY <1>1, <2>1, <2>3, LeadCalm
<1>2. ASSUME NEW w \in Workers, worker'[w].pc \notin {"create", "entitle", "quota", "charge", "promote", "last"},
             Stirs(w), raced \subseteq raced', NEW l \in Leads \ raced',
             paid'[l] = paid[l], RowsCalm(l), ~Promoting(w) \/ LeadOf(w) # l
      PROVE  LeadInv(l)'
  <2>1. Calm(w, l)
    BY <1>2 DEF Calm, Paying, Promoting
  <2>2. LeadInv(l) /\ l \in Leads
    BY <1>2
  <2>3. QED
    BY <1>1, <1>2, <2>1, <2>2
<1>3. ASSUME UNCHANGED <<alvo, counted, worker, paid, raced>> PROVE Good
  BY <1>3 DEF LeadInv, OneRow, OneWorker, OneCreator, CountedOnce, Books, PaidFor, Paying, Promoting, LeadOf, Stored
<1>4. ASSUME UNCHANGED <<alvo, counted>> PROVE \A l \in Leads : RowsCalm(l)
  BY <1>4 DEF RowsCalm
<1>a. ASSUME NEW s \in Searches, SearchLooks(s) PROVE Good
  <2>1. /\ s \in Workers /\ Stirs(s) /\ UNCHANGED <<alvo, counted, paid>> /\ raced' = raced
        /\ worker'[s].pc \in {"dedup", "over"} /\ worker[s].pc = "idle"
    BY <1>a, MiraLooks DEF SearchLooks, Stands
  <2>2. QED
    BY <2>1, <1>2, <1>4 DEF Promoting
<1>b. ASSUME NEW s \in Searches, SearchDedups(s) PROVE Good
  <2>1. /\ s \in Workers /\ s \in Consumers /\ Stirs(s) /\ UNCHANGED <<alvo, counted, paid>> /\ worker[s].pc = "dedup"
        /\ raced \subseteq raced' /\ worker'[s].pc \in {"idle", "create"}
    BY <1>b, MiraDedups
  <2> SUFFICES ASSUME NEW l \in Leads \ raced' PROVE LeadInv(l)'
    OBVIOUS
  <2>2. LeadInv(l) /\ l \in Leads /\ RowsCalm(l) /\ paid'[l] = paid[l]
    BY <2>1, <1>4
  <2>3. \A c \in Consumers : Calm(c, l)
    BY <2>1 DEF Calm, Stirs, Paying, Promoting, LeadOf
  <2>4. CASE ~(worker'[s].pc = "create" /\ LeadOf(s)' = l)
    BY <2>1, <2>2, <2>3, <2>4, <1>1
  <2>5. CASE worker'[s].pc = "create" /\ LeadOf(s)' = l
    <3>1. /\ LeadOf(s) = l /\ ~Stored(l)
          /\ l \in Places => \A o \in Searches : worker[o].pc = "create" => LeadOf(o) # l
      BY <1>b, <2>5, MiraDedups DEF LeadOf, Stands
    <3>2. \A c \in Searches : worker'[c].pc = "create" /\ LeadOf(c)' = l => (worker[c].pc = "create" /\ LeadOf(c) = l) \/ c = s
      BY <2>1 DEF Stirs, LeadOf
    <3>3. ~Stored(l)'
      BY <2>1, <3>1 DEF Stored
    <3>4. OneCreator(l)'
      BY <3>1, <3>2, <3>3 DEF OneCreator
    <3>5. QED
      BY <3>4, <2>2, <2>3, LeadCalm
  <2>6. QED
    BY <2>4, <2>5
<1>c. ASSUME NEW s \in Searches, SearchCreates(s) PROVE Good
  <2>1. /\ s \in Workers /\ s \in Consumers /\ Stirs(s) /\ UNCHANGED <<counted, paid, raced>> /\ worker[s].pc = "create"
        /\ worker[s].row \in Rows /\ ~Promoting(s) /\ ~Paying(s)
    BY <1>c, MiraCreates DEF WorkersFit, Promoting, Paying
  <2> SUFFICES ASSUME NEW l \in Leads \ raced' PROVE LeadInv(l)'
    OBVIOUS
  <2>2. LeadInv(l) /\ l \in Leads /\ paid'[l] = paid[l]
    BY <2>1
  <2>3. CASE alvo' = alvo /\ worker'[s].pc = "idle"
    BY <2>1, <2>2, <2>3, <1>2, <1>4
  <2>4. CASE ~(alvo' = alvo /\ worker'[s].pc = "idle")
    <3>1. /\ LeadOf(s) \in Places \/ ~Stored(LeadOf(s))
          /\ alvo' = [alvo EXCEPT ![worker[s].row] = "QUALIFYING"]
          /\ worker'[s].pc \in {"entitle", "idle"}
          /\ worker'[s].pc = "entitle" => worker'[s].row = worker[s].row
      BY <1>c, <2>4, MiraCreates
    <3>2. CASE LeadOf(s) # l
      <4>1. RowsCalm(l)
        BY <2>1, <3>1, <3>2, <1>0 DEF RowsCalm, LeadOf
      <4>2. Calm(s, l)
        BY <2>1, <3>1, <3>2 DEF Calm, Paying, Promoting, LeadOf
      <4>3. QED
        BY <4>1, <4>2, <2>1, <2>2, <3>1, <1>1
    <3>3. CASE LeadOf(s) = l
      <4>1. ~Stored(l) /\ \A o \in Searches : l \in Places /\ worker[o].pc = "create" /\ LeadOf(o) = l => o = s
        BY <2>1, <2>2, <3>1, <3>3 DEF LeadInv, OneCreator
      <4>2. /\ \A r \in Rows : r[2] = l => alvo[r] = "none" /\ r \notin counted
            /\ \A r \in Rows : r[2] = l /\ alvo'[r] # "none" => r = worker[s].row
        <5>1. \A r \in Rows : r[2] = l => alvo[r] = "none"
          BY <4>1, StoredRows
        <5>2. QED
          BY <5>1, <3>1, <2>1, <2>2, <1>0 DEF LeadInv, CountedOnce
      <4>3. \A c \in Consumers : Paying(c) => LeadOf(c) # l
        BY <4>2 DEF WorkersFit, LeadOf
      <4>4. \A c \in Consumers : Paying(c)' /\ LeadOf(c)' = l => c = s /\ ~Promoting(c)'
        BY <4>3, <2>1, <3>1 DEF Stirs, Paying, Promoting, LeadOf
      <4>5. OneRow(l)' /\ OneWorker(l)'
        BY <4>2, <4>4 DEF OneRow, OneWorker
      <4>6. OneCreator(l)'
        BY <4>1, <2>1, <3>1 DEF OneCreator, Stirs, LeadOf
      <4>7. CountedOnce(l)'
        BY <4>2, <2>1, <1>0 DEF CountedOnce
      <4>8. ~PaidFor(l)' /\ ~PaidFor(l)
        BY <4>2, <4>3, <4>4, <2>1, <1>0 DEF PaidFor, Promoting, Paying
      <4>9. Books(l)'
        BY <4>8, <2>2 DEF Books, LeadInv
      <4>10. QED
        BY <4>5, <4>6, <4>7, <4>9 DEF LeadInv
    <3>4. QED
      BY <3>2, <3>3
  <2>5. QED
    BY <2>3, <2>4
<1>d. ASSUME NEW v \in Reviews, ReviewReads(v) PROVE Good
  <2> DEFINE row == worker'[v].row
  <2>1. /\ v \in Workers /\ v \in Consumers /\ Stirs(v) /\ UNCHANGED <<alvo, counted, paid>>
        /\ worker[v].pc = "idle" /\ worker'[v].pc = "entitle" /\ row \in Rows /\ alvo[row] = "QUALIFYING"
        /\ raced' = IF AtWorkOn(row) # {} THEN raced \cup {row[2]} ELSE raced
    BY <1>d, MiraReviews
  <2> SUFFICES ASSUME NEW l \in Leads \ raced' PROVE LeadInv(l)'
    OBVIOUS
  <2>2. LeadInv(l) /\ l \in Leads /\ paid'[l] = paid[l] /\ RowsCalm(l) /\ raced \subseteq raced'
    BY <2>1, <1>4
  <2>3. CASE row[2] # l
    <3>1. Calm(v, l)
      BY <2>1, <2>3 DEF Calm, Paying, Promoting, LeadOf
    <3>2. QED
      BY <3>1, <2>1, <2>2, <1>1
  <2>4. CASE row[2] = l
    <3>1. AtWorkOn(row) = {}
      BY <2>1, <2>4
    <3>2. \A c \in Consumers : Paying(c) => LeadOf(c) # l
      <4> SUFFICES ASSUME NEW c \in Consumers, Paying(c), LeadOf(c) = l PROVE FALSE
        OBVIOUS
      <4>1. worker[c].row \in Rows /\ alvo[worker[c].row] # "none" /\ worker[c].row[2] = l
        BY DEF WorkersFit, LeadOf
      <4>2. worker[c].row = row
        BY <4>1, <2>1, <2>2, <2>4 DEF LeadInv, OneRow
      <4>3. c \in AtWorkOn(row)
        BY <4>2 DEF AtWorkOn, Paying
      <4>4. QED
        BY <4>3, <3>1
    <3>3. \A r \in counted : r[2] # l
      BY <2>1, <2>2, <2>4, <1>0 DEF LeadInv, CountedOnce, OneRow
    <3>4. \A c \in Consumers : Paying(c)' /\ LeadOf(c)' = l => c = v /\ ~Promoting(c)'
      BY <3>2, <2>1 DEF Stirs, Paying, Promoting, LeadOf
    <3>5. OneRow(l)' /\ OneWorker(l)' /\ CountedOnce(l)'
      BY <3>3, <3>4, <2>1, <2>2 DEF LeadInv, OneRow, OneWorker, CountedOnce
    <3>6. OneCreator(l)'
      BY <2>1, <2>2 DEF LeadInv, OneCreator, Stirs, LeadOf, Stored
    <3>7. ~PaidFor(l)' /\ ~PaidFor(l)
      BY <3>2, <3>3, <3>4, <2>1 DEF PaidFor, Promoting, Paying
    <3>8. QED
      BY <3>5, <3>6, <3>7, <2>2 DEF LeadInv, Books
  <2>5. QED
    BY <2>3, <2>4
<1>e. ASSUME NEW c \in Consumers, ConsumeEntitles(c) PROVE Good
  <2>1. /\ c \in Workers /\ Stirs(c) /\ UNCHANGED <<alvo, counted, paid, raced>> /\ worker[c].pc = "entitle"
        /\ Leaves(c) \/ (worker'[c].pc = "quota" /\ worker'[c].row = worker[c].row)
    BY <1>e, MiraEntitles DEF Leaves
  <2>2. \A l \in Leads : Calm(c, l)
    BY <2>1 DEF Leaves, Calm, Paying, Promoting
  <2>3. worker'[c].pc # "create"
    BY <2>1 DEF Leaves
  <2>4. QED
    BY <2>1, <2>2, <2>3, <1>1, <1>4
<1>f. ASSUME NEW c \in Consumers, ConsumeChecks(c) PROVE Good
  <2>1. /\ c \in Workers /\ Stirs(c) /\ UNCHANGED <<alvo, counted, paid, raced>> /\ worker[c].pc = "quota"
        /\ Leaves(c) \/ (worker'[c].pc = "charge" /\ worker'[c].row = worker[c].row)
    BY <1>f, MiraChecks DEF Leaves
  <2>2. \A l \in Leads : Calm(c, l)
    BY <2>1 DEF Leaves, Calm, Paying, Promoting
  <2>3. worker'[c].pc # "create"
    BY <2>1 DEF Leaves
  <2>4. QED
    BY <2>1, <2>2, <2>3, <1>1, <1>4
<1>g. ASSUME NEW c \in Consumers, ConsumeCharges(c) PROVE Good
  <2>1. /\ c \in Workers /\ Stirs(c) /\ UNCHANGED <<alvo, counted, raced>> /\ worker[c].pc = "charge"
        /\ worker'[c].pc \in {"promote", "last"} /\ worker'[c].row = worker[c].row
        /\ paid' = [paid EXCEPT ![LeadOf(c)] = @ + 1]
    BY <1>g, MiraCharges DEF Charges
  <2> SUFFICES ASSUME NEW l \in Leads \ raced' PROVE LeadInv(l)'
    OBVIOUS
  <2>2. LeadInv(l) /\ l \in Leads /\ RowsCalm(l)
    BY <2>1, <1>4
  <2>3. CASE LeadOf(c) # l
    <3>1. Calm(c, l) /\ paid'[l] = paid[l]
      BY <2>1, <2>3, <1>0 DEF Calm, Paying, Promoting, LeadOf
    <3>2. QED
      BY <3>1, <2>1, <2>2, <1>1
  <2>4. CASE LeadOf(c) = l
    <3>1. \A d \in Consumers : Paying(d) /\ LeadOf(d) = l => d = c
      BY <2>1, <2>2, <2>4 DEF LeadInv, OneWorker, Paying
    <3>2. \A r \in counted : r[2] # l
      BY <2>1, <2>2, <2>4 DEF LeadInv, CountedOnce, Paying
    <3>3. ~PaidFor(l) /\ paid[l] = 0 /\ paid'[l] = 1
      <4>1. ~PaidFor(l)
        BY <3>1, <3>2, <2>1 DEF PaidFor, Promoting, Paying
      <4>2. QED
        BY <4>1, <2>1, <2>2, <2>4, <1>0 DEF LeadInv, Books
    <3>4. PaidFor(l)'
      BY <2>1, <2>4 DEF PaidFor, Promoting, LeadOf
    <3>5. \A d \in Consumers : Paying(d)' /\ LeadOf(d)' = l => d = c
      BY <3>1, <2>1 DEF Stirs, Paying, LeadOf
    <3>6. OneRow(l)' /\ OneWorker(l)' /\ CountedOnce(l)'
      BY <3>2, <3>5, <2>1, <2>2 DEF LeadInv, OneRow, OneWorker, CountedOnce
    <3>7. OneCreator(l)'
      BY <2>1, <2>2 DEF LeadInv, OneCreator, Stirs, LeadOf, Stored
    <3>8. QED
      BY <3>3, <3>4, <3>6, <3>7 DEF LeadInv, Books
  <2>5. QED
    BY <2>3, <2>4
<1>h. ASSUME NEW c \in Consumers, Promotes(c) PROVE Good
  <2> DEFINE row == worker[c].row
  <2>1. /\ c \in Workers /\ Stirs(c) /\ UNCHANGED <<paid, raced>> /\ Promoting(c) /\ Paying(c)
        /\ worker'[c].pc \in {"idle", "over"} /\ row \in Rows /\ alvo[row] # "none"
        /\ alvo' = [alvo EXCEPT ![row] = "READY"] /\ counted' = counted \cup {row}
    BY <1>h, MiraPromotes DEF Leaves, Promoting, Paying, WorkersFit
  <2> SUFFICES ASSUME NEW l \in Leads \ raced' PROVE LeadInv(l)'
    OBVIOUS
  <2>2. LeadInv(l) /\ l \in Leads /\ paid'[l] = paid[l]
    BY <2>1
  <2>3. CASE LeadOf(c) # l
    <3>1. RowsCalm(l)
      BY <2>1, <2>3, <1>0 DEF RowsCalm, LeadOf
    <3>2. QED
      BY <3>1, <2>1, <2>2, <2>3, <1>2
  <2>4. CASE LeadOf(c) = l
    <3>1. \A d \in Consumers : Paying(d) /\ LeadOf(d) = l => d = c
      BY <2>1, <2>2, <2>4 DEF LeadInv, OneWorker
    <3>2. \A d \in Consumers : Paying(d)' => LeadOf(d)' # l
      BY <3>1, <2>1 DEF Stirs, Paying, LeadOf
    <3>3. \A r \in Rows : /\ alvo'[r] # "none" <=> alvo[r] # "none"
                          /\ r # row => alvo'[r] = alvo[r]
                          /\ alvo'[row] = "READY"
      BY <2>1, <1>0
    <3>4. OneRow(l)' /\ OneWorker(l)' /\ CountedOnce(l)'
      <4>1. OneRow(l)' /\ OneWorker(l)'
        BY <3>2, <3>3, <2>2 DEF LeadInv, OneRow, OneWorker
      <4>2. \A r \in counted' : r[2] = l => alvo'[r] \notin {"none", "QUALIFYING"}
        BY <3>3, <2>1, <2>2, <1>0 DEF LeadInv, CountedOnce
      <4>3. QED
        BY <3>2, <4>1, <4>2 DEF CountedOnce
    <3>5. Stored(l)' <=> Stored(l)
      BY <3>3, StoredRows
    <3>6. OneCreator(l)'
      BY <3>5, <2>1, <2>2 DEF LeadInv, OneCreator, Stirs, LeadOf
    <3>7. PaidFor(l) /\ PaidFor(l)'
      BY <2>1, <2>4 DEF PaidFor, LeadOf
    <3>8. QED
      BY <3>4, <3>6, <3>7, <2>2 DEF LeadInv, Books
  <2>5. QED
    BY <2>3, <2>4
<1>i. ASSUME NEW c \in Consumers, CallThrows(c) PROVE Good
  <2>1. /\ c \in Workers /\ Stirs(c) /\ worker'[c].pc \in {"idle", "over"} /\ UNCHANGED <<alvo, counted>>
        /\ \/ Charges(c) /\ raced' = raced \cup {LeadOf(c)}
           \/ paid' = paid /\ raced' = raced \cup {LeadOf(c)}
           \/ ~Promoting(c) /\ paid' = paid /\ raced' = raced
    BY <1>i, MiraThrows DEF Leaves
  <2> SUFFICES ASSUME NEW l \in Leads \ raced' PROVE LeadInv(l)'
    OBVIOUS
  <2>2. raced \subseteq raced' /\ (~Promoting(c) \/ LeadOf(c) # l) /\ RowsCalm(l) /\ l \in Leads
    BY <2>1, <1>4
  <2>3. paid'[l] = paid[l]
    BY <2>1, <1>0 DEF Charges
  <2>4. QED
    BY <2>1, <2>2, <2>3, <1>2
<1>j. ASSUME NEW r \in Rows, Archives(r) PROVE Good
  <2>1. /\ alvo[r] # "none" /\ alvo' = [alvo EXCEPT ![r] = "ARCHIVED"]
        /\ UNCHANGED <<counted, worker, paid, raced>>
    BY <1>j DEF Archives, booksKept
  <2> SUFFICES ASSUME NEW l \in Leads \ raced' PROVE LeadInv(l)'
    OBVIOUS
  <2>2. RowsCalm(l) /\ LeadInv(l) /\ paid'[l] = paid[l] /\ \A c \in Consumers : Calm(c, l)
    BY <2>1, <1>0 DEF RowsCalm, Calm, Paying, Promoting, LeadOf
  <2>3. OneCreator(l)'
    BY <2>1, <2>2, CreatorCalm DEF LeadInv, LeadOf
  <2>4. QED
    BY <2>2, <2>3, LeadCalm
<1>k. ASSUME NEW p \in Landings, LandReads(p) PROVE Good
  <2>1. /\ p \in Workers /\ Stirs(p) /\ worker'[p].pc = "land" /\ UNCHANGED <<alvo, counted, paid, raced>>
        /\ worker[p].pc = "idle"
    BY <1>k, MiraLandReads DEF LandReads, Stands
  <2>2. QED
    BY <2>1, <1>2, <1>4 DEF Promoting
<1>l. ASSUME NEW p \in Landings, LandStores(p) PROVE Good
  <2>1. /\ p \in Workers /\ Stirs(p) /\ worker'[p].pc = "idle" /\ worker[p].pc = "land"
        /\ alvo' = [alvo EXCEPT ![worker[p].row] = "DELIVERED"] /\ UNCHANGED <<counted, paid, raced>>
        /\ worker[p].row \in Rows /\ alvo[worker[p].row] # "none"
    BY <1>l, MiraLandStores DEF WorkersFit
  <2>2. \A l \in Leads : RowsCalm(l)
    BY <2>1, <1>0 DEF RowsCalm
  <2>3. QED
    BY <2>1, <2>2, <1>2 DEF Promoting
<1>m. CASE activateMiraTrial \/ TierChanges \/ creditMiraPack \/ MonthTurns
  BY <1>m, <1>3 DEF activateMiraTrial, TierChanges, creditMiraPack, MonthTurns, rowsKept, booksKept
<1>n. QED
  BY <1>a, <1>b, <1>c, <1>d, <1>e, <1>f, <1>g, <1>h, <1>i, <1>j, <1>k, <1>l, <1>m DEF MiraNext
----------------------------------------------------------------------------
(* The invariant holds, and what it says of the quota and of a business.   *)
LEMMA MiraInitInv == MiraInit => MiraInv
<1> SUFFICES ASSUME MiraInit PROVE MiraInv
  OBVIOUS
<1>1. /\ worker = [w \in Workers |-> Waiting] /\ Waiting.pc = "idle" /\ Waiting \in WorkerRecs
      /\ Consumers \subseteq Workers /\ Landings \subseteq Workers /\ Searches \subseteq Workers
  BY MiraTypes DEF MiraInit, Workers, Consumers
<1>2. \A w \in Workers : worker[w].pc = "idle"
  BY <1>1
<1>3. MiraTypeOK
  <2>1. worker \in [Consumers \cup Landings -> [pc : WorkerPCs, row : Rows \cup {NoRow}, key : LedgerKeys, share : Tiers]]
    BY <1>1 DEF Workers, WorkerRecs
  <2>2. month \in Months
    BY MiraBounds DEF MiraInit, Months
  <2>3. topTier \in [LedgerKeys -> Nat]
    BY <2>2, MiraTypes DEF MiraInit, Tiers, NoTier
  <2>4. QED
    BY <2>1, <2>2, <2>3 DEF MiraInit, MiraTypeOK, WorkerPCs, Tiers
<1>4. OvershootInv
  <2> SUFFICES ASSUME NEW k \in LedgerKeys PROVE Due(k) = 0
    BY DEF OvershootInv
  <2>1. ledger[k] = 0
    BY DEF MiraInit
  <2>2. Cardinality(Charging(k)) = 0
    BY <1>1, <1>2, FS_EmptySet DEF Charging
  <2>3. QED
    BY <2>1, <2>2 DEF Due
<1>8. SharesFit
  <2>1. topTier[month] = tier /\ tier \in Nat
    BY <1>3, MiraTypes DEF MiraInit, MiraTypeOK, LedgerKeys, Tiers
  <2>2. QED
    BY <1>1, <1>2, <2>1, ConsumersAre DEF SharesFit
<1>5. WorkersFit
  BY <1>1, <1>2, ConsumersAre DEF WorkersFit, Paying
<1>6. ASSUME NEW l \in Leads PROVE LeadInv(l)
  <2>1. ~PaidFor(l) /\ paid[l] = 0
    BY <1>1, <1>2 DEF MiraInit, PaidFor, Promoting
  <2>2. OneRow(l) /\ OneWorker(l) /\ OneCreator(l) /\ CountedOnce(l)
    BY <1>1, <1>2 DEF MiraInit, OneRow, OneWorker, OneCreator, CountedOnce, Paying
  <2>3. QED
    BY <2>1, <2>2 DEF LeadInv, Books
<1>7. QED
  BY <1>3, <1>4, <1>5, <1>6, <1>8 DEF MiraInv

LEMMA MiraStepInv == MiraInv /\ [MiraNext]_miraVars => MiraInv'
<1>1. ASSUME MiraInv, MiraNext PROVE MiraInv'
  <2>1. MiraTypeOK /\ OvershootInv /\ SharesFit /\ WorkersFit /\ \A l \in Leads \ raced : LeadInv(l)
    BY <1>1 DEF MiraInv
  <2>2. MiraTypeOK'
    BY <1>1, <2>1, MiraTypeStep
  <2>3. OvershootInv'
    BY <1>1, <2>1, <2>2, MiraOvershootStep
  <2>4. WorkersFit'
    BY <1>1, <2>1, MiraFitStep
  <2>5. \A l \in Leads \ raced' : LeadInv(l)'
    BY <1>1, <2>1, <2>2, MiraLeadStep
  <2>6. SharesFit'
    BY <1>1, <2>1, MiraSharesStep
  <2>7. QED
    BY <2>2, <2>3, <2>4, <2>5, <2>6 DEF MiraInv
<1>2. ASSUME MiraInv, UNCHANGED miraVars PROVE MiraInv'
  <2>1. MiraTypeOK /\ OvershootInv /\ SharesFit /\ WorkersFit /\ \A l \in Leads \ raced : LeadInv(l)
    BY <1>2 DEF MiraInv
  <2>2. MiraTypeOK'
    BY <1>2, <2>1 DEF miraVars, MiraTypeOK
  <2>3. OvershootInv'
    BY <1>2, <2>1 DEF miraVars, OvershootInv, Due, Charging, Best, QuotaOf
  <2>4. WorkersFit'
    BY <1>2, <2>1 DEF miraVars, WorkersFit, Paying
  <2>5. \A l \in Leads \ raced' : LeadInv(l)'
    BY <1>2, <2>1
       DEF miraVars, LeadInv, OneRow, OneWorker, OneCreator, CountedOnce, Books, PaidFor, Paying, Promoting, LeadOf, Stored
  <2>6. SharesFit'
    BY <1>2, <2>1 DEF miraVars, SharesFit
  <2>7. QED
    BY <2>2, <2>3, <2>4, <2>5, <2>6 DEF MiraInv
<1>3. QED
  BY <1>1, <1>2

(* Every reachable state of the searches, re-evaluations and deliveries    *)
(* satisfies the inductive invariant.                                      *)
THEOREM MiraInvariance == MiraSpec => []MiraInv
<1>1. MiraInit => MiraInv
  BY MiraInitInv
<1>2. MiraInv /\ [MiraNext]_miraVars => MiraInv'
  BY MiraStepInv
<1>3. QED
  BY <1>1, <1>2, PTL DEF MiraSpec

(* The variables of the quota module keep their types.                     *)
THEOREM MiraTypeCorrectness == MiraSpec => []MiraTypeOK
<1>1. MiraInv => MiraTypeOK
  BY DEF MiraInv
<1>2. QED
  BY <1>1, MiraInvariance, PTL

(* However many requests consume at once, a ledger is never more than      *)
(* their number less one over the largest quota it had (consumeMiraQuota). *)
THEOREM QuotasAreHeld == MiraSpec => []OvershootIsBounded
<1>1. ASSUME MiraInv PROVE OvershootIsBounded
  <2> SUFFICES ASSUME NEW k \in LedgerKeys
               PROVE  ledger[k] = 0 \/ ledger[k] <= Best(k) + Cardinality(Consumers) - 1
    BY DEF OvershootIsBounded, Best
  <2>1. Due(k) = 0 \/ Due(k) <= Best(k) + Cardinality(Consumers) - 1
    BY <1>1 DEF MiraInv, OvershootInv
  <2>2. /\ Due(k) = ledger[k] + Cardinality(Charging(k)) /\ Cardinality(Charging(k)) \in Nat
        /\ ledger[k] \in Nat /\ Best(k) \in Nat /\ Cardinality(Consumers) \in Nat
    BY <1>1, DueIsANumber DEF MiraInv, Due
  <2>3. QED
    BY <2>1, <2>2
<1>2. QED
  BY <1>1, MiraInvariance, PTL

(* A business two were never at work on at once, and for which no charge   *)
(* or promotion threw, costs at most one unit, and exactly one if its row  *)
(* is counted or being promoted (criarEAvaliar, reavaliarAlvo).            *)
THEOREM LeadsArePaidOnce == MiraSpec => []LeadIsPaidOnceAlone
<1>1. ASSUME MiraInv PROVE LeadIsPaidOnceAlone
  <2> SUFFICES ASSUME NEW l \in Leads \ raced
               PROVE  LET Rowed == {r \in counted : r[2] = l}
                          Owed == {c \in Consumers : Promoting(c) /\ LeadOf(c) = l}
                      IN  paid[l] <= 1 /\ paid[l] = Cardinality(Rowed) + Cardinality(Owed)
    BY DEF LeadIsPaidOnceAlone
  <2> DEFINE Rowed == {r \in counted : r[2] = l}
             Owed == {c \in Consumers : Promoting(c) /\ LeadOf(c) = l}
  <2>1. LeadInv(l) /\ counted \subseteq Rows /\ \A c \in Consumers : Promoting(c) => Paying(c)
    BY <1>1 DEF MiraInv, MiraTypeOK, Promoting, Paying
  <2>2. Rowed = {} \/ \E r \in Rowed : Rowed = {r}
    <3>1. \A q, r \in Rowed : q = r
      BY <2>1 DEF LeadInv, OneRow, CountedOnce
    <3>2. QED
      BY <3>1
  <2>3. Owed = {} \/ \E c \in Owed : Owed = {c}
    <3>1. \A c, d \in Owed : c = d
      BY <2>1 DEF LeadInv, OneWorker
    <3>2. QED
      BY <3>1
  <2>4. Rowed = {} \/ Owed = {}
    BY <2>1 DEF LeadInv, CountedOnce
  <2>5. /\ Cardinality(Rowed) = IF Rowed = {} THEN 0 ELSE 1
        /\ Cardinality(Owed) = IF Owed = {} THEN 0 ELSE 1
    BY <2>2, <2>3, FS_EmptySet, FS_Singleton
  <2>6. paid[l] = IF Rowed = {} /\ Owed = {} THEN 0 ELSE 1
    BY <2>1 DEF LeadInv, Books, PaidFor
  <2>7. QED
    BY <2>4, <2>5, <2>6
<1>2. QED
  BY <1>1, MiraInvariance, PTL

----------------------------------------------------------------------------
(***************************************************************************)
(* AuditChain: the chain of hashes verifies for any transactions and       *)
(* anonymisations.                                                         *)
(***************************************************************************)
(* What the hash column of the newest row was when a row was inserted: a   *)
(* row that is chained follows the one just before it, and rows without a  *)
(* hash come only before all the others, and so do anonymised rows.        *)
Links(t) ==
    /\ \A i, j \in DOMAIN t : i < j /\ t[j].anon => t[i].anon
    /\ \A i, j \in DOMAIN t : i < j /\ t[i].hashed => t[j].hashed
    /\ \A i \in DOMAIN t : t[i].hashed => t[i].prev = IF i > 1 /\ t[i - 1].hashed THEN i - 1 ELSE 0

(* A transaction whose snapshot is still the trail has read its newest     *)
(* hash: it is the only kind that commits.                                 *)
Snapshots ==
    \A r \in AuditReqs : auditor[r].pc = "insert" =>
        /\ auditor[r].saw <= Len(trail)
        /\ auditor[r].saw = Len(trail) => auditor[r].last = LastHash

ChainInv == AuditTypeOK /\ Links(trail) /\ Snapshots

TrailRows == [prev : Nat, hashed : BOOLEAN, anon : BOOLEAN]

LEMMA LastHashOf ==
    ASSUME AuditTypeOK
    PROVE  /\ LastHash = IF Len(trail) > 0 /\ trail[Len(trail)].hashed THEN Len(trail) ELSE 0
           /\ LastHash \in Nat
<1>1. trail \in Seq(TrailRows) /\ Len(trail) \in Nat /\ (trail = <<>> <=> Len(trail) = 0)
  BY DEF AuditTypeOK, TrailRows
<1>2. trail # <<>> => Last(trail) = trail[Len(trail)]
  BY DEF Last
<1>3. QED
  BY <1>1, <1>2 DEF LastHash

(* A row that was chained to the newest hash keeps the trail linked.       *)
LEMMA AppendLinks ==
    ASSUME NEW t \in Seq(TrailRows), Links(t),
           NEW n \in Nat, n = IF Len(t) > 0 /\ t[Len(t)].hashed THEN Len(t) ELSE 0
    PROVE  Append(t, Row(n, TRUE)) \in Seq(TrailRows) /\ Links(Append(t, Row(n, TRUE)))
<1> DEFINE u == Append(t, Row(n, TRUE))
<1>1. Row(n, TRUE) \in TrailRows /\ Row(n, TRUE).hashed /\ Row(n, TRUE).prev = n /\ ~Row(n, TRUE).anon
  BY DEF Row, TrailRows
<1>2. /\ u \in Seq(TrailRows) /\ u[Len(t) + 1] = Row(n, TRUE)
      /\ \A i \in 1..Len(t) : u[i] = t[i]
      /\ Len(t) \in Nat /\ DOMAIN t = 1..Len(t) /\ DOMAIN u = 1..(Len(t) + 1)
  <2>1. u \in Seq(TrailRows) /\ Len(u) = Len(t) + 1 /\ u[Len(t) + 1] = Row(n, TRUE)
    <3> HIDE DEF TrailRows, Row
    <3>1. Row(n, TRUE) \in TrailRows
      BY <1>1
    <3>2. QED
      BY <3>1, AppendProperties, ZenonT(30)
  <2>2. \A i \in 1..Len(t) : u[i] = t[i]
    BY <1>1, AppendProperties
  <2>3. DOMAIN u = 1..Len(u) /\ DOMAIN t = 1..Len(t) /\ Len(t) \in Nat
    BY <2>1, LenProperties
  <2>4. QED
    BY <2>1, <2>2, <2>3
<1> DEFINE m == Len(t)
<1> HIDE DEF u, m
<1>0. /\ m \in Nat /\ DOMAIN t = 1..m /\ DOMAIN u = 1..(m + 1)
      /\ u[m + 1].hashed /\ ~u[m + 1].anon /\ u[m + 1].prev = n /\ \A i \in 1..m : u[i] = t[i]
      /\ n = IF m > 0 /\ t[m].hashed THEN m ELSE 0
  BY <1>1, <1>2 DEF m
<1>3. ASSUME NEW i \in 1..(m + 1), NEW j \in 1..(m + 1), i < j, u[i].hashed PROVE u[j].hashed
  <2>1. CASE j = m + 1
    BY <2>1, <1>0
  <2>2. CASE j # m + 1
    <3>1. i \in 1..m /\ j \in 1..m
      BY <2>2, <1>0, <1>3
    <3>2. QED
      BY <3>1, <1>0, <1>3 DEF Links
  <2>3. QED
    BY <2>1, <2>2
<1>4. ASSUME NEW i \in 1..(m + 1), u[i].hashed
      PROVE  u[i].prev = IF i > 1 /\ u[i - 1].hashed THEN i - 1 ELSE 0
  <2>1. CASE i = m + 1
    <3>1. i > 1 <=> m > 0
      BY <2>1, <1>0
    <3>2. m > 0 => u[i - 1] = t[m] /\ i - 1 = m
      <4>1. i - 1 = m /\ (m > 0 => m \in 1..m)
        BY <2>1, <1>0
      <4>2. QED
        BY <4>1, <1>0
    <3>3. QED
      BY <3>1, <3>2, <2>1, <1>0
  <2>2. CASE i # m + 1
    <3>1. i \in 1..m /\ (i > 1 => i - 1 \in 1..m)
      BY <2>2, <1>0
    <3>2. QED
      BY <3>1, <1>0, <1>4 DEF Links
  <2>3. QED
    BY <2>1, <2>2
<1>5. ASSUME NEW i \in 1..(m + 1), NEW j \in 1..(m + 1), i < j, u[j].anon PROVE u[i].anon
  <2>1. j # m + 1
    BY <1>0, <1>5
  <2>2. i \in 1..m /\ j \in 1..m
    BY <2>1, <1>0, <1>5
  <2>3. QED
    BY <2>2, <1>0, <1>5 DEF Links
<1>6. Links(u)
  BY <1>0, <1>3, <1>4, <1>5 DEF Links
<1>7. QED
  BY <1>2, <1>6 DEF u

LEMMA ChainInit == AuditInit => ChainInv
<1> SUFFICES ASSUME AuditInit PROVE ChainInv
  OBVIOUS
<1>1. PICK n \in 0..MaxLegacy : trail = [i \in 1..n |-> Row(0, FALSE)]
  BY DEF AuditInit
<1>2. n \in Nat
  BY AuditAssumption
<1>3. Row(0, FALSE) \in TrailRows /\ ~Row(0, FALSE).hashed /\ ~Row(0, FALSE).anon
  BY DEF Row, TrailRows
<1>4. trail \in Seq(TrailRows) /\ \A i \in DOMAIN trail : ~trail[i].hashed /\ ~trail[i].anon
  <2>1. trail \in [1..n -> TrailRows] /\ \A i \in 1..n : ~trail[i].hashed /\ ~trail[i].anon
    BY <1>1, <1>3
  <2>2. QED
    BY <2>1, <1>2
<1>5. Links(trail)
  BY <1>4 DEF Links
<1>6. AuditTypeOK /\ Snapshots
  BY <1>4 DEF AuditInit, AuditTypeOK, Snapshots, NoAudit, TrailRows
<1>7. QED
  BY <1>5, <1>6 DEF ChainInv

LEMMA ChainStep == ChainInv /\ [AuditNext]_auditVars => ChainInv'
<1> SUFFICES ASSUME ChainInv, [AuditNext]_auditVars PROVE ChainInv'
  OBVIOUS
<1>0. /\ AuditTypeOK /\ Links(trail) /\ Snapshots
      /\ trail \in Seq(TrailRows) /\ Len(trail) \in Nat /\ DOMAIN trail = 1..Len(trail)
      /\ auditor \in [AuditReqs -> [pc : {"idle", "insert"}, last : Nat, saw : Nat]]
      /\ missed \in Nat /\ NoAudit \in [pc : {"idle", "insert"}, last : Nat, saw : Nat]
      /\ NoAudit.pc = "idle"
  BY DEF ChainInv, AuditTypeOK, TrailRows, NoAudit
<1>1. LastHash \in Nat /\ LastHash = IF Len(trail) > 0 /\ trail[Len(trail)].hashed THEN Len(trail) ELSE 0
  BY <1>0, LastHashOf
<1>a. ASSUME NEW r \in AuditReqs, ReadsLast(r) PROVE ChainInv'
  <2>1. /\ auditor' = [auditor EXCEPT ![r] = [pc |-> "insert", last |-> LastHash, saw |-> Len(trail)]]
        /\ trail' = trail /\ missed' = missed
    BY <1>a DEF ReadsLast
  <2>2. LastHash' = LastHash
    BY <2>1 DEF LastHash
  <2>3. Snapshots'
    <3> SUFFICES ASSUME NEW q \in AuditReqs, auditor'[q].pc = "insert"
                 PROVE  /\ auditor'[q].saw <= Len(trail)
                        /\ auditor'[q].saw = Len(trail) => auditor'[q].last = LastHash
      BY <2>1, <2>2 DEF Snapshots
    <3>1. CASE q = r
      <4>1. auditor'[q].saw = Len(trail) /\ auditor'[q].last = LastHash
        BY <3>1, <2>1, <1>0
      <4>2. QED
        BY <4>1, <1>0
    <3>2. CASE q # r
      BY <3>2, <2>1, <1>0 DEF Snapshots
    <3>3. QED
      BY <3>1, <3>2
  <2>4. AuditTypeOK'
    BY <2>1, <1>0, <1>1 DEF AuditTypeOK, TrailRows
  <2>5. Links(trail)'
    BY <2>1, <1>0 DEF Links
  <2>6. QED
    BY <2>3, <2>4, <2>5 DEF ChainInv
<1>b. ASSUME NEW r \in AuditReqs, Inserts(r) PROVE ChainInv'
  <2>1. /\ auditor[r].pc = "insert" /\ auditor[r].saw = Len(trail)
        /\ trail' = Append(trail, Row(auditor[r].last, TRUE))
        /\ auditor' = [auditor EXCEPT ![r] = NoAudit] /\ missed' = missed
    BY <1>b DEF Inserts
  <2>2. auditor[r].last = LastHash
    BY <2>1, <1>0 DEF Snapshots
  <2>3. trail' \in Seq(TrailRows) /\ Links(trail')
    BY <2>1, <2>2, <1>0, <1>1, AppendLinks
  <2>4. Len(trail') = Len(trail) + 1
    BY <2>1, <1>0
  <2>5. Snapshots'
    <3> SUFFICES ASSUME NEW q \in AuditReqs, auditor'[q].pc = "insert"
                 PROVE  auditor'[q].saw <= Len(trail') /\ auditor'[q].saw # Len(trail')
      BY DEF Snapshots
    <3>1. q # r /\ auditor'[q] = auditor[q]
      BY <2>1, <1>0
    <3>2. auditor[q].saw <= Len(trail) /\ auditor[q].saw \in Nat
      BY <3>1, <1>0 DEF Snapshots
    <3>3. QED
      BY <3>1, <3>2, <2>4, <1>0
  <2>6. AuditTypeOK'
    BY <2>1, <2>3, <1>0 DEF AuditTypeOK, TrailRows
  <2>7. QED
    BY <2>3, <2>5, <2>6 DEF ChainInv
<1>c. ASSUME NEW r \in AuditReqs, EventLost(r) PROVE ChainInv'
  <2>1. auditor' = [auditor EXCEPT ![r] = NoAudit] /\ missed' = missed + 1 /\ trail' = trail
    BY <1>c DEF EventLost
  <2>2. LastHash' = LastHash
    BY <2>1 DEF LastHash
  <2>3. Snapshots'
    BY <2>1, <2>2, <1>0 DEF Snapshots
  <2>4. AuditTypeOK'
    BY <2>1, <1>0 DEF AuditTypeOK, TrailRows
  <2>5. Links(trail)'
    BY <2>1, <1>0 DEF Links
  <2>6. QED
    BY <2>3, <2>4, <2>5 DEF ChainInv
<1>d. ASSUME NEW n \in DOMAIN trail, Anonymizes(n) PROVE ChainInv'
  <2>1. /\ trail' = [i \in DOMAIN trail |-> IF i <= n THEN [trail[i] EXCEPT !.anon = TRUE] ELSE trail[i]]
        /\ auditor' = auditor /\ missed' = missed
    BY <1>d DEF Anonymizes
  <2>2. /\ DOMAIN trail' = 1..Len(trail) /\ trail' \in Seq(TrailRows) /\ Len(trail') = Len(trail)
        /\ \A i \in DOMAIN trail : trail'[i].hashed = trail[i].hashed /\ trail'[i].prev = trail[i].prev
    <3>1. \A i \in 1..Len(trail) : trail[i] \in TrailRows
      BY <1>0
    <3>2. \A i \in 1..Len(trail) : [trail[i] EXCEPT !.anon = TRUE] \in TrailRows
      BY <3>1 DEF TrailRows
    <3>3. trail' \in [1..Len(trail) -> TrailRows]
      BY <2>1, <3>1, <3>2, <1>0
    <3>4. \A i \in DOMAIN trail : trail'[i].hashed = trail[i].hashed /\ trail'[i].prev = trail[i].prev
      BY <2>1, <3>1, <1>0 DEF TrailRows
    <3>5. QED
      BY <3>3, <3>4, <1>0
  <2>3. Links(trail)'
    <3>1. \A i \in DOMAIN trail' : i \in DOMAIN trail /\ (i > 1 => i - 1 \in DOMAIN trail)
      BY <2>2, <1>0
    <3>2. \A i, j \in DOMAIN trail' : i < j /\ trail'[i].hashed => trail'[j].hashed
      BY <3>1, <2>2, <1>0 DEF Links
    <3>3. \A i \in DOMAIN trail' : trail'[i].hashed => trail'[i].prev = IF i > 1 /\ trail'[i - 1].hashed THEN i - 1 ELSE 0
      BY <3>1, <2>2, <1>0 DEF Links
    <3>4. \A i, j \in DOMAIN trail' : i < j /\ trail'[j].anon => trail'[i].anon
      <4> SUFFICES ASSUME NEW i \in DOMAIN trail, NEW j \in DOMAIN trail, i < j, trail'[j].anon
                   PROVE  trail'[i].anon
        BY <3>1
      <4>1. trail[i] \in TrailRows /\ trail[j] \in TrailRows /\ i \in Nat /\ j \in Nat /\ n \in Nat
        BY <1>0
      <4>2. CASE i <= n
        BY <2>1, <4>1, <4>2 DEF TrailRows
      <4>3. CASE ~(i <= n)
        <5>1. ~(j <= n)
          BY <4>1, <4>3
        <5>2. trail[j].anon
          BY <2>1, <5>1
        <5>3. trail[i].anon
          BY <5>2, <1>0 DEF Links
        <5>4. QED
          BY <2>1, <4>3, <5>3
      <4>4. QED
        BY <4>2, <4>3
    <3>5. QED
      BY <3>2, <3>3, <3>4 DEF Links
  <2>4. AuditTypeOK'
    BY <2>1, <2>2, <1>0 DEF AuditTypeOK, TrailRows
  <2>5. LastHash' = LastHash
    <3>1. (LastHash = IF Len(trail) > 0 /\ trail[Len(trail)].hashed THEN Len(trail) ELSE 0)'
      BY <2>4, LastHashOf, PTL
    <3>2. Len(trail) > 0 => Len(trail) \in DOMAIN trail
      BY <1>0
    <3>3. QED
      BY <3>1, <3>2, <2>2, <1>1
  <2>6. Snapshots'
    BY <2>1, <2>2, <2>5, <1>0 DEF Snapshots
  <2>7. QED
    BY <2>3, <2>4, <2>6 DEF ChainInv
<1>e. CASE UNCHANGED auditVars
  BY <1>e DEF auditVars, ChainInv, AuditTypeOK, Links, Snapshots, LastHash
<1>f. QED
  BY <1>a, <1>b, <1>c, <1>d, <1>e DEF AuditNext

LEMMA ChainInvariant == AuditSpec => []ChainInv
  BY ChainInit, ChainStep, PTL DEF AuditSpec

(* Of a linked trail the verification accepts every window, but for its     *)
(* first row when that follows an anonymised one.                          *)
LEMMA LinkedTrailVerifies == ChainInv => ChainVerifies
<1> SUFFICES ASSUME ChainInv, NEW i \in Checked
             PROVE  \/ trail[i].prev = prevHash(i)
                    \/ Before(i) = {} /\ i > 1 /\ trail[i - 1].hashed /\ trail[i - 1].anon
  BY DEF ChainVerifies, Broken
<1>1. Links(trail) /\ trail \in Seq(TrailRows) /\ Len(trail) \in Nat /\ DOMAIN trail = 1..Len(trail)
  BY DEF ChainInv, AuditTypeOK, TrailRows
<1>2. i \in DOMAIN trail /\ trail[i].hashed
  BY <1>1 DEF Checked, Verifiable
<1>3. Before(i) = {j \in DOMAIN trail : trail[j].hashed /\ ~trail[j].anon /\ j < i}
  BY <1>1 DEF Before, Verifiable
<1>4. CASE i > 1 /\ trail[i - 1].hashed
  <2>0. i - 1 \in DOMAIN trail
    BY <1>1, <1>2, <1>4
  <2>1. CASE trail[i - 1].anon
    <3>1. ASSUME NEW j \in Before(i) PROVE FALSE
      <4>1. j \in DOMAIN trail /\ ~trail[j].anon /\ j < i
        BY <1>3
      <4>2. j = i - 1 \/ j < i - 1
        BY <4>1, <1>1, <1>2
      <4>3. QED
        BY <4>1, <4>2, <2>0, <2>1, <1>1 DEF Links
    <3>2. QED
      BY <3>1, <2>1, <1>4
  <2>2. CASE ~trail[i - 1].anon
    <3>1. i - 1 \in Before(i) /\ \A j \in Before(i) : j \in Nat /\ i - 1 >= j
      BY <2>0, <2>2, <1>1, <1>2, <1>3, <1>4
    <3>2. Max(Before(i)) = i - 1
      BY <3>1, <1>1, <1>2 DEF Max
    <3>3. QED
      BY <3>1, <3>2, <1>1, <1>2, <1>4 DEF prevHash, Links
  <2>3. QED
    BY <2>1, <2>2
<1>5. CASE ~(i > 1 /\ trail[i - 1].hashed)
  <2>1. ASSUME NEW j \in Before(i) PROVE FALSE
    <3>1. j \in DOMAIN trail /\ trail[j].hashed /\ j < i /\ i - 1 \in DOMAIN trail /\ i > 1
      BY <2>1, <1>1, <1>2, <1>3
    <3>2. CASE j = i - 1
      BY <3>1, <3>2, <1>5
    <3>3. CASE j < i - 1
      BY <3>1, <3>3, <1>1, <1>5 DEF Links
    <3>4. i \in Nat /\ j \in Nat
      BY <3>1, <1>1, <1>2
    <3>5. j = i - 1 \/ j < i - 1
      BY <3>1, <3>4
    <3>6. QED
      BY <3>2, <3>3, <3>5
  <2>2. QED
    BY <2>1, <1>1, <1>2, <1>5 DEF prevHash, Links
<1>6. QED
  BY <1>4, <1>5

(* Whatever transactions overlap and whatever is anonymised, every row     *)
(* follows the one the verification read before it, but for the first row  *)
(* it reads when that one follows an anonymised one.                       *)
THEOREM ChainsVerify == AuditSpec => []ChainVerifies
  BY ChainInvariant, LinkedTrailVerifies, PTL
=============================================================================
