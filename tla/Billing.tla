------------------------------- MODULE Billing -------------------------------
(***************************************************************************)
(* The billing state of one organisation: Stripe's webhook, the            *)
(* synchronous confirmation of a checkout, the trial (started by the first *)
(* message or by the daily job, closed by the daily job) and what the gate *)
(* of the API makes of it: a refused organisation gets 402.                *)
(*                                                                         *)
(* Stripe delivers events in any order, late, twice or never; two requests *)
(* may work on the row at once, each in the steps of its database calls.   *)
(* Any call may throw: the webhook logs it and answers 200.                *)
(***************************************************************************)
EXTENDS Naturals, FiniteSets

CONSTANTS
    BaseSubs,      \* subscriptions of the base plan
    PackagedSubs,  \* those that carry a package add-on (capacity, channel)
    AddonSubs,     \* subscriptions of an add-on of its own (Impulso, Mira)
    StripeEvents,  \* ids Stripe hands out: of events, and of finished checkout sessions
    BillingReqs,   \* requests that may run at once: webhook calls and confirmations
    NoSub          \* no subscription

ASSUME SubsAssumption ==
    NoSub \notin BaseSubs \cup AddonSubs /\ PackagedSubs \subseteq BaseSubs /\ BaseSubs \cap AddonSubs = {}

VARIABLES
    account,    \* the row of organizations
    marked,     \* stripe_webhook_events
    credited,   \* event -> times its pack was added to the month's quota
    event,      \* event -> what Stripe sends under that id, once it has been sent
    req,        \* request -> where it is and what it has read
    alone,      \* history: requests never overlapped and never failed
    ranOut,     \* history: the trial window has ended once
    billed,     \* history: an invoice or the base plan's subscription reached the row
    addonAlive  \* history: the last event about the add-on left it running

ghosts == <<alone, ranOut, billed, addonAlive>>
billingVars == <<account, marked, credited, event, req, ghosts>>

Healthy == {"active", "trialing"}
Alive == Healthy \cup {"past_due"}
SubStatus == Alive \cup {"none", "canceled"}
Stages == {"CHURNED", "PAST_DUE", "ACTIVE", "TRIAL", "TRIAL_EXPIRED", "NOVO"}
Kinds == {"updated", "deleted", "paid", "failed", "checkout", "pack", "confirm"}
Subs == BaseSubs \cup AddonSubs

\* The first rule that matches wins.
deriveLifecycleStage(a) ==
    IF a.churned THEN "CHURNED"
    ELSE IF a.status = "past_due" THEN "PAST_DUE"
    ELSE IF a.sub # NoSub /\ a.status \in Healthy THEN "ACTIVE"
    ELSE IF a.trial = "ahead" /\ a.trialOpen /\ ~a.converted THEN "TRIAL"
    ELSE IF a.trial = "past" /\ ~a.paid THEN "TRIAL_EXPIRED"
    ELSE "NOVO"

\* computeAccessState; the grace an operator may give to an expired trial is left out.
Refused(a) == deriveLifecycleStage(a) \in {"TRIAL_EXPIRED", "CHURNED"}

NoEvent == [kind |-> "none", sub |-> NoSub, status |-> "none"]
NoSettings == [addons |-> {}, addonSub |-> NoSub, paid |-> FALSE]
Idle == [pc |-> "idle", id |-> {}, ev |-> NoEvent, seen |-> NoSettings, stage |-> "NOVO"]

BillingInit ==
    /\ account = [churned |-> FALSE, status |-> "none", sub |-> NoSub, trial |-> "never",
                  trialOpen |-> TRUE, converted |-> FALSE, paid |-> FALSE,
                  addons |-> {}, addonSub |-> NoSub, stage |-> "none"]
    /\ marked = {}
    /\ credited = [e \in StripeEvents |-> 0]
    /\ event = [e \in StripeEvents |-> NoEvent]
    /\ req = [h \in BillingReqs |-> Idle]
    /\ alone = TRUE /\ ranOut = FALSE /\ billed = FALSE /\ addonAlive = FALSE

Quiet == \A h \in BillingReqs : req[h] = Idle

----------------------------------------------------------------------------
(* Stripe.  An event holds its subscription as it was when it was sent; as
   events may be late or lost, any snapshot may be the next to arrive.     *)

Sent ==
    [kind : {"updated"}, sub : BaseSubs, status : SubStatus \ {"none"}]
        \cup [kind : {"updated"}, sub : AddonSubs, status : {"active", "canceled"}]
        \cup [kind : {"deleted"}, sub : Subs, status : {"canceled"}]
        \cup [kind : {"paid"}, sub : Subs, status : {"active"}]
        \cup [kind : {"failed"}, sub : Subs, status : {"past_due"}]
        \cup [kind : {"checkout"}, sub : BaseSubs, status : {"active"}]
        \cup [kind : {"pack"}, sub : {NoSub}, status : {"none"}]
        \cup [kind : {"confirm"}, sub : BaseSubs, status : Alive]

----------------------------------------------------------------------------
(* The webhook and the confirmation, one database call a step.             *)

Goto(h, there) == req' = [req EXCEPT ![h].pc = there]
Begins == alone' = (alone /\ Quiet)

\* An event, new or sent again, reaches a free request; or the customer comes back from
\* Stripe and the page asks for its session to be confirmed, which is never marked.
Arrives(h, e) ==
    /\ req[h].pc = "idle"
    /\ IF event[e] = NoEvent THEN \E ev \in Sent : event' = [event EXCEPT ![e] = ev]
                             ELSE UNCHANGED event
    /\ req' = [req EXCEPT ![h] = [Idle EXCEPT !.pc = IF event'[e].kind = "confirm" THEN "read" ELSE "mark",
                                             !.id = {e}, !.ev = event'[e]]]
    /\ Begins
    /\ UNCHANGED <<account, marked, credited, ranOut, billed, addonAlive>>

\* Mutant: the event is looked up, and never recorded.
MarkNothing(h) ==
    /\ req[h].pc = "mark" /\ req[h].id \cap marked = {}
    /\ Goto(h, IF req[h].ev.kind \in {"failed", "pack"} THEN "write" ELSE "read")
    /\ UNCHANGED <<account, marked, credited, event, ghosts>>

\* markEventProcessed: the insert is the lock.  payment_failed and a pack read nothing first.
MarkEvent(h) ==
    /\ req[h].pc = "mark"
    /\ \/ /\ req[h].id \cap marked = {}
          /\ marked' = marked \cup req[h].id
          /\ Goto(h, IF req[h].ev.kind \in {"failed", "pack"} THEN "write" ELSE "read")
       \/ /\ req[h].id \subseteq marked
          /\ req' = [req EXCEPT ![h] = Idle]
          /\ UNCHANGED marked
    /\ UNCHANGED <<account, credited, event, ghosts>>

\* prisma.organization.findUnique: the settings document comes whole.
ReadRow(h) ==
    /\ req[h].pc = "read"
    /\ req' = [req EXCEPT ![h].pc = "write",
                  ![h].seen = [addons |-> account.addons, addonSub |-> account.addonSub,
                               paid |-> account.paid]]
    /\ UNCHANGED <<account, marked, credited, event, ghosts>>

WithSettings(a, seen) == [a EXCEPT !.addons = seen.addons, !.addonSub = seen.addonSub]

\* Mutant: what the plan does not carry is thrown away.
mergeNothing(existing, ev) ==
    IF ev.status \in Alive /\ ev.sub \in PackagedSubs THEN {"package"} ELSE {}

\* settings.addons: the keys of the plan's packages are replaced, the others kept.
mergePackageAddons(existing, ev) ==
    (existing \ {"package"})
        \cup (IF ev.status \in Alive /\ ev.sub \in PackagedSubs THEN {"package"} ELSE {})

\* The columns of a base subscription, written over whatever is there.
Subscribed(a, ev, seen) ==
    LET first == ev.status = "active" /\ ~seen.paid
    IN [WithSettings(a, seen) EXCEPT
           !.status = ev.status, !.sub = ev.sub,
           !.paid = @ \/ first, !.converted = @ \/ first, !.trialOpen = @ /\ ~first]

applySubscriptionState(a, ev, seen) ==
    [Subscribed(a, ev, seen) EXCEPT !.addons = mergePackageAddons(seen.addons, ev)]

applyAddon(a, ev, seen) ==
    [a EXCEPT !.addons = (seen.addons \ {"addon"}) \cup (IF ev.status \in Healthy THEN {"addon"} ELSE {}),
              !.addonSub = ev.sub]

removeAddon(a, ev, seen) ==
    IF seen.addonSub \notin {NoSub, ev.sub} THEN a
    ELSE [a EXCEPT !.addons = seen.addons \ {"addon"}, !.addonSub = NoSub]

\* Mutant: the word of Stripe's event, not the column's.
churnDeleted(a, seen) ==
    [WithSettings(a, seen) EXCEPT !.churned = TRUE, !.status = "deleted", !.trialOpen = FALSE]

\* subscription.deleted of the base plan: whichever subscription the row holds.
churn(a, seen) ==
    [WithSettings(a, seen) EXCEPT !.churned = TRUE, !.status = "canceled", !.trialOpen = FALSE]

\* The write of each kind of event on the row.
Applied(a, ev, seen) ==
    CASE ev.kind = "updated" /\ ev.sub \in BaseSubs -> applySubscriptionState(a, ev, seen)
      [] ev.kind = "updated" /\ ev.sub \in AddonSubs -> applyAddon(a, ev, seen)
      [] ev.kind = "deleted" /\ ev.sub \in BaseSubs -> churn(a, seen)
      [] ev.kind = "deleted" /\ ev.sub \in AddonSubs -> removeAddon(a, ev, seen)
      [] ev.kind = "paid" -> [a EXCEPT !.paid = TRUE]
      [] ev.kind = "failed" -> [a EXCEPT !.status = "past_due"]
      [] ev.kind = "checkout" -> [WithSettings(a, seen) EXCEPT !.sub = ev.sub]
      [] ev.kind = "confirm" -> Subscribed(a, ev, seen)

\* Mutant: a failed payment changes the status and not the stage.
RecomputesUnlessFailed(ev, seen) == ev.kind # "failed" /\
    ~(ev.kind \in {"updated", "deleted"} /\ ev.sub \in AddonSubs) /\ ~(ev.kind = "paid" /\ seen.paid)

\* Add-on events and invoices after the first end here; the others recompute the stage.
Recomputes(ev, seen) ==
    ~(ev.kind \in {"updated", "deleted"} /\ ev.sub \in AddonSubs) /\ ~(ev.kind = "paid" /\ seen.paid)

\* History: an event about the add-on the row holds.  The end of a subscription that a
\* newer one replaced is not.
Speaks(a, ev) ==
    /\ ev.sub \in AddonSubs
    /\ ev.kind = "updated" \/ (ev.kind = "deleted" /\ a.addonSub \in {NoSub, ev.sub})

WriteRow(h) ==
    LET ev == req[h].ev IN
    /\ req[h].pc = "write" /\ ev.kind # "pack"
    /\ account' = Applied(account, ev, req[h].seen)
    /\ req' = [req EXCEPT ![h] = IF Recomputes(ev, @.seen) THEN [@ EXCEPT !.pc = "derive"] ELSE Idle]
    /\ billed' = (billed \/ ev.kind \in {"paid", "failed"} \/ ev.sub \in BaseSubs)
    /\ addonAlive' = IF Speaks(account, ev) THEN ev.kind = "updated" /\ ev.status \in Healthy ELSE addonAlive
    /\ UNCHANGED <<marked, credited, event, alone, ranOut>>

\* creditMiraPack: an increment.
CreditPack(h) ==
    /\ req[h].pc = "write" /\ req[h].ev.kind = "pack"
    /\ credited' = [e \in StripeEvents |-> IF e \in req[h].id THEN credited[e] + 1 ELSE credited[e]]
    /\ req' = [req EXCEPT ![h] = Idle]
    /\ UNCHANGED <<account, marked, event, ghosts>>

(* recomputeLifecycle: read, materialise.  Its mirror in the CRM and the
   cache of the gate it drops are left out.                                *)

DeriveStage(h) ==
    /\ req[h].pc = "derive"
    /\ req' = [req EXCEPT ![h].pc = "store", ![h].seen = NoSettings,
                          ![h].stage = deriveLifecycleStage(account)]
    /\ UNCHANGED <<account, marked, credited, event, ghosts>>

StoreStage(h) ==
    /\ req[h].pc = "store"
    /\ account' = [account EXCEPT !.stage = req[h].stage]
    /\ req' = [req EXCEPT ![h] = Idle]
    /\ UNCHANGED <<marked, credited, event, ghosts>>

\* The catch around the whole request: what was written stays, the rest is lost.
RequestFails(h) ==
    /\ req[h] # Idle
    /\ req' = [req EXCEPT ![h] = Idle]
    /\ alone' = FALSE
    /\ UNCHANGED <<account, marked, credited, event, ranOut, billed, addonAlive>>

----------------------------------------------------------------------------
(* The trial.                                                              *)

\* Mutant: only payment and churn are looked at.
NeverPaid == account.sub = NoSub /\ ~account.paid /\ ~account.churned

\* neverTrialedNorPaidWhere, in the WHERE of one update.
NeverTrialedNorPaid ==
    account.trial = "never" /\ account.sub = NoSub /\ ~account.paid /\ ~account.churned

\* activateTrialOnFirstInbound; forceActivateDormantTrials is the same update, a month later.
ActivateTrial ==
    /\ NeverTrialedNorPaid
    /\ account' = [account EXCEPT !.trial = "ahead", !.trialOpen = TRUE]
    /\ UNCHANGED <<marked, credited, event, req, ghosts>>

\* Fourteen days pass.
TrialRunsOut ==
    /\ account.trial = "ahead"
    /\ account' = [account EXCEPT !.trial = "past"]
    /\ ranOut' = TRUE
    /\ UNCHANGED <<marked, credited, event, req, alone, billed, addonAlive>>

\* runTrialExpirationCycle: one update closes what has run out.
CronCloses ==
    /\ account.trial = "past" /\ ~account.churned /\ account.trialOpen
    /\ account' = [account EXCEPT !.trialOpen = FALSE]
    /\ UNCHANGED <<marked, credited, event, req, ghosts>>

BillingNext ==
    \/ \E h \in BillingReqs, e \in StripeEvents : Arrives(h, e)
    \/ \E h \in BillingReqs : MarkEvent(h) \/ ReadRow(h) \/ WriteRow(h) \/ CreditPack(h)
                           \/ DeriveStage(h) \/ StoreStage(h) \/ RequestFails(h)
    \/ ActivateTrial \/ TrialRunsOut \/ CronCloses

BillingSpec == BillingInit /\ [][BillingNext]_billingVars

----------------------------------------------------------------------------
Accounts == [churned : BOOLEAN, status : SubStatus, sub : Subs \cup {NoSub},
             trial : {"never", "ahead", "past"}, trialOpen : BOOLEAN,
             converted : BOOLEAN, paid : BOOLEAN,
             addons : SUBSET {"addon", "package"}, addonSub : Subs \cup {NoSub},
             stage : Stages \cup {"none"}]
Deliveries == [pc : {"idle", "mark", "read", "write", "derive", "store"},
               id : SUBSET StripeEvents,
               ev : [kind : Kinds \cup {"none"}, sub : Subs \cup {NoSub}, status : SubStatus],
               seen : [addons : SUBSET {"addon", "package"}, addonSub : Subs \cup {NoSub}, paid : BOOLEAN],
               stage : Stages]

BillingTypeOK ==
    /\ account \in Accounts
    /\ marked \subseteq StripeEvents
    /\ credited \in [StripeEvents -> Nat]
    /\ event \in [StripeEvents -> Sent \cup {NoEvent}]
    /\ req \in [BillingReqs -> Deliveries]
    /\ <<alone, ranOut, billed, addonAlive>> \in BOOLEAN \X BOOLEAN \X BOOLEAN \X BOOLEAN

(***************************************************************************)
(* A pack bought once is credited once, however often Stripe delivers the  *)
(* event and however many requests work on it at the same time (the quota  *)
(* is incremented, so nothing but the mark protects it).                   *)
(***************************************************************************)
PacksCreditedOnce ==
    \A e \in StripeEvents : credited[e] <= 1 /\ (credited[e] = 1 => event[e].kind = "pack")

(***************************************************************************)
(* The trial is one per organisation: once its window has ended, an        *)
(* organisation that no invoice and no subscription of the base plan ever  *)
(* reached is refused by the gate, whatever add-on events, first messages  *)
(* and daily jobs come later.                                              *)
(***************************************************************************)
NoSecondTrial ==
    ranOut /\ ~billed => Refused(account)

(***************************************************************************)
(* The stage the screens filter by says that a customer pays, owes or left *)
(* exactly when the columns say so, unless requests overlapped or failed   *)
(* half way.                                                               *)
(***************************************************************************)
StageIsExactAlone ==
    alone /\ Quiet =>
        \A s \in {"ACTIVE", "PAST_DUE", "CHURNED"} :
            (deriveLifecycleStage(account) = s) <=> (account.stage = s)

(***************************************************************************)
(* Plan events never take away the add-on another subscription pays for,   *)
(* nor bring back one that was cancelled, unless requests overlapped (the  *)
(* settings document is read and written whole).                           *)
(***************************************************************************)
AddonsAreExactAlone == alone /\ Quiet => (("addon" \in account.addons) <=> addonAlive)

(***************************************************************************)
(* What the confirmation promises (routes/billing.ts:206-211): the customer*)
(* who comes back from a checkout in good standing is recognised as active *)
(* at once, unless Stripe has reported the end of that very subscription.  *)
(***************************************************************************)
ConfirmedIsRecognised ==
    [][\A h \in BillingReqs :
          /\ StoreStage(h) /\ req[h].ev.kind = "confirm" /\ req[h].ev.status \in Healthy
          /\ \A e \in StripeEvents : ~(event[e].kind = "deleted" /\ event[e].sub = req[h].ev.sub)
          => account'.stage \notin {"CHURNED", "TRIAL_EXPIRED"}]_billingVars
=============================================================================
