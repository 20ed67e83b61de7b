------------------------------ MODULE MiraQuota ------------------------------
(***************************************************************************)
(* What Mira charges for: a search finds businesses and stores them as     *)
(* Alvos; one that passes the quality gate costs a unit of the month's     *)
(* quota (or of the trial's, which is for life) and becomes READY.  An     *)
(* Alvo that waits in QUALIFYING may be re-evaluated later, by a button or *)
(* by the weekly job, and is charged then.                                 *)
(*                                                                         *)
(* Looking at the quota, charging and promoting are three calls, made by   *)
(* as many requests as there are at once.  Whether a business passes the   *)
(* gate, and its score, are data.                                          *)
(***************************************************************************)
EXTENDS Naturals, FiniteSets

CONSTANTS
    Leads,            \* businesses a search may find
    Places,           \* those without a CNPJ: local businesses of Google Places
    Searches,         \* runs of motorA, motorB or the public discovery
    Reviews,          \* runs of reavaliarAlvo
    Landings,         \* requests that send an Alvo to the CRM
    NoRow,            \* no Alvo
    TierQuotas,       \* alvosPerMonth of the tiers, by which a tier is known here
    MIRA_TRIAL_ALVOS, \* quota of the trial
    MaxMonth,         \* bound on the months that pass
    MaxPacks,         \* bound on the packs bought in a month
    MaxMiraFaults     \* bound on the calls that throw

Rows == Searches \X Leads   \* a search stores a business once
Consumers == Searches \cup Reviews

ASSUME MiraBounds ==
    /\ TierQuotas \subseteq Nat \ {0} /\ MIRA_TRIAL_ALVOS \in Nat \ {0}
    /\ MaxMonth \in Nat \ {0} /\ MaxPacks \in Nat /\ MaxMiraFaults \in Nat
ASSUME MiraActors ==
    /\ Places \subseteq Leads /\ NoRow \notin Rows
    /\ IsFiniteSet(Consumers)
    /\ Searches \cap Reviews = {} /\ Consumers \cap Landings = {}

VARIABLES
    alvo,       \* row -> MiraAlvo.status, "none" while it is absent
    counted,    \* rows with countedInQuota
    landed,     \* rows with a contact and a deal in the CRM
    ledger,     \* key -> MiraUsageMonthly.used
    packs,      \* month -> MiraUsageMonthly.packExtra
    tier,       \* the tier of settings.addons or of the plan, NoTier if neither has one
    trial,      \* settings.miraTrialActivatedAt is set
    month,      \* the month in Sao Paulo
    worker,     \* search, review or landing -> where it is, its row, and what it read of
                \*   its entitlement: the ledger it charges, the tier
    tried,      \* search -> businesses of its list it is done with
    topTier,    \* history: month -> highest tier held in it
    paid,       \* history: business -> units charged for it
    raced,      \* history: businesses two were at work on, or whose charge or promotion threw
    miraFaults

miraVars == <<alvo, counted, landed, ledger, packs, tier, trial, month, worker, tried,
              topTier, paid, raced, miraFaults>>

TRIAL_LEDGER_KEY == 0
NoTier == 0
Months == 1..MaxMonth
LedgerKeys == Months \cup {TRIAL_LEDGER_KEY}
Waiting == [pc |-> "idle", row |-> NoRow, key |-> TRIAL_LEDGER_KEY, share |-> NoTier]

MiraInit ==
    /\ alvo = [r \in Rows |-> "none"]
    /\ counted = {} /\ landed = {}
    /\ ledger = [k \in LedgerKeys |-> 0]
    /\ packs = [m \in Months |-> 0]
    /\ tier \in TierQuotas \cup {NoTier} /\ trial = FALSE
    /\ month = 1
    /\ topTier = [k \in LedgerKeys |-> IF k = month THEN tier ELSE NoTier]
    /\ worker = [w \in Consumers \cup Landings |-> Waiting]
    /\ tried = [s \in Searches |-> {}]
    /\ paid = [l \in Leads |-> 0]
    /\ raced = {}
    /\ miraFaults = 0

Stands(w, where) == worker[w].pc = where
MovesTo(w, where) == worker' = [worker EXCEPT ![w].pc = where]
Rests(w) == worker' = [worker EXCEPT ![w] = Waiting]
LeadOf(w) == worker[w].row[2]

accountKept == UNCHANGED <<packs, tier, trial, month, topTier>>
rowsKept == UNCHANGED <<alvo, counted, landed>>
booksKept == UNCHANGED <<ledger, paid>>

----------------------------------------------------------------------------
(* The entitlement: getMiraEntitlement reads the organisation, and then    *)
(* the ledger of the month it is, or of the trial.                         *)

Entitled == tier # NoTier \/ trial
LedgerKey == IF tier # NoTier THEN month ELSE TRIAL_LEDGER_KEY
QuotaOf(k, t) == IF k = TRIAL_LEDGER_KEY THEN MIRA_TRIAL_ALVOS ELSE t + packs[k]

\* Whether the ledger of who has tier t is used up once n more units are charged.
Spent(k, t, n) == ledger[k] + n >= QuotaOf(k, t)

Blocked(k, t) == Spent(k, t, 0)

----------------------------------------------------------------------------
(* A search.  Its list holds each business once.                           *)

\* The look before anything is spent: a quota used up ends the search.
SearchLooks(s) ==
    /\ Stands(s, "idle")
    /\ \/ /\ Entitled /\ ~Blocked(LedgerKey, tier)
          /\ \E l \in Leads \ tried[s] :
               /\ worker' = [worker EXCEPT ![s].pc = "dedup", ![s].row = <<s, l>>]
               /\ tried' = [tried EXCEPT ![s] = @ \cup {l}]
       \/ /\ ~Entitled \/ Blocked(LedgerKey, tier)
          /\ MovesTo(s, "over")
          /\ UNCHANGED tried
    /\ rowsKept /\ booksKept /\ accountKept
    /\ UNCHANGED <<raced, miraFaults>>

Stored(l) == \E s \in Searches : alvo[<<s, l>>] # "none"

\* Skipped when it is stored, or when the source does not know it, says it is closed
\* or is down.  Two searches may both miss a business neither has stored.
SearchDedups(s) ==
    /\ Stands(s, "dedup")
    /\ \/ Rests(s) /\ UNCHANGED raced
       \/ /\ ~Stored(LeadOf(s))
          /\ MovesTo(s, "create")
          /\ raced' = IF LeadOf(s) \in Places /\ \E o \in Searches : Stands(o, "create") /\ LeadOf(o) = LeadOf(s)
                      THEN raced \cup {LeadOf(s)} ELSE raced
    /\ rowsKept /\ booksKept /\ accountKept
    /\ UNCHANGED <<tried, miraFaults>>

\* The index on the CNPJ refuses a company that is there by now; a place has none.
\* Past the gate it goes on to pay; otherwise the row waits in QUALIFYING.
SearchCreates(s) ==
    /\ Stands(s, "create")
    /\ \/ /\ LeadOf(s) \notin Places /\ Stored(LeadOf(s))
          /\ Rests(s)
          /\ UNCHANGED alvo
       \/ /\ LeadOf(s) \in Places \/ ~Stored(LeadOf(s))
          /\ alvo' = [alvo EXCEPT ![worker[s].row] = "QUALIFYING"]
          /\ MovesTo(s, "entitle") \/ Rests(s)
    /\ booksKept /\ accountKept
    /\ UNCHANGED <<counted, landed, tried, raced, miraFaults>>

----------------------------------------------------------------------------
(* A re-evaluation.                                                        *)

AtWorkOn(r) == {w \in Consumers : worker[w].row = r /\ worker[w].pc \in {"entitle", "quota", "charge", "promote", "last"}}

\* Mutant: an Alvo that is READY is evaluated like one that waits.
ReviewReadsAny(v) ==
    /\ Stands(v, "idle")
    /\ \E r \in Rows :
         /\ alvo[r] \in {"QUALIFYING", "READY"}
         /\ worker' = [worker EXCEPT ![v].pc = "entitle", ![v].row = r]
         /\ raced' = IF AtWorkOn(r) # {} THEN raced \cup {r[2]} ELSE raced
    /\ rowsKept /\ booksKept /\ accountKept
    /\ UNCHANGED <<tried, miraFaults>>

\* Of a row in another status, or that fails the gate, only the score changes.
ReviewReads(v) ==
    /\ Stands(v, "idle")
    /\ \E r \in Rows :
         /\ alvo[r] = "QUALIFYING"
         /\ worker' = [worker EXCEPT ![v].pc = "entitle", ![v].row = r]
         /\ raced' = IF AtWorkOn(r) # {} THEN raced \cup {r[2]} ELSE raced
    /\ rowsKept /\ booksKept /\ accountKept
    /\ UNCHANGED <<tried, miraFaults>>

----------------------------------------------------------------------------
(* Paying: consumeMiraQuota, and the promotion that follows.               *)

\* MiraQuotaExceededError: a search stops, a re-evaluation leaves the row as it is.
Exceeded(c) == IF c \in Searches THEN MovesTo(c, "over") ELSE Rests(c)

ConsumeEntitles(c) ==
    /\ Stands(c, "entitle")
    /\ IF Entitled THEN worker' = [worker EXCEPT ![c].pc = "quota", ![c].key = LedgerKey, ![c].share = tier]
                   ELSE Exceeded(c)
    /\ rowsKept /\ booksKept /\ accountKept
    /\ UNCHANGED <<tried, raced, miraFaults>>

ConsumeChecks(c) ==
    /\ Stands(c, "quota")
    /\ IF Blocked(worker[c].key, worker[c].share) THEN Exceeded(c) ELSE MovesTo(c, "charge")
    /\ rowsKept /\ booksKept /\ accountKept
    /\ UNCHANGED <<tried, raced, miraFaults>>

Charges(c) ==
    /\ ledger' = [ledger EXCEPT ![worker[c].key] = @ + 1]
    /\ paid' = [paid EXCEPT ![LeadOf(c)] = @ + 1]

\* Mutant: a charge whose answer is late is tried again.
ConsumeChargesAgain(c) ==
    /\ Stands(c, "charge")
    /\ Charges(c)
    /\ MovesTo(c, "promote") \/ UNCHANGED worker
    /\ rowsKept /\ accountKept
    /\ UNCHANGED <<tried, raced, miraFaults>>

\* upsert with an increment: nothing is lost, and nothing is looked at again.  A search
\* is told when the unit was the last.
ConsumeCharges(c) ==
    /\ Stands(c, "charge")
    /\ Charges(c)
    /\ MovesTo(c, IF c \in Searches /\ Spent(worker[c].key, worker[c].share, 1) THEN "last" ELSE "promote")
    /\ rowsKept /\ accountKept
    /\ UNCHANGED <<tried, raced, miraFaults>>

Promoting(c) == worker[c].pc \in {"promote", "last"}

\* An update by id, whatever the status has become.
Promotes(c) ==
    /\ Promoting(c)
    /\ alvo' = [alvo EXCEPT ![worker[c].row] = "READY"]
    /\ counted' = counted \cup {worker[c].row}
    /\ IF Stands(c, "last") THEN MovesTo(c, "over") ELSE Rests(c)
    /\ booksKept /\ accountKept
    /\ UNCHANGED <<landed, tried, raced, miraFaults>>

\* A call throws; a charge may have been made.  motorA and the discovery end; motorB
\* goes on with the next business, a re-evaluation logs it.
CallThrows(c) ==
    /\ miraFaults < MaxMiraFaults /\ miraFaults' = miraFaults + 1
    /\ worker[c].pc \notin {"idle", "over"}
    /\ \/ Stands(c, "charge") /\ Charges(c) /\ raced' = raced \cup {LeadOf(c)}
       \/ Promoting(c) /\ booksKept /\ raced' = raced \cup {LeadOf(c)}
       \/ ~Promoting(c) /\ booksKept /\ UNCHANGED raced
    /\ Rests(c) \/ (c \in Searches /\ MovesTo(c, "over"))
    /\ rowsKept /\ accountKept
    /\ UNCHANGED tried

----------------------------------------------------------------------------
(* The client, the clock, and Stripe.                                      *)

Archives(r) ==
    /\ alvo[r] # "none"
    /\ alvo' = [alvo EXCEPT ![r] = "ARCHIVED"]
    /\ booksKept /\ accountKept
    /\ UNCHANGED <<counted, landed, worker, tried, raced, miraFaults>>

\* pousarNoCrm: of a READY Alvo, or, if the client insists, of one that is not.  A row
\* that has its contact and its deal is answered from there.
LandReads(p) ==
    /\ Stands(p, "idle")
    /\ \E r \in Rows \ landed :
         /\ alvo[r] \in {"READY", "DELIVERED", "QUALIFYING"}
         /\ worker' = [worker EXCEPT ![p].pc = "land", ![p].row = r]
    /\ rowsKept /\ booksKept /\ accountKept
    /\ UNCHANGED <<tried, raced, miraFaults>>

LandStores(p) ==
    /\ Stands(p, "land")
    /\ alvo' = [alvo EXCEPT ![worker[p].row] = "DELIVERED"]
    /\ landed' = landed \cup {worker[p].row}
    /\ Rests(p)
    /\ booksKept /\ accountKept
    /\ UNCHANGED <<counted, tried, raced, miraFaults>>

activateMiraTrial ==
    /\ ~Entitled
    /\ trial' = TRUE
    /\ rowsKept /\ booksKept
    /\ UNCHANGED <<packs, tier, month, topTier, worker, tried, raced, miraFaults>>

\* In month m tier t is held.
Holds(m, t) == topTier' = [topTier EXCEPT ![m] = IF @ < t THEN t ELSE @]

\* The webhook adds, changes or removes the tier, in the middle of a month.
TierChanges ==
    /\ tier' \in (TierQuotas \cup {NoTier}) \ {tier}
    /\ Holds(month, tier')
    /\ rowsKept /\ booksKept
    /\ UNCHANGED <<packs, trial, month, worker, tried, raced, miraFaults>>

creditMiraPack ==
    /\ packs[month] < MaxPacks
    /\ packs' = [packs EXCEPT ![month] = @ + 1]
    /\ rowsKept /\ booksKept
    /\ UNCHANGED <<tier, trial, month, topTier, worker, tried, raced, miraFaults>>

MonthTurns ==
    /\ month < MaxMonth
    /\ month' = month + 1
    /\ Holds(month', tier)
    /\ rowsKept /\ booksKept
    /\ UNCHANGED <<packs, tier, trial, worker, tried, raced, miraFaults>>

----------------------------------------------------------------------------

MiraNext ==
    \/ \E s \in Searches : SearchLooks(s) \/ SearchDedups(s) \/ SearchCreates(s)
    \/ \E v \in Reviews : ReviewReads(v)
    \/ \E c \in Consumers :
         \/ ConsumeEntitles(c) \/ ConsumeChecks(c) \/ ConsumeCharges(c) \/ Promotes(c)
         \/ CallThrows(c)
    \/ \E r \in Rows : Archives(r)
    \/ \E p \in Landings : LandReads(p) \/ LandStores(p)
    \/ activateMiraTrial \/ TierChanges \/ creditMiraPack \/ MonthTurns

MiraSpec == MiraInit /\ [][MiraNext]_miraVars

----------------------------------------------------------------------------
(* Type invariant of the module. *)
MiraTypeOK ==
    /\ alvo \in [Rows -> {"none", "QUALIFYING", "READY", "DELIVERED", "ARCHIVED"}]
    /\ counted \subseteq Rows /\ landed \subseteq Rows
    /\ ledger \in [LedgerKeys -> Nat]
    /\ packs \in [Months -> Nat]
    /\ tier \in TierQuotas \cup {NoTier} /\ trial \in BOOLEAN
    /\ month \in Months
    /\ worker \in [Consumers \cup Landings ->
                     [pc : {"idle", "dedup", "create", "entitle", "quota", "charge", "promote", "last", "land", "over"},
                      row : Rows \cup {NoRow}, key : LedgerKeys, share : TierQuotas \cup {NoTier}]]
    /\ tried \in [Searches -> SUBSET Leads]
    /\ topTier \in [LedgerKeys -> Nat]
    /\ paid \in [Leads -> Nat]
    /\ raced \subseteq Leads
    /\ miraFaults \in Nat

(* The quota is looked at and charged in two calls, and the tier it is      *)
(* looked at for was read before, so requests at once may go over it; but   *)
(* by no more than one unit for each but the first, in every month and over *)
(* the whole life of a trial, whatever is bought, dropped or activated      *)
(* meanwhile.  A month whose tier was changed is held to the largest it had *)
(* (consumeMiraQuota).                                                      *)
OvershootIsBounded ==
    \A k \in LedgerKeys :
        ledger[k] = 0 \/ ledger[k] <= QuotaOf(k, topTier[k]) + Cardinality(Consumers) - 1

(* A business costs one unit, whatever searches find it again and however   *)
(* often it is re-evaluated, delivered or archived, and what was charged is *)
(* marked as counted on its row: unless two requests were at work on it at  *)
(* once, or its charge or promotion threw.                                  *)
LeadIsPaidOnceAlone ==
    \A l \in Leads \ raced :
        LET Rowed == {r \in counted : r[2] = l}
            Owed == {c \in Consumers : Promoting(c) /\ LeadOf(c) = l}
        IN paid[l] <= 1 /\ paid[l] = Cardinality(Rowed) + Cardinality(Owed)

=============================================================================
