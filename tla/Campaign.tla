------------------------------ MODULE Campaign ------------------------------
(***************************************************************************)
(* One marketing campaign, from its schedule or its "send" button to the   *)
(* messages its contacts receive: the scheduler's sweep, the publish and   *)
(* pause requests, the campaign-dispatch job and the message-send jobs it  *)
(* fans out.                                                               *)
(*                                                                         *)
(* Every job is retried from its first line when it throws and again when  *)
(* its worker dies, and the provider may accept a message whose call then  *)
(* fails: MaxFaults bounds how often something goes wrong.  One contact    *)
(* stands for a batch of fifty.                                            *)
(***************************************************************************)
EXTENDS Naturals, FiniteSets

CONSTANTS
    Contacts,         \* contacts of the organisation in the campaign's segment
    Crons,            \* sweeps of the scheduler that may run at the same time
    Presses,          \* POST /send and POST /publish requests
    Orders,           \* campaign-dispatch jobs
    Sends,            \* message-send jobs of the campaign
    NoContact,           \* no contact
    DispatchAttempts, \* attempts of a campaign-dispatch job
    SendAttempts,     \* attempts of a message-send job
    MaxFaults         \* bound on failed calls and worker deaths

ASSUME AttemptsAssumption == DispatchAttempts \in Nat \ {0} /\ SendAttempts \in Nat \ {0}
ASSUME FaultsAssumption == MaxFaults \in Nat
ASSUME NoContactAssumption == NoContact \notin Contacts

VARIABLES
    cstatus,      \* status of the campaign row
    template,     \* an approved template is used: it is tried before free text
    consent,      \* contacts with consentMarketing
    sentCount,    \* counters of the campaign row; the first as each contact's share in it
    failedCount,
    cron,         \* sweep -> where it is
    cronAdds,     \* dispatch jobs enqueued by the scheduler so far
    press,        \* request -> where it is
    opc,          \* dispatch job -> where it is
    otries,       \* dispatch job -> attempts that failed
    todo,         \* dispatch job -> contacts it has read and not enqueued yet
    spc,          \* send job -> where it is
    stries,       \* send job -> attempts that failed
    to,           \* send job -> its contact
    row,          \* send job -> status of the message row of its last attempt
    received,     \* contact -> messages of the campaign the provider accepted
    faults        \* faults so far

counters == <<sentCount, failedCount>>
launchVars == <<cron, cronAdds, press>>
orderVars == <<opc, otries, todo>>
sendVars == <<spc, stries, to, row>>
campaignVars == <<cstatus, template, consent, counters, launchVars, orderVars, sendVars, received, faults>>

CampaignInit ==
    /\ cstatus \in {"DRAFT", "SCHEDULED"}
    /\ template \in BOOLEAN
    /\ consent = Contacts
    /\ sentCount = [k \in Contacts |-> 0] /\ failedCount = 0
    /\ cron = [p \in Crons |-> "idle"]
    /\ cronAdds = 0
    /\ press = [q \in Presses |-> "idle"]
    /\ opc = [o \in Orders |-> "none"]
    /\ otries = [o \in Orders |-> 0]
    /\ todo = [o \in Orders |-> {}]
    /\ spc = [s \in Sends |-> "none"]
    /\ stries = [s \in Sends |-> 0]
    /\ to = [s \in Sends |-> NoContact]
    /\ row = [s \in Sends |-> "none"]
    /\ received = [k \in Contacts |-> 0]
    /\ faults = 0

Fault == faults < MaxFaults /\ faults' = faults + 1

\* campaignDispatchQueue.add
Enqueue == \E o \in Orders : opc[o] = "none" /\ opc' = [opc EXCEPT ![o] = "waiting"]

----------------------------------------------------------------------------
(* runCampaignSchedulerCycle: find what is due, claim it, enqueue it.      *)

CronStep(p, here, there) == cron[p] = here /\ cron' = [cron EXCEPT ![p] = there]

CronFind(p) ==
    /\ cstatus = "SCHEDULED"
    /\ CronStep(p, "idle", "claim")
    /\ UNCHANGED <<cstatus, template, consent, counters, cronAdds, press, orderVars, sendVars,
                   received, faults>>

\* Mutant: the claim updates by id, whatever the status is by then.
CronClaimById(p) ==
    /\ CronStep(p, "claim", "add")
    /\ cstatus' = "SENDING"
    /\ UNCHANGED <<template, consent, counters, cronAdds, press, orderVars, sendVars,
                   received, faults>>

CronClaim(p) ==
    /\ cstatus = "SCHEDULED"
    /\ CronStep(p, "claim", "add")
    /\ cstatus' = "SENDING"
    /\ UNCHANGED <<template, consent, counters, cronAdds, press, orderVars, sendVars,
                   received, faults>>

CronClaimLost(p) ==
    /\ cstatus # "SCHEDULED"
    /\ CronStep(p, "claim", "idle")
    /\ UNCHANGED <<cstatus, template, consent, counters, cronAdds, press, orderVars, sendVars,
                   received, faults>>

CronAdd(p) ==
    /\ CronStep(p, "add", "idle")
    /\ Enqueue
    /\ cronAdds' = cronAdds + 1
    /\ UNCHANGED <<cstatus, template, consent, counters, press, otries, todo, sendVars,
                   received, faults>>

\* A failed claim or add is logged; a campaign already claimed stays SENDING.
CronFails(p) ==
    /\ cron[p] \in {"claim", "add"}
    /\ cron' = [cron EXCEPT ![p] = "idle"]
    /\ Fault
    /\ UNCHANGED <<cstatus, template, consent, counters, cronAdds, press, orderVars, sendVars,
                   received>>

----------------------------------------------------------------------------
(* The requests: send or publish, pause, and a contact who opts out.       *)

PressUpdate(q) ==
    /\ press[q] = "idle"
    /\ press' = [press EXCEPT ![q] = "add"]
    /\ cstatus' = "SENDING"
    /\ UNCHANGED <<template, consent, counters, cron, cronAdds, orderVars, sendVars,
                   received, faults>>

PressAdd(q) ==
    /\ press[q] = "add"
    /\ press' = [press EXCEPT ![q] = "done"]
    /\ Enqueue
    /\ UNCHANGED <<cstatus, template, consent, counters, cron, cronAdds, otries, todo, sendVars,
                   received, faults>>

PressFails(q) ==
    /\ press[q] = "add"
    /\ press' = [press EXCEPT ![q] = "done"]
    /\ Fault
    /\ UNCHANGED <<cstatus, template, consent, counters, cron, cronAdds, orderVars, sendVars,
                   received>>

\* POST /impulso/:id/pause, whatever the status is.
Pause ==
    /\ cstatus' = "CANCELLED"
    /\ UNCHANGED <<template, consent, counters, launchVars, orderVars, sendVars, received, faults>>

OptOut(k) ==
    /\ consent' = consent \ {k}
    /\ UNCHANGED <<cstatus, template, counters, launchVars, orderVars, sendVars, received, faults>>

----------------------------------------------------------------------------
(* dispatchCampaignJob.                                                    *)

OrderStep(o, here, there) == opc[o] = here /\ opc' = [opc EXCEPT ![o] = there]

\* The campaign and its audience are read; the status is not looked at.
OrderRead(o) ==
    /\ OrderStep(o, "waiting", "start")
    /\ todo' = [todo EXCEPT ![o] = consent]
    /\ UNCHANGED <<cstatus, template, consent, counters, launchVars, otries, sendVars,
                   received, faults>>

OrderStart(o) ==
    /\ OrderStep(o, "start", "fill")
    /\ cstatus' = "SENDING"
    /\ sentCount' = [k \in Contacts |-> 0] /\ failedCount' = 0
    /\ UNCHANGED <<template, consent, launchVars, otries, todo, sendVars, received, faults>>

\* Mutant: the last batch is forgotten.
OrderFillAllButOne(o) ==
    /\ opc[o] = "fill"
    /\ \E k \in todo[o], s \in Sends :
         /\ spc[s] = "none"
         /\ spc' = [spc EXCEPT ![s] = "waiting"]
         /\ to' = [to EXCEPT ![s] = k]
         /\ todo' = [todo EXCEPT ![o] = IF Cardinality(@) = 2 THEN {} ELSE @ \ {k}]
    /\ UNCHANGED <<cstatus, template, consent, counters, launchVars, opc, otries, stries, row,
                   received, faults>>

\* messageSendQueue.addBulk, one batch.
OrderFill(o) ==
    /\ opc[o] = "fill"
    /\ \E k \in todo[o], s \in Sends :
         /\ spc[s] = "none"
         /\ spc' = [spc EXCEPT ![s] = "waiting"]
         /\ to' = [to EXCEPT ![s] = k]
         /\ todo' = [todo EXCEPT ![o] = @ \ {k}]
    /\ UNCHANGED <<cstatus, template, consent, counters, launchVars, opc, otries, stries, row,
                   received, faults>>

OrderComplete(o) ==
    /\ todo[o] = {}
    /\ OrderStep(o, "fill", "done")
    /\ cstatus' = "COMPLETED"
    /\ UNCHANGED <<template, consent, counters, launchVars, otries, todo, sendVars,
                   received, faults>>

OrderActive(o) == opc[o] \in {"start", "fill"}

\* Mutant: the campaign is marked FAILED, a status it cannot have.
OrderFailsUnknownStatus(o) ==
    /\ opc[o] \in {"waiting", "start", "fill"}
    /\ Fault
    /\ cstatus' \in {"FAILED", cstatus}
    /\ otries' = [otries EXCEPT ![o] = @ + 1]
    /\ opc' = [opc EXCEPT ![o] = IF otries[o] + 1 < DispatchAttempts THEN "waiting" ELSE "failed"]
    /\ todo' = [todo EXCEPT ![o] = {}]
    /\ UNCHANGED <<template, consent, counters, launchVars, sendVars, received>>

\* Anything throws: CANCELLED, if that update goes through, and a retry.
OrderFails(o) ==
    /\ opc[o] \in {"waiting", "start", "fill"}
    /\ Fault
    /\ cstatus' \in {"CANCELLED", cstatus}
    /\ otries' = [otries EXCEPT ![o] = @ + 1]
    /\ opc' = [opc EXCEPT ![o] = IF otries[o] + 1 < DispatchAttempts THEN "waiting" ELSE "failed"]
    /\ todo' = [todo EXCEPT ![o] = {}]
    /\ UNCHANGED <<template, consent, counters, launchVars, sendVars, received>>

\* The worker dies and the stalled job is handed out again.
OrderStalls(o) ==
    /\ OrderActive(o)
    /\ Fault
    /\ opc' = [opc EXCEPT ![o] = "waiting"]
    /\ todo' = [todo EXCEPT ![o] = {}]
    /\ UNCHANGED <<cstatus, template, consent, counters, launchVars, otries, sendVars, received>>

----------------------------------------------------------------------------
(* processMessageSendJob, on the path of a campaign.                       *)

SendStep(s, here, there) == spc[s] = here /\ spc' = [spc EXCEPT ![s] = there]

\* What a step of a send job never touches.
CampaignKept == UNCHANGED <<cstatus, template, consent, launchVars, orderVars, to>>

\* The conversation is found or created, and a new message row with status SENT.
SendCreate(s) ==
    /\ SendStep(s, "waiting", IF template THEN "template" ELSE "text")
    /\ row' = [row EXCEPT ![s] = "SENT"]
    /\ CampaignKept /\ UNCHANGED <<counters, stries, received, faults>>

Accepted(s, n) == received' = [received EXCEPT ![to[s]] = @ + n]

\* Mutant: the text goes out after the template, not instead of it.
SendCallTwice(s) ==
    /\ \/ SendStep(s, "template", "text")
       \/ SendStep(s, "text", "record")
    /\ Accepted(s, 1)
    /\ CampaignKept /\ UNCHANGED <<counters, stries, row, faults>>

SendCall(s) ==
    /\ SendStep(s, "template", "record") \/ SendStep(s, "text", "record")
    /\ Accepted(s, 1)
    /\ CampaignKept /\ UNCHANGED <<counters, stries, row, faults>>

\* The call throws, before or after the provider accepted the message.  A
\* failed template falls back to text.
SendCallFails(s) ==
    /\ SendStep(s, "template", "text") \/ SendStep(s, "text", "fail")
    /\ \E n \in {0, 1} : Accepted(s, n)
    /\ Fault
    /\ CampaignKept /\ UNCHANGED <<counters, stries, row>>

\* The provider's id goes into the row.
SendRecord(s) ==
    /\ SendStep(s, "record", "bump")
    /\ row' = [row EXCEPT ![s] = "SENT"]
    /\ CampaignKept /\ UNCHANGED <<counters, stries, received, faults>>

SendRecordFails(s) ==
    /\ SendStep(s, "record", "fail")
    /\ Fault
    /\ CampaignKept /\ UNCHANGED <<counters, stries, row, received>>

CountsSent(s) == sentCount' = [sentCount EXCEPT ![to[s]] = @ + 1]

SendBump(s) ==
    /\ SendStep(s, "bump", "done")
    /\ CountsSent(s)
    /\ CampaignKept /\ UNCHANGED <<failedCount, stries, row, received, faults>>

\* A counter that cannot be written is only logged.
SendBumpFails(s) ==
    /\ SendStep(s, "bump", "done")
    /\ Fault
    /\ CampaignKept /\ UNCHANGED <<counters, stries, row, received>>

Retry(s) ==
    /\ stries' = [stries EXCEPT ![s] = @ + 1]
    /\ spc' = [spc EXCEPT ![s] = IF stries[s] + 1 < SendAttempts THEN "waiting" ELSE "failed"]

\* Mutant: a row marked FAILED still counts as sent.
SendFailCountsSent(s) ==
    /\ spc[s] = "fail"
    /\ Retry(s)
    /\ row' = [row EXCEPT ![s] = "FAILED"]
    /\ CountsSent(s)
    /\ CampaignKept /\ UNCHANGED <<failedCount, received, faults>>

\* The catch block: FAILED and failedCount, and the error goes on to BullMQ.
SendFail(s) ==
    /\ spc[s] = "fail"
    /\ Retry(s)
    /\ row' = [row EXCEPT ![s] = "FAILED"]
    /\ failedCount' = failedCount + 1
    /\ CampaignKept /\ UNCHANGED <<sentCount, received, faults>>

\* The mark itself fails, or the counter after it: part of a fault that was
\* counted already, and bounded by the attempts.
SendFailFails(s) ==
    /\ spc[s] = "fail"
    /\ Retry(s)
    /\ \E mark \in {"FAILED", row[s]} : row' = [row EXCEPT ![s] = mark]
    /\ CampaignKept /\ UNCHANGED <<counters, received, faults>>

\* What comes before the try block throws: a retry, and no mark.
SendCreateFails(s) ==
    /\ spc[s] = "waiting"
    /\ Retry(s)
    /\ Fault
    /\ CampaignKept /\ UNCHANGED <<counters, row, received>>

\* The worker dies and the stalled job is handed out again.
SendStalls(s) ==
    /\ spc[s] \in {"template", "text", "record", "bump", "fail"}
    /\ spc' = [spc EXCEPT ![s] = "waiting"]
    /\ Fault
    /\ CampaignKept /\ UNCHANGED <<counters, stries, row, received>>

----------------------------------------------------------------------------

CronRun(p) == CronFind(p) \/ CronClaim(p) \/ CronClaimLost(p) \/ CronAdd(p)
OrderRun(o) == OrderRead(o) \/ OrderStart(o) \/ OrderFill(o) \/ OrderComplete(o)
SendRun(s) == SendCreate(s) \/ SendCall(s) \/ SendRecord(s) \/ SendBump(s) \/ SendFail(s)

Fails ==
    \/ \E p \in Crons : CronFails(p)
    \/ \E q \in Presses : PressFails(q)
    \/ \E o \in Orders : OrderFails(o) \/ OrderStalls(o)
    \/ \E s \in Sends : \/ SendCallFails(s) \/ SendRecordFails(s) \/ SendBumpFails(s)
                        \/ SendCreateFails(s) \/ SendStalls(s)

CampaignNext ==
    \/ \E p \in Crons : CronRun(p)
    \/ \E q \in Presses : PressUpdate(q) \/ PressAdd(q)
    \/ Pause
    \/ \E k \in Contacts : OptOut(k)
    \/ \E o \in Orders : OrderRun(o)
    \/ \E s \in Sends : SendRun(s) \/ SendFailFails(s)
    \/ Fails

CampaignSpec == CampaignInit /\ [][CampaignNext]_campaignVars

\* The workers take the jobs and run them to the end.
CampaignFairness ==
    /\ \A o \in Orders : WF_campaignVars(OrderRun(o))
    /\ \A s \in Sends : WF_campaignVars(SendRun(s))
CampaignFairSpec == CampaignSpec /\ CampaignFairness

----------------------------------------------------------------------------
(* Properties.                                                             *)

(* Every variable has the shape the module relies on. *)
CampaignTypeOK ==
    /\ cstatus \in {"DRAFT", "SCHEDULED", "SENDING", "COMPLETED", "CANCELLED"}
    /\ template \in BOOLEAN
    /\ consent \in SUBSET Contacts
    /\ sentCount \in [Contacts -> Nat]
    /\ failedCount \in Nat /\ cronAdds \in Nat /\ faults \in Nat
    /\ cron \in [Crons -> {"idle", "claim", "add"}]
    /\ press \in [Presses -> {"idle", "add", "done"}]
    /\ opc \in [Orders -> {"none", "waiting", "start", "fill", "done", "failed"}]
    /\ otries \in [Orders -> Nat]
    /\ todo \in [Orders -> SUBSET Contacts]
    /\ spc \in [Sends -> {"none", "waiting", "template", "text", "record", "bump", "fail",
                          "done", "failed"}]
    /\ stries \in [Sends -> Nat]
    /\ to \in [Sends -> Contacts \cup {NoContact}]
    /\ row \in [Sends -> {"none", "SENT", "FAILED"}]
    /\ received \in [Contacts -> Nat]

(* However many sweeps overlap, and whoever presses the button meanwhile,  *)
(* the scheduler dispatches a campaign once (runCampaignSchedulerCycle,    *)
(* the claim SCHEDULED -> SENDING).                                        *)
CronDispatchesOnce == cronAdds <= 1

(* Every copy of a campaign a contact receives beyond one for each dispatch *)
(* that began is paid for by a fault of its own: a job that is retried or  *)
(* handed out again after a failure repeats a message to a contact once at *)
(* most, and no interleaving of sweeps, requests and jobs repeats any.  A  *)
(* dispatch that starts over after a failure reads, and fills, anew.       *)
RepeatsNeedAFault ==
    \A k \in Contacts :
        received[k] <= Cardinality({o \in Orders : opc[o] \notin {"none", "waiting"}}) + faults

(* The campaign never reports more messages sent than the provider took,   *)
(* of any contact, and so in all (processMessageSendJob: sentCount only    *)
(* grows when the message went out).                                       *)
SentCountIsHonest == \A k \in Contacts : sentCount[k] <= received[k]

(* Nobody in the audience is forgotten: a contact the dispatch read gets a *)
(* send job that ends, unless the dispatch itself used up its attempts or  *)
(* the contact opted out before it was read again.                         *)
EveryContactIsServed ==
    \A o \in Orders, k \in Contacts :
        opc[o] = "start" /\ k \in todo[o] ~>
            \/ opc[o] = "failed"
            \/ k \notin consent
            \/ \E s \in Sends : to[s] = k /\ spc[s] \in {"done", "failed"}

(* What the help text of the status badge says of a paused campaign: it    *)
(* was cancelled before it ended and nothing more was sent.                *)
PausedSendsNoMore ==
    [][\A k \in Contacts : cstatus = "CANCELLED" => received'[k] = received[k]]_campaignVars
=============================================================================
