--------------------------- MODULE CampaignProofs ---------------------------
(***************************************************************************)
(* Proofs about Campaign: type correctness, that the scheduler dispatches  *)
(* a campaign once, that no contact hears it more often than it was        *)
(* dispatched unless something failed, and that no more is reported sent   *)
(* than was received - for any number of sweeps, requests, jobs and        *)
(* contacts.                                                               *)
(***************************************************************************)
EXTENDS Campaign, FiniteSetTheorems, TLAPS

(* The strengthening.  While the campaign is SCHEDULED no sweep has claimed *)
(* it; the claim takes it out of SCHEDULED for good, so one sweep at most   *)
(* is between its claim and its add, and none once a job was added.        *)
ClaimIsExclusive ==
    /\ cstatus = "SCHEDULED" => cronAdds = 0 /\ \A p \in Crons : cron[p] # "add"
    /\ \A p \in Crons : cron[p] = "add" => cronAdds = 0
    /\ \A p, r \in Crons : cron[p] = "add" /\ cron[r] = "add" => p = r

IInv == CampaignTypeOK /\ ClaimIsExclusive /\ CronDispatchesOnce

SendPc == {"none", "waiting", "template", "text", "record", "bump", "fail", "done", "failed"}

----------------------------------------------------------------------------
(* Initially nothing was claimed and nothing was added.                    *)
LEMMA InitInvariant == CampaignInit => IInv
<1> SUFFICES ASSUME CampaignInit PROVE IInv
  OBVIOUS
<1>1. CampaignTypeOK
  BY DEF CampaignInit, CampaignTypeOK
<1>2. ClaimIsExclusive /\ CronDispatchesOnce
  BY DEF CampaignInit, ClaimIsExclusive, CronDispatchesOnce
<1> QED
  BY <1>1, <1>2 DEF IInv

(* A step that leaves the sweeps alone and does not schedule the campaign   *)
(* keeps the claim exclusive.                                              *)
LEMMA SweepsUntouched ==
    ASSUME IInv, UNCHANGED <<cron, cronAdds>>, cstatus' = cstatus \/ cstatus' # "SCHEDULED"
    PROVE  ClaimIsExclusive' /\ CronDispatchesOnce'
  BY DEF IInv, ClaimIsExclusive, CronDispatchesOnce

(* A retried send job waits again or has failed.                           *)
LEMMA RetryTypes ==
    ASSUME CampaignTypeOK, NEW s \in Sends, Retry(s)
    PROVE  stries' \in [Sends -> Nat] /\ spc' \in [Sends -> SendPc]
  BY DEF CampaignTypeOK, Retry, SendPc

----------------------------------------------------------------------------
(* Every step keeps the invariant.                                         *)
LEMMA StepInvariant == IInv /\ [CampaignNext]_campaignVars => IInv'
<1> SUFFICES ASSUME IInv, [CampaignNext]_campaignVars PROVE IInv'
  OBVIOUS
<1> USE DEF IInv
<1>1. ASSUME NEW p \in Crons, CronFind(p) PROVE IInv'
  <2>1. CampaignTypeOK'
    BY <1>1 DEF CronFind, CronStep, counters, orderVars, sendVars, CampaignTypeOK
  <2>2. ClaimIsExclusive' /\ CronDispatchesOnce'
    BY <1>1 DEF CronFind, CronStep, CampaignTypeOK, ClaimIsExclusive, CronDispatchesOnce
  <2> QED
    BY <2>1, <2>2
<1>2. ASSUME NEW p \in Crons, CronClaim(p) PROVE IInv'
  <2>1. CampaignTypeOK'
    BY <1>2 DEF CronClaim, CronStep, counters, orderVars, sendVars, CampaignTypeOK
  <2>2. ClaimIsExclusive' /\ CronDispatchesOnce'
    BY <1>2 DEF CronClaim, CronStep, CampaignTypeOK, ClaimIsExclusive, CronDispatchesOnce
  <2> QED
    BY <2>1, <2>2
<1>3. ASSUME NEW p \in Crons, CronClaimLost(p) PROVE IInv'
  <2>1. CampaignTypeOK'
    BY <1>3 DEF CronClaimLost, CronStep, counters, orderVars, sendVars, CampaignTypeOK
  <2>2. ClaimIsExclusive' /\ CronDispatchesOnce'
    BY <1>3 DEF CronClaimLost, CronStep, CampaignTypeOK, ClaimIsExclusive, CronDispatchesOnce
  <2> QED
    BY <2>1, <2>2
<1>4. ASSUME NEW p \in Crons, CronAdd(p) PROVE IInv'
  <2>1. CampaignTypeOK'
    BY <1>4 DEF CronAdd, CronStep, Enqueue, counters, sendVars, CampaignTypeOK
  <2>2. ClaimIsExclusive' /\ CronDispatchesOnce'
    BY <1>4 DEF CronAdd, CronStep, CampaignTypeOK, ClaimIsExclusive, CronDispatchesOnce
  <2> QED
    BY <2>1, <2>2
<1>5. ASSUME NEW p \in Crons, CronFails(p) PROVE IInv'
  <2>1. CampaignTypeOK'
    BY <1>5 DEF CronFails, Fault, counters, orderVars, sendVars, CampaignTypeOK
  <2>2. ClaimIsExclusive' /\ CronDispatchesOnce'
    BY <1>5 DEF CronFails, CampaignTypeOK, ClaimIsExclusive, CronDispatchesOnce
  <2> QED
    BY <2>1, <2>2
<1>6. ASSUME NEW q \in Presses, PressUpdate(q) \/ PressAdd(q) \/ PressFails(q) PROVE IInv'
  <2>1. CampaignTypeOK'
    BY <1>6 DEF PressUpdate, PressAdd, PressFails, Enqueue, Fault, counters, orderVars, sendVars, CampaignTypeOK
  <2>2. UNCHANGED <<cron, cronAdds>> /\ (cstatus' = cstatus \/ cstatus' # "SCHEDULED")
    BY <1>6 DEF PressUpdate, PressAdd, PressFails, launchVars
  <2> QED
    BY <2>1, <2>2, SweepsUntouched
<1>7. CASE Pause
  <2>1. CampaignTypeOK'
    BY <1>7 DEF Pause, launchVars, counters, orderVars, sendVars, CampaignTypeOK
  <2>2. UNCHANGED <<cron, cronAdds>> /\ (cstatus' = cstatus \/ cstatus' # "SCHEDULED")
    BY <1>7 DEF Pause, launchVars
  <2> QED
    BY <2>1, <2>2, SweepsUntouched
<1>8. ASSUME NEW k \in Contacts, OptOut(k) PROVE IInv'
  <2>1. CampaignTypeOK'
    BY <1>8 DEF OptOut, launchVars, counters, orderVars, sendVars, CampaignTypeOK
  <2>2. UNCHANGED <<cron, cronAdds>> /\ cstatus' = cstatus
    BY <1>8 DEF OptOut, launchVars
  <2> QED
    BY <2>1, <2>2, SweepsUntouched
<1>9. ASSUME NEW o \in Orders, OrderRun(o) \/ OrderFails(o) \/ OrderStalls(o) PROVE IInv'
  <2>1. CampaignTypeOK'
    <3>1. CASE OrderRead(o)
      BY <3>1 DEF OrderRead, OrderStep, launchVars, counters, sendVars, CampaignTypeOK
    <3>2. CASE OrderStart(o)
      BY <3>2 DEF OrderStart, OrderStep, launchVars, sendVars, CampaignTypeOK
    <3>3. CASE OrderFill(o)
      BY <3>3 DEF OrderFill, launchVars, counters, CampaignTypeOK
    <3>4. CASE OrderComplete(o)
      BY <3>4 DEF OrderComplete, OrderStep, launchVars, counters, sendVars, CampaignTypeOK
    <3>5. CASE OrderFails(o)
      BY <3>5 DEF OrderFails, Fault, launchVars, counters, sendVars, CampaignTypeOK
    <3>6. CASE OrderStalls(o)
      BY <3>6 DEF OrderStalls, Fault, launchVars, counters, sendVars, CampaignTypeOK
    <3> QED
      BY <1>9, <3>1, <3>2, <3>3, <3>4, <3>5, <3>6 DEF OrderRun
  <2>2. UNCHANGED <<cron, cronAdds>> /\ (cstatus' = cstatus \/ cstatus' # "SCHEDULED")
    BY <1>9 DEF OrderRun, OrderRead, OrderStart, OrderFill, OrderComplete, OrderFails,
                OrderStalls, launchVars
  <2> QED
    BY <2>1, <2>2, SweepsUntouched
<1>10. ASSUME NEW s \in Sends,
              SendRun(s) \/ SendCallFails(s) \/ SendRecordFails(s) \/ SendBumpFails(s)
              \/ SendFailFails(s) \/ SendCreateFails(s) \/ SendStalls(s)
       PROVE  IInv'
  <2>1. CampaignKept
    BY <1>10 DEF SendRun, SendCreate, SendCall, SendRecord, SendBump, SendFail, SendCallFails,
                 SendRecordFails, SendBumpFails, SendFailFails, SendCreateFails, SendStalls
  <2>2. UNCHANGED <<cron, cronAdds>> /\ cstatus' = cstatus
    BY <2>1 DEF CampaignKept, launchVars
  <2>3. /\ spc' \in [Sends -> SendPc] /\ stries' \in [Sends -> Nat]
        /\ row' \in [Sends -> {"none", "SENT", "FAILED"}]
        /\ sentCount' \in [Contacts -> Nat] /\ failedCount' \in Nat /\ faults' \in Nat
    <3>1. CASE SendCreate(s)
      BY <3>1 DEF SendCreate, SendStep, counters, CampaignTypeOK, SendPc
    <3>2. CASE SendCall(s)
      BY <3>2 DEF SendCall, SendStep, counters, CampaignTypeOK, SendPc
    <3>3. CASE SendRecord(s)
      BY <3>3 DEF SendRecord, SendStep, counters, CampaignTypeOK, SendPc
    <3>4. CASE SendBump(s)
      <4>1. spc' \in [Sends -> SendPc] /\ UNCHANGED <<stries, row, failedCount, faults>>
        BY <3>4 DEF SendBump, SendStep, CampaignTypeOK, SendPc
      <4>2. sentCount' \in [Contacts -> Nat]
        <5>1. sentCount' = [sentCount EXCEPT ![to[s]] = sentCount[to[s]] + 1] /\ sentCount \in [Contacts -> Nat]
          BY <3>4 DEF SendBump, CountsSent, CampaignTypeOK
        <5>2. CASE to[s] \in Contacts
          BY <5>1, <5>2
        <5>3. CASE to[s] \notin Contacts
          BY <5>1, <5>3
        <5> QED
          BY <5>2, <5>3
      <4> QED
        BY <4>1, <4>2 DEF CampaignTypeOK
    <3>5. CASE SendFail(s)
      BY <3>5, RetryTypes DEF SendFail, CampaignTypeOK, SendPc
    <3>6. CASE SendCallFails(s)
      BY <3>6 DEF SendCallFails, SendStep, Fault, counters, CampaignTypeOK, SendPc
    <3>7. CASE SendRecordFails(s) \/ SendBumpFails(s)
      BY <3>7 DEF SendRecordFails, SendBumpFails, SendStep, Fault, counters, CampaignTypeOK, SendPc
    <3>8. CASE SendFailFails(s)
      BY <3>8, RetryTypes DEF SendFailFails, counters, CampaignTypeOK, SendPc
    <3>9. CASE SendCreateFails(s)
      BY <3>9, RetryTypes DEF SendCreateFails, Fault, counters, CampaignTypeOK, SendPc
    <3>10. CASE SendStalls(s)
      BY <3>10 DEF SendStalls, Fault, counters, CampaignTypeOK, SendPc
    <3> QED
      BY <1>10, <3>1, <3>2, <3>3, <3>4, <3>5, <3>6, <3>7, <3>8, <3>9, <3>10 DEF SendRun
  <2>4. received' \in [Contacts -> Nat]
    BY <1>10 DEF SendRun, SendCreate, SendCall, SendRecord, SendBump, SendFail, SendCallFails,
                 SendRecordFails, SendBumpFails, SendFailFails, SendCreateFails, SendStalls,
                 Accepted, CampaignTypeOK
  <2>5. CampaignTypeOK'
    BY <2>1, <2>3, <2>4 DEF CampaignKept, launchVars, orderVars, CampaignTypeOK, SendPc
  <2> QED
    BY <2>2, <2>5, SweepsUntouched
<1>11. CASE UNCHANGED campaignVars
  <2>1. CampaignTypeOK'
    BY <1>11 DEF campaignVars, launchVars, counters, orderVars, sendVars, CampaignTypeOK
  <2> QED
    BY <1>11, <2>1, SweepsUntouched DEF campaignVars, launchVars
<1> QED
  BY <1>1, <1>2, <1>3, <1>4, <1>5, <1>6, <1>7, <1>8, <1>9, <1>10, <1>11
     DEF CampaignNext, CronRun, Fails

----------------------------------------------------------------------------
(* The inductive invariant.                                                *)
THEOREM Invariance == CampaignSpec => []IInv
<1>1. CampaignInit => IInv
  BY InitInvariant
<1>2. IInv /\ [CampaignNext]_campaignVars => IInv'
  BY StepInvariant
<1> QED
  BY <1>1, <1>2, PTL DEF CampaignSpec

(* The variables of Campaign keep their shapes.                            *)
THEOREM TypeCorrectness == CampaignSpec => []CampaignTypeOK
<1>1. IInv => CampaignTypeOK
  BY DEF IInv
<1> QED
  BY <1>1, Invariance, PTL

(* The scheduler dispatches a campaign once, whatever overlaps.            *)
THEOREM SchedulerDispatchesOnce == CampaignSpec => []CronDispatchesOnce
<1>1. IInv => CronDispatchesOnce
  BY DEF IInv
<1> QED
  BY <1>1, Invariance, PTL

----------------------------------------------------------------------------
(* The books of a contact: each dispatch that has begun, and each fault,    *)
(* owes it one copy at most, which is still to be enqueued, or in a send   *)
(* job, or received.  A job in its catch block may be run again.           *)

OnItsWay == {"waiting", "template", "text", "fail"}
Owing(k) == {o \in Orders : opc[o] \in {"start", "fill"} /\ k \in todo[o]}
Sending(k) == {s \in Sends : to[s] = k /\ spc[s] \in OnItsWay}
Begun == {o \in Orders : opc[o] \notin {"none", "waiting"}}

Balanced(k) ==
    /\ IsFiniteSet(Owing(k)) /\ IsFiniteSet(Sending(k)) /\ IsFiniteSet(Begun)
    /\ received[k] + Cardinality(Sending(k)) + Cardinality(Owing(k)) <= Cardinality(Begun) + faults

Books == \A k \in Contacts : Balanced(k)

(* Initially everything is empty.                                          *)
LEMMA InitBooks == CampaignInit => Books
<1> SUFFICES ASSUME CampaignInit, NEW k \in Contacts PROVE Balanced(k)
  BY DEF Books
<1>1. Owing(k) = {} /\ Sending(k) = {} /\ Begun = {} /\ received[k] = 0 /\ faults = 0
  BY DEF CampaignInit, Owing, Sending, OnItsWay, Begun
<1> QED
  BY <1>1, FS_EmptySet DEF Balanced

(* The numbers of a balanced contact are naturals.                         *)
LEMMA BooksAreNumbers ==
    ASSUME CampaignTypeOK, NEW k \in Contacts, Balanced(k)
    PROVE  /\ Cardinality(Owing(k)) \in Nat /\ Cardinality(Sending(k)) \in Nat
           /\ Cardinality(Begun) \in Nat /\ received[k] \in Nat /\ faults \in Nat
  BY FS_CardinalityType DEF Balanced, CampaignTypeOK

(* A step that moves nobody's copy keeps the books, with a fault or without. *)
LEMMA SameBooks ==
    ASSUME CampaignTypeOK, NEW k \in Contacts, Balanced(k), Owing(k)' = Owing(k),
           Sending(k)' = Sending(k), Begun' = Begun, received'[k] = received[k],
           faults' = faults \/ Fault
    PROVE  Balanced(k)'
<1>1. faults' \in Nat /\ faults' >= faults
  BY BooksAreNumbers DEF Fault
<1> QED
  BY <1>1, BooksAreNumbers DEF Balanced

(* Sweeps and requests at most add a dispatch job that has not begun.      *)
LEMMA LaunchBooks ==
    ASSUME CampaignTypeOK, NEW k \in Contacts, Balanced(k), UNCHANGED <<todo, spc, to, received>>,
           opc' = opc \/ Enqueue, faults' = faults \/ Fault
    PROVE  Balanced(k)'
<1>1. Owing(k)' = Owing(k) /\ Begun' = Begun
  <2>1. CASE opc' = opc
    BY <2>1 DEF Owing, Begun
  <2>2. CASE Enqueue
    BY <2>2 DEF Enqueue, CampaignTypeOK, Owing, Begun
  <2> QED
    BY <2>1, <2>2
<1>2. Sending(k)' = Sending(k)
  BY DEF Sending
<1> QED
  BY <1>1, <1>2, SameBooks

(* A dispatch that reads the audience has begun, and owes one copy.        *)
LEMMA ReadBooks ==
    ASSUME CampaignTypeOK, NEW k \in Contacts, Balanced(k), NEW o \in Orders, OrderRead(o)
    PROVE  Balanced(k)'
<1>1. o \notin Begun /\ Begun' = Begun \cup {o}
  BY DEF OrderRead, OrderStep, CampaignTypeOK, Begun
<1>2. o \notin Owing(k) /\ (Owing(k)' = Owing(k) \cup {o} \/ Owing(k)' = Owing(k))
  BY DEF OrderRead, OrderStep, CampaignTypeOK, Owing
<1>3. Sending(k)' = Sending(k) /\ received'[k] = received[k] /\ faults' = faults
  BY DEF OrderRead, sendVars, Sending
<1>4. IsFiniteSet(Begun') /\ Cardinality(Begun') = Cardinality(Begun) + 1
  BY <1>1, FS_AddElement DEF Balanced
<1>5. IsFiniteSet(Owing(k)') /\ Cardinality(Owing(k)') \in
        {Cardinality(Owing(k)), Cardinality(Owing(k)) + 1}
  BY <1>2, FS_AddElement DEF Balanced
<1> QED
  BY <1>3, <1>4, <1>5, BooksAreNumbers DEF Balanced

(* An enqueued copy moves from the dispatch to a send job.                 *)
LEMMA FillBooks ==
    ASSUME CampaignTypeOK, NEW k \in Contacts, Balanced(k), NEW o \in Orders, OrderFill(o)
    PROVE  Balanced(k)'
<1>1. PICK c \in todo[o], s \in Sends :
        /\ opc[o] = "fill" /\ spc[s] = "none"
        /\ spc' = [spc EXCEPT ![s] = "waiting"]
        /\ to' = [to EXCEPT ![s] = c]
        /\ todo' = [todo EXCEPT ![o] = @ \ {c}]
        /\ UNCHANGED <<opc, received, faults>>
  BY DEF OrderFill
<1>2. Begun' = Begun /\ received'[k] = received[k] /\ faults' = faults
  BY <1>1 DEF Begun
<1>3. CASE c = k
  <2>1. s \notin Sending(k) /\ Sending(k)' = Sending(k) \cup {s}
    BY <1>1, <1>3 DEF CampaignTypeOK, Sending, OnItsWay
  <2>2. o \in Owing(k) /\ Owing(k)' = Owing(k) \ {o}
    BY <1>1, <1>3 DEF CampaignTypeOK, Owing
  <2>3. IsFiniteSet(Sending(k)') /\ Cardinality(Sending(k)') = Cardinality(Sending(k)) + 1
    BY <2>1, FS_AddElement DEF Balanced
  <2>4. IsFiniteSet(Owing(k)') /\ Cardinality(Owing(k)') = Cardinality(Owing(k)) - 1
    BY <2>2, FS_RemoveElement DEF Balanced
  <2> QED
    BY <1>2, <2>3, <2>4, BooksAreNumbers DEF Balanced
<1>4. CASE c # k
  <2>1. Sending(k)' = Sending(k) /\ Owing(k)' = Owing(k)
    BY <1>1, <1>4 DEF CampaignTypeOK, Sending, OnItsWay, Owing
  <2> QED
    BY <1>2, <2>1, SameBooks
<1> QED
  BY <1>3, <1>4

(* A call that succeeds turns a copy on its way into one received.         *)
LEMMA CallBooks ==
    ASSUME CampaignTypeOK, NEW k \in Contacts, Balanced(k), NEW s \in Sends, SendCall(s)
    PROVE  Balanced(k)'
<1>1. /\ spc[s] \in {"template", "text"} /\ spc' = [spc EXCEPT ![s] = "record"]
      /\ received' = [received EXCEPT ![to[s]] = @ + 1]
      /\ UNCHANGED <<to, opc, todo, faults>>
  BY DEF SendCall, SendStep, Accepted, CampaignKept, orderVars
<1>2. Begun' = Begun /\ Owing(k)' = Owing(k) /\ faults' = faults
  BY <1>1 DEF Begun, Owing
<1>3. CASE to[s] = k
  <2>1. s \in Sending(k) /\ Sending(k)' = Sending(k) \ {s}
    BY <1>1, <1>3 DEF CampaignTypeOK, Sending, OnItsWay
  <2>2. IsFiniteSet(Sending(k)') /\ Cardinality(Sending(k)') = Cardinality(Sending(k)) - 1
    BY <2>1, FS_RemoveElement DEF Balanced
  <2>3. received'[k] = received[k] + 1
    BY <1>1, <1>3 DEF CampaignTypeOK
  <2> QED
    BY <1>2, <2>2, <2>3, BooksAreNumbers DEF Balanced
<1>4. CASE to[s] # k
  <2>1. Sending(k)' = Sending(k) /\ received'[k] = received[k]
    BY <1>1, <1>4 DEF CampaignTypeOK, Sending, OnItsWay
  <2> QED
    BY <1>2, <2>1, SameBooks
<1> QED
  BY <1>3, <1>4

(* A step of a job that receives nothing and puts no copy on its way that  *)
(* was not on it, with a fault or without.                                 *)
LEMMA FewerBooks ==
    ASSUME CampaignTypeOK, NEW k \in Contacts, Balanced(k), NEW s \in Sends, NEW pc \in SendPc,
           UNCHANGED <<opc, todo, to, received>>, spc' = [spc EXCEPT ![s] = pc],
           spc[s] \in OnItsWay \/ pc \notin OnItsWay, faults' = faults \/ Fault
    PROVE  Balanced(k)'
<1>1. Begun' = Begun /\ Owing(k)' = Owing(k)
  BY DEF Begun, Owing
<1>2. Sending(k)' \subseteq Sending(k)
  BY DEF CampaignTypeOK, Sending
<1>3. /\ IsFiniteSet(Sending(k)') /\ Cardinality(Sending(k)') \in Nat
      /\ Cardinality(Sending(k)') <= Cardinality(Sending(k))
  BY <1>2, FS_Subset, FS_CardinalityType DEF Balanced
<1>4. faults' \in Nat /\ faults' >= faults
  BY BooksAreNumbers DEF Fault
<1> QED
  BY <1>1, <1>3, <1>4, BooksAreNumbers DEF Balanced

(* The steps of a job that fail nothing, and the catch block.              *)
LEMMA JobBooks ==
    ASSUME CampaignTypeOK, NEW k \in Contacts, Balanced(k), NEW s \in Sends,
           \/ SendCreate(s) \/ SendRecord(s) \/ SendBump(s) \/ SendFail(s) \/ SendFailFails(s)
           \/ SendBumpFails(s) \/ SendCreateFails(s)
    PROVE  Balanced(k)'
<1>1. UNCHANGED <<opc, todo, to, received>> /\ (faults' = faults \/ Fault)
  BY DEF SendCreate, SendRecord, SendBump, SendFail, SendFailFails, SendBumpFails, SendCreateFails,
         CampaignKept, orderVars
<1>2. \E pc \in SendPc : /\ spc' = [spc EXCEPT ![s] = pc]
                         /\ spc[s] \in OnItsWay \/ pc \notin OnItsWay
  BY DEF SendCreate, SendRecord, SendBump, SendFail, SendFailFails, SendBumpFails, SendCreateFails,
         Retry, SendStep, SendPc, OnItsWay
<1> QED
  BY <1>1, <1>2, FewerBooks

(* A call that fails after the provider took the message: the fault pays   *)
(* for the copy, and the job may send another.                             *)
LEMMA CallFailsBooks ==
    ASSUME CampaignTypeOK, NEW k \in Contacts, Balanced(k), NEW s \in Sends, SendCallFails(s)
    PROVE  Balanced(k)'
<1>1. UNCHANGED <<opc, todo, to>> /\ faults' = faults + 1
  BY DEF SendCallFails, CampaignKept, orderVars, Fault
<1>2. received'[k] \in {received[k], received[k] + 1}
  BY DEF SendCallFails, Accepted, CampaignTypeOK
<1>3. Sending(k)' = Sending(k)
  BY <1>1 DEF SendCallFails, SendStep, CampaignTypeOK, Sending, OnItsWay
<1>4. Begun' = Begun /\ Owing(k)' = Owing(k)
  BY <1>1 DEF Begun, Owing
<1> QED
  BY <1>1, <1>2, <1>3, <1>4, BooksAreNumbers DEF Balanced

(* A job that has sent its message and is run again: the fault pays for    *)
(* the copy that is on its way once more.                                  *)
LEMMA RerunBooks ==
    ASSUME CampaignTypeOK, NEW k \in Contacts, Balanced(k), NEW s \in Sends,
           SendRecordFails(s) \/ SendStalls(s)
    PROVE  Balanced(k)'
<1>1. UNCHANGED <<opc, todo, to, received>> /\ faults' = faults + 1
  BY DEF SendRecordFails, SendStalls, CampaignKept, orderVars, Fault
<1>2. Begun' = Begun /\ Owing(k)' = Owing(k)
  BY <1>1 DEF Begun, Owing
<1>3. Sending(k)' = Sending(k) \/ (s \notin Sending(k) /\ Sending(k)' = Sending(k) \cup {s})
  BY <1>1 DEF SendRecordFails, SendStalls, SendStep, CampaignTypeOK, Sending, OnItsWay
<1>4. IsFiniteSet(Sending(k)') /\ Cardinality(Sending(k)') \in
        {Cardinality(Sending(k)), Cardinality(Sending(k)) + 1}
  BY <1>3, FS_AddElement DEF Balanced
<1> QED
  BY <1>1, <1>2, <1>4, BooksAreNumbers DEF Balanced

(* A dispatch that starts over owes nothing; the fault stands for what it  *)
(* had enqueued.                                                           *)
LEMMA OrderFaultBooks ==
    ASSUME CampaignTypeOK, NEW k \in Contacts, Balanced(k), NEW o \in Orders,
           OrderFails(o) \/ OrderStalls(o)
    PROVE  Balanced(k)'
<1>1. /\ UNCHANGED <<spc, to, received>> /\ faults' = faults + 1
      /\ \E pc \in {"waiting", "failed"} : opc' = [opc EXCEPT ![o] = pc]
      /\ todo' = [todo EXCEPT ![o] = {}]
  BY DEF OrderFails, OrderStalls, sendVars, Fault
<1>2. Sending(k)' = Sending(k)
  BY <1>1 DEF Sending
<1>3. Owing(k)' \subseteq Owing(k)
  BY <1>1 DEF CampaignTypeOK, Owing
<1>4. /\ IsFiniteSet(Owing(k)') /\ Cardinality(Owing(k)') \in Nat
      /\ Cardinality(Owing(k)') <= Cardinality(Owing(k))
  BY <1>3, FS_Subset, FS_CardinalityType DEF Balanced
<1>5. \/ Begun' = Begun
      \/ o \notin Begun /\ Begun' = Begun \cup {o}
      \/ o \in Begun /\ Begun' = Begun \ {o}
  BY <1>1 DEF CampaignTypeOK, Begun
<1>6. IsFiniteSet(Begun') /\ Cardinality(Begun') \in
        {Cardinality(Begun), Cardinality(Begun) + 1, Cardinality(Begun) - 1}
  <2>1. IsFiniteSet(Begun)
    BY DEF Balanced
  <2>2. CASE o \notin Begun /\ Begun' = Begun \cup {o}
    BY <2>1, <2>2, FS_AddElement
  <2>3. CASE o \in Begun /\ Begun' = Begun \ {o}
    BY <2>1, <2>3, FS_RemoveElement
  <2> QED
    BY <1>5, <2>1, <2>2, <2>3
<1> QED
  BY <1>1, <1>2, <1>4, <1>6, BooksAreNumbers DEF Balanced

(* Every step keeps the books.                                             *)
LEMMA StepBooks == CampaignTypeOK /\ Books /\ [CampaignNext]_campaignVars => Books'
<1> SUFFICES ASSUME CampaignTypeOK, [CampaignNext]_campaignVars, NEW k \in Contacts, Balanced(k)
             PROVE  Balanced(k)'
  BY DEF Books
<1>1. CASE UNCHANGED campaignVars
  <2>1. Owing(k)' = Owing(k) /\ Sending(k)' = Sending(k) /\ Begun' = Begun
    BY <1>1 DEF campaignVars, orderVars, sendVars, Owing, Sending, Begun
  <2> QED
    BY <1>1, <2>1, SameBooks DEF campaignVars
<1>2. ASSUME \/ \E p \in Crons : CronRun(p) \/ CronFails(p)
             \/ \E q \in Presses : PressUpdate(q) \/ PressAdd(q) \/ PressFails(q)
             \/ Pause
             \/ \E c \in Contacts : OptOut(c)
      PROVE  Balanced(k)'
  <2>1. UNCHANGED <<todo, spc, to, received>> /\ (opc' = opc \/ Enqueue)
    BY <1>2 DEF CronRun, CronFind, CronClaim, CronClaimLost, CronAdd, CronFails, PressUpdate, PressAdd,
       PressFails, Pause, OptOut, orderVars, sendVars
  <2>2. faults' = faults \/ Fault
    BY <1>2 DEF CronRun, CronFind, CronClaim, CronClaimLost, CronAdd, CronFails, PressUpdate, PressAdd,
       PressFails, Pause, OptOut
  <2> QED
    BY <2>1, <2>2, LaunchBooks
<1>3. ASSUME NEW o \in Orders, OrderStart(o) \/ OrderComplete(o) PROVE Balanced(k)'
  <2>1. Begun' = Begun /\ Owing(k)' = Owing(k)
    BY <1>3 DEF OrderStart, OrderComplete, OrderStep, CampaignTypeOK, Begun, Owing
  <2>2. Sending(k)' = Sending(k) /\ received'[k] = received[k] /\ faults' = faults
    BY <1>3 DEF OrderStart, OrderComplete, sendVars, Sending
  <2> QED
    BY <2>1, <2>2, SameBooks
<1>4. ASSUME NEW o \in Orders, OrderRun(o) \/ OrderFails(o) \/ OrderStalls(o) PROVE Balanced(k)'
  BY <1>3, <1>4, ReadBooks, FillBooks, OrderFaultBooks DEF OrderRun
<1>5. ASSUME NEW s \in Sends,
             \/ SendRun(s) \/ SendFailFails(s) \/ SendCallFails(s) \/ SendRecordFails(s)
             \/ SendBumpFails(s) \/ SendCreateFails(s) \/ SendStalls(s)
      PROVE  Balanced(k)'
  BY <1>5, CallBooks, JobBooks, CallFailsBooks, RerunBooks DEF SendRun
<1> QED
  BY <1>1, <1>2, <1>4, <1>5 DEF CampaignNext, Fails

(* A contact gets one copy at most for each dispatch that began and for    *)
(* each fault.                                                             *)
THEOREM RepeatsAreFaults == CampaignSpec => []RepeatsNeedAFault
<1>1. CampaignInit => Books
  BY InitBooks
<1>2. CampaignTypeOK /\ Books /\ [CampaignNext]_campaignVars => Books'
  BY StepBooks
<1>3. CampaignSpec => []Books
  BY <1>1, <1>2, TypeCorrectness, PTL DEF CampaignSpec
<1>4. CampaignTypeOK /\ Books => RepeatsNeedAFault
  <2> SUFFICES ASSUME CampaignTypeOK, Books, NEW k \in Contacts
               PROVE  received[k] <= Cardinality(Begun) + faults
    BY DEF RepeatsNeedAFault, Begun
  <2>1. Balanced(k)
    BY DEF Books
  <2> QED
    BY <2>1, BooksAreNumbers DEF Balanced
<1> QED
  BY <1>3, <1>4, TypeCorrectness, PTL

----------------------------------------------------------------------------
(* The sent count of a contact: what it counts was received, and so was    *)
(* the copy of every job that is about to count one.                       *)

Counting(k) == {s \in Sends : to[s] = k /\ spc[s] \in {"record", "bump"}}

Honest(k) ==
    /\ IsFiniteSet(Counting(k))
    /\ sentCount[k] + Cardinality(Counting(k)) <= received[k]

Counts == \A k \in Contacts : Honest(k)

LEMMA CountsAreNumbers ==
    ASSUME CampaignTypeOK, NEW k \in Contacts, Honest(k)
    PROVE  sentCount[k] \in Nat /\ received[k] \in Nat /\ Cardinality(Counting(k)) \in Nat
  BY FS_CardinalityType DEF Honest, CampaignTypeOK

LEMMA SameCounts ==
    ASSUME NEW k, Honest(k), Counting(k)' = Counting(k),
           sentCount'[k] = sentCount[k], received'[k] = received[k]
    PROVE  Honest(k)'
  BY DEF Honest

(* A job that ends without counting, or fails, or is handed out again.     *)
LEMMA FewerCounting ==
    ASSUME CampaignTypeOK, NEW k \in Contacts, Honest(k), NEW s \in Sends, UNCHANGED to,
           NEW pc \in SendPc \ {"record", "bump"}, spc' = [spc EXCEPT ![s] = pc],
           sentCount'[k] = sentCount[k] \/ (sentCount'[k] = sentCount[k] + 1 /\ s \in Counting(k)),
           received'[k] \in Nat, received'[k] >= received[k]
    PROVE  Honest(k)'
<1>1. Counting(k)' = Counting(k) \ {s}
  BY DEF CampaignTypeOK, Counting
<1>2. /\ IsFiniteSet(Counting(k)') /\ Cardinality(Counting(k)') \in Nat
      /\ Cardinality(Counting(k)') <= Cardinality(Counting(k))
      /\ s \in Counting(k) => Cardinality(Counting(k)') = Cardinality(Counting(k)) - 1
  <2>1. IsFiniteSet(Counting(k)) /\ Cardinality(Counting(k)) \in Nat
    BY CountsAreNumbers DEF Honest
  <2>2. CASE s \in Counting(k)
    <3>1. IsFiniteSet(Counting(k) \ {s}) /\ Cardinality(Counting(k) \ {s}) = Cardinality(Counting(k)) - 1
      BY <2>1, <2>2, FS_RemoveElement
    <3>2. Cardinality(Counting(k) \ {s}) \in Nat
      BY <3>1, FS_CardinalityType
    <3> QED
      BY <1>1, <2>1, <3>1, <3>2
  <2>3. CASE s \notin Counting(k)
    <3>1. Counting(k)' = Counting(k)
      BY <1>1, <2>3
    <3> QED
      BY <2>1, <2>3, <3>1
  <2> QED
    BY <2>2, <2>3
<1> DEFINE now == Cardinality(Counting(k))
           next == Cardinality(Counting(k)')
<1>3. /\ sentCount[k] \in Nat /\ received[k] \in Nat /\ now \in Nat /\ next \in Nat /\ next <= now
      /\ sentCount[k] + now <= received[k] /\ received'[k] \in Nat /\ received'[k] >= received[k]
      /\ s \in Counting(k) => next = now - 1
  <2>1. sentCount[k] + now <= received[k]
    BY DEF Honest
  <2>2. sentCount[k] \in Nat /\ received[k] \in Nat /\ now \in Nat
    BY CountsAreNumbers
  <2>3. next \in Nat /\ next <= now /\ (s \in Counting(k) => next = now - 1)
    BY <1>2
  <2> QED
    BY <2>1, <2>2, <2>3
<1> HIDE DEF now, next
<1>4. sentCount'[k] + next <= received'[k]
  BY <1>3
<1>5. IsFiniteSet(Counting(k))' /\ next = Cardinality(Counting(k))'
  BY <1>2 DEF next
<1> QED
  BY <1>4, <1>5 DEF Honest

(* A call that succeeds puts its job among those about to count.           *)
LEMMA CallCounts ==
    ASSUME CampaignTypeOK, NEW k \in Contacts, Honest(k), NEW s \in Sends, SendCall(s)
    PROVE  Honest(k)'
<1>1. /\ spc[s] \in {"template", "text"} /\ spc' = [spc EXCEPT ![s] = "record"]
      /\ received' = [received EXCEPT ![to[s]] = @ + 1]
      /\ UNCHANGED <<to, sentCount>>
  BY DEF SendCall, SendStep, Accepted, CampaignKept, counters
<1>2. CASE to[s] = k
  <2>1. s \notin Counting(k) /\ Counting(k)' = Counting(k) \cup {s}
    BY <1>1, <1>2 DEF CampaignTypeOK, Counting
  <2>2. IsFiniteSet(Counting(k)') /\ Cardinality(Counting(k)') = Cardinality(Counting(k)) + 1
    BY <2>1, FS_AddElement DEF Honest
  <2>3. received'[k] = received[k] + 1 /\ sentCount'[k] = sentCount[k]
    BY <1>1, <1>2 DEF CampaignTypeOK
  <2> QED
    BY <2>2, <2>3, CountsAreNumbers DEF Honest
<1>3. CASE to[s] # k
  <2>1. Counting(k)' = Counting(k) /\ received'[k] = received[k] /\ sentCount'[k] = sentCount[k]
    BY <1>1, <1>3 DEF CampaignTypeOK, Counting
  <2> QED
    BY <2>1, SameCounts
<1> QED
  BY <1>2, <1>3

LEMMA BumpCounts ==
    ASSUME CampaignTypeOK, NEW k \in Contacts, Honest(k), NEW s \in Sends, SendBump(s)
    PROVE  Honest(k)'
<1>1. /\ spc[s] = "bump" /\ spc' = [spc EXCEPT ![s] = "done"] /\ UNCHANGED <<to, received>>
      /\ sentCount' = [sentCount EXCEPT ![to[s]] = @ + 1]
  BY DEF SendBump, CountsSent, SendStep, CampaignKept
<1>2. sentCount'[k] = sentCount[k] \/ (sentCount'[k] = sentCount[k] + 1 /\ s \in Counting(k))
  BY <1>1 DEF CampaignTypeOK, Counting
<1>3. received'[k] \in Nat /\ received'[k] >= received[k]
  BY <1>1, CountsAreNumbers
<1> QED
  BY <1>1, <1>2, <1>3, FewerCounting DEF SendPc

(* The calls of a job that fail, and its other steps but one.              *)
LEMMA LostCounts ==
    ASSUME CampaignTypeOK, NEW k \in Contacts, Honest(k), NEW s \in Sends,
           \/ SendCreate(s) \/ SendFail(s) \/ SendCallFails(s) \/ SendRecordFails(s)
           \/ SendBumpFails(s) \/ SendFailFails(s) \/ SendCreateFails(s) \/ SendStalls(s)
    PROVE  Honest(k)'
<1>1. UNCHANGED <<to, sentCount>>
  BY DEF SendCreate, SendFail, SendCallFails, SendRecordFails, SendBumpFails, SendFailFails,
         SendCreateFails, SendStalls, CampaignKept, counters
<1>2. PICK pc \in SendPc \ {"record", "bump"} : spc' = [spc EXCEPT ![s] = pc]
  <2>1. CASE SendCreate(s) \/ SendCallFails(s) \/ SendRecordFails(s) \/ SendBumpFails(s) \/ SendStalls(s)
    BY <2>1 DEF SendCreate, SendCallFails, SendRecordFails, SendBumpFails, SendStalls, SendStep, SendPc
  <2>2. CASE SendFail(s) \/ SendFailFails(s) \/ SendCreateFails(s)
    BY <2>2 DEF SendFail, SendFailFails, SendCreateFails, Retry, SendPc
  <2> QED
    BY <2>1, <2>2
<1>3. received'[k] \in Nat /\ received'[k] >= received[k]
  <2>1. CASE SendCallFails(s)
    BY <2>1 DEF SendCallFails, Accepted, CampaignTypeOK
  <2>2. CASE ~SendCallFails(s)
    <3>1. UNCHANGED received
      BY <2>2 DEF SendCreate, SendFail, SendRecordFails, SendBumpFails, SendFailFails, SendCreateFails, SendStalls
    <3> QED
      BY <3>1, CountsAreNumbers
  <2> QED
    BY <2>1, <2>2
<1> QED
  BY <1>1, <1>2, <1>3, FewerCounting

(* A dispatch that starts sets the count back; what is on its way counts.  *)
LEMMA OrderCounts ==
    ASSUME CampaignTypeOK, NEW k \in Contacts, Honest(k), NEW o \in Orders, OrderRun(o)
    PROVE  Honest(k)'
<1>1. CASE OrderStart(o)
  <2>1. Counting(k)' = Counting(k) /\ received'[k] = received[k] /\ sentCount'[k] = 0
    BY <1>1 DEF OrderStart, sendVars, Counting
  <2> QED
    BY <2>1, CountsAreNumbers DEF Honest
<1>2. CASE OrderFill(o)
  <2>1. Counting(k)' = Counting(k)
    BY <1>2 DEF OrderFill, Counting, CampaignTypeOK
  <2>2. sentCount'[k] = sentCount[k] /\ received'[k] = received[k]
    BY <1>2 DEF OrderFill, counters
  <2> QED
    BY <2>1, <2>2, SameCounts
<1>3. CASE OrderRead(o) \/ OrderComplete(o)
  <2>1. Counting(k)' = Counting(k) /\ sentCount'[k] = sentCount[k] /\ received'[k] = received[k]
    BY <1>3 DEF OrderRead, OrderComplete, counters, sendVars, Counting
  <2> QED
    BY <2>1, SameCounts
<1> QED
  BY <1>1, <1>2, <1>3 DEF OrderRun

LEMMA StepCounts == CampaignTypeOK /\ Counts /\ [CampaignNext]_campaignVars => Counts'
<1> SUFFICES ASSUME CampaignTypeOK, Counts, [CampaignNext]_campaignVars, NEW k \in Contacts
             PROVE  Honest(k)'
  BY DEF Counts
<1>1. Honest(k)
  BY DEF Counts
<1>2. CASE UNCHANGED <<spc, to, counters, received>>
  <2>1. Counting(k)' = Counting(k) /\ sentCount'[k] = sentCount[k] /\ received'[k] = received[k]
    BY <1>2 DEF counters, Counting
  <2> QED
    BY <1>1, <2>1, SameCounts
<1>3. ASSUME NEW s \in Sends, SendRecord(s) PROVE Honest(k)'
  <2>1. Counting(k)' = Counting(k)
    BY <1>3 DEF SendRecord, SendStep, CampaignKept, CampaignTypeOK, Counting
  <2>2. sentCount'[k] = sentCount[k] /\ received'[k] = received[k]
    BY <1>3 DEF SendRecord, counters
  <2> QED
    BY <1>1, <2>1, <2>2, SameCounts
<1>4. ASSUME NEW s \in Sends,
             \/ SendRun(s) \/ SendFailFails(s) \/ SendCallFails(s) \/ SendRecordFails(s)
             \/ SendBumpFails(s) \/ SendCreateFails(s) \/ SendStalls(s)
      PROVE  Honest(k)'
  BY <1>1, <1>3, <1>4, CallCounts, BumpCounts, LostCounts DEF SendRun
<1>5. ASSUME NEW o \in Orders, OrderRun(o) PROVE Honest(k)'
  BY <1>1, <1>5, OrderCounts
<1>6. ASSUME \/ \E p \in Crons : CronRun(p) \/ CronFails(p)
             \/ \E q \in Presses : PressUpdate(q) \/ PressAdd(q) \/ PressFails(q)
             \/ Pause
             \/ \E c \in Contacts : OptOut(c)
             \/ \E o \in Orders : OrderFails(o) \/ OrderStalls(o)
             \/ UNCHANGED campaignVars
      PROVE  UNCHANGED <<spc, to, counters, received>>
  BY <1>6 DEF CronRun, CronFind, CronClaim, CronClaimLost, CronAdd, CronFails, PressUpdate, PressAdd,
     PressFails, Pause, OptOut, OrderFails, OrderStalls, sendVars, campaignVars
<1> QED
  BY <1>2, <1>4, <1>5, <1>6 DEF CampaignNext, Fails

(* The campaign reports no more messages sent than the provider took, of   *)
(* any contact, whatever fails, repeats or is dispatched again.            *)
THEOREM SentCountsAreHonest == CampaignSpec => []SentCountIsHonest
<1>1. CampaignInit => Counts
  <2> SUFFICES ASSUME CampaignInit, NEW k \in Contacts PROVE Honest(k)
    BY DEF Counts
  <2>1. Counting(k) = {} /\ sentCount[k] = 0 /\ received[k] = 0
    BY DEF CampaignInit, Counting
  <2> QED
    BY <2>1, FS_EmptySet DEF Honest
<1>2. CampaignTypeOK /\ Counts /\ [CampaignNext]_campaignVars => Counts'
  BY StepCounts
<1>3. CampaignTypeOK /\ Counts => SentCountIsHonest
  BY CountsAreNumbers DEF Counts, Honest, SentCountIsHonest
<1> QED
  BY <1>1, <1>2, <1>3, TypeCorrectness, PTL DEF CampaignSpec
=============================================================================
