--------------------------- MODULE HandoffProofs ---------------------------
(***************************************************************************)
(* Proofs about Handoff: type correctness, the cause of every durable      *)
(* pause, and the refinement of Custody, for any number of customers,      *)
(* conversations, messages, requests and people.                           *)
(***************************************************************************)
EXTENDS Handoff, TLAPS

ErrorStep == {"tempCache", "tempDb", "notice"}

(* The steps that are not the hand-over to a person.                       *)
QuietStep == Step \ {"markDb", "net"}

(* The strengthening.  A conversation found or created for a turn is one of *)
(* its sender's, and there is none before the webhook; a turn whose guard  *)
(* failed has only the steps of the catch-all ahead; a turn that has not   *)
(* asked for a person has no hand-over ahead; a request that never started *)
(* has no kind.                                                            *)
TurnsFiled ==
    \A t \in Turns :
        /\ tpc[t] = "idle" => tconv[t] = Nobody
        /\ tconv[t] # Nobody => tconv[t] \in Convs /\ contactOf[tconv[t]] = Sender[t]

FailedOnlyNotices ==
    \A t \in Turns : tpc[t] = "failed" => agenda[t] \in Seq(ErrorStep)

UnaskedAreQuiet ==
    \A t \in Turns : t \notin asked => agenda[t] \in Seq(QuietStep)

RequestsAim ==
    \A r \in Requests :
        /\ rpc[r] = "idle" => rkind[r] = "none"
        /\ rpc[r] # "idle" => rconv[r] \in Convs

IInv == HandoffTypeOK /\ TurnsFiled /\ FailedOnlyNotices /\ UnaskedAreQuiet /\ RequestsAim

----------------------------------------------------------------------------
(* Every plan the agent can adopt is a sequence of steps.                  *)
LEMMA PlansAreSteps ==
    /\ ErrorPlan \in Seq(Step) /\ ErrorPlan \in Seq(ErrorStep) /\ ErrorPlan \in Seq(QuietStep)
    /\ EarlyPlans \subseteq Seq(Step)
    /\ ModelPlans \subseteq Seq(Step)
    /\ \A p \in FlowPrefixes : p \o <<"model">> \in Seq(Step)
<1>1. /\ "markCache" \in Step /\ "markDb" \in Step /\ "say" \in Step /\ "softSay" \in Step
      /\ "net" \in Step /\ "tempCache" \in Step /\ "tempDb" \in Step /\ "notice" \in Step
      /\ "model" \in Step /\ "flow" \in Step
  BY DEF Step
<1>2. \A p, q \in Seq(Step) : p \o q \in Seq(Step)
  OBVIOUS
<1>3. /\ Mark("say") \in Seq(Step) /\ Mark("softSay") \in Seq(Step)
  BY <1>1 DEF Mark
<1>4. /\ <<>> \in Seq(Step) /\ <<"say">> \in Seq(Step) /\ <<"softSay">> \in Seq(Step)
      /\ <<"softSay", "net">> \in Seq(Step) /\ <<"say", "net">> \in Seq(Step)
      /\ <<"model">> \in Seq(Step)
  BY <1>1
<1>5. ErrorPlan \in Seq(Step) /\ ErrorPlan \in Seq(ErrorStep) /\ ErrorPlan \in Seq(QuietStep)
  BY <1>1 DEF ErrorPlan, ErrorStep, QuietStep
<1>6. EarlyPlans \subseteq Seq(Step)
  BY <1>2, <1>3, <1>4 DEF EarlyPlans
<1>7. ModelPlans \subseteq Seq(Step)
  BY <1>2, <1>3, <1>4 DEF ModelPlans
<1>8. \A p \in FlowPrefixes : p \o <<"model">> \in Seq(Step)
  BY <1>2, <1>3, <1>4 DEF FlowPrefixes
<1>9. QED
  BY <1>5, <1>6, <1>7, <1>8

(* What is left of a sequence of steps is a sequence of steps.             *)
LEMMA TailKeepsSteps ==
    ASSUME NEW S, NEW p \in Seq(S), p # <<>>
    PROVE  Tail(p) \in Seq(S) /\ Head(p) \in S
OBVIOUS

(* Type correctness of the initial state. *)
LEMMA InitInvariant == HandoffInit => IInv
<1> SUFFICES ASSUME HandoffInit PROVE IInv
  OBVIOUS
<1>1. HandoffTypeOK
  BY DEF HandoffInit, HandoffTypeOK, Status, CacheValue, TurnPc, RequestPc, RequestKind
<1>2. TurnsFiled /\ FailedOnlyNotices /\ UnaskedAreQuiet /\ RequestsAim
  BY DEF HandoffInit, TurnsFiled, FailedOnlyNotices, UnaskedAreQuiet, RequestsAim
<1>3. QED
  BY <1>1, <1>2 DEF IInv

(* Moving to the next step keeps the agenda a sequence of steps. *)
LEMMA NextStepTypes ==
    ASSUME HandoffTypeOK, NEW t \in Turns, Running(t), NextStep(t)
    PROVE  agenda' \in [Turns -> Seq(Step)]
<1>1. Tail(agenda[t]) \in Seq(Step)
  BY TailKeepsSteps DEF HandoffTypeOK, Running
<1>2. QED
  BY <1>1 DEF HandoffTypeOK, NextStep

(* Nor does it bring a hand-over into the plan of a turn that asked for    *)
(* nobody.                                                                 *)
LEMMA NextStepQuiet ==
    ASSUME UnaskedAreQuiet, HandoffTypeOK, NEW t \in Turns, Running(t), NextStep(t), asked' = asked
    PROVE  UnaskedAreQuiet'
<1> SUFFICES ASSUME NEW u \in Turns, u \notin asked PROVE agenda'[u] \in Seq(QuietStep)
  BY DEF UnaskedAreQuiet
<1>1. agenda[u] \in Seq(QuietStep)
  BY DEF UnaskedAreQuiet
<1>2. CASE u = t
  <2>1. Tail(agenda[t]) \in Seq(QuietStep)
    BY <1>1, <1>2, TailKeepsSteps DEF Running
  <2> QED
    BY <1>2, <2>1 DEF NextStep, HandoffTypeOK
<1>3. CASE u # t
  BY <1>1, <1>3 DEF NextStep, HandoffTypeOK
<1> QED
  BY <1>2, <1>3

(* A plan that asks for nobody has no hand-over in it.                     *)
LEMMA QuietPlans ==
    ASSUME NEW plan \in Seq(Step), ~AsksForPeople(plan)
    PROVE  plan \in Seq(QuietStep)
<1>1. \A i \in 1 .. Len(plan) : plan[i] \in QuietStep
  BY DEF AsksForPeople, QuietStep
<1> QED
  BY <1>1

(* A new plan is recorded as one that asks for a person when it does.      *)
LEMMA PlanTypes ==
    ASSUME HandoffTypeOK, UnaskedAreQuiet, NEW t \in Turns,
           (\E plan \in Seq(Step) : Adopts(t, plan)) \/ Throws(t)
    PROVE  /\ agenda' \in [Turns -> Seq(Step)] /\ asked' \in SUBSET Turns
           /\ UnaskedAreQuiet'
           /\ \A u \in Turns \ {t} : agenda'[u] = agenda[u]
<1>1. PICK plan \in Seq(Step) :
        /\ agenda' = [agenda EXCEPT ![t] = plan]
        /\ asked' \in {asked \cup {t}, asked \ {t}}
        /\ t \notin asked' => plan \in Seq(QuietStep)
  <2>1. CASE Throws(t)
    BY <2>1, PlansAreSteps DEF Throws
  <2>2. ASSUME NEW plan \in Seq(Step), Adopts(t, plan)
        PROVE  /\ agenda' = [agenda EXCEPT ![t] = plan]
               /\ asked' \in {asked \cup {t}, asked \ {t}}
               /\ t \notin asked' => plan \in Seq(QuietStep)
    BY <2>2, QuietPlans DEF Adopts
  <2> QED
    BY <2>1, <2>2
<1>2. agenda' \in [Turns -> Seq(Step)] /\ asked' \in SUBSET Turns
  BY <1>1 DEF HandoffTypeOK
<1>3. /\ agenda'[t] = plan
      /\ \A u \in Turns \ {t} : agenda'[u] = agenda[u] /\ (u \in asked' <=> u \in asked)
  BY <1>1 DEF HandoffTypeOK
<1>4. UnaskedAreQuiet'
  BY <1>1, <1>3 DEF UnaskedAreQuiet
<1> QED
  BY <1>2, <1>3, <1>4

(* A turn whose guard failed runs only the steps of the catch-all. *)
LEMMA FailedIsSilent ==
    ASSUME FailedOnlyNotices, NEW t \in Turns, NEW s \in Step \ ErrorStep, AtStep(t, s)
    PROVE  tpc[t] = "running"
<1>1. CASE tpc[t] = "failed"
  <2>1. agenda[t] \in Seq(ErrorStep) /\ agenda[t] # <<>>
    BY <1>1 DEF FailedOnlyNotices, AtStep, Running
  <2>2. Head(agenda[t]) \in ErrorStep
    BY <2>1, TailKeepsSteps
  <2>3. QED
    BY <2>2 DEF AtStep
<1>2. QED
  BY <1>1 DEF AtStep, Running

(* Every step preserves the invariant. *)
LEMMA StepInvariant == IInv /\ [HandoffNext]_handoffVars => IInv'
<1> SUFFICES ASSUME IInv, [HandoffNext]_handoffVars PROVE IInv'
  OBVIOUS
<1> USE DEF IInv
<1>1. ASSUME NEW t \in Turns, InboundFind(t) PROVE IInv'
  <2>1. HandoffTypeOK'
    BY <1>1, SenderAssumption DEF HandoffTypeOK, InboundFind, convVars, turnVars, requestVars, Status, CacheValue, TurnPc, RequestPc, RequestKind
  <2>2. TurnsFiled' /\ FailedOnlyNotices' /\ RequestsAim'
    BY <1>1 DEF HandoffTypeOK, TurnsFiled, FailedOnlyNotices, ErrorStep, RequestsAim, InboundFind, convVars, turnVars, requestVars
  <2>3. UnaskedAreQuiet'
    BY <1>1 DEF UnaskedAreQuiet, InboundFind, turnVars
  <2>4. QED
    BY <2>1, <2>2, <2>3
<1>2. ASSUME NEW t \in Turns, InboundCreate(t) PROVE IInv'
  <2>1. PICK c \in Convs : /\ ~Exists(c)
                           /\ contactOf' = [contactOf EXCEPT ![c] = Sender[t]]
                           /\ tconv' = [tconv EXCEPT ![t] = c]
    BY <1>2 DEF InboundCreate
  <2>2. /\ tpc[t] = "found" /\ tconv[t] = Nobody
        /\ UNCHANGED <<status, aiPaused, assigned, cache, tpc, agenda, replied, stalled, asked,
                       requestVars, lote>>
    BY <1>2 DEF InboundCreate
  <2>3. Sender \in [Turns -> Customers] /\ Nobody \notin Customers /\ Nobody \notin Convs
    BY SenderAssumption, NobodyAssumption
  <2>4. TurnsFiled'
    <3> SUFFICES ASSUME NEW u \in Turns, tconv'[u] # Nobody
                 PROVE  tconv'[u] \in Convs /\ contactOf'[tconv'[u]] = Sender[u]
      BY <2>1, <2>2 DEF TurnsFiled, HandoffTypeOK
    <3>1. CASE u = t
      BY <2>1, <3>1 DEF HandoffTypeOK
    <3>2. CASE u # t
      <4>1. tconv'[u] = tconv[u] /\ tconv[u] \in Convs /\ contactOf[tconv[u]] = Sender[u]
        BY <2>1, <3>2 DEF HandoffTypeOK, TurnsFiled
      <4>2. tconv[u] # c
        BY <2>1, <2>3, <4>1 DEF Exists
      <4> QED
        BY <2>1, <4>1, <4>2 DEF HandoffTypeOK
    <3> QED
      BY <3>1, <3>2
  <2>5. HandoffTypeOK'
    <3>1. contactOf' \in [Convs -> Customers \cup {Nobody}] /\ tconv' \in [Turns -> Convs \cup {Nobody}]
      BY <2>1, <2>3 DEF HandoffTypeOK
    <3>2. \A u \in Turns : tpc'[u] \notin {"idle", "found"} =>
             tconv'[u] \in Convs /\ contactOf'[tconv'[u]] = Sender[u]
      <4> SUFFICES ASSUME NEW u \in Turns, tpc'[u] \notin {"idle", "found"}
                   PROVE  tconv'[u] # Nobody
        BY <2>4 DEF TurnsFiled
      <4>1. u # t /\ tconv[u] \in Convs
        BY <2>2 DEF HandoffTypeOK
      <4> QED
        BY <2>1, <2>3, <4>1 DEF HandoffTypeOK
    <3> QED
      BY <2>2, <3>1, <3>2 DEF HandoffTypeOK, requestVars
  <2>6. FailedOnlyNotices' /\ UnaskedAreQuiet' /\ RequestsAim'
    BY <2>2 DEF FailedOnlyNotices, UnaskedAreQuiet, RequestsAim, requestVars
  <2> QED
    BY <2>4, <2>5, <2>6
<1>3. ASSUME NEW t \in Turns, InboundStore(t) PROVE IInv'
  <2>1. HandoffTypeOK'
    BY <1>3 DEF HandoffTypeOK, TurnsFiled, InboundStore, convVars, turnVars, requestVars, Status, CacheValue, TurnPc, RequestPc, RequestKind
  <2>2. TurnsFiled' /\ FailedOnlyNotices' /\ RequestsAim'
    BY <1>3 DEF HandoffTypeOK, TurnsFiled, FailedOnlyNotices, ErrorStep, RequestsAim, InboundStore, convVars, turnVars, requestVars
  <2>3. UnaskedAreQuiet'
    BY <1>3 DEF UnaskedAreQuiet, InboundStore, turnVars
  <2>4. QED
    BY <2>1, <2>2, <2>3
<1>4. ASSUME NEW t \in Turns, TurnCheckCache(t) PROVE IInv'
  <2>1. HandoffTypeOK'
    <3>1. cache' \in [Customers -> CacheValue]
      BY <1>4 DEF HandoffTypeOK, TurnCheckCache, CacheValue
    <3>2. /\ tpc' \in [Turns -> TurnPc]
          /\ \A u \in Turns : tpc'[u] \notin {"idle", "found"} => tpc[u] \notin {"idle", "found"}
      BY <1>4 DEF HandoffTypeOK, TurnCheckCache, TurnPc
    <3> QED
      BY <1>4, <3>1, <3>2 DEF HandoffTypeOK, TurnCheckCache, convVars, requestVars
  <2>2. TurnsFiled' /\ FailedOnlyNotices' /\ RequestsAim'
    BY <1>4 DEF HandoffTypeOK, TurnsFiled, FailedOnlyNotices, ErrorStep, RequestsAim, TurnCheckCache, convVars, turnVars, requestVars
  <2>3. UnaskedAreQuiet'
    BY <1>4 DEF UnaskedAreQuiet, TurnCheckCache, turnVars
  <2>4. QED
    BY <2>1, <2>2, <2>3
<1>5. ASSUME NEW t \in Turns, TurnGuard(t) PROVE IInv'
  <2>1. HandoffTypeOK'
    <3>1. tpc' \in [Turns -> TurnPc]
      BY <1>5 DEF HandoffTypeOK, TurnGuard, TurnPc
    <3>2. <<"flow">> \in Seq(Step)
      BY DEF Step
    <3>3. agenda' \in [Turns -> Seq(Step)]
      BY <1>5, <3>2 DEF HandoffTypeOK, TurnGuard
    <3>4. QED
      BY <1>5, <3>1, <3>3 DEF HandoffTypeOK, TurnGuard, convVars, requestVars
  <2>2. TurnsFiled' /\ FailedOnlyNotices' /\ RequestsAim'
    BY <1>5 DEF HandoffTypeOK, TurnsFiled, FailedOnlyNotices, ErrorStep, RequestsAim, TurnGuard, convVars, turnVars, requestVars
  <2>3. UnaskedAreQuiet'
    <3>1. <<"flow">> \in Seq(QuietStep)
      BY DEF Step, QuietStep
    <3> QED
      BY <1>5, <3>1 DEF UnaskedAreQuiet, HandoffTypeOK, TurnGuard
  <2>4. QED
    BY <2>1, <2>2, <2>3
<1>6. ASSUME NEW t \in Turns, TurnGuardFails(t) PROVE IInv'
  <2>1. HandoffTypeOK'
    BY <1>6, PlansAreSteps, TailKeepsSteps, SenderAssumption DEF HandoffTypeOK, TurnGuardFails, convVars, turnVars, requestVars, Status, CacheValue, TurnPc, RequestPc, RequestKind
  <2>2. TurnsFiled' /\ FailedOnlyNotices' /\ RequestsAim'
    BY <1>6, PlansAreSteps, TailKeepsSteps DEF HandoffTypeOK, TurnsFiled, FailedOnlyNotices, ErrorStep, RequestsAim, TurnGuardFails, convVars, turnVars, requestVars
  <2>3. UnaskedAreQuiet'
    BY <1>6, PlansAreSteps DEF UnaskedAreQuiet, HandoffTypeOK, TurnGuardFails
  <2>4. QED
    BY <2>1, <2>2, <2>3
<1>7. ASSUME NEW t \in Turns, TurnFlow(t) PROVE IInv'
  <2>1. (\E plan \in Seq(Step) : Adopts(t, plan)) \/ Throws(t)
    BY <1>7, PlansAreSteps DEF TurnFlow
  <2>2. tpc[t] = "running"
    BY <1>7, FailedIsSilent DEF TurnFlow, Step, ErrorStep
  <2>3. HandoffTypeOK' /\ UnaskedAreQuiet'
    BY <1>7, <2>1, PlanTypes DEF HandoffTypeOK, TurnFlow, convVars, requestVars
  <2>4. TurnsFiled' /\ FailedOnlyNotices' /\ RequestsAim'
    BY <1>7, <2>1, <2>2, PlanTypes DEF TurnsFiled, FailedOnlyNotices, RequestsAim, TurnFlow, convVars, requestVars
  <2> QED
    BY <2>3, <2>4
<1>8. ASSUME NEW t \in Turns, TurnModel(t) PROVE IInv'
  <2>1. (\E plan \in Seq(Step) : Adopts(t, plan)) \/ Throws(t)
    BY <1>8, PlansAreSteps DEF TurnModel
  <2>2. tpc[t] = "running"
    BY <1>8, FailedIsSilent DEF TurnModel, Step, ErrorStep
  <2>3. HandoffTypeOK' /\ UnaskedAreQuiet'
    BY <1>8, <2>1, PlanTypes DEF HandoffTypeOK, TurnModel, convVars, requestVars
  <2>4. TurnsFiled' /\ FailedOnlyNotices' /\ RequestsAim'
    BY <1>8, <2>1, <2>2, PlanTypes DEF TurnsFiled, FailedOnlyNotices, RequestsAim, TurnModel, convVars, requestVars
  <2> QED
    BY <2>3, <2>4
<1>9. ASSUME NEW t \in Turns, TurnSay(t) PROVE IInv'
  <2>1. HandoffTypeOK'
    BY <1>9, PlansAreSteps, TailKeepsSteps, SenderAssumption DEF HandoffTypeOK, TurnSay, AtStep, Running, NextStep, convVars, turnVars, requestVars, Status, CacheValue, TurnPc, RequestPc, RequestKind
  <2>2. TurnsFiled' /\ FailedOnlyNotices' /\ RequestsAim'
    BY <1>9, PlansAreSteps, TailKeepsSteps DEF HandoffTypeOK, TurnsFiled, FailedOnlyNotices, ErrorStep, RequestsAim, TurnSay, AtStep, Running, NextStep, convVars, turnVars, requestVars
  <2>3. UnaskedAreQuiet'
    BY <1>9, NextStepQuiet DEF TurnSay, AtStep, turnVars
  <2>4. QED
    BY <2>1, <2>2, <2>3
<1>10. ASSUME NEW t \in Turns, TurnSayFails(t) PROVE IInv'
  <2>1. CASE AtStep(t, "say") /\ Throws(t)
    <3>1. tpc[t] = "running"
      BY <2>1, FailedIsSilent DEF Step, ErrorStep
    <3>2. HandoffTypeOK' /\ UnaskedAreQuiet'
      BY <1>10, <2>1, PlanTypes DEF HandoffTypeOK, TurnSayFails, convVars, requestVars
    <3>3. TurnsFiled' /\ FailedOnlyNotices' /\ RequestsAim'
      BY <1>10, <2>1, <3>1, PlanTypes DEF TurnsFiled, FailedOnlyNotices, RequestsAim, TurnSayFails, convVars, requestVars
    <3> QED
      BY <3>2, <3>3
  <2>2. CASE AtStep(t, "softSay") /\ NextStep(t) /\ UNCHANGED asked
    <3>1. HandoffTypeOK'
      BY <1>10, <2>2, NextStepTypes DEF HandoffTypeOK, TurnSayFails, AtStep, convVars, requestVars
    <3>2. TurnsFiled' /\ FailedOnlyNotices' /\ RequestsAim'
      BY <1>10, <2>2, TailKeepsSteps DEF HandoffTypeOK, TurnsFiled, FailedOnlyNotices, RequestsAim, TurnSayFails, AtStep, Running, NextStep, convVars, requestVars
    <3>3. UnaskedAreQuiet'
      BY <1>10, <2>2, NextStepQuiet DEF AtStep
    <3> QED
      BY <3>1, <3>2, <3>3
  <2> QED
    BY <1>10, <2>1, <2>2 DEF TurnSayFails
<1>11. ASSUME NEW t \in Turns, TurnNotice(t) PROVE IInv'
  <2>1. HandoffTypeOK'
    BY <1>11, PlansAreSteps, TailKeepsSteps, SenderAssumption DEF HandoffTypeOK, TurnNotice, AtStep, Running, NextStep, convVars, turnVars, requestVars, Status, CacheValue, TurnPc, RequestPc, RequestKind
  <2>2. TurnsFiled' /\ FailedOnlyNotices' /\ RequestsAim'
    BY <1>11, PlansAreSteps, TailKeepsSteps DEF HandoffTypeOK, TurnsFiled, FailedOnlyNotices, ErrorStep, RequestsAim, TurnNotice, AtStep, Running, NextStep, convVars, turnVars, requestVars
  <2>3. UnaskedAreQuiet'
    BY <1>11, NextStepQuiet DEF TurnNotice, AtStep, turnVars
  <2>4. QED
    BY <2>1, <2>2, <2>3
<1>12. ASSUME NEW t \in Turns, TurnMarkCache(t) PROVE IInv'
  <2>1. HandoffTypeOK'
    BY <1>12, PlansAreSteps, TailKeepsSteps, SenderAssumption DEF HandoffTypeOK, TurnMarkCache, AtStep, Running, NextStep, convVars, turnVars, requestVars, Status, CacheValue, TurnPc, RequestPc, RequestKind
  <2>2. TurnsFiled' /\ FailedOnlyNotices' /\ RequestsAim'
    BY <1>12, PlansAreSteps, TailKeepsSteps DEF HandoffTypeOK, TurnsFiled, FailedOnlyNotices, ErrorStep, RequestsAim, TurnMarkCache, AtStep, Running, NextStep, convVars, turnVars, requestVars
  <2>3. UnaskedAreQuiet'
    BY <1>12, NextStepQuiet DEF TurnMarkCache, AtStep, turnVars
  <2>4. QED
    BY <2>1, <2>2, <2>3
<1>13. ASSUME NEW t \in Turns, TurnMarkDb(t) PROVE IInv'
  <2>1. HandoffTypeOK'
    <3>1. agenda' \in [Turns -> Seq(Step)]
      BY <1>13, NextStepTypes DEF TurnMarkDb, AtStep
    <3>2. status' \in [Convs -> Status] /\ aiPaused' \in [Convs -> BOOLEAN]
      BY <1>13 DEF HandoffTypeOK, TurnMarkDb, MarkDb, Status
    <3>3. QED
      BY <1>13, <3>1, <3>2 DEF HandoffTypeOK, TurnMarkDb, requestVars
  <2>2. TurnsFiled' /\ FailedOnlyNotices' /\ RequestsAim'
    BY <1>13, PlansAreSteps, TailKeepsSteps DEF HandoffTypeOK, TurnsFiled, FailedOnlyNotices, ErrorStep, RequestsAim, TurnMarkDb, AtStep, Running, NextStep, MarkDb, convVars, turnVars, requestVars
  <2>3. UnaskedAreQuiet'
    BY <1>13, NextStepQuiet DEF TurnMarkDb, AtStep, turnVars
  <2>4. QED
    BY <2>1, <2>2, <2>3
<1>14. ASSUME NEW t \in Turns, TurnNet(t) PROVE IInv'
  <2>1. HandoffTypeOK'
    <3>1. agenda' \in [Turns -> Seq(Step)]
      BY <1>14, NextStepTypes DEF TurnNet, AtStep
    <3>2. status' \in [Convs -> Status] /\ aiPaused' \in [Convs -> BOOLEAN]
      BY <1>14 DEF HandoffTypeOK, TurnNet, Status
    <3>3. QED
      BY <1>14, <3>1, <3>2 DEF HandoffTypeOK, TurnNet, requestVars
  <2>2. TurnsFiled' /\ FailedOnlyNotices' /\ RequestsAim'
    BY <1>14, PlansAreSteps, TailKeepsSteps DEF HandoffTypeOK, TurnsFiled, FailedOnlyNotices, ErrorStep, RequestsAim, TurnNet, AtStep, Running, NextStep, convVars, turnVars, requestVars
  <2>3. UnaskedAreQuiet'
    BY <1>14, NextStepQuiet DEF TurnNet, AtStep, turnVars
  <2>4. QED
    BY <2>1, <2>2, <2>3
<1>15. ASSUME NEW t \in Turns, TurnEnd(t) PROVE IInv'
  <2>1. HandoffTypeOK'
    BY <1>15, SenderAssumption DEF HandoffTypeOK, TurnEnd, convVars, turnVars, requestVars, Status, CacheValue, TurnPc, RequestPc, RequestKind
  <2>2. TurnsFiled' /\ FailedOnlyNotices' /\ RequestsAim'
    BY <1>15 DEF HandoffTypeOK, TurnsFiled, FailedOnlyNotices, ErrorStep, RequestsAim, TurnEnd, convVars, turnVars, requestVars
  <2>3. UnaskedAreQuiet'
    BY <1>15 DEF UnaskedAreQuiet, TurnEnd, turnVars
  <2>4. QED
    BY <2>1, <2>2, <2>3
<1>16. ASSUME NEW t \in Turns, TurnStalls(t) PROVE IInv'
  <2>1. HandoffTypeOK'
    BY <1>16, SenderAssumption DEF HandoffTypeOK, TurnStalls, convVars, turnVars, requestVars, Status, CacheValue, TurnPc, RequestPc, RequestKind
  <2>2. TurnsFiled' /\ FailedOnlyNotices' /\ RequestsAim'
    BY <1>16 DEF HandoffTypeOK, TurnsFiled, FailedOnlyNotices, ErrorStep, RequestsAim, TurnStalls, convVars, turnVars, requestVars
  <2>3. UnaskedAreQuiet'
    BY <1>16 DEF UnaskedAreQuiet, HandoffTypeOK, TurnStalls
  <2>4. QED
    BY <2>1, <2>2, <2>3
<1>17. ASSUME NEW r \in Requests, NEW c \in Convs, NEW a \in Agents, PostMessage(r, c, a) PROVE IInv'
  <2>1. HandoffTypeOK'
    BY <1>17, SenderAssumption DEF HandoffTypeOK, PostMessage, Opens, convVars, turnVars, requestVars, Status, CacheValue, TurnPc, RequestPc, RequestKind
  <2>2. TurnsFiled' /\ FailedOnlyNotices' /\ RequestsAim'
    BY <1>17 DEF HandoffTypeOK, TurnsFiled, FailedOnlyNotices, ErrorStep, RequestsAim, PostMessage, Opens, convVars, turnVars, requestVars
  <2>3. UnaskedAreQuiet'
    BY <1>17 DEF UnaskedAreQuiet, PostMessage, turnVars
  <2>4. QED
    BY <2>1, <2>2, <2>3
<1>18. ASSUME NEW r \in Requests, NEW c \in Convs, NEW a \in Agents \cup {Nobody}, Assign(r, c, a) PROVE IInv'
  <2>1. HandoffTypeOK'
    BY <1>18, SenderAssumption DEF HandoffTypeOK, Assign, Opens, convVars, turnVars, requestVars, Status, CacheValue, TurnPc, RequestPc, RequestKind
  <2>2. TurnsFiled' /\ FailedOnlyNotices' /\ RequestsAim'
    BY <1>18 DEF HandoffTypeOK, TurnsFiled, FailedOnlyNotices, ErrorStep, RequestsAim, Assign, Opens, convVars, turnVars, requestVars
  <2>3. UnaskedAreQuiet'
    BY <1>18 DEF UnaskedAreQuiet, Assign, turnVars
  <2>4. QED
    BY <2>1, <2>2, <2>3
<1>19. ASSUME NEW r \in Requests, NEW c \in Convs, Close(r, c) PROVE IInv'
  <2>1. HandoffTypeOK'
    BY <1>19, SenderAssumption DEF HandoffTypeOK, Close, Opens, convVars, turnVars, requestVars, Status, CacheValue, TurnPc, RequestPc, RequestKind
  <2>2. TurnsFiled' /\ FailedOnlyNotices' /\ RequestsAim'
    BY <1>19 DEF HandoffTypeOK, TurnsFiled, FailedOnlyNotices, ErrorStep, RequestsAim, Close, Opens, convVars, turnVars, requestVars
  <2>3. UnaskedAreQuiet'
    BY <1>19 DEF UnaskedAreQuiet, Close, turnVars
  <2>4. QED
    BY <2>1, <2>2, <2>3
<1>20. ASSUME NEW r \in Requests, NEW c \in Convs, ReopenRead(r, c) PROVE IInv'
  <2>1. HandoffTypeOK'
    BY <1>20, SenderAssumption DEF HandoffTypeOK, ReopenRead, Opens, convVars, turnVars, requestVars, Status, CacheValue, TurnPc, RequestPc, RequestKind
  <2>2. TurnsFiled' /\ FailedOnlyNotices' /\ RequestsAim'
    BY <1>20 DEF HandoffTypeOK, TurnsFiled, FailedOnlyNotices, ErrorStep, RequestsAim, ReopenRead, Opens, convVars, turnVars, requestVars
  <2>3. UnaskedAreQuiet'
    BY <1>20 DEF UnaskedAreQuiet, ReopenRead, turnVars
  <2>4. QED
    BY <2>1, <2>2, <2>3
<1>21. ASSUME NEW r \in Requests, NEW c \in Convs, ResumeRead(r, c) PROVE IInv'
  <2>1. HandoffTypeOK'
    BY <1>21, SenderAssumption DEF HandoffTypeOK, ResumeRead, Opens, convVars, turnVars, requestVars, Status, CacheValue, TurnPc, RequestPc, RequestKind
  <2>2. TurnsFiled' /\ FailedOnlyNotices' /\ RequestsAim'
    BY <1>21 DEF HandoffTypeOK, TurnsFiled, FailedOnlyNotices, ErrorStep, RequestsAim, ResumeRead, Opens, convVars, turnVars, requestVars
  <2>3. UnaskedAreQuiet'
    BY <1>21 DEF UnaskedAreQuiet, ResumeRead, turnVars
  <2>4. QED
    BY <2>1, <2>2, <2>3
<1>22. ASSUME NEW r \in Requests, ReopenWrite(r) PROVE IInv'
  <2>1. HandoffTypeOK'
    BY <1>22, SenderAssumption DEF HandoffTypeOK, ReopenWrite, convVars, turnVars, requestVars, Status, CacheValue, TurnPc, RequestPc, RequestKind
  <2>2. TurnsFiled' /\ FailedOnlyNotices' /\ RequestsAim'
    BY <1>22 DEF HandoffTypeOK, TurnsFiled, FailedOnlyNotices, ErrorStep, RequestsAim, ReopenWrite, convVars, turnVars, requestVars
  <2>3. UnaskedAreQuiet'
    BY <1>22 DEF UnaskedAreQuiet, ReopenWrite, turnVars
  <2>4. QED
    BY <2>1, <2>2, <2>3
<1>23. ASSUME NEW r \in Requests, ResumeWrite(r) PROVE IInv'
  <2>1. HandoffTypeOK'
    BY <1>23, SenderAssumption DEF HandoffTypeOK, ResumeWrite, convVars, turnVars, requestVars, Status, CacheValue, TurnPc, RequestPc, RequestKind
  <2>2. TurnsFiled' /\ FailedOnlyNotices' /\ RequestsAim'
    BY <1>23 DEF HandoffTypeOK, TurnsFiled, FailedOnlyNotices, ErrorStep, RequestsAim, ResumeWrite, convVars, turnVars, requestVars
  <2>3. UnaskedAreQuiet'
    BY <1>23 DEF UnaskedAreQuiet, ResumeWrite, turnVars
  <2>4. QED
    BY <2>1, <2>2, <2>3
<1>24. ASSUME NEW r \in Requests, Mirror(r) PROVE IInv'
  <2>1. HandoffTypeOK'
    BY <1>24, SenderAssumption DEF HandoffTypeOK, Mirror, convVars, turnVars, requestVars, Status, CacheValue, TurnPc, RequestPc, RequestKind
  <2>2. TurnsFiled' /\ FailedOnlyNotices' /\ RequestsAim'
    BY <1>24 DEF HandoffTypeOK, TurnsFiled, FailedOnlyNotices, ErrorStep, RequestsAim, Mirror, convVars, turnVars, requestVars
  <2>3. UnaskedAreQuiet'
    BY <1>24 DEF UnaskedAreQuiet, Mirror, turnVars
  <2>4. QED
    BY <2>1, <2>2, <2>3
<1>25. ASSUME NEW k \in Customers, CacheLost(k) PROVE IInv'
  <2>1. HandoffTypeOK'
    BY <1>25, SenderAssumption DEF HandoffTypeOK, CacheLost, convVars, turnVars, requestVars, Status, CacheValue, TurnPc, RequestPc, RequestKind
  <2>2. TurnsFiled' /\ FailedOnlyNotices' /\ RequestsAim'
    BY <1>25 DEF HandoffTypeOK, TurnsFiled, FailedOnlyNotices, ErrorStep, RequestsAim, CacheLost, convVars, turnVars, requestVars
  <2>3. UnaskedAreQuiet'
    BY <1>25 DEF UnaskedAreQuiet, CacheLost, turnVars
  <2>4. QED
    BY <2>1, <2>2, <2>3
<1>26. ASSUME ExpirySelect PROVE IInv'
  <2>1. HandoffTypeOK'
    BY <1>26, SenderAssumption DEF HandoffTypeOK, ExpirySelect, convVars, turnVars, requestVars, Status, CacheValue, TurnPc, RequestPc, RequestKind
  <2>2. TurnsFiled' /\ FailedOnlyNotices' /\ RequestsAim'
    BY <1>26 DEF HandoffTypeOK, TurnsFiled, FailedOnlyNotices, ErrorStep, RequestsAim, ExpirySelect, convVars, turnVars, requestVars
  <2>3. UnaskedAreQuiet'
    BY <1>26 DEF UnaskedAreQuiet, ExpirySelect, turnVars
  <2>4. QED
    BY <2>1, <2>2, <2>3
<1>27. ASSUME ExpiryClose PROVE IInv'
  <2>1. HandoffTypeOK'
    BY <1>27, SenderAssumption DEF HandoffTypeOK, ExpiryClose, convVars, turnVars, requestVars, Status, CacheValue, TurnPc, RequestPc, RequestKind
  <2>2. TurnsFiled' /\ FailedOnlyNotices' /\ RequestsAim'
    BY <1>27 DEF HandoffTypeOK, TurnsFiled, FailedOnlyNotices, ErrorStep, RequestsAim, ExpiryClose, convVars, turnVars, requestVars
  <2>3. UnaskedAreQuiet'
    BY <1>27 DEF UnaskedAreQuiet, ExpiryClose, turnVars
  <2>4. QED
    BY <2>1, <2>2, <2>3
<1>28. ASSUME UNCHANGED handoffVars PROVE IInv'
  <2>1. HandoffTypeOK'
    BY <1>28, SenderAssumption DEF HandoffTypeOK, handoffVars, convVars, turnVars, requestVars, Status, CacheValue, TurnPc, RequestPc, RequestKind
  <2>2. TurnsFiled' /\ FailedOnlyNotices' /\ RequestsAim'
    BY <1>28 DEF HandoffTypeOK, TurnsFiled, FailedOnlyNotices, ErrorStep, RequestsAim, handoffVars, convVars, turnVars, requestVars
  <2>3. UnaskedAreQuiet'
    BY <1>28 DEF UnaskedAreQuiet, handoffVars, turnVars
  <2>4. QED
    BY <2>1, <2>2, <2>3
<1>29. QED
  BY <1>1, <1>2, <1>3, <1>4, <1>5, <1>6, <1>7, <1>8, <1>9, <1>10, <1>11, <1>12, <1>13, <1>14, <1>15, <1>16, <1>17, <1>18, <1>19, <1>20, <1>21, <1>22, <1>23, <1>24, <1>25, <1>26, <1>27, <1>28 DEF HandoffNext, TurnRun, TeamWrite, TeamRead

(* The invariant holds in every behaviour. *)
THEOREM Invariance == HandoffSpec => []IInv
<1>1. HandoffInit => IInv
  BY InitInvariant
<1>2. IInv /\ [HandoffNext]_handoffVars => IInv'
  BY StepInvariant
<1>3. QED
  BY <1>1, <1>2, PTL DEF HandoffSpec

(* Type correctness, for any number of conversations, messages, requests   *)
(* and people.                                                             *)
THEOREM TypeCorrectness == HandoffSpec => []HandoffTypeOK
BY Invariance, PTL DEF IInv

----------------------------------------------------------------------------
(* The refinement of Custody.                                              *)

LEMMA InitRefines == HandoffInit => Abstract!CustodyInit
BY DEF HandoffInit, Abstract!CustodyInit, Admitted

(* A step that leaves the pauses, the filing, the admissions and the       *)
(* answers alone is a stutter of Custody.                                  *)
LEMMA Stutters ==
    ASSUME UNCHANGED <<aiPaused, tconv, replied>>, Admitted' = Admitted
    PROVE  UNCHANGED Abstract!custodyVars
BY DEF Abstract!custodyVars

(* Setting or clearing the pause of a conversation is a take or a give     *)
(* back.                                                                   *)
LEMMA PauseRefines ==
    ASSUME HandoffTypeOK, NEW c \in Convs, NEW b \in BOOLEAN,
           aiPaused' = [aiPaused EXCEPT ![c] = b],
           UNCHANGED <<tconv, replied>>, Admitted' = Admitted
    PROVE  Abstract!CustodyNext
<1>1. CASE b
  <2>1. Abstract!Take(c)
    BY <1>1 DEF HandoffTypeOK, Abstract!Take
  <2>2. QED
    BY <2>1 DEF Abstract!CustodyNext
<1>2. CASE ~b
  <2>1. Abstract!GiveBack(c)
    BY <1>2 DEF HandoffTypeOK, Abstract!GiveBack
  <2>2. QED
    BY <2>1 DEF Abstract!CustodyNext
<1>3. QED
  BY <1>1, <1>2

(* Every step of the hand-over is a step of Custody or a stutter.          *)
LEMMA StepRefines ==
    IInv /\ [HandoffNext]_handoffVars => [Abstract!CustodyNext]_(Abstract!custodyVars)
<1> SUFFICES ASSUME IInv, [HandoffNext]_handoffVars
             PROVE  Abstract!CustodyNext \/ UNCHANGED Abstract!custodyVars
  OBVIOUS
<1> USE DEF IInv
<1>1. ASSUME NEW t \in Turns, InboundFind(t)
      PROVE  Abstract!CustodyNext \/ UNCHANGED Abstract!custodyVars
  <2>1. UNCHANGED <<aiPaused, replied>> /\ Admitted' = Admitted /\ tconv[t] = Nobody
    BY <1>1 DEF InboundFind, convVars, HandoffTypeOK, TurnsFiled, Admitted
  <2>2. CASE UNCHANGED tconv
    BY <2>1, <2>2, Stutters
  <2>3. CASE \E c \in Convs : tconv' = [tconv EXCEPT ![t] = c]
    BY <2>1, <2>3 DEF Abstract!CustodyNext, Abstract!File
  <2>4. QED
    BY <1>1, <2>2, <2>3 DEF InboundFind
<1>2. ASSUME NEW t \in Turns, InboundCreate(t)
      PROVE  Abstract!CustodyNext \/ UNCHANGED Abstract!custodyVars
  <2>1. UNCHANGED <<aiPaused, replied>> /\ Admitted' = Admitted /\ tconv[t] = Nobody
    BY <1>2 DEF InboundCreate, Admitted
  <2>2. PICK c \in Convs : tconv' = [tconv EXCEPT ![t] = c]
    BY <1>2 DEF InboundCreate
  <2>3. Abstract!File(t, c)
    BY <2>1, <2>2 DEF Abstract!File
  <2>4. QED
    BY <2>3 DEF Abstract!CustodyNext
<1>3. ASSUME NEW t \in Turns, TurnGuard(t)
      PROVE  Abstract!CustodyNext \/ UNCHANGED Abstract!custodyVars
  <2>1. UNCHANGED <<aiPaused, tconv, replied>>
    BY <1>3 DEF TurnGuard, convVars
  <2>2. CASE ShouldSkip(tconv[t]) /\ tpc' = [tpc EXCEPT ![t] = "skipped"]
    <3>1. Admitted' = Admitted
      BY <1>3, <2>2 DEF TurnGuard, HandoffTypeOK, Admitted
    <3>2. QED
      BY <2>1, <3>1, Stutters
  <2>3. CASE ~ShouldSkip(tconv[t]) /\ tpc' = [tpc EXCEPT ![t] = "running"]
    <3>1. tconv[t] \in Convs /\ ~aiPaused[tconv[t]]
      BY <1>3, <2>3 DEF TurnGuard, ShouldSkip, HandoffTypeOK
    <3>2. Admitted' = Admitted \cup {t}
      BY <2>3 DEF HandoffTypeOK, Admitted
    <3>3. Abstract!Admit(t)
      BY <2>1, <3>1, <3>2 DEF Abstract!Admit
    <3>4. QED
      BY <3>3 DEF Abstract!CustodyNext
  <2>4. QED
    BY <1>3, <2>2, <2>3 DEF TurnGuard
<1>4. ASSUME NEW t \in Turns, TurnSay(t)
      PROVE  Abstract!CustodyNext \/ UNCHANGED Abstract!custodyVars
  <2>1. tpc[t] = "running"
    BY <1>4, FailedIsSilent DEF TurnSay, Step, ErrorStep
  <2>2. Abstract!Answer(t)
    BY <1>4, <2>1 DEF TurnSay, Admitted, Abstract!Answer
  <2>3. QED
    BY <2>2 DEF Abstract!CustodyNext
<1>5. ASSUME NEW t \in Turns, TurnMarkDb(t)
      PROVE  Abstract!CustodyNext \/ UNCHANGED Abstract!custodyVars
  <2>1. UNCHANGED <<tconv, replied>> /\ Admitted' = Admitted /\ tconv[t] \in Convs
    BY <1>5 DEF TurnMarkDb, AtStep, Running, Admitted, HandoffTypeOK
  <2>2. CASE UNCHANGED aiPaused
    BY <2>1, <2>2, Stutters
  <2>3. CASE \E s \in {"markDb", "tempDb"} : MarkDb(tconv[t], s = "markDb")
    <3>1. \E b \in BOOLEAN : aiPaused' = [aiPaused EXCEPT ![tconv[t]] = b]
      BY <2>1, <2>3 DEF MarkDb, HandoffTypeOK
    <3>2. QED
      BY <2>1, <3>1, PauseRefines
  <2>4. QED
    BY <1>5, <2>2, <2>3 DEF TurnMarkDb
<1>6. ASSUME NEW t \in Turns, TurnNet(t)
      PROVE  Abstract!CustodyNext \/ UNCHANGED Abstract!custodyVars
  <2>1. UNCHANGED <<tconv, replied>> /\ Admitted' = Admitted /\ tconv[t] \in Convs
    BY <1>6 DEF TurnNet, AtStep, Running, Admitted, HandoffTypeOK
  <2>2. CASE UNCHANGED aiPaused
    BY <2>1, <2>2, Stutters
  <2>3. CASE aiPaused' = [aiPaused EXCEPT ![tconv[t]] = TRUE]
    BY <2>1, <2>3, PauseRefines
  <2>4. QED
    BY <1>6, <2>2, <2>3 DEF TurnNet
<1>7. ASSUME NEW t \in Turns, TurnStalls(t)
      PROVE  Abstract!CustodyNext \/ UNCHANGED Abstract!custodyVars
  <2>1. UNCHANGED <<aiPaused, tconv, replied>>
    BY <1>7 DEF TurnStalls, convVars
  <2>2. Admitted' = Admitted \ {t}
    BY <1>7 DEF TurnStalls, HandoffTypeOK, Admitted
  <2>3. Abstract!Withdraw(t)
    BY <2>1, <2>2 DEF Abstract!Withdraw
  <2>4. QED
    BY <2>3 DEF Abstract!CustodyNext
<1>8. ASSUME NEW r \in Requests, NEW c \in Convs, NEW a \in Agents, PostMessage(r, c, a)
      PROVE  Abstract!CustodyNext \/ UNCHANGED Abstract!custodyVars
  BY <1>8, PauseRefines DEF PostMessage, turnVars, Admitted
<1>9. ASSUME NEW r \in Requests, NEW c \in Convs, NEW a \in Agents \cup {Nobody}, Assign(r, c, a)
      PROVE  Abstract!CustodyNext \/ UNCHANGED Abstract!custodyVars
  <2>1. (a # Nobody) \in BOOLEAN
    OBVIOUS
  <2>2. QED
    BY <1>9, <2>1, PauseRefines DEF Assign, turnVars, Admitted
<1>10. ASSUME NEW r \in Requests, ResumeWrite(r)
      PROVE  Abstract!CustodyNext \/ UNCHANGED Abstract!custodyVars
  <2>1. rconv[r] \in Convs
    BY <1>10 DEF ResumeWrite, RequestsAim
  <2>2. QED
    BY <1>10, <2>1, PauseRefines DEF ResumeWrite, turnVars, Admitted
<1>11. ASSUME NEW t \in Turns,
              \/ InboundStore(t) \/ TurnCheckCache(t) \/ TurnGuardFails(t) \/ TurnFlow(t)
              \/ TurnModel(t) \/ TurnSayFails(t) \/ TurnNotice(t) \/ TurnMarkCache(t)
              \/ TurnEnd(t)
      PROVE  Abstract!CustodyNext \/ UNCHANGED Abstract!custodyVars
  <2>1. UNCHANGED <<aiPaused, tconv, replied>>
    BY <1>11 DEF InboundStore, TurnCheckCache, TurnGuardFails, TurnFlow, TurnModel, TurnSayFails,
       TurnNotice, TurnMarkCache, TurnEnd, convVars
  <2>2. Admitted' = Admitted
    BY <1>11 DEF InboundStore, TurnCheckCache, TurnGuardFails, TurnFlow, TurnModel, TurnSayFails,
       TurnNotice, TurnMarkCache, TurnEnd, HandoffTypeOK, Admitted
  <2>3. QED
    BY <2>1, <2>2, Stutters
<1>12. ASSUME NEW r \in Requests,
              \/ \E c \in Convs : Close(r, c)
              \/ TeamRead(r) \/ ReopenWrite(r) \/ Mirror(r)
       PROVE  Abstract!CustodyNext \/ UNCHANGED Abstract!custodyVars
  <2>1. UNCHANGED <<aiPaused, tconv, replied, tpc>>
    BY <1>12 DEF Close, TeamRead, ReopenRead, ResumeRead, ReopenWrite, Mirror, convVars, turnVars
  <2>2. QED
    BY <2>1, Stutters DEF Admitted
<1>13. ASSUME \/ \E k \in Customers : CacheLost(k)
              \/ ExpirySelect \/ ExpiryClose \/ UNCHANGED handoffVars
       PROVE  Abstract!CustodyNext \/ UNCHANGED Abstract!custodyVars
  <2>1. UNCHANGED <<aiPaused, tconv, replied, tpc>>
    BY <1>13 DEF CacheLost, ExpirySelect, ExpiryClose, handoffVars, convVars, turnVars
  <2>2. QED
    BY <2>1, Stutters DEF Admitted
<1>14. QED
  <2>1. CASE \E t \in Turns : \/ InboundFind(t) \/ InboundCreate(t) \/ InboundStore(t)
                              \/ TurnRun(t) \/ TurnStalls(t)
    BY <2>1, <1>1, <1>2, <1>3, <1>4, <1>5, <1>6, <1>7, <1>11 DEF TurnRun
  <2>2. CASE \E r \in Requests : TeamRead(r) \/ TeamWrite(r) \/ Mirror(r)
    BY <2>2, <1>8, <1>9, <1>10, <1>12 DEF TeamWrite
  <2>3. QED
    BY <2>1, <2>2, <1>13 DEF HandoffNext

(* Whatever the cache loses and however turns, requests and the expiry job *)
(* interleave, the agent answers only messages whose turn found the        *)
(* conversation unpaused in the database.                                  *)
THEOREM HandoffKeepsCustody == HandoffSpec => KeepsCustody
<1>1. HandoffInit => Abstract!CustodyInit
  BY InitRefines
<1>2. IInv /\ [HandoffNext]_handoffVars => [Abstract!CustodyNext]_(Abstract!custodyVars)
  BY StepRefines
<1>3. QED
  BY <1>1, <1>2, Invariance, PTL DEF HandoffSpec, KeepsCustody, Abstract!CustodySpec

----------------------------------------------------------------------------
(* What may reopen a closed conversation.                                  *)

ByPeople(c) == \E r \in Requests : rconv'[r] = c /\ rpc'[r] # rpc[r]
ByTheNet(c) == \E t \in Turns : tconv[t] = c /\ AtStep(t, "net")

(* A request of the team that writes a status writes that of its own       *)
(* conversation, and moves on.                                             *)
LEMMA TeamReopens ==
    ASSUME IInv, NEW r \in Requests, TeamWrite(r), NEW c \in Convs, status'[c] # status[c]
    PROVE  ByPeople(c)
<1> USE DEF IInv
<1>1. ASSUME NEW d \in Convs,
             \/ \E a \in Agents : PostMessage(r, d, a)
             \/ \E a \in Agents \cup {Nobody} : Assign(r, d, a)
             \/ Close(r, d)
      PROVE  ByPeople(c)
  <2>1. c = d
    BY <1>1 DEF PostMessage, Assign, Close, HandoffTypeOK
  <2>2. rconv'[r] = d /\ rpc[r] = "idle" /\ rpc'[r] \in {"mirror", "done"}
    BY <1>1 DEF PostMessage, Assign, Close, Opens, HandoffTypeOK
  <2> QED
    BY <2>1, <2>2 DEF ByPeople
<1>2. ASSUME ReopenWrite(r) \/ ResumeWrite(r) PROVE ByPeople(c)
  <2>1. c = rconv[r]
    BY <1>2 DEF ReopenWrite, ResumeWrite, HandoffTypeOK
  <2>2. rconv'[r] = rconv[r] /\ rpc[r] = "read" /\ rpc'[r] \in {"mirror", "done"}
    BY <1>2 DEF ReopenWrite, ResumeWrite, HandoffTypeOK
  <2> QED
    BY <2>1, <2>2 DEF ByPeople
<1> QED
  BY <1>1, <1>2 DEF TeamWrite

(* No step but theirs takes a conversation out of CLOSED.                  *)
LEMMA StepReopens ==
    ASSUME IInv, HandoffNext, NEW c \in Convs, status[c] = "CLOSED", status'[c] # "CLOSED"
    PROVE  ByPeople(c) \/ ByTheNet(c)
<1> USE DEF IInv
<1>1. ASSUME NEW t \in Turns, TurnMarkDb(t) PROVE FALSE
  <2>1. tconv[t] \in Convs
    BY <1>1 DEF TurnMarkDb, AtStep, Running, HandoffTypeOK
  <2>2. status' = status \/ (status[tconv[t]] # "CLOSED" /\ status' = [status EXCEPT ![tconv[t]] = "WAITING"])
    BY <1>1 DEF TurnMarkDb, MarkDb
  <2> QED
    BY <2>1, <2>2 DEF HandoffTypeOK
<1>2. ASSUME NEW t \in Turns, TurnNet(t) PROVE ByTheNet(c)
  BY <1>2 DEF TurnNet, HandoffTypeOK, ByTheNet
<1>3. ASSUME NEW r \in Requests, TeamWrite(r) PROVE ByPeople(c)
  BY <1>3, TeamReopens
<1>4. ASSUME ExpiryClose PROVE FALSE
  BY <1>4 DEF ExpiryClose, HandoffTypeOK
<1>5. ASSUME NEW t \in Turns,
             \/ InboundFind(t) \/ InboundCreate(t) \/ InboundStore(t) \/ TurnStalls(t)
             \/ TurnCheckCache(t) \/ TurnGuard(t) \/ TurnGuardFails(t) \/ TurnFlow(t)
             \/ TurnModel(t) \/ TurnSay(t) \/ TurnSayFails(t) \/ TurnNotice(t)
             \/ TurnMarkCache(t) \/ TurnEnd(t)
      PROVE  FALSE
  BY <1>5 DEF InboundFind, InboundCreate, InboundStore, TurnStalls, TurnCheckCache, TurnGuard,
     TurnGuardFails, TurnFlow, TurnModel, TurnSay, TurnSayFails, TurnNotice, TurnMarkCache,
     TurnEnd, convVars
<1>6. ASSUME \/ \E r \in Requests : TeamRead(r) \/ Mirror(r)
             \/ \E k \in Customers : CacheLost(k)
             \/ ExpirySelect
      PROVE  FALSE
  BY <1>6 DEF TeamRead, ReopenRead, ResumeRead, Mirror, CacheLost, ExpirySelect, convVars
<1> QED
  BY <1>1, <1>2, <1>3, <1>4, <1>5, <1>6 DEF HandoffNext, TurnRun

(* A closed conversation comes back only by an Inbox request or by the     *)
(* crisis net, never by a late hand-over, an error, the webhook or the     *)
(* expiry job.                                                             *)
THEOREM OnlyPeopleReopenIt == HandoffSpec => OnlyPeopleReopen
<1> DEFINE Act == \A c \in Convs :
                    Exists(c) /\ status[c] = "CLOSED" /\ status'[c] # "CLOSED" =>
                       \/ \E r \in Requests : rconv'[r] = c /\ rpc'[r] # rpc[r]
                       \/ \E t \in Turns : tconv[t] = c /\ AtStep(t, "net")
<1>1. IInv /\ [HandoffNext]_handoffVars => [Act]_handoffVars
  BY StepReopens DEF ByPeople, ByTheNet
<1>2. HandoffSpec => [][Act]_handoffVars
  BY <1>1, Invariance, PTL DEF HandoffSpec
<1> QED
  BY <1>2 DEF OnlyPeopleReopen

----------------------------------------------------------------------------
(* What may pause a conversation for good.                                 *)

TakenByTeam(c) == \E r \in Requests : /\ rconv'[r] = c /\ rpc'[r] # rpc[r]
                                      /\ rkind'[r] \in {"post", "assign"}
AskedByTurn(c) == \E t \in asked : tconv[t] = c /\ agenda'[t] # agenda[t]

(* A turn at a step of the hand-over has asked for a person, and its plan  *)
(* moves on.                                                               *)
LEMMA HandoversAreAsked ==
    ASSUME IInv, NEW t \in Turns, AtStep(t, "markDb") \/ AtStep(t, "net"), NextStep(t)
    PROVE  t \in asked /\ agenda'[t] # agenda[t]
<1>1. agenda[t] \in Seq(Step) /\ agenda[t] # <<>>
  BY DEF IInv, HandoffTypeOK, AtStep, Running
<1>2. ASSUME t \notin asked PROVE FALSE
  <2>1. Head(agenda[t]) \in QuietStep
    BY <1>1, <1>2, TailKeepsSteps DEF IInv, UnaskedAreQuiet
  <2> QED
    BY <2>1 DEF AtStep, QuietStep
<1>3. Len(Tail(agenda[t])) = Len(agenda[t]) - 1 /\ Len(agenda[t]) \in Nat
  BY <1>1
<1>4. agenda'[t] = Tail(agenda[t])
  BY DEF IInv, HandoffTypeOK, NextStep
<1>5. ASSUME agenda'[t] = agenda[t] PROVE FALSE
  <2>1. Len(agenda[t]) = Len(agenda[t]) - 1
    BY <1>3, <1>4, <1>5
  <2> QED
    BY <1>3, <2>1
<1> QED
  BY <1>2, <1>5

(* A write of a request that pauses its conversation is a take-over.       *)
LEMMA TeamPauses ==
    ASSUME IInv, NEW r \in Requests, TeamWrite(r), NEW c \in Convs, ~aiPaused[c], aiPaused'[c]
    PROVE  TakenByTeam(c)
<1> USE DEF IInv
<1>1. ASSUME NEW d \in Convs, NEW a \in Agents \cup {Nobody}, PostMessage(r, d, a) \/ Assign(r, d, a)
      PROVE  TakenByTeam(c)
  <2>1. c = d /\ (Assign(r, d, a) => a # Nobody)
    BY <1>1 DEF PostMessage, Assign, HandoffTypeOK
  <2>2. /\ rconv'[r] = d /\ rpc[r] = "idle" /\ rpc'[r] = "mirror"
        /\ rkind'[r] \in {"post", "assign"}
    BY <1>1, <2>1 DEF PostMessage, Assign, Opens, HandoffTypeOK
  <2> QED
    BY <2>1, <2>2 DEF TakenByTeam
<1>2. ASSUME (\E d \in Convs : Close(r, d)) \/ ReopenWrite(r) \/ ResumeWrite(r) PROVE FALSE
  BY <1>2 DEF Close, ReopenWrite, ResumeWrite, HandoffTypeOK
<1> QED
  BY <1>1, <1>2 DEF TeamWrite

(* No step but theirs sets a durable pause.                                *)
LEMMA StepPauses ==
    ASSUME IInv, HandoffNext, NEW c \in Convs, ~aiPaused[c], aiPaused'[c]
    PROVE  TakenByTeam(c) \/ AskedByTurn(c)
<1> USE DEF IInv
<1>1. ASSUME NEW t \in Turns, TurnMarkDb(t) PROVE AskedByTurn(c)
  <2>1. tconv[t] \in Convs
    BY <1>1 DEF TurnMarkDb, AtStep, Running, HandoffTypeOK
  <2>2. tconv[t] = c /\ AtStep(t, "markDb") /\ NextStep(t)
    BY <1>1, <2>1 DEF TurnMarkDb, MarkDb, HandoffTypeOK
  <2> QED
    BY <2>2, HandoversAreAsked DEF AskedByTurn
<1>2. ASSUME NEW t \in Turns, TurnNet(t) PROVE AskedByTurn(c)
  <2>1. tconv[t] = c /\ AtStep(t, "net") /\ NextStep(t)
    BY <1>2 DEF TurnNet, HandoffTypeOK
  <2> QED
    BY <2>1, HandoversAreAsked DEF AskedByTurn
<1>3. ASSUME NEW r \in Requests, TeamWrite(r) PROVE TakenByTeam(c)
  BY <1>3, TeamPauses
<1>4. ASSUME NEW t \in Turns,
             \/ InboundFind(t) \/ InboundCreate(t) \/ InboundStore(t) \/ TurnStalls(t)
             \/ TurnCheckCache(t) \/ TurnGuard(t) \/ TurnGuardFails(t) \/ TurnFlow(t)
             \/ TurnModel(t) \/ TurnSay(t) \/ TurnSayFails(t) \/ TurnNotice(t)
             \/ TurnMarkCache(t) \/ TurnEnd(t)
      PROVE  FALSE
  BY <1>4 DEF InboundFind, InboundCreate, InboundStore, TurnStalls, TurnCheckCache, TurnGuard,
     TurnGuardFails, TurnFlow, TurnModel, TurnSay, TurnSayFails, TurnNotice, TurnMarkCache,
     TurnEnd, convVars
<1>5. ASSUME \/ \E r \in Requests : TeamRead(r) \/ Mirror(r)
             \/ \E k \in Customers : CacheLost(k)
             \/ ExpirySelect \/ ExpiryClose
      PROVE  FALSE
  BY <1>5 DEF TeamRead, ReopenRead, ResumeRead, Mirror, CacheLost, ExpirySelect, ExpiryClose, convVars
<1> QED
  BY <1>1, <1>2, <1>3, <1>4, <1>5 DEF HandoffNext, TurnRun

(* A durable pause is set only by a request that takes the conversation,   *)
(* or by a step of a turn of that conversation whose flow or model asked   *)
(* for a person or raised the net; never by a turn that ends in the        *)
(* catch-all, admitted or not.                                             *)
THEOREM PausesHaveCauses == HandoffSpec => PauseHasACause
<1> DEFINE Act == \A c \in Convs : ~aiPaused[c] /\ aiPaused'[c] =>
                    \/ \E r \in Requests : /\ rconv'[r] = c /\ rpc'[r] # rpc[r]
                                           /\ rkind'[r] \in {"post", "assign"}
                    \/ \E t \in asked : tconv[t] = c /\ agenda'[t] # agenda[t]
<1>1. IInv /\ [HandoffNext]_handoffVars => [Act]_handoffVars
  BY StepPauses DEF TakenByTeam, AskedByTurn
<1>2. HandoffSpec => [][Act]_handoffVars
  BY <1>1, Invariance, PTL DEF HandoffSpec
<1> QED
  BY <1>2 DEF PauseHasACause
=============================================================================
