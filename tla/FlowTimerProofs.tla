-------------------------- MODULE FlowTimerProofs --------------------------
(***************************************************************************)
(* Proofs about FlowTimer: type correctness, a timer walks at most once,   *)
(* and an answer leaves no time-out waiting for it, for any number of      *)
(* timers, messages and workers, attempts, publications and timerFaults.        *)
(***************************************************************************)
EXTENDS FlowTimer, TLAPS

(* The strengthening.  Whoever names a timer names a row that exists: the  *)
(* queue, a worker that runs a job, a turn or worker that is scheduling,   *)
(* a cancellation.                                                         *)
RowsExist ==
    /\ \A m \in Timers : job[m] # "none" => tstatus[m] # "none"
    /\ \A w \in Workers : pc[w] # "idle" => wtimer[w] \in Timers
    /\ \A w \in Workers : wtimer[w] # Nothing => tstatus[wtimer[w]] # "none"
    /\ \A a \in Actors : pc[a] \in {"add", "link"} =>
          plan[a].timer \in Timers /\ tstatus[plan[a].timer] # "none"
    /\ \A u \in Answers : \A m \in picked[u] : tstatus[m] # "none"

(* A worker past the claim is alone there, and its timer has not walked.   *)
Past(w) == pc[w] \in {"prepare", "walk"}
ClaimIsExclusive ==
    /\ \A w \in Workers : Past(w) =>
          walks[wtimer[w]] = 0 /\ tstatus[wtimer[w]] # "pending"
    /\ \A v, w \in Workers : Past(v) /\ Past(w) /\ wtimer[v] = wtimer[w] => v = w
    /\ \A m \in Timers : walks[m] # 0 => tstatus[m] \notin {"none", "pending"}

(* A message is stored before its turn looks for time-outs, and the turn   *)
(* found every pending time-out that its message answers.                  *)
AnswersFound ==
    /\ \A m \in Timers : tstatus[m] = "none" => answers[m] = {}
    /\ \A u \in cleared : pc[u] \notin {"idle", "find", "cancel"}
    /\ \A u \in Answers : pc[u] = "idle" => \A m \in Timers : u \notin answers[m]
    /\ \A u \in Answers, m \in Timers :
          pc[u] = "cancel" /\ u \in answers[m] /\ tkind[m] = "wait" /\ tstatus[m] = "pending"
             => m \in picked[u]

IInv == TimerTypeOK /\ RowsExist /\ ClaimIsExclusive /\ AtMostOneWalk /\ AnswersFound /\ AnswersCancelWaits

----------------------------------------------------------------------------
(* The initial states satisfy the invariant. *)
LEMMA InitInvariant == TimerInit => IInv
<1> SUFFICES ASSUME TimerInit PROVE IInv
  OBVIOUS
<1>1. TimerTypeOK
  BY DEF TimerInit, TimerTypeOK, TimerStatus, Kind, JobState, ActorPc, Plan, NoPlan, Seen, NothingSeen
<1>2. RowsExist /\ ClaimIsExclusive /\ AtMostOneWalk
  BY DEF TimerInit, RowsExist, ClaimIsExclusive, Past, AtMostOneWalk, Actors
<1>3. AnswersFound /\ AnswersCancelWaits
  BY DEF TimerInit, AnswersFound, AnswersCancelWaits
<1>4. QED
  BY <1>1, <1>2, <1>3 DEF IInv

(* What a worker that lets go of its job, or a turn that ends, changes.    *)
Left(a) ==
    /\ job' \in [Timers -> JobState] /\ owner' \in [Timers -> Workers \cup {Nothing}]
    /\ wtimer' \in [Workers -> Timers \cup {Nothing}] /\ seen' \in [Workers -> Seen]
    /\ pc' \in [Actors -> ActorPc] /\ plan' \in [Actors -> Plan]
    /\ pc'[a] \in {"idle", "done"} /\ (a \in Answers => pc'[a] = "done")
    /\ \A b \in Actors : b # a => pc'[b] = pc[b] /\ plan'[b] = plan[b]
    /\ \A m \in Timers : job'[m] = job[m] \/ tstatus[m] # "none"
    /\ \A v \in Workers : IF v = a THEN pc'[v] = "idle" /\ wtimer'[v] = Nothing
                                   ELSE wtimer'[v] = wtimer[v]

(* A worker lets go of a job whose row exists, and of nothing else. *)
LEMMA ReleaseLeaves ==
    ASSUME TimerTypeOK, RowsExist, NEW w \in Workers, NEW end \in JobState \ {"none"}, Release(w, end)
    PROVE  Left(w)
<1>0. w \in Actors /\ w \notin Answers
  BY ActorsAssumption DEF Actors
<1>1. NoPlan \in Plan /\ NothingSeen \in Seen
  BY DEF NoPlan, Plan, Kind, NothingSeen, Seen
<1>2. job' \in [Timers -> JobState] /\ owner' \in [Timers -> Workers \cup {Nothing}]
  BY DEF TimerTypeOK, Release, FinishJob
<1>3. wtimer' \in [Workers -> Timers \cup {Nothing}] /\ seen' \in [Workers -> Seen]
  BY <1>1 DEF TimerTypeOK, Release
<1>4. pc' \in [Actors -> ActorPc] /\ plan' \in [Actors -> Plan] /\ pc'[w] = "idle"
  BY <1>0, <1>1 DEF TimerTypeOK, Release, ActorPc
<1>5. \A b \in Actors : b # w => pc'[b] = pc[b] /\ plan'[b] = plan[b]
  BY DEF TimerTypeOK, Release
<1>6. \A m \in Timers : job'[m] = job[m] \/ tstatus[m] # "none"
  <2> SUFFICES ASSUME NEW m \in Timers, job'[m] # job[m] PROVE tstatus[m] # "none"
    OBVIOUS
  <2>1. m = wtimer[w]
    BY DEF TimerTypeOK, Release, FinishJob
  <2>2. QED
    BY <2>1, NothingAssumption DEF RowsExist
<1>7. \A v \in Workers : IF v = w THEN pc'[v] = "idle" /\ wtimer'[v] = Nothing
                                  ELSE wtimer'[v] = wtimer[v]
  BY <1>4 DEF TimerTypeOK, Release
<1>8. QED
  BY <1>0, <1>2, <1>3, <1>4, <1>5, <1>6, <1>7 DEF Left

(* So does whoever leaves at the end of its work. *)
LEMMA LeaveLeaves ==
    ASSUME TimerTypeOK, RowsExist, NEW a \in Actors, Leave(a)
    PROVE  Left(a)
<1>1. CASE a \in Workers
  <2>1. Release(a, "done") /\ "done" \in JobState \ {"none"}
    BY <1>1 DEF Leave, JobState
  <2>2. QED
    BY <1>1, <2>1, ReleaseLeaves
<1>2. CASE a \notin Workers
  <2>1. TurnDone(a) /\ NoPlan \in Plan
    BY <1>2 DEF Leave, NoPlan, Plan, Kind
  <2>2. UNCHANGED <<job, owner, wtimer, seen>>
    BY <2>1 DEF TurnDone
  <2>3. /\ pc' \in [Actors -> ActorPc] /\ pc'[a] = "done" /\ plan' \in [Actors -> Plan]
        /\ \A b \in Actors : b # a => pc'[b] = pc[b] /\ plan'[b] = plan[b]
    BY <2>1 DEF TimerTypeOK, ActorPc, TurnDone
  <2>4. QED
    BY <1>2, <2>2, <2>3 DEF TimerTypeOK, Left
<1>3. QED
  BY <1>1, <1>2

(* A row's status may only move on: no row vanishes or is pending again. *)
RowsMoveOn ==
    \A m \in Timers : /\ tstatus[m] # "none" => tstatus'[m] # "none"
                      /\ tstatus'[m] = "pending" => tstatus[m] = "pending"
                      /\ tstatus'[m] = "none" => tstatus[m] = "none"

(* Leaving preserves the invariant, whatever becomes of a row. *)
LEMMA LeavingKeeps ==
    ASSUME IInv, NEW a \in Actors, Left(a), RowsMoveOn,
           tkind' = tkind, answers' = answers, picked' = picked, cleared' = cleared
    PROVE  /\ RowsExist' /\ AnswersFound' /\ AnswersCancelWaits'
           /\ walks' = walks => ClaimIsExclusive' /\ AtMostOneWalk'
<1> USE DEF IInv
<1>0. Answers \subseteq Actors /\ Workers \subseteq Actors /\ Answers \cap Workers = {}
  BY ActorsAssumption DEF Actors
<1>1. RowsExist'
  <2>1. \A m \in Timers : job'[m] # "none" => tstatus'[m] # "none"
    BY DEF Left, RowsExist, RowsMoveOn
  <2>2. \A w \in Workers : pc'[w] # "idle" => wtimer'[w] \in Timers
    BY <1>0 DEF Left, RowsExist
  <2>3. \A w \in Workers : wtimer'[w] # Nothing => tstatus'[wtimer'[w]] # "none"
    BY DEF Left, RowsExist, RowsMoveOn, TimerTypeOK
  <2>4. \A b \in Actors : pc'[b] \in {"add", "link"} =>
          plan'[b].timer \in Timers /\ tstatus'[plan'[b].timer] # "none"
    <3> SUFFICES ASSUME NEW b \in Actors, pc'[b] \in {"add", "link"}
                 PROVE  plan'[b].timer \in Timers /\ tstatus'[plan'[b].timer] # "none"
      OBVIOUS
    <3>1. b # a
      BY DEF Left
    <3>2. plan'[b] = plan[b] /\ pc'[b] = pc[b]
      BY <3>1 DEF Left
    <3>3. QED
      BY <3>2 DEF RowsExist, RowsMoveOn
  <2>5. \A u \in Answers : \A m \in picked'[u] : tstatus'[m] # "none"
    BY DEF RowsExist, RowsMoveOn, TimerTypeOK
  <2>6. QED
    BY <2>1, <2>2, <2>3, <2>4, <2>5 DEF RowsExist
<1>2. AnswersFound' /\ AnswersCancelWaits'
  <2>1. \A u \in Answers : /\ pc'[u] = "idle" => pc[u] = "idle"
                           /\ pc'[u] = "cancel" => pc[u] = "cancel"
                           /\ pc'[u] \in {"idle", "find", "cancel"} => pc[u] \in {"idle", "find", "cancel"}
    <3> SUFFICES ASSUME NEW u \in Answers, pc'[u] \in {"idle", "find", "cancel"}
                 PROVE  pc'[u] = pc[u]
      OBVIOUS
    <3>1. u # a
      BY DEF Left
    <3>2. QED
      BY <1>0, <3>1 DEF Left
  <2>2. \A u \in cleared' : pc'[u] \notin {"idle", "find", "cancel"}
    BY <2>1 DEF AnswersFound, TimerTypeOK
  <2>3. QED
    BY <2>1, <2>2 DEF AnswersFound, AnswersCancelWaits, RowsMoveOn, TimerTypeOK
<1>3. ASSUME walks' = walks PROVE ClaimIsExclusive' /\ AtMostOneWalk'
  <2>1. \A w \in Workers : Past(w)' => Past(w) /\ w # a /\ wtimer'[w] = wtimer[w] /\ wtimer[w] \in Timers
    BY <1>0 DEF Left, Past, RowsExist
  <2>2. QED
    BY <1>3, <2>1 DEF ClaimIsExclusive, AtMostOneWalk, RowsMoveOn
<1>4. QED
  BY <1>1, <1>2, <1>3

(* Reading one more thing keeps the type of what a worker has seen. *)
LEMMA SeenTypes ==
    ASSUME seen \in [Workers -> Seen], NEW w \in Workers, NEW b \in BOOLEAN
    PROVE  /\ [seen EXCEPT ![w].held = b] \in [Workers -> Seen]
           /\ [seen EXCEPT ![w].pending = b] \in [Workers -> Seen]
           /\ [seen EXCEPT ![w].paused = b] \in [Workers -> Seen]
           /\ \A c, d \in BOOLEAN :
                [seen EXCEPT ![w].flow = b, ![w].answered = c, ![w].window = d] \in [Workers -> Seen]
<1>1. seen[w] \in Seen
  OBVIOUS
<1>2. [seen[w] EXCEPT !.held = b] \in Seen
  BY <1>1 DEF Seen
<1>3. [seen[w] EXCEPT !.pending = b] \in Seen
  BY <1>1 DEF Seen
<1>4. [seen[w] EXCEPT !.paused = b] \in Seen
  BY <1>1 DEF Seen
<1>5. \A c, d \in BOOLEAN : [seen[w] EXCEPT !.flow = b, !.answered = c, !.window = d] \in Seen
  BY <1>1 DEF Seen
<1>6. QED
  BY <1>2, <1>3, <1>4, <1>5

(* Every step preserves the invariant. *)
LEMMA StepInvariant == IInv /\ [TimerNext]_timerVars => IInv'
<1> SUFFICES ASSUME IInv, [TimerNext]_timerVars PROVE IInv'
  OBVIOUS
<1> USE DEF IInv
<1>0. Answers \subseteq Actors /\ Workers \subseteq Actors
  BY DEF Actors
<1>1. ASSUME NEW u \in Answers, Inbound(u) PROVE IInv'
  <2>1. TimerTypeOK'
    BY <1>0, <1>1, BoundsAssumption DEF TimerTypeOK, Inbound, rowVars, jobVars, worldVars, cancelVars, TimerStatus, Kind, JobState, ActorPc
  <2>2. RowsExist'
    BY <1>0, <1>1, NothingAssumption, ActorsAssumption DEF TimerTypeOK, RowsExist, Inbound, rowVars, jobVars, worldVars, cancelVars
  <2>3. ClaimIsExclusive' /\ AtMostOneWalk'
    BY <1>0, <1>1, NothingAssumption, ActorsAssumption DEF TimerTypeOK, RowsExist, ClaimIsExclusive, Past, AtMostOneWalk, Inbound, rowVars, jobVars, worldVars, cancelVars
  <2>4. AnswersFound' /\ AnswersCancelWaits'
    BY <1>0, <1>1, ActorsAssumption DEF TimerTypeOK, RowsExist, AnswersFound, AnswersCancelWaits, Inbound, rowVars, jobVars, worldVars, cancelVars
  <2>5. QED
    BY <2>1, <2>2, <2>3, <2>4
<1>2. ASSUME NEW u \in Answers, CancelFind(u) PROVE IInv'
  <2>1. TimerTypeOK'
    BY <1>0, <1>2, BoundsAssumption DEF TimerTypeOK, CancelFind, Goto, rowVars, jobVars, worldVars, cancelVars, TimerStatus, Kind, JobState, ActorPc
  <2>2. RowsExist'
    BY <1>0, <1>2, NothingAssumption, ActorsAssumption DEF TimerTypeOK, RowsExist, CancelFind, Goto, rowVars, jobVars, worldVars, cancelVars
  <2>3. ClaimIsExclusive' /\ AtMostOneWalk'
    BY <1>0, <1>2, NothingAssumption, ActorsAssumption DEF TimerTypeOK, RowsExist, ClaimIsExclusive, Past, AtMostOneWalk, CancelFind, Goto, rowVars, jobVars, worldVars, cancelVars
  <2>4. AnswersFound' /\ AnswersCancelWaits'
    BY <1>0, <1>2, ActorsAssumption DEF TimerTypeOK, RowsExist, AnswersFound, AnswersCancelWaits, CancelFind, Goto, rowVars, jobVars, worldVars, cancelVars
  <2>5. QED
    BY <2>1, <2>2, <2>3, <2>4
<1>3. ASSUME NEW u \in Answers, CancelUpdate(u) PROVE IInv'
  <2>1. TimerTypeOK'
    BY <1>0, <1>3, BoundsAssumption DEF TimerTypeOK, CancelUpdate, Goto, rowVars, jobVars, worldVars, cancelVars, TimerStatus, Kind, JobState, ActorPc
  <2>2. RowsExist'
    BY <1>0, <1>3, NothingAssumption, ActorsAssumption DEF TimerTypeOK, RowsExist, CancelUpdate, Goto, rowVars, jobVars, worldVars, cancelVars
  <2>3. ClaimIsExclusive' /\ AtMostOneWalk'
    BY <1>0, <1>3, NothingAssumption, ActorsAssumption DEF TimerTypeOK, RowsExist, ClaimIsExclusive, Past, AtMostOneWalk, CancelUpdate, Goto, rowVars, jobVars, worldVars, cancelVars
  <2>4. AnswersFound' /\ AnswersCancelWaits'
    BY <1>0, <1>3, ActorsAssumption DEF TimerTypeOK, RowsExist, AnswersFound, AnswersCancelWaits, CancelUpdate, Goto, rowVars, jobVars, worldVars, cancelVars
  <2>5. QED
    BY <2>1, <2>2, <2>3, <2>4
<1>4. ASSUME NEW u \in Answers, CancelRemove(u) PROVE IInv'
  <2>1. TimerTypeOK'
    BY <1>0, <1>4, BoundsAssumption DEF TimerTypeOK, CancelRemove, Goto, rowVars, jobVars, worldVars, cancelVars, TimerStatus, Kind, JobState, ActorPc
  <2>2. RowsExist'
    BY <1>0, <1>4, NothingAssumption, ActorsAssumption DEF TimerTypeOK, RowsExist, CancelRemove, Goto, rowVars, jobVars, worldVars, cancelVars
  <2>3. ClaimIsExclusive' /\ AtMostOneWalk'
    BY <1>0, <1>4, NothingAssumption, ActorsAssumption DEF TimerTypeOK, RowsExist, ClaimIsExclusive, Past, AtMostOneWalk, CancelRemove, Goto, rowVars, jobVars, worldVars, cancelVars
  <2>4. AnswersFound' /\ AnswersCancelWaits'
    BY <1>0, <1>4, ActorsAssumption DEF TimerTypeOK, RowsExist, AnswersFound, AnswersCancelWaits, CancelRemove, Goto, rowVars, jobVars, worldVars, cancelVars
  <2>5. QED
    BY <2>1, <2>2, <2>3, <2>4
<1>5. ASSUME NEW u \in Answers, CancelFails(u) PROVE IInv'
  <2>1. TimerTypeOK'
    BY <1>0, <1>5, BoundsAssumption DEF TimerTypeOK, CancelFails, TimerFault, rowVars, jobVars, worldVars, cancelVars, TimerStatus, Kind, JobState, ActorPc
  <2>2. RowsExist'
    BY <1>0, <1>5, NothingAssumption, ActorsAssumption DEF TimerTypeOK, RowsExist, CancelFails, TimerFault, rowVars, jobVars, worldVars, cancelVars
  <2>3. ClaimIsExclusive' /\ AtMostOneWalk'
    BY <1>0, <1>5, NothingAssumption, ActorsAssumption DEF TimerTypeOK, RowsExist, ClaimIsExclusive, Past, AtMostOneWalk, CancelFails, TimerFault, rowVars, jobVars, worldVars, cancelVars
  <2>4. AnswersFound' /\ AnswersCancelWaits'
    BY <1>0, <1>5, ActorsAssumption DEF TimerTypeOK, RowsExist, AnswersFound, AnswersCancelWaits, CancelFails, TimerFault, rowVars, jobVars, worldVars, cancelVars
  <2>5. QED
    BY <2>1, <2>2, <2>3, <2>4
<1>6. ASSUME NEW u \in Answers, TurnSchedules(u) PROVE IInv'
  <2>1. TimerTypeOK'
    BY <1>0, <1>6, BoundsAssumption DEF TimerTypeOK, TurnSchedules, Goto, rowVars, jobVars, worldVars, cancelVars, TimerStatus, Kind, JobState, ActorPc, Plan
  <2>2. RowsExist'
    BY <1>0, <1>6, NothingAssumption, ActorsAssumption DEF TimerTypeOK, RowsExist, TurnSchedules, Goto, rowVars, jobVars, worldVars, cancelVars
  <2>3. ClaimIsExclusive' /\ AtMostOneWalk'
    BY <1>0, <1>6, NothingAssumption, ActorsAssumption DEF TimerTypeOK, RowsExist, ClaimIsExclusive, Past, AtMostOneWalk, TurnSchedules, Goto, rowVars, jobVars, worldVars, cancelVars
  <2>4. AnswersFound' /\ AnswersCancelWaits'
    BY <1>0, <1>6, ActorsAssumption DEF TimerTypeOK, RowsExist, AnswersFound, AnswersCancelWaits, TurnSchedules, Goto, rowVars, jobVars, worldVars, cancelVars
  <2>5. QED
    BY <2>1, <2>2, <2>3, <2>4
<1>7. ASSUME NEW u \in Answers, TurnWalksOn(u) PROVE IInv'
  <2>1. TimerTypeOK'
    BY <1>0, <1>7, BoundsAssumption DEF TimerTypeOK, TurnWalksOn, Goto, rowVars, jobVars, worldVars, cancelVars, TimerStatus, Kind, JobState, ActorPc
  <2>2. RowsExist'
    BY <1>0, <1>7, NothingAssumption, ActorsAssumption DEF TimerTypeOK, RowsExist, TurnWalksOn, Goto, rowVars, jobVars, worldVars, cancelVars
  <2>3. ClaimIsExclusive' /\ AtMostOneWalk'
    BY <1>0, <1>7, NothingAssumption, ActorsAssumption DEF TimerTypeOK, RowsExist, ClaimIsExclusive, Past, AtMostOneWalk, TurnWalksOn, Goto, rowVars, jobVars, worldVars, cancelVars
  <2>4. AnswersFound' /\ AnswersCancelWaits'
    BY <1>0, <1>7, ActorsAssumption DEF TimerTypeOK, RowsExist, AnswersFound, AnswersCancelWaits, TurnWalksOn, Goto, rowVars, jobVars, worldVars, cancelVars
  <2>5. QED
    BY <2>1, <2>2, <2>3, <2>4
<1>8. ASSUME NEW a \in Actors, ScheduleCreate(a) PROVE IInv'
  <2>1. TimerTypeOK'
    BY <1>0, <1>8, BoundsAssumption DEF TimerTypeOK, ScheduleCreate, Goto, rowVars, jobVars, worldVars, cancelVars, TimerStatus, Kind, JobState, ActorPc, Plan
  <2>2. RowsExist'
    BY <1>0, <1>8, NothingAssumption, ActorsAssumption DEF TimerTypeOK, RowsExist, ScheduleCreate, Goto, rowVars, jobVars, worldVars, cancelVars
  <2>3. ClaimIsExclusive' /\ AtMostOneWalk'
    BY <1>0, <1>8, NothingAssumption, ActorsAssumption DEF TimerTypeOK, RowsExist, ClaimIsExclusive, Past, AtMostOneWalk, ScheduleCreate, Goto, rowVars, jobVars, worldVars, cancelVars
  <2>4. AnswersFound' /\ AnswersCancelWaits'
    BY <1>0, <1>8, ActorsAssumption DEF TimerTypeOK, RowsExist, AnswersFound, AnswersCancelWaits, ScheduleCreate, Goto, rowVars, jobVars, worldVars, cancelVars
  <2>5. QED
    BY <2>1, <2>2, <2>3, <2>4
<1>9. ASSUME NEW a \in Actors, ScheduleAdd(a) PROVE IInv'
  <2>1. TimerTypeOK'
    BY <1>0, <1>9, BoundsAssumption DEF TimerTypeOK, ScheduleAdd, Goto, rowVars, jobVars, worldVars, cancelVars, TimerStatus, Kind, JobState, ActorPc, Plan, RowsExist
  <2>2. RowsExist'
    BY <1>0, <1>9, NothingAssumption, ActorsAssumption DEF TimerTypeOK, RowsExist, ScheduleAdd, Goto, rowVars, jobVars, worldVars, cancelVars
  <2>3. ClaimIsExclusive' /\ AtMostOneWalk'
    BY <1>0, <1>9, NothingAssumption, ActorsAssumption DEF TimerTypeOK, RowsExist, ClaimIsExclusive, Past, AtMostOneWalk, ScheduleAdd, Goto, rowVars, jobVars, worldVars, cancelVars
  <2>4. AnswersFound' /\ AnswersCancelWaits'
    BY <1>0, <1>9, ActorsAssumption DEF TimerTypeOK, RowsExist, AnswersFound, AnswersCancelWaits, ScheduleAdd, Goto, rowVars, jobVars, worldVars, cancelVars
  <2>5. QED
    BY <2>1, <2>2, <2>3, <2>4
<1>10. ASSUME NEW a \in Actors, ScheduleLink(a) PROVE IInv'
  <2>0. Left(a)
    BY <1>0, <1>10, LeaveLeaves DEF ScheduleLink
  <2>1. TimerTypeOK'
    BY <1>0, <1>10, <2>0 DEF Left, TimerTypeOK, ScheduleLink, rowVars, jobVars, worldVars, cancelVars, TimerStatus, Kind, JobState, ActorPc, RowsExist
  <2>2. RowsMoveOn
    BY <1>0, <1>10 DEF TimerTypeOK, RowsMoveOn, ScheduleLink, rowVars
  <2>3. tkind' = tkind /\ answers' = answers /\ picked' = picked /\ cleared' = cleared /\ walks' = walks
    BY <1>0, <1>10 DEF ScheduleLink, rowVars, cancelVars
  <2>4. QED
    BY <1>0, <2>0, <2>1, <2>2, <2>3, LeavingKeeps
<1>11. ASSUME NEW a \in Actors, ScheduleFails(a) PROVE IInv'
  <2>0. Left(a)
    BY <1>0, <1>11, LeaveLeaves DEF ScheduleFails
  <2>1. TimerTypeOK'
    BY <1>0, <1>11, <2>0 DEF Left, TimerTypeOK, ScheduleFails, TimerFault, rowVars, jobVars, worldVars, cancelVars, TimerStatus, Kind, JobState, ActorPc
  <2>2. RowsMoveOn
    BY <1>0, <1>11 DEF TimerTypeOK, RowsMoveOn, ScheduleFails, TimerFault, rowVars
  <2>3. tkind' = tkind /\ answers' = answers /\ picked' = picked /\ cleared' = cleared /\ walks' = walks
    BY <1>0, <1>11 DEF ScheduleFails, rowVars, cancelVars
  <2>4. QED
    BY <1>0, <2>0, <2>1, <2>2, <2>3, LeavingKeeps
<1>12. ASSUME NEW w \in Workers, NEW m \in Timers, Take(w, m) PROVE IInv'
  <2>0. seen' \in [Workers -> Seen]
    BY <1>12, SeenTypes DEF Take, TimerTypeOK
  <2>1. TimerTypeOK'
    BY <1>0, <1>12, <2>0 DEF TimerTypeOK, Take, Goto, rowVars, jobVars, worldVars, cancelVars, TimerStatus, Kind, JobState, ActorPc
  <2>2. RowsExist'
    BY <1>0, <1>12, NothingAssumption, ActorsAssumption DEF TimerTypeOK, RowsExist, Take, Goto, rowVars, jobVars, worldVars, cancelVars
  <2>3. ClaimIsExclusive' /\ AtMostOneWalk'
    BY <1>0, <1>12, NothingAssumption, ActorsAssumption DEF TimerTypeOK, RowsExist, ClaimIsExclusive, Past, AtMostOneWalk, Take, Goto, rowVars, jobVars, worldVars, cancelVars
  <2>4. AnswersFound' /\ AnswersCancelWaits'
    BY <1>0, <1>12, ActorsAssumption DEF TimerTypeOK, RowsExist, AnswersFound, AnswersCancelWaits, Take, Goto, rowVars, jobVars, worldVars, cancelVars
  <2>5. QED
    BY <2>1, <2>2, <2>3, <2>4
<1>13. ASSUME NEW w \in Workers, Load(w) PROVE IInv'
  <2>0. seen' \in [Workers -> Seen]
    <3>1. (tstatus[wtimer[w]] = "pending") \in BOOLEAN
      OBVIOUS
    <3>2. QED
      BY <1>13, <3>1, SeenTypes DEF Load, TimerTypeOK
  <2>1. TimerTypeOK'
    BY <1>0, <1>13, <2>0 DEF TimerTypeOK, Load, Goto, rowVars, jobVars, worldVars, cancelVars, TimerStatus, Kind, JobState, ActorPc
  <2>2. RowsExist'
    BY <1>0, <1>13, NothingAssumption, ActorsAssumption DEF TimerTypeOK, RowsExist, Load, Goto, rowVars, jobVars, worldVars, cancelVars
  <2>3. ClaimIsExclusive' /\ AtMostOneWalk'
    BY <1>0, <1>13, NothingAssumption, ActorsAssumption DEF TimerTypeOK, RowsExist, ClaimIsExclusive, Past, AtMostOneWalk, Load, Goto, rowVars, jobVars, worldVars, cancelVars
  <2>4. AnswersFound' /\ AnswersCancelWaits'
    BY <1>0, <1>13, ActorsAssumption DEF TimerTypeOK, RowsExist, AnswersFound, AnswersCancelWaits, Load, Goto, rowVars, jobVars, worldVars, cancelVars
  <2>5. QED
    BY <2>1, <2>2, <2>3, <2>4
<1>14. ASSUME NEW w \in Workers, ReadWorld(w) PROVE IInv'
  <2>0. seen' \in [Workers -> Seen]
    <3>1. (active /\ version = tversion[wtimer[w]]) \in BOOLEAN /\ (answers[wtimer[w]] # {}) \in BOOLEAN
      OBVIOUS
    <3>2. window \in BOOLEAN /\ seen \in [Workers -> Seen]
      BY DEF TimerTypeOK
    <3>3. QED
      BY <1>14, <3>1, <3>2, SeenTypes DEF ReadWorld
  <2>1. TimerTypeOK'
    BY <1>0, <1>14, <2>0 DEF TimerTypeOK, ReadWorld, Goto, rowVars, jobVars, worldVars, cancelVars, TimerStatus, Kind, JobState, ActorPc
  <2>2. RowsExist'
    BY <1>0, <1>14, NothingAssumption, ActorsAssumption DEF TimerTypeOK, RowsExist, ReadWorld, Goto, rowVars, jobVars, worldVars, cancelVars
  <2>3. ClaimIsExclusive' /\ AtMostOneWalk'
    BY <1>0, <1>14, NothingAssumption, ActorsAssumption DEF TimerTypeOK, RowsExist, ClaimIsExclusive, Past, AtMostOneWalk, ReadWorld, Goto, rowVars, jobVars, worldVars, cancelVars
  <2>4. AnswersFound' /\ AnswersCancelWaits'
    BY <1>0, <1>14, ActorsAssumption DEF TimerTypeOK, RowsExist, AnswersFound, AnswersCancelWaits, ReadWorld, Goto, rowVars, jobVars, worldVars, cancelVars
  <2>5. QED
    BY <2>1, <2>2, <2>3, <2>4
<1>15. ASSUME NEW w \in Workers, ReadPause(w) PROVE IInv'
  <2>0. seen' \in [Workers -> Seen]
    <3>1. PICK paused \in {key, FALSE} : seen' = [seen EXCEPT ![w].paused = paused]
      BY <1>15 DEF ReadPause
    <3>2. paused \in BOOLEAN /\ seen \in [Workers -> Seen]
      BY <3>1 DEF TimerTypeOK
    <3>3. QED
      BY <3>1, <3>2, SeenTypes
  <2>1. TimerTypeOK'
    BY <1>0, <1>15, <2>0 DEF TimerTypeOK, ReadPause, Goto, rowVars, jobVars, worldVars, cancelVars, TimerStatus, Kind, JobState, ActorPc
  <2>2. RowsExist'
    BY <1>0, <1>15, NothingAssumption, ActorsAssumption DEF TimerTypeOK, RowsExist, ReadPause, Goto, rowVars, jobVars, worldVars, cancelVars
  <2>3. ClaimIsExclusive' /\ AtMostOneWalk'
    BY <1>0, <1>15, NothingAssumption, ActorsAssumption DEF TimerTypeOK, RowsExist, ClaimIsExclusive, Past, AtMostOneWalk, ReadPause, Goto, rowVars, jobVars, worldVars, cancelVars
  <2>4. AnswersFound' /\ AnswersCancelWaits'
    BY <1>0, <1>15, ActorsAssumption DEF TimerTypeOK, RowsExist, AnswersFound, AnswersCancelWaits, ReadPause, Goto, rowVars, jobVars, worldVars, cancelVars
  <2>5. QED
    BY <2>1, <2>2, <2>3, <2>4
<1>16. ASSUME NEW w \in Workers, DecideSettled(w) PROVE IInv'
  <2>0. Left(w)
    BY <1>0, <1>16, LeaveLeaves DEF DecideSettled
  <2>1. TimerTypeOK'
    BY <1>0, <1>16, <2>0 DEF Left, TimerTypeOK, DecideSettled, rowVars, jobVars, worldVars, cancelVars, TimerStatus, Kind, JobState, ActorPc
  <2>2. RowsMoveOn
    BY <1>0, <1>16 DEF TimerTypeOK, RowsMoveOn, DecideSettled, rowVars
  <2>3. tkind' = tkind /\ answers' = answers /\ picked' = picked /\ cleared' = cleared /\ walks' = walks
    BY <1>0, <1>16 DEF DecideSettled, rowVars, cancelVars
  <2>4. QED
    BY <1>0, <2>0, <2>1, <2>2, <2>3, LeavingKeeps
<1>17. ASSUME NEW w \in Workers, DecideDrop(w) PROVE IInv'
  <2>0. Left(w)
    BY <1>0, <1>17, LeaveLeaves DEF DecideDrop
  <2>1. TimerTypeOK'
    BY <1>0, <1>17, <2>0 DEF Left, TimerTypeOK, DecideDrop, Verdict, rowVars, jobVars, worldVars, cancelVars, TimerStatus, Kind, JobState, ActorPc
  <2>2. RowsMoveOn
    BY <1>0, <1>17 DEF TimerTypeOK, RowsMoveOn, DecideDrop, Verdict, rowVars, RowsExist
  <2>3. tkind' = tkind /\ answers' = answers /\ picked' = picked /\ cleared' = cleared /\ walks' = walks
    BY <1>0, <1>17 DEF DecideDrop, rowVars, cancelVars
  <2>4. QED
    BY <1>0, <2>0, <2>1, <2>2, <2>3, LeavingKeeps
<1>18. ASSUME NEW w \in Workers, DecideFire(w) PROVE IInv'
  <2>1. TimerTypeOK'
    BY <1>0, <1>18, BoundsAssumption DEF TimerTypeOK, DecideFire, Goto, rowVars, jobVars, worldVars, cancelVars, TimerStatus, Kind, JobState, ActorPc
  <2>2. RowsExist'
    BY <1>0, <1>18, NothingAssumption, ActorsAssumption DEF TimerTypeOK, RowsExist, DecideFire, Goto, rowVars, jobVars, worldVars, cancelVars
  <2>3. ClaimIsExclusive' /\ AtMostOneWalk'
    BY <1>0, <1>18, NothingAssumption, ActorsAssumption DEF TimerTypeOK, RowsExist, ClaimIsExclusive, Past, AtMostOneWalk, DecideFire, Goto, rowVars, jobVars, worldVars, cancelVars
  <2>4. AnswersFound' /\ AnswersCancelWaits'
    BY <1>0, <1>18, ActorsAssumption DEF TimerTypeOK, RowsExist, AnswersFound, AnswersCancelWaits, DecideFire, Goto, rowVars, jobVars, worldVars, cancelVars
  <2>5. QED
    BY <2>1, <2>2, <2>3, <2>4
<1>19. ASSUME NEW w \in Workers, Claim(w) PROVE IInv'
  <2>1. TimerTypeOK'
    BY <1>0, <1>19, BoundsAssumption DEF TimerTypeOK, Claim, Goto, rowVars, jobVars, worldVars, cancelVars, TimerStatus, Kind, JobState, ActorPc
  <2>2. RowsExist'
    BY <1>0, <1>19, NothingAssumption, ActorsAssumption DEF TimerTypeOK, RowsExist, Claim, Goto, rowVars, jobVars, worldVars, cancelVars
  <2>3. ClaimIsExclusive' /\ AtMostOneWalk'
    BY <1>0, <1>19, NothingAssumption, ActorsAssumption DEF TimerTypeOK, RowsExist, ClaimIsExclusive, Past, AtMostOneWalk, Claim, Goto, rowVars, jobVars, worldVars, cancelVars
  <2>4. AnswersFound' /\ AnswersCancelWaits'
    BY <1>0, <1>19, ActorsAssumption DEF TimerTypeOK, RowsExist, AnswersFound, AnswersCancelWaits, Claim, Goto, rowVars, jobVars, worldVars, cancelVars
  <2>5. QED
    BY <2>1, <2>2, <2>3, <2>4
<1>20. ASSUME NEW w \in Workers, ClaimLost(w) PROVE IInv'
  <2>0. Left(w)
    BY <1>0, <1>20, LeaveLeaves DEF ClaimLost
  <2>1. TimerTypeOK'
    BY <1>0, <1>20, <2>0 DEF Left, TimerTypeOK, ClaimLost, rowVars, jobVars, worldVars, cancelVars, TimerStatus, Kind, JobState, ActorPc
  <2>2. RowsMoveOn
    BY <1>0, <1>20 DEF TimerTypeOK, RowsMoveOn, ClaimLost, rowVars
  <2>3. tkind' = tkind /\ answers' = answers /\ picked' = picked /\ cleared' = cleared /\ walks' = walks
    BY <1>0, <1>20 DEF ClaimLost, rowVars, cancelVars
  <2>4. QED
    BY <1>0, <2>0, <2>1, <2>2, <2>3, LeavingKeeps
<1>21. ASSUME NEW w \in Workers, Prepare(w) PROVE IInv'
  <2>1. TimerTypeOK'
    BY <1>0, <1>21, BoundsAssumption DEF TimerTypeOK, Prepare, Goto, rowVars, jobVars, worldVars, cancelVars, TimerStatus, Kind, JobState, ActorPc
  <2>2. RowsExist'
    BY <1>0, <1>21, NothingAssumption, ActorsAssumption DEF TimerTypeOK, RowsExist, Prepare, Goto, rowVars, jobVars, worldVars, cancelVars
  <2>3. ClaimIsExclusive' /\ AtMostOneWalk'
    BY <1>0, <1>21, NothingAssumption, ActorsAssumption DEF TimerTypeOK, RowsExist, ClaimIsExclusive, Past, AtMostOneWalk, Prepare, Goto, rowVars, jobVars, worldVars, cancelVars
  <2>4. AnswersFound' /\ AnswersCancelWaits'
    BY <1>0, <1>21, ActorsAssumption DEF TimerTypeOK, RowsExist, AnswersFound, AnswersCancelWaits, Prepare, Goto, rowVars, jobVars, worldVars, cancelVars
  <2>5. QED
    BY <2>1, <2>2, <2>3, <2>4
<1>22. ASSUME NEW w \in Workers, Walk(w) PROVE IInv'
  <2>0. Left(w)
    BY <1>0, <1>22, LeaveLeaves DEF Walk
  <2>w. walks' \in [Timers -> Nat]
    <3>1. wtimer[w] \in Timers /\ walks \in [Timers -> Nat]
      BY <1>22 DEF TimerTypeOK, RowsExist, Walk
    <3>2. walks[wtimer[w]] \in Nat /\ walks[wtimer[w]] + 1 \in Nat
      BY <3>1
    <3>3. QED
      BY <1>22, <3>1, <3>2 DEF Walk, CountWalk
  <2>1. TimerTypeOK'
    BY <1>0, <1>22, <2>0, <2>w DEF Left, TimerTypeOK, Walk, CountWalk, rowVars, jobVars, worldVars, cancelVars, TimerStatus, Kind, JobState, ActorPc
  <2>2. RowsMoveOn
    BY <1>0, <1>22 DEF TimerTypeOK, RowsMoveOn, Walk, CountWalk, rowVars
  <2>3. tkind' = tkind /\ answers' = answers /\ picked' = picked /\ cleared' = cleared
    BY <1>0, <1>22 DEF Walk, rowVars, cancelVars
  <2>4. RowsExist' /\ AnswersFound' /\ AnswersCancelWaits'
    BY <1>0, <2>0, <2>2, <2>3, LeavingKeeps
  <2>5. Past(w) /\ wtimer[w] \in Timers /\ walks' = [walks EXCEPT ![wtimer[w]] = @ + 1] /\ tstatus' = tstatus
    BY <1>22 DEF Walk, CountWalk, Past, RowsExist, rowVars
  <2>6. walks[wtimer[w]] = 0 /\ tstatus[wtimer[w]] \notin {"none", "pending"}
    BY <2>5, NothingAssumption DEF ClaimIsExclusive, RowsExist
  <2>7. \A v \in Workers : Past(v)' => Past(v) /\ v # w /\ wtimer'[v] = wtimer[v] /\ wtimer[v] \in Timers
    BY <1>0, <2>0 DEF Left, Past, RowsExist
  <2>8. \A v \in Workers : Past(v)' => wtimer[v] # wtimer[w]
    BY <2>5, <2>7 DEF ClaimIsExclusive
  <2>9. AtMostOneWalk'
    BY <2>5, <2>6 DEF TimerTypeOK, AtMostOneWalk
  <2>10. ClaimIsExclusive'
    <3>1. \A v \in Workers : Past(v)' => walks'[wtimer'[v]] = 0 /\ tstatus'[wtimer'[v]] # "pending"
      BY <2>5, <2>7, <2>8 DEF TimerTypeOK, ClaimIsExclusive
    <3>2. \A u, v \in Workers : Past(u)' /\ Past(v)' /\ wtimer'[u] = wtimer'[v] => u = v
      BY <2>7 DEF ClaimIsExclusive
    <3>3. \A m \in Timers : walks'[m] # 0 => tstatus'[m] \notin {"none", "pending"}
      BY <2>5, <2>6 DEF TimerTypeOK, ClaimIsExclusive
    <3>4. QED
      BY <3>1, <3>2, <3>3 DEF ClaimIsExclusive, Past
  <2>11. QED
    BY <2>1, <2>4, <2>9, <2>10
<1>23. ASSUME NEW w \in Workers, WalkAndChain(w) PROVE IInv'
  <2>0. tversion[wtimer[w]] \in Nat /\ wtimer[w] \in Timers
    BY <1>23 DEF WalkAndChain, Goto, TimerTypeOK, RowsExist
  <2>1. TimerTypeOK'
    BY <1>0, <1>23, <2>0 DEF Plan, TimerTypeOK, WalkAndChain, Goto, CountWalk, rowVars, jobVars, worldVars, cancelVars, TimerStatus, Kind, JobState, ActorPc
  <2>2. RowsExist'
    BY <1>0, <1>23, NothingAssumption, ActorsAssumption DEF TimerTypeOK, RowsExist, WalkAndChain, Goto, CountWalk, rowVars, jobVars, worldVars, cancelVars
  <2>3. ClaimIsExclusive' /\ AtMostOneWalk'
    BY <1>0, <1>23, NothingAssumption, ActorsAssumption DEF TimerTypeOK, RowsExist, ClaimIsExclusive, Past, AtMostOneWalk, WalkAndChain, Goto, CountWalk, rowVars, jobVars, worldVars, cancelVars
  <2>4. AnswersFound' /\ AnswersCancelWaits'
    BY <1>0, <1>23, ActorsAssumption DEF TimerTypeOK, RowsExist, AnswersFound, AnswersCancelWaits, WalkAndChain, Goto, CountWalk, rowVars, jobVars, worldVars, cancelVars
  <2>5. QED
    BY <2>1, <2>2, <2>3, <2>4
<1>24. ASSUME NEW w \in Workers, FireFails(w) PROVE IInv'
  <2>0. Left(w)
    BY <1>0, <1>24, ReleaseLeaves DEF FireFails, JobState
  <2>w. tries' \in [Timers -> Nat]
    <3>1. wtimer[w] \in Timers /\ tries \in [Timers -> Nat]
      BY <1>24 DEF TimerTypeOK, RowsExist, FireFails
    <3>2. tries[wtimer[w]] \in Nat /\ tries[wtimer[w]] + 1 \in Nat
      BY <3>1
    <3>3. QED
      BY <1>24, <3>1, <3>2 DEF FireFails
  <2>1. TimerTypeOK'
    BY <1>0, <1>24, <2>0, <2>w DEF Left, TimerTypeOK, FireFails, TimerFault, rowVars, jobVars, worldVars, cancelVars, TimerStatus, Kind, JobState, ActorPc
  <2>2. RowsMoveOn
    BY <1>0, <1>24 DEF TimerTypeOK, RowsMoveOn, FireFails, TimerFault, rowVars
  <2>3. tkind' = tkind /\ answers' = answers /\ picked' = picked /\ cleared' = cleared /\ walks' = walks
    BY <1>0, <1>24 DEF FireFails, rowVars, cancelVars
  <2>4. QED
    BY <1>0, <2>0, <2>1, <2>2, <2>3, LeavingKeeps
<1>25. ASSUME NEW w \in Workers, Stall(w) PROVE IInv'
  <2>j. wtimer[w] \in Timers /\ StalledJob(wtimer[w]) \in JobState
    BY <1>25 DEF Stall, TimerTypeOK, StalledJob, JobState
  <2>1. TimerTypeOK'
    BY <1>0, <1>25, <2>j, BoundsAssumption DEF TimerTypeOK, Stall, TimerFault, rowVars, jobVars, worldVars, cancelVars, TimerStatus, Kind, JobState, ActorPc
  <2>2. RowsExist'
    BY <1>0, <1>25, NothingAssumption, ActorsAssumption DEF TimerTypeOK, RowsExist, Stall, TimerFault, rowVars, jobVars, worldVars, cancelVars
  <2>3. ClaimIsExclusive' /\ AtMostOneWalk'
    BY <1>0, <1>25, NothingAssumption, ActorsAssumption DEF TimerTypeOK, RowsExist, ClaimIsExclusive, Past, AtMostOneWalk, Stall, TimerFault, rowVars, jobVars, worldVars, cancelVars
  <2>4. AnswersFound' /\ AnswersCancelWaits'
    BY <1>0, <1>25, ActorsAssumption DEF TimerTypeOK, RowsExist, AnswersFound, AnswersCancelWaits, Stall, TimerFault, rowVars, jobVars, worldVars, cancelVars
  <2>5. QED
    BY <2>1, <2>2, <2>3, <2>4
<1>26. ASSUME NEW w \in Workers, Crash(w) PROVE IInv'
  <2>0. Left(w)
    <3>1. StalledJob(wtimer[w]) \in JobState \ {"none"} /\ Release(w, StalledJob(wtimer[w]))
      BY <1>26 DEF Crash, StalledJob, JobState
    <3>2. QED
      BY <1>0, <3>1, ReleaseLeaves
  <2>1. TimerTypeOK'
    BY <1>0, <1>26, <2>0 DEF Left, TimerTypeOK, Crash, TimerFault, rowVars, jobVars, worldVars, cancelVars, TimerStatus, Kind, JobState, ActorPc
  <2>2. RowsMoveOn
    BY <1>0, <1>26 DEF TimerTypeOK, RowsMoveOn, Crash, TimerFault, rowVars
  <2>3. tkind' = tkind /\ answers' = answers /\ picked' = picked /\ cleared' = cleared /\ walks' = walks
    BY <1>0, <1>26 DEF Crash, rowVars, cancelVars
  <2>4. QED
    BY <1>0, <2>0, <2>1, <2>2, <2>3, LeavingKeeps
<1>27. ASSUME Snapshot PROVE IInv'
  <2>1. TimerTypeOK'
    BY <1>0, <1>27, BoundsAssumption DEF TimerTypeOK, Snapshot, OnlyWorld, rowVars, jobVars, worldVars, cancelVars, TimerStatus, Kind, JobState, ActorPc
  <2>2. RowsExist'
    BY <1>0, <1>27, NothingAssumption, ActorsAssumption DEF TimerTypeOK, RowsExist, Snapshot, OnlyWorld, rowVars, jobVars, worldVars, cancelVars
  <2>3. ClaimIsExclusive' /\ AtMostOneWalk'
    BY <1>0, <1>27, NothingAssumption, ActorsAssumption DEF TimerTypeOK, RowsExist, ClaimIsExclusive, Past, AtMostOneWalk, Snapshot, OnlyWorld, rowVars, jobVars, worldVars, cancelVars
  <2>4. AnswersFound' /\ AnswersCancelWaits'
    BY <1>0, <1>27, ActorsAssumption DEF TimerTypeOK, RowsExist, AnswersFound, AnswersCancelWaits, Snapshot, OnlyWorld, rowVars, jobVars, worldVars, cancelVars
  <2>5. QED
    BY <2>1, <2>2, <2>3, <2>4
<1>28. ASSUME Activate PROVE IInv'
  <2>1. TimerTypeOK'
    BY <1>0, <1>28, BoundsAssumption DEF TimerTypeOK, Activate, OnlyWorld, rowVars, jobVars, worldVars, cancelVars, TimerStatus, Kind, JobState, ActorPc
  <2>2. RowsExist'
    BY <1>0, <1>28, NothingAssumption, ActorsAssumption DEF TimerTypeOK, RowsExist, Activate, OnlyWorld, rowVars, jobVars, worldVars, cancelVars
  <2>3. ClaimIsExclusive' /\ AtMostOneWalk'
    BY <1>0, <1>28, NothingAssumption, ActorsAssumption DEF TimerTypeOK, RowsExist, ClaimIsExclusive, Past, AtMostOneWalk, Activate, OnlyWorld, rowVars, jobVars, worldVars, cancelVars
  <2>4. AnswersFound' /\ AnswersCancelWaits'
    BY <1>0, <1>28, ActorsAssumption DEF TimerTypeOK, RowsExist, AnswersFound, AnswersCancelWaits, Activate, OnlyWorld, rowVars, jobVars, worldVars, cancelVars
  <2>5. QED
    BY <2>1, <2>2, <2>3, <2>4
<1>29. ASSUME Deactivate PROVE IInv'
  <2>1. TimerTypeOK'
    BY <1>0, <1>29, BoundsAssumption DEF TimerTypeOK, Deactivate, OnlyWorld, rowVars, jobVars, worldVars, cancelVars, TimerStatus, Kind, JobState, ActorPc
  <2>2. RowsExist'
    BY <1>0, <1>29, NothingAssumption, ActorsAssumption DEF TimerTypeOK, RowsExist, Deactivate, OnlyWorld, rowVars, jobVars, worldVars, cancelVars
  <2>3. ClaimIsExclusive' /\ AtMostOneWalk'
    BY <1>0, <1>29, NothingAssumption, ActorsAssumption DEF TimerTypeOK, RowsExist, ClaimIsExclusive, Past, AtMostOneWalk, Deactivate, OnlyWorld, rowVars, jobVars, worldVars, cancelVars
  <2>4. AnswersFound' /\ AnswersCancelWaits'
    BY <1>0, <1>29, ActorsAssumption DEF TimerTypeOK, RowsExist, AnswersFound, AnswersCancelWaits, Deactivate, OnlyWorld, rowVars, jobVars, worldVars, cancelVars
  <2>5. QED
    BY <2>1, <2>2, <2>3, <2>4
<1>30. ASSUME PeopleTake PROVE IInv'
  <2>1. TimerTypeOK'
    BY <1>0, <1>30, BoundsAssumption DEF TimerTypeOK, PeopleTake, OnlyWorld, rowVars, jobVars, worldVars, cancelVars, TimerStatus, Kind, JobState, ActorPc
  <2>2. RowsExist'
    BY <1>0, <1>30, NothingAssumption, ActorsAssumption DEF TimerTypeOK, RowsExist, PeopleTake, OnlyWorld, rowVars, jobVars, worldVars, cancelVars
  <2>3. ClaimIsExclusive' /\ AtMostOneWalk'
    BY <1>0, <1>30, NothingAssumption, ActorsAssumption DEF TimerTypeOK, RowsExist, ClaimIsExclusive, Past, AtMostOneWalk, PeopleTake, OnlyWorld, rowVars, jobVars, worldVars, cancelVars
  <2>4. AnswersFound' /\ AnswersCancelWaits'
    BY <1>0, <1>30, ActorsAssumption DEF TimerTypeOK, RowsExist, AnswersFound, AnswersCancelWaits, PeopleTake, OnlyWorld, rowVars, jobVars, worldVars, cancelVars
  <2>5. QED
    BY <2>1, <2>2, <2>3, <2>4
<1>31. ASSUME PeopleGiveBack PROVE IInv'
  <2>1. TimerTypeOK'
    BY <1>0, <1>31, BoundsAssumption DEF TimerTypeOK, PeopleGiveBack, OnlyWorld, rowVars, jobVars, worldVars, cancelVars, TimerStatus, Kind, JobState, ActorPc
  <2>2. RowsExist'
    BY <1>0, <1>31, NothingAssumption, ActorsAssumption DEF TimerTypeOK, RowsExist, PeopleGiveBack, OnlyWorld, rowVars, jobVars, worldVars, cancelVars
  <2>3. ClaimIsExclusive' /\ AtMostOneWalk'
    BY <1>0, <1>31, NothingAssumption, ActorsAssumption DEF TimerTypeOK, RowsExist, ClaimIsExclusive, Past, AtMostOneWalk, PeopleGiveBack, OnlyWorld, rowVars, jobVars, worldVars, cancelVars
  <2>4. AnswersFound' /\ AnswersCancelWaits'
    BY <1>0, <1>31, ActorsAssumption DEF TimerTypeOK, RowsExist, AnswersFound, AnswersCancelWaits, PeopleGiveBack, OnlyWorld, rowVars, jobVars, worldVars, cancelVars
  <2>5. QED
    BY <2>1, <2>2, <2>3, <2>4
<1>32. ASSUME KeyLost PROVE IInv'
  <2>1. TimerTypeOK'
    BY <1>0, <1>32, BoundsAssumption DEF TimerTypeOK, KeyLost, OnlyWorld, rowVars, jobVars, worldVars, cancelVars, TimerStatus, Kind, JobState, ActorPc
  <2>2. RowsExist'
    BY <1>0, <1>32, NothingAssumption, ActorsAssumption DEF TimerTypeOK, RowsExist, KeyLost, OnlyWorld, rowVars, jobVars, worldVars, cancelVars
  <2>3. ClaimIsExclusive' /\ AtMostOneWalk'
    BY <1>0, <1>32, NothingAssumption, ActorsAssumption DEF TimerTypeOK, RowsExist, ClaimIsExclusive, Past, AtMostOneWalk, KeyLost, OnlyWorld, rowVars, jobVars, worldVars, cancelVars
  <2>4. AnswersFound' /\ AnswersCancelWaits'
    BY <1>0, <1>32, ActorsAssumption DEF TimerTypeOK, RowsExist, AnswersFound, AnswersCancelWaits, KeyLost, OnlyWorld, rowVars, jobVars, worldVars, cancelVars
  <2>5. QED
    BY <2>1, <2>2, <2>3, <2>4
<1>33. ASSUME WindowCloses PROVE IInv'
  <2>1. TimerTypeOK'
    BY <1>0, <1>33, BoundsAssumption DEF TimerTypeOK, WindowCloses, OnlyWorld, rowVars, jobVars, worldVars, cancelVars, TimerStatus, Kind, JobState, ActorPc
  <2>2. RowsExist'
    BY <1>0, <1>33, NothingAssumption, ActorsAssumption DEF TimerTypeOK, RowsExist, WindowCloses, OnlyWorld, rowVars, jobVars, worldVars, cancelVars
  <2>3. ClaimIsExclusive' /\ AtMostOneWalk'
    BY <1>0, <1>33, NothingAssumption, ActorsAssumption DEF TimerTypeOK, RowsExist, ClaimIsExclusive, Past, AtMostOneWalk, WindowCloses, OnlyWorld, rowVars, jobVars, worldVars, cancelVars
  <2>4. AnswersFound' /\ AnswersCancelWaits'
    BY <1>0, <1>33, ActorsAssumption DEF TimerTypeOK, RowsExist, AnswersFound, AnswersCancelWaits, WindowCloses, OnlyWorld, rowVars, jobVars, worldVars, cancelVars
  <2>5. QED
    BY <2>1, <2>2, <2>3, <2>4
<1>34. CASE UNCHANGED timerVars
  <2>1. TimerTypeOK' /\ RowsExist'
    BY <1>34 DEF timerVars, TimerTypeOK, RowsExist, rowVars, jobVars, worldVars, cancelVars
  <2>2. ClaimIsExclusive' /\ AtMostOneWalk' /\ AnswersFound' /\ AnswersCancelWaits'
    BY <1>34 DEF timerVars, ClaimIsExclusive, Past, AtMostOneWalk, AnswersFound, AnswersCancelWaits, rowVars, jobVars, worldVars, cancelVars
  <2>3. QED
    BY <2>1, <2>2
<1>35. QED
  BY <1>1, <1>2, <1>3, <1>4, <1>5, <1>6, <1>7, <1>8, <1>9, <1>10, <1>11, <1>12, <1>13, <1>14, <1>15, <1>16, <1>17, <1>18, <1>19, <1>20, <1>21, <1>22, <1>23, <1>24, <1>25, <1>26, <1>27, <1>28, <1>29, <1>30, <1>31, <1>32, <1>33, <1>34
     DEF TimerNext, TurnStep, WorkerStep, Works, ScheduleStep, FaultStep, WorldStep

----------------------------------------------------------------------------
(* The invariant holds in every reachable state. *)
THEOREM Invariance == TimerSpec => []IInv
<1>1. TimerInit => IInv
  BY InitInvariant
<1>2. IInv /\ [TimerNext]_timerVars => IInv'
  BY StepInvariant
<1>3. QED
  BY <1>1, <1>2, PTL DEF TimerSpec

(* Every variable of the flow timers keeps its type. *)
THEOREM TypeCorrectness == TimerSpec => []TimerTypeOK
<1>1. IInv => TimerTypeOK
  BY DEF IInv
<1>2. QED
  BY <1>1, Invariance, PTL

(* No timer sends its messages twice, however many workers, attempts,      *)
(* stalls and crashes there are: only the claim leads to a walk.           *)
THEOREM TimersWalkOnce == TimerSpec => []AtMostOneWalk
<1>1. IInv => AtMostOneWalk
  BY DEF IInv
<1>2. QED
  BY <1>1, Invariance, PTL

(* An answer whose cancellation went through leaves none of the time-outs  *)
(* it answers pending, whatever the workers were doing meanwhile.          *)
THEOREM AnswersSettleWaits == TimerSpec => []AnswersCancelWaits
<1>1. IInv => AnswersCancelWaits
  BY DEF IInv
<1>2. QED
  BY <1>1, Invariance, PTL
=============================================================================
