----------------------------- MODULE FlowTimer -----------------------------
(***************************************************************************)
(* The timers of a conversation flow (wait and schedule nodes) of one      *)
(* conversation: the FlowTimer rows, the flow-timer jobs that wake them,   *)
(* the inbound turns that cancel and create them and the workers that fire *)
(* them.                                                                   *)
(*                                                                         *)
(* The row is the source of truth and the job only an alarm clock.  A      *)
(* worker reads the row, then the world, then the pause key, decides, and  *)
(* claims the row before it sends anything; between any two of these steps *)
(* the customer may answer, the team may take over, the flow may be        *)
(* published again, and BullMQ may hand a stalled job to a second worker   *)
(* while the first one is still running it.                                *)
(***************************************************************************)
EXTENDS Naturals, FiniteSets

CONSTANTS
    Timers,       \* FlowTimer rows that may come to exist
    Answers,      \* inbound messages of the conversation, one turn each
    Workers,      \* concurrent executions of the flow-timer worker
    Nothing,      \* no timer, no worker
    Attempts,     \* attempts of a flow-timer job
    MaxVersion,   \* bound on snapshots of the flow's version
    MaxTimerFaults \* bound on failed calls, stalls and crashes

ASSUME NothingAssumption == Nothing \notin Timers \cup Workers
ASSUME ActorsAssumption == Answers \cap Workers = {}
ASSUME BoundsAssumption == Attempts \in Nat \ {0} /\ MaxVersion \in Nat /\ MaxTimerFaults \in Nat

VARIABLES
    tstatus,      \* timer -> status of its row, "none" while the row is absent
    tkind,        \* timer -> wait (a time-out) or schedule
    tversion,     \* timer -> version of the flow that created it
    linked,       \* timers whose row holds the job id
    answers,      \* timer -> inbound messages stored after the row was created
    walks,        \* timer -> times its walk was run and its effects sent
    job,          \* timer -> state of its BullMQ job
    owner,        \* timer -> the worker BullMQ believes is running its job
    tries,        \* timer -> attempts of its job that failed
    stalled,      \* timers whose job stalled once
    active,       \* the flow is active
    version,      \* version of the flow
    held,         \* conversation.aiPaused: people have the conversation
    key,          \* the ai_paused cache entry exists
    window,       \* the last inbound message is less than 24 hours old
    pc,           \* turn or worker -> where it is
    plan,         \* turn or worker -> the timer it is scheduling: row, kind, flow version
    picked,       \* turn -> the pending wait timers it found
    cleared,      \* turns whose cancellation went through
    wtimer,       \* worker -> the timer it fires
    seen,         \* worker -> what it read before it decides; held: as it took the job
    timerFaults   \* faults so far

rowVars == <<tstatus, tkind, tversion, linked, answers>>
jobVars == <<job, owner, tries, stalled>>
worldVars == <<active, version, held, key, window>>
cancelVars == <<picked, cleared>>
timerVars == <<rowVars, walks, jobVars, worldVars, pc, plan, cancelVars, wtimer, seen, timerFaults>>

Actors == Answers \cup Workers
TimerStatus == {"none", "pending", "fired", "cancelled", "expired"}
Kind == {"wait", "schedule"}
JobState == {"none", "waiting", "active", "done", "failed", "removed"}
ActorPc == {"idle", "find", "cancel", "remove", "route", "create", "add", "link", "done",
            "load", "world", "pause", "decide", "claim", "prepare", "walk"}

Plan == [timer : Timers \cup {Nothing}, kind : Kind, version : Nat]
NoPlan == [timer |-> Nothing, kind |-> "wait", version |-> 0]
Seen == [held : BOOLEAN, pending : BOOLEAN, flow : BOOLEAN,
         answered : BOOLEAN, window : BOOLEAN, paused : BOOLEAN]
NothingSeen ==
    [held |-> FALSE, pending |-> FALSE, flow |-> FALSE,
     answered |-> FALSE, window |-> FALSE, paused |-> FALSE]

TimerInit ==
    /\ tstatus = [m \in Timers |-> "none"]
    /\ tkind = [m \in Timers |-> "wait"]
    /\ tversion = [m \in Timers |-> 0]
    /\ linked = {}
    /\ answers = [m \in Timers |-> {}]
    /\ walks = [m \in Timers |-> 0]
    /\ job = [m \in Timers |-> "none"]
    /\ owner = [m \in Timers |-> Nothing]
    /\ tries = [m \in Timers |-> 0]
    /\ stalled = {}
    /\ active = TRUE /\ version = 0
    /\ held = FALSE /\ key = FALSE /\ window = FALSE
    /\ pc = [a \in Actors |-> "idle"]
    /\ plan = [a \in Actors |-> NoPlan]
    /\ picked = [u \in Answers |-> {}]
    /\ cleared = {}
    /\ wtimer = [w \in Workers |-> Nothing]
    /\ seen = [w \in Workers |-> NothingSeen]
    /\ timerFaults = 0

Goto(a, here, there) == pc[a] = here /\ pc' = [pc EXCEPT ![a] = there]
TimerFault == timerFaults < MaxTimerFaults /\ timerFaults' = timerFaults + 1

----------------------------------------------------------------------------
(* The inbound turn: cancelPendingWaitTimers, then the walk of the flow.   *)

\* The webhook stores the message.  The turn may end before the flow (paused
\* AI, no text).
Inbound(u) ==
    /\ pc[u] = "idle"
    /\ \E there \in {"find", "done"} : pc' = [pc EXCEPT ![u] = there]
    /\ window' = TRUE
    /\ answers' = [m \in Timers |-> IF tstatus[m] = "none" THEN {} ELSE answers[m] \cup {u}]
    /\ UNCHANGED <<tstatus, tkind, tversion, linked, walks, jobVars, active, version, held, key,
                   plan, cancelVars, wtimer, seen, timerFaults>>

CancelFind(u) ==
    /\ Goto(u, "find", "cancel")
    /\ picked' = [picked EXCEPT ![u] = {m \in Timers : tstatus[m] = "pending" /\ tkind[m] = "wait"}]
    /\ UNCHANGED <<rowVars, walks, jobVars, worldVars, plan, cleared, wtimer, seen, timerFaults>>

\* Mutant: rows whose job id is not stored yet are left pending.
CancelUpdateLinked(u) ==
    /\ Goto(u, "cancel", "remove")
    /\ tstatus' = [m \in Timers |-> IF m \in picked[u] \cap linked THEN "cancelled" ELSE tstatus[m]]
    /\ cleared' = cleared \cup {u}
    /\ UNCHANGED <<tkind, tversion, linked, answers, walks, jobVars, worldVars, plan, picked,
                   wtimer, seen, timerFaults>>

\* By id, whatever the status is by now.
CancelUpdate(u) ==
    /\ Goto(u, "cancel", "remove")
    /\ tstatus' = [m \in Timers |-> IF m \in picked[u] THEN "cancelled" ELSE tstatus[m]]
    /\ cleared' = cleared \cup {u}
    /\ UNCHANGED <<tkind, tversion, linked, answers, walks, jobVars, worldVars, plan, picked,
                   wtimer, seen, timerFaults>>

\* Best effort: a job that is running cannot be removed.
CancelRemove(u) ==
    /\ Goto(u, "remove", "route")
    /\ \E gone \in SUBSET {m \in picked[u] \cap linked : job[m] = "waiting"} :
         job' = [m \in Timers |-> IF m \in gone THEN "removed" ELSE job[m]]
    /\ UNCHANGED <<rowVars, walks, owner, tries, stalled, worldVars, plan, cancelVars, wtimer, seen, timerFaults>>

\* A failed read or update of the cancellation is swallowed.
CancelFails(u) ==
    /\ pc[u] \in {"find", "cancel"}
    /\ pc' = [pc EXCEPT ![u] = "route"]
    /\ TimerFault
    /\ UNCHANGED <<rowVars, walks, jobVars, worldVars, plan, cancelVars, wtimer, seen>>

\* The walk of a flow read as active, which stops at a wait or schedule node.
TurnSchedules(u) ==
    /\ active
    /\ Goto(u, "route", "create")
    /\ \E kind \in Kind :
         plan' = [plan EXCEPT ![u] = [timer |-> Nothing, kind |-> kind, version |-> version]]
    /\ UNCHANGED <<rowVars, walks, jobVars, worldVars, cancelVars, wtimer, seen, timerFaults>>

\* No active flow, or a walk that schedules nothing.
TurnWalksOn(u) ==
    /\ Goto(u, "route", "done")
    /\ UNCHANGED <<rowVars, walks, jobVars, worldVars, plan, cancelVars, wtimer, seen, timerFaults>>

----------------------------------------------------------------------------
(* scheduleFlowTimer, from a turn or, for a chained timer, from a worker.  *)

ScheduleCreate(a) ==
    /\ Goto(a, "create", "add")
    /\ \E m \in Timers :
         /\ tstatus[m] = "none"
         /\ tstatus' = [tstatus EXCEPT ![m] = "pending"]
         /\ tkind' = [tkind EXCEPT ![m] = plan[a].kind]
         /\ tversion' = [tversion EXCEPT ![m] = plan[a].version]
         /\ plan' = [plan EXCEPT ![a].timer = m]
    /\ UNCHANGED <<linked, answers, walks, jobVars, worldVars, cancelVars, wtimer, seen, timerFaults>>

ScheduleAdd(a) ==
    /\ Goto(a, "add", "link")
    /\ job' = [job EXCEPT ![plan[a].timer] = "waiting"]
    /\ UNCHANGED <<rowVars, walks, owner, tries, stalled, worldVars, plan, cancelVars, wtimer, seen, timerFaults>>

\* The job is over for BullMQ, unless it was handed to another worker.
FinishJob(w, end) ==
    LET m == wtimer[w] IN
    /\ job' = [job EXCEPT ![m] = IF owner[m] = w THEN end ELSE @]
    /\ owner' = [owner EXCEPT ![m] = IF @ = w THEN Nothing ELSE @]

\* The worker is free again; what it had read and planned is gone.
Release(w, end) ==
    /\ FinishJob(w, end)
    /\ pc' = [pc EXCEPT ![w] = "idle"]
    /\ wtimer' = [wtimer EXCEPT ![w] = Nothing]
    /\ plan' = [plan EXCEPT ![w] = NoPlan]
    /\ seen' = [seen EXCEPT ![w] = NothingSeen]

TurnDone(u) ==
    /\ pc' = [pc EXCEPT ![u] = "done"]
    /\ plan' = [plan EXCEPT ![u] = NoPlan]
    /\ UNCHANGED <<job, owner, wtimer, seen>>

Leave(a) == IF a \in Workers THEN Release(a, "done") ELSE TurnDone(a)

\* The job id goes into the row.
ScheduleLink(a) ==
    /\ pc[a] = "link"
    /\ linked' = linked \cup {plan[a].timer}
    /\ Leave(a)
    /\ UNCHANGED <<tstatus, tkind, tversion, answers, walks, tries, stalled, worldVars, cancelVars, timerFaults>>

\* Mutant: the job id is written in a finally block, row or no row.
ScheduleFailsLinks(a) ==
    /\ pc[a] \in {"create", "add", "link"}
    /\ linked' = linked \cup {plan[a].timer}
    /\ Leave(a)
    /\ TimerFault
    /\ UNCHANGED <<tstatus, tkind, tversion, answers, walks, tries, stalled, worldVars, cancelVars>>

\* Any call of scheduleFlowTimer throws: the turn falls back to the model, the
\* worker records effects_failed.  The row stays as it is.
ScheduleFails(a) ==
    /\ pc[a] \in {"create", "add", "link"}
    /\ Leave(a)
    /\ TimerFault
    /\ UNCHANGED <<rowVars, walks, tries, stalled, worldVars, cancelVars>>

----------------------------------------------------------------------------
(* The flow-timer worker.                                                  *)

Take(w, m) ==
    /\ Goto(w, "idle", "load")
    /\ job[m] = "waiting"
    /\ job' = [job EXCEPT ![m] = "active"]
    /\ owner' = [owner EXCEPT ![m] = w]
    /\ wtimer' = [wtimer EXCEPT ![w] = m]
    /\ seen' = [seen EXCEPT ![w].held = held]
    /\ UNCHANGED <<rowVars, walks, tries, stalled, worldVars, plan, cancelVars, timerFaults>>

Load(w) ==
    /\ Goto(w, "load", "world")
    /\ seen' = [seen EXCEPT ![w].pending = tstatus[wtimer[w]] = "pending"]
    /\ UNCHANGED <<rowVars, walks, jobVars, worldVars, plan, cancelVars, wtimer, timerFaults>>

ReadWorld(w) ==
    LET m == wtimer[w] IN
    /\ Goto(w, "world", "pause")
    /\ seen' = [seen EXCEPT ![w].flow = active /\ version = tversion[m],
                            ![w].answered = answers[m] # {},
                            ![w].window = window]
    /\ UNCHANGED <<rowVars, walks, jobVars, worldVars, plan, cancelVars, wtimer, timerFaults>>

\* A failed cache read is "not paused".
ReadPause(w) ==
    /\ Goto(w, "pause", "decide")
    /\ \E paused \in {key, FALSE} : seen' = [seen EXCEPT ![w].paused = paused]
    /\ UNCHANGED <<rowVars, walks, jobVars, worldVars, plan, cancelVars, wtimer, timerFaults>>

\* validateTimerFire past its first check, in its order; "pending" means fire.
Verdict(w) ==
    LET timeoutAnswered == tkind[wtimer[w]] = "wait" /\ seen[w].answered IN
    IF ~seen[w].flow \/ seen[w].paused \/ timeoutAnswered THEN "cancelled"
    ELSE IF ~seen[w].window THEN "expired"
    ELSE "pending"

\* Not pending any more: nothing to do.
DecideSettled(w) ==
    /\ pc[w] = "decide"
    /\ ~seen[w].pending
    /\ Leave(w)
    /\ UNCHANGED <<rowVars, walks, tries, stalled, worldVars, cancelVars, timerFaults>>

\* Mutant: the refusal is logged and the row left as it is.
DecideDropOnlyLogs(w) ==
    /\ pc[w] = "decide"
    /\ seen[w].pending /\ Verdict(w) # "pending"
    /\ Leave(w)
    /\ UNCHANGED <<rowVars, walks, tries, stalled, worldVars, cancelVars, timerFaults>>

\* Refused: the row is overwritten, whatever its status is by now.
DecideDrop(w) ==
    /\ pc[w] = "decide"
    /\ seen[w].pending /\ Verdict(w) # "pending"
    /\ tstatus' = [tstatus EXCEPT ![wtimer[w]] = Verdict(w)]
    /\ Leave(w)
    /\ UNCHANGED <<tkind, tversion, linked, answers, walks, tries, stalled, worldVars, cancelVars, timerFaults>>

DecideFire(w) ==
    /\ Goto(w, "decide", "claim")
    /\ seen[w].pending /\ Verdict(w) = "pending"
    /\ UNCHANGED <<rowVars, walks, jobVars, worldVars, plan, cancelVars, wtimer, seen, timerFaults>>

\* Mutant: the claim does not check that the row is still pending.
ClaimBlindly(w) ==
    /\ Goto(w, "claim", "prepare")
    /\ tstatus' = [tstatus EXCEPT ![wtimer[w]] = "fired"]
    /\ UNCHANGED <<tkind, tversion, linked, answers, walks, jobVars, worldVars, plan, cancelVars,
                   wtimer, seen, timerFaults>>

Claim(w) ==
    /\ Goto(w, "claim", "prepare")
    /\ tstatus[wtimer[w]] = "pending"
    /\ tstatus' = [tstatus EXCEPT ![wtimer[w]] = "fired"]
    /\ UNCHANGED <<tkind, tversion, linked, answers, walks, jobVars, worldVars, plan, cancelVars,
                   wtimer, seen, timerFaults>>

ClaimLost(w) ==
    /\ pc[w] = "claim"
    /\ tstatus[wtimer[w]] # "pending"
    /\ Leave(w)
    /\ UNCHANGED <<rowVars, walks, tries, stalled, worldVars, cancelVars, timerFaults>>

\* Organisation, evaluation context and the walk itself, before the try block.
Prepare(w) ==
    /\ Goto(w, "prepare", "walk")
    /\ UNCHANGED <<rowVars, walks, jobVars, worldVars, plan, cancelVars, wtimer, seen, timerFaults>>

CountWalk(w) == walks' = [walks EXCEPT ![wtimer[w]] = @ + 1]

\* Mutant: a walk whose effects fail is walked again on the spot.
WalkAgain(w) ==
    /\ pc[w] = "walk"
    /\ CountWalk(w)
    /\ UNCHANGED <<rowVars, jobVars, worldVars, plan, cancelVars, wtimer, pc, seen, timerFaults>>

\* The effects are sent, all or, when one throws (effects_failed), some.
Walk(w) ==
    /\ pc[w] = "walk"
    /\ CountWalk(w)
    /\ Leave(w)
    /\ UNCHANGED <<rowVars, tries, stalled, worldVars, cancelVars, timerFaults>>

\* The walk stops at another wait or schedule node: the next timer of the drip.
WalkAndChain(w) ==
    /\ Goto(w, "walk", "create")
    /\ CountWalk(w)
    /\ \E kind \in Kind :
         plan' = [plan EXCEPT ![w] =
                    [timer |-> Nothing, kind |-> kind, version |-> tversion[wtimer[w]]]]
    /\ UNCHANGED <<rowVars, jobVars, worldVars, cancelVars, wtimer, seen, timerFaults>>

\* A read or write before the try block throws: BullMQ retries the job.
FireFails(w) ==
    LET m == wtimer[w] IN
    /\ pc[w] \in {"load", "world", "decide", "claim", "prepare"}
    /\ TimerFault
    /\ tries' = [tries EXCEPT ![m] = IF owner[m] = w THEN @ + 1 ELSE @]
    /\ Release(w, IF tries[m] + 1 < Attempts THEN "waiting" ELSE "failed")
    /\ UNCHANGED <<rowVars, walks, stalled, worldVars, cancelVars>>

\* A stalled job is handed out again; one that stalled before fails for good.
StalledJob(m) == IF m \in stalled THEN "failed" ELSE "waiting"

\* The lock of the job lapses while the worker is still running it.
Stall(w) ==
    LET m == wtimer[w] IN
    /\ m # Nothing
    /\ owner[m] = w
    /\ TimerFault
    /\ job' = [job EXCEPT ![m] = StalledJob(m)]
    /\ stalled' = stalled \cup {m}
    /\ owner' = [owner EXCEPT ![m] = Nothing]
    /\ UNCHANGED <<rowVars, walks, tries, worldVars, pc, plan, cancelVars, wtimer, seen>>

\* The process dies; BullMQ finds the job stalled, unless it had been handed on.
Crash(w) ==
    LET m == wtimer[w] IN
    /\ m # Nothing
    /\ TimerFault
    /\ Release(w, StalledJob(m))
    /\ stalled' = IF owner[m] = w THEN stalled \cup {m} ELSE stalled
    /\ UNCHANGED <<rowVars, walks, tries, worldVars, cancelVars>>

----------------------------------------------------------------------------
(* The world the worker revalidates against.                               *)

\* What every step of the world leaves alone.
OnlyWorld == UNCHANGED <<rowVars, walks, jobVars, pc, plan, cancelVars, wtimer, seen, timerFaults>>

\* snapshotFlowVersion, from publish or restore.
Snapshot ==
    /\ version < MaxVersion
    /\ version' = version + 1
    /\ OnlyWorld /\ UNCHANGED <<active, held, key, window>>

\* The end of a publish, or an edit of the flow's switch.
Activate ==
    /\ ~active
    /\ active' = TRUE
    /\ OnlyWorld /\ UNCHANGED <<version, held, key, window>>

Deactivate ==
    /\ active
    /\ active' = FALSE
    /\ OnlyWorld /\ UNCHANGED <<version, held, key, window>>

\* The team takes the conversation: the Inbox also sets the key, the crisis
\* net does not.
PeopleTake ==
    /\ ~held
    /\ held' = TRUE
    /\ \E set \in {TRUE, key} : key' = set
    /\ OnlyWorld /\ UNCHANGED <<active, version, window>>

PeopleGiveBack ==
    /\ held
    /\ held' = FALSE
    /\ key' = FALSE
    /\ OnlyWorld /\ UNCHANGED <<active, version, window>>

KeyLost ==
    /\ key
    /\ key' = FALSE
    /\ OnlyWorld /\ UNCHANGED <<active, version, held, window>>

WindowCloses ==
    /\ window
    /\ \A a \in Actors : pc[a] \in {"idle", "done"}
    /\ window' = FALSE
    /\ OnlyWorld /\ UNCHANGED <<active, version, held, key>>

----------------------------------------------------------------------------

\* The steps of a worker that holds a job.
Works(w) ==
    \/ Load(w) \/ ReadWorld(w) \/ ReadPause(w)
    \/ DecideSettled(w) \/ DecideDrop(w) \/ DecideFire(w)
    \/ Claim(w) \/ ClaimLost(w) \/ Prepare(w) \/ Walk(w) \/ WalkAndChain(w)

WorkerStep(w) == Works(w) \/ \E m \in Timers : Take(w, m)

TurnStep(u) ==
    \/ Inbound(u)
    \/ CancelFind(u) \/ CancelUpdate(u) \/ CancelRemove(u)
    \/ TurnSchedules(u) \/ TurnWalksOn(u)

ScheduleStep(a) == ScheduleCreate(a) \/ ScheduleAdd(a) \/ ScheduleLink(a)

FaultStep ==
    \/ \E u \in Answers : CancelFails(u)
    \/ \E a \in Actors : ScheduleFails(a)
    \/ \E w \in Workers : FireFails(w) \/ Stall(w) \/ Crash(w)

WorldStep ==
    \/ Snapshot \/ Activate \/ Deactivate
    \/ PeopleTake \/ PeopleGiveBack \/ KeyLost \/ WindowCloses

TimerNext ==
    \/ \E u \in Answers : TurnStep(u)
    \/ \E w \in Workers : WorkerStep(w)
    \/ \E a \in Actors : ScheduleStep(a)
    \/ FaultStep
    \/ WorldStep

TimerSpec == TimerInit /\ [][TimerNext]_timerVars

\* Delays elapse, and workers run the jobs they take to the end.
TimerFairness == \A w \in Workers : WF_timerVars(WorkerStep(w) \/ ScheduleStep(w))
TimerFairSpec == TimerSpec /\ TimerFairness

----------------------------------------------------------------------------
(* Properties.                                                             *)

(* Every variable has the shape the module relies on.                      *)
TimerTypeOK ==
    /\ tstatus \in [Timers -> TimerStatus]
    /\ tkind \in [Timers -> Kind]
    /\ tversion \in [Timers -> Nat]
    /\ linked \in SUBSET Timers
    /\ answers \in [Timers -> SUBSET Answers]
    /\ walks \in [Timers -> Nat]
    /\ job \in [Timers -> JobState]
    /\ owner \in [Timers -> Workers \cup {Nothing}]
    /\ tries \in [Timers -> Nat]
    /\ stalled \in SUBSET Timers
    /\ active \in BOOLEAN /\ version \in Nat
    /\ held \in BOOLEAN /\ key \in BOOLEAN /\ window \in BOOLEAN
    /\ pc \in [Actors -> ActorPc]
    /\ plan \in [Actors -> Plan]
    /\ picked \in [Answers -> SUBSET Timers]
    /\ cleared \in SUBSET Answers
    /\ wtimer \in [Workers -> Timers \cup {Nothing}]
    /\ seen \in [Workers -> Seen]
    /\ timerFaults \in Nat

(* A timer never sends its messages twice, even when BullMQ retries its    *)
(* job, runs it on two workers at once, or a cancellation overwrites its   *)
(* status (flowScheduler, the atomic claim pending -> fired).              *)
AtMostOneWalk == \A m \in Timers : walks[m] <= 1

(* Once an answer's cancellation went through, no time-out that was        *)
(* waiting for that answer is still pending: whatever alarm clock is left  *)
(* for it finds nothing to claim (cancelPendingWaitTimers).                *)
AnswersCancelWaits ==
    \A u \in cleared, m \in Timers :
        tkind[m] = "wait" /\ u \in answers[m] => tstatus[m] # "pending"

(* Every timer whose alarm clock was set is settled: it fires, or its row  *)
(* says why not.  Only a job that used up its attempts, or stalled twice,  *)
(* leaves it pending.                                                      *)
TimersSettle ==
    \A m \in Timers :
        job[m] = "waiting" ~> tstatus[m] # "pending" \/ job[m] = "failed"
=============================================================================
