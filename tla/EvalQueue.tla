------------------------------ MODULE EvalQueue ------------------------------
(***************************************************************************)
(* The quality test of one agent: who may ask for a run, the agent-eval    *)
(* queue, its worker on each machine, the lock the machines share and the  *)
(* hourly sweep.                                                           *)
(*                                                                         *)
(* A run lasts minutes and costs money.  Its ceiling does not stop it: the *)
(* evaluation goes on as an orphan and comes back later to write its       *)
(* result.  The row may have been closed meanwhile, by the ceiling or by   *)
(* the sweep.                                                              *)
(***************************************************************************)
EXTENDS Naturals, FiniteSets

CONSTANTS
    Runs,           \* rows of agent_eval_runs that may come to exist
    Regrades,       \* jobs that grade recorded runs again, under the same lock
    Asks,           \* requests of the client and of the superadmin, cycles of the cron
    Machines,       \* one worker each, of concurrency one
    NoRun,          \* the lock is free, no run
    MaxEvalFaults   \* bound on failed calls and dead machines

ASSUME NoRunAssumption == NoRun \notin Runs \cup Regrades /\ Runs \cap Regrades = {}
ASSUME EvalFaultsAssumption == MaxEvalFaults \in Nat

VARIABLES
    verdict,    \* run -> status of its row, "none" while it is absent
    alert,      \* run -> slackAlertStatus
    trigger,    \* run -> who asked for it
    ask,        \* request or cycle -> where it is, for whom, its run
    evalJob,    \* run or regrade -> its job in the queue
    evalLock,   \* the run or regrade written in the lock
    mach,       \* machine -> where its worker is, its job, whether it won the lock
    orphans,    \* runs whose evaluation outlived its ceiling
    spoiled,    \* history: runs that a dead machine or a failed call touched
    races,      \* history: checks of the client that crossed, closed runs started again
    evalFaults

evalVars == <<verdict, alert, trigger, ask, evalJob, evalLock, mach, orphans,
              spoiled, races, evalFaults>>

Jobs == Runs \cup Regrades
Open == {"pending", "running"}
Closed == {"completed", "failed"}
Triggers == {"client", "cron", "admin"}

NotAsking == [pc |-> "idle", by |-> "admin", run |-> NoRun]
Resting == [pc |-> "idle", run |-> NoRun, owns |-> FALSE, wrote |-> "none"]

EvalInit ==
    /\ verdict = [r \in Runs |-> "none"]
    /\ alert = [r \in Runs |-> "none"]
    /\ trigger = [r \in Runs |-> "admin"]
    /\ ask = [a \in Asks |-> NotAsking]
    /\ evalJob = [j \in Jobs |-> "none"]
    /\ evalLock = NoRun
    /\ mach = [m \in Machines |-> Resting]
    /\ orphans = {}
    /\ spoiled = {}
    /\ races = 0
    /\ evalFaults = 0

EvalFault == evalFaults < MaxEvalFaults /\ evalFaults' = evalFaults + 1

----------------------------------------------------------------------------
(* Asking for a run.                                                       *)

RunsBy(by, states) == {r \in Runs : trigger[r] = by /\ verdict[r] \in states}

\* Mutant: a run that still waits in the queue is not seen.
MayAskRunning(by) ==
    CASE by = "client" -> RunsBy("client", {"running", "completed"}) = {}
      [] by = "cron" -> \A r \in Runs : verdict[r] \notin {"running", "completed"}
      [] by = "admin" -> TRUE

\* The client: nothing live, nothing completed in 24 hours, of their own.  The cron
\* (podeAgendarAvaliacao): the same of anybody's, today.  The superadmin: no check.
MayAsk(by) ==
    CASE by = "client" -> RunsBy("client", Open \cup {"completed"}) = {}
      [] by = "cron" -> \A r \in Runs : verdict[r] \notin Open \cup {"completed"}
      [] by = "admin" -> TRUE

\* Requests of the client that passed the check and have not written their row.
ClientsCreating == {b \in Asks : ask[b].pc = "create" /\ ask[b].by = "client"}

AskChecks(a) ==
    /\ ask[a].pc = "idle"
    /\ \E by \in Triggers :
         /\ MayAsk(by)
         /\ ask' = [ask EXCEPT ![a].pc = "create", ![a].by = by]
         /\ races' = IF by = "client" /\ ClientsCreating # {} THEN races + 1 ELSE races
    /\ UNCHANGED <<verdict, alert, trigger, evalJob, evalLock, mach, orphans, spoiled, evalFaults>>

AskCreates(a) ==
    /\ ask[a].pc = "create"
    /\ \E r \in Runs :
         /\ verdict[r] = "none"
         /\ verdict' = [verdict EXCEPT ![r] = "pending"]
         /\ trigger' = [trigger EXCEPT ![r] = ask[a].by]
         /\ ask' = [ask EXCEPT ![a].pc = "enqueue", ![a].run = r]
    /\ UNCHANGED <<alert, evalJob, evalLock, mach, orphans, spoiled, races, evalFaults>>

AskEnqueues(a) ==
    /\ ask[a].pc = "enqueue"
    /\ evalJob' = [evalJob EXCEPT ![ask[a].run] = "waiting"]
    /\ ask' = [ask EXCEPT ![a].pc = "done"]
    /\ UNCHANGED <<verdict, alert, trigger, evalLock, mach, orphans, spoiled, races, evalFaults>>

\* The queue refuses: the row fails at once.  Or that write fails too, or the machine
\* dies: the row waits for the sweep.
AskRefused(a) ==
    /\ ask[a].pc = "enqueue"
    /\ \/ /\ verdict' = [verdict EXCEPT ![ask[a].run] = "failed"]
          /\ alert' = [alert EXCEPT ![ask[a].run] = "not_sent"]
       \/ UNCHANGED <<verdict, alert>>
    /\ ask' = [ask EXCEPT ![a].pc = "done"]
    /\ EvalFault
    /\ UNCHANGED <<trigger, evalJob, evalLock, mach, orphans, spoiled, races>>

----------------------------------------------------------------------------
(* The worker: processarExecucaoNaFila and executeRunJob.                  *)

At(m, where) == mach[m].pc = where
Move(m, where) == mach' = [mach EXCEPT ![m].pc = where]
AskingKept == UNCHANGED <<trigger, ask>>

\* enqueueRegrade
RegradeAsked(g) ==
    /\ evalJob[g] = "none"
    /\ evalJob' = [evalJob EXCEPT ![g] = "waiting"]
    /\ AskingKept
    /\ UNCHANGED <<verdict, alert, evalLock, mach, orphans, spoiled, races, evalFaults>>

TakeJob(m, j) ==
    /\ At(m, "idle") /\ evalJob[j] = "waiting"
    /\ evalJob' = [evalJob EXCEPT ![j] = "active"]
    /\ mach' = [mach EXCEPT ![m] = [Resting EXCEPT !.pc = "lock", !.run = j]]
    /\ AskingKept
    /\ UNCHANGED <<verdict, alert, evalLock, orphans, spoiled, races, evalFaults>>

\* SET NX.  A lock that is taken puts the job off for half a minute.
AcquireLock(m) ==
    /\ At(m, "lock")
    /\ \/ /\ evalLock = NoRun
          /\ evalLock' = mach[m].run
          /\ mach' = [mach EXCEPT ![m].pc = "read", ![m].owns = TRUE]
          /\ UNCHANGED evalJob
       \/ /\ evalLock # NoRun
          /\ evalJob' = [evalJob EXCEPT ![mach[m].run] = "waiting"]
          /\ mach' = [mach EXCEPT ![m] = Resting]
          /\ UNCHANGED evalLock
    /\ AskingKept
    /\ UNCHANGED <<verdict, alert, orphans, spoiled, races, evalFaults>>

\* Redis is out: the run goes on without the lock.
AcquireFails(m) ==
    /\ At(m, "lock")
    /\ Move(m, "read")
    /\ EvalFault
    /\ AskingKept
    /\ UNCHANGED <<verdict, alert, evalJob, evalLock, orphans, spoiled, races>>

\* processarRegravacao writes no run; it ends, throws or meets the ceiling.
Regrade(m) ==
    /\ At(m, "read") /\ mach[m].run \in Regrades
    /\ Move(m, "release")
    /\ AskingKept
    /\ UNCHANGED <<verdict, alert, evalJob, evalLock, orphans, spoiled, races, evalFaults>>

ReadRun(m) ==
    /\ At(m, "read") /\ mach[m].run \in Runs
    /\ Move(m, IF verdict[mach[m].run] \in Open THEN "start" ELSE "release")
    /\ AskingKept
    /\ UNCHANGED <<verdict, alert, evalJob, evalLock, orphans, spoiled, races, evalFaults>>

\* The read throws: the job fails and is not tried again.
ReadFails(m) ==
    /\ At(m, "read") /\ mach[m].run \in Runs
    /\ Move(m, "release")
    /\ EvalFault
    /\ AskingKept
    /\ UNCHANGED <<verdict, alert, evalJob, evalLock, orphans, spoiled, races>>

\* update by id: whatever became of the row since it was read.
StartRun(m) ==
    /\ At(m, "start")
    /\ verdict' = [verdict EXCEPT ![mach[m].run] = "running"]
    /\ races' = IF verdict[mach[m].run] \in Open THEN races ELSE races + 1
    /\ Move(m, "evaluate")
    /\ AskingKept
    /\ UNCHANGED <<alert, evalJob, evalLock, orphans, spoiled, evalFaults>>

\* Mutant: the result is written over whatever the row holds.
gravarConclusaoSempre(r, result) ==
    /\ verdict' = [verdict EXCEPT ![r] = result]
    /\ alert' = [alert EXCEPT ![r] = IF result = "failed" THEN "not_sent" ELSE @]

\* Only a row that is still running takes the result: a mark, or the gate of the 20%.
gravarConclusao(r, result) ==
    IF verdict[r] = "running"
    THEN /\ verdict' = [verdict EXCEPT ![r] = result]
         /\ alert' = [alert EXCEPT ![r] = IF result = "failed" THEN "not_sent" ELSE @]
    ELSE UNCHANGED <<verdict, alert>>

\* The evaluation ends and its continuation writes the result.
Concludes(m) ==
    /\ At(m, "evaluate")
    /\ \E result \in Closed :
         /\ gravarConclusao(mach[m].run, result)
         /\ mach' = [mach EXCEPT ![m].pc = "written",
                         ![m].wrote = IF verdict[mach[m].run] = "running" THEN result ELSE "none"]
    /\ AskingKept
    /\ UNCHANGED <<evalJob, evalLock, orphans, spoiled, races, evalFaults>>

\* The write of the result failed: the row stays running, for the sweep.
ConcludeFails(m) ==
    /\ At(m, "evaluate")
    /\ Move(m, "written")
    /\ spoiled' = spoiled \cup {mach[m].run}
    /\ EvalFault
    /\ AskingKept
    /\ UNCHANGED <<verdict, alert, evalJob, evalLock, orphans, races>>

\* The promise wins the race against the ceiling: only a mark is alerted.
Settles(m) ==
    /\ At(m, "written")
    /\ Move(m, IF mach[m].wrote = "completed" THEN "alert" ELSE "release")
    /\ AskingKept
    /\ UNCHANGED <<verdict, alert, evalJob, evalLock, orphans, spoiled, races, evalFaults>>

\* The ceiling wins, before the result is written or just after it.
HitsCeiling(m) ==
    /\ mach[m].pc \in {"evaluate", "written"}
    /\ orphans' = IF At(m, "evaluate") THEN orphans \cup {mach[m].run} ELSE orphans
    /\ Move(m, "fail")
    /\ AskingKept
    /\ UNCHANGED <<verdict, alert, evalJob, evalLock, spoiled, races, evalFaults>>

\* The start or the evaluation throws.
RunThrows(m) ==
    /\ mach[m].pc \in {"start", "evaluate"}
    /\ Move(m, "fail")
    /\ AskingKept
    /\ UNCHANGED <<verdict, alert, evalJob, evalLock, orphans, spoiled, races, evalFaults>>

\* Mutant: what marcarFalha answers is not looked at.
marcarFalhaAndGo(m) ==
    /\ At(m, "fail")
    /\ IF verdict[mach[m].run] \in Open
       THEN /\ verdict' = [verdict EXCEPT ![mach[m].run] = "failed"]
            /\ alert' = [alert EXCEPT ![mach[m].run] = "not_sent"]
       ELSE UNCHANGED <<verdict, alert>>
    /\ Move(m, "release")
    /\ AskingKept
    /\ UNCHANGED <<evalJob, evalLock, orphans, spoiled, races, evalFaults>>

\* Only an open row fails.  A closed one may still have to be alerted.
marcarFalha(m) ==
    /\ At(m, "fail")
    /\ IF verdict[mach[m].run] \in Open
       THEN /\ verdict' = [verdict EXCEPT ![mach[m].run] = "failed"]
            /\ alert' = [alert EXCEPT ![mach[m].run] = "not_sent"]
            /\ Move(m, "release")
       ELSE Move(m, "close") /\ UNCHANGED <<verdict, alert>>
    /\ AskingKept
    /\ UNCHANGED <<evalJob, evalLock, orphans, spoiled, races, evalFaults>>

MarkFails(m) ==
    /\ At(m, "fail")
    /\ Move(m, "close")
    /\ spoiled' = spoiled \cup {mach[m].run}
    /\ EvalFault
    /\ AskingKept
    /\ UNCHANGED <<verdict, alert, evalJob, evalLock, orphans, races>>

\* The result beat the ceiling: the alert is decided on what the row says.
fecharCorridaComOTeto(m) ==
    /\ At(m, "close")
    /\ Move(m, IF verdict[mach[m].run] = "completed" /\ alert[mach[m].run] = "none"
               THEN "alert" ELSE "release")
    /\ AskingKept
    /\ UNCHANGED <<verdict, alert, evalJob, evalLock, orphans, spoiled, races, evalFaults>>

\* The reading fails, and counts as a row that asks for nothing.
CloseReadFails(m) ==
    /\ At(m, "close")
    /\ Move(m, "release")
    /\ spoiled' = spoiled \cup {mach[m].run}
    /\ EvalFault
    /\ AskingKept
    /\ UNCHANGED <<verdict, alert, evalJob, evalLock, orphans, races>>

alertarSePreciso(m) ==
    /\ At(m, "alert")
    /\ alert' = [alert EXCEPT ![mach[m].run] = "decided"]
    /\ Move(m, "release")
    /\ AskingKept
    /\ UNCHANGED <<verdict, evalJob, evalLock, orphans, spoiled, races, evalFaults>>

\* Every write of the alert is fail-soft.
AlertFails(m) ==
    /\ At(m, "alert")
    /\ Move(m, "release")
    /\ spoiled' = spoiled \cup {mach[m].run}
    /\ EvalFault
    /\ AskingKept
    /\ UNCHANGED <<verdict, alert, evalJob, evalLock, orphans, races>>

\* Mutant: the lock is deleted, whoever wrote it.
LockAfterDelete(j) == NoRun

\* LUA_LIBERA_TRAVA
LockAfter(j) == IF evalLock = j THEN NoRun ELSE evalLock

liberarTravaGlobal(m) ==
    /\ At(m, "release")
    /\ evalLock' = LockAfter(mach[m].run)
    /\ evalJob' = [evalJob EXCEPT ![mach[m].run] = "done"]
    /\ mach' = [mach EXCEPT ![m] = Resting]
    /\ AskingKept
    /\ UNCHANGED <<verdict, alert, orphans, spoiled, races, evalFaults>>

\* Redis is out: the lock stays until it lapses.
ReleaseFails(m) ==
    /\ At(m, "release")
    /\ evalJob' = [evalJob EXCEPT ![mach[m].run] = "done"]
    /\ mach' = [mach EXCEPT ![m] = Resting]
    /\ EvalFault
    /\ AskingKept
    /\ UNCHANGED <<verdict, alert, evalLock, orphans, spoiled, races>>

\* The machine dies; the stalled job goes back to the queue, its evaluation is gone.
MachineDies(m) ==
    /\ ~At(m, "idle")
    /\ evalJob' = [evalJob EXCEPT ![mach[m].run] = "waiting"]
    /\ mach' = [mach EXCEPT ![m] = Resting]
    /\ spoiled' = spoiled \cup {mach[m].run}
    /\ EvalFault
    /\ AskingKept
    /\ UNCHANGED <<verdict, alert, evalLock, orphans, races>>

\* The orphan comes back: with a result, or with nothing.
OrphanReturns(r) ==
    /\ r \in orphans
    /\ orphans' = orphans \ {r}
    /\ \/ \E result \in Closed : gravarConclusao(r, result)
       \/ UNCHANGED <<verdict, alert>>
    /\ AskingKept
    /\ UNCHANGED <<evalJob, evalLock, mach, spoiled, races, evalFaults>>

\* The lock lives a minute longer than a run may: it only lapses on a machine that
\* died, or that could not give it back.
LockLapses ==
    /\ evalLock # NoRun
    /\ \A m \in Machines : ~(mach[m].owns /\ mach[m].run = evalLock)
    /\ evalLock' = NoRun
    /\ AskingKept
    /\ UNCHANGED <<verdict, alert, evalJob, mach, orphans, spoiled, races, evalFaults>>

\* Mutant: a status the column does not know.
SweepTimesOut(r) ==
    /\ verdict[r] \in Open
    /\ verdict' = [verdict EXCEPT ![r] = "timeout"]
    /\ AskingKept
    /\ UNCHANGED <<alert, evalJob, evalLock, mach, orphans, spoiled, races, evalFaults>>

\* sweepStuckEvalRuns: a row may wait an hour in the queue, or stay running.
Sweep(r) ==
    /\ verdict[r] \in Open
    /\ \A a \in Asks : ~(ask[a].pc = "enqueue" /\ ask[a].run = r)
    /\ verdict' = [verdict EXCEPT ![r] = "failed"]
    /\ alert' = [alert EXCEPT ![r] = "not_sent"]
    /\ AskingKept
    /\ UNCHANGED <<evalJob, evalLock, mach, orphans, spoiled, races, evalFaults>>

EvalNext ==
    \/ \E a \in Asks : AskChecks(a) \/ AskCreates(a) \/ AskEnqueues(a) \/ AskRefused(a)
    \/ \E m \in Machines :
         \/ \E j \in Jobs : TakeJob(m, j)
         \/ AcquireLock(m) \/ AcquireFails(m)
         \/ Regrade(m) \/ ReadRun(m) \/ ReadFails(m) \/ StartRun(m) \/ RunThrows(m)
         \/ Concludes(m) \/ ConcludeFails(m) \/ Settles(m) \/ HitsCeiling(m)
         \/ marcarFalha(m) \/ MarkFails(m) \/ fecharCorridaComOTeto(m) \/ CloseReadFails(m)
         \/ alertarSePreciso(m) \/ AlertFails(m)
         \/ liberarTravaGlobal(m) \/ ReleaseFails(m) \/ MachineDies(m)
    \/ \E r \in Runs : OrphanReturns(r) \/ Sweep(r)
    \/ \E g \in Regrades : RegradeAsked(g)
    \/ LockLapses

EvalSpec == EvalInit /\ [][EvalNext]_evalVars

----------------------------------------------------------------------------
AskStates == [pc : {"idle", "create", "enqueue", "done"}, by : Triggers, run : Runs \cup {NoRun}]
MachineStates == [pc : {"idle", "lock", "read", "start", "evaluate", "written", "fail", "close", "alert", "release"},
                  run : Jobs \cup {NoRun}, owns : BOOLEAN, wrote : Closed \cup {"none"}]

EvalTypeOK ==
    /\ verdict \in [Runs -> Open \cup Closed \cup {"none"}]
    /\ alert \in [Runs -> {"none", "not_sent", "decided"}]
    /\ trigger \in [Runs -> Triggers]
    /\ ask \in [Asks -> AskStates]
    /\ evalJob \in [Jobs -> {"none", "waiting", "active", "done"}]
    /\ evalLock \in Jobs \cup {NoRun}
    /\ mach \in [Machines -> MachineStates]
    /\ orphans \in SUBSET Runs /\ spoiled \in SUBSET Jobs
    /\ races \in Nat /\ evalFaults \in Nat

(***************************************************************************)
(* At most one of the machines that won the lock is at work, although      *)
(* others run without it (Redis was out) and release it at their end too   *)
(* (liberarTravaGlobal).                                                   *)
(***************************************************************************)
OneOwnerAtWork ==
    \A m, n \in Machines : mach[m].owns /\ mach[n].owns => m = n

(***************************************************************************)
(* What the client saw is final: neither an evaluation that comes back     *)
(* after its ceiling or after the sweep, nor the ceiling of one that was   *)
(* concluded, changes a closed run.  Only a worker that read the row       *)
(* before the sweep closed it starts it again.                             *)
(***************************************************************************)
VerdictsAreFinal ==
    [][\A r \in Runs :
         verdict[r] \in Closed /\ verdict'[r] # verdict[r] =>
            \E m \in Machines : mach[m].run = r /\ mach[m].pc = "start"]_evalVars

(***************************************************************************)
(* slackAlertStatus is written whenever a run ends, also when the result   *)
(* and the ceiling crossed: once its job is over, a closed run has it,     *)
(* unless a machine died on it, one of its writes failed, or the reading   *)
(* that closes a run after its ceiling did.                                *)
(***************************************************************************)
VerdictsAreAlerted ==
    \A r \in Runs \ spoiled :
        verdict[r] \in Closed /\ evalJob[r] = "done" => alert[r] # "none"

(***************************************************************************)
(* One paid test of the client at a time, waiting in the queue included:   *)
(* each further one took a request that checked between the check and the  *)
(* insert of another (the double click), or a worker that started a run    *)
(* the sweep had closed.                                                   *)
(***************************************************************************)
EachExtraRunIsARace == Cardinality(RunsBy("client", Open)) <= 1 + races
=============================================================================
