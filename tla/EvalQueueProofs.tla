--------------------------- MODULE EvalQueueProofs ---------------------------
(***************************************************************************)
(* Proofs about EvalQueue: type correctness, at most one machine that won  *)
(* the lock is at work, what the client saw is final, every run that ended *)
(* is alerted or decided upon, and each live test of the client beyond the *)
(* first took a race, for any runs, requests and machines.                 *)
(***************************************************************************)
EXTENDS EvalQueue, FiniteSetTheorems, TLAPS

(* A job is in the hands of one machine at most, and the machine that won  *)
(* the lock is the one whose job is written in it.                         *)
Busy(m) == mach[m].pc # "idle"
OneHand ==
    /\ \A m \in Machines : Busy(m) => mach[m].run \in Jobs /\ evalJob[mach[m].run] = "active"
    /\ \A m, n \in Machines : Busy(m) /\ Busy(n) /\ mach[m].run = mach[n].run => m = n
    /\ \A m \in Machines : mach[m].pc \notin {"idle", "lock", "read", "release"} => mach[m].run \in Runs
    /\ \A m \in Machines : mach[m].owns => Busy(m) /\ evalLock = mach[m].run

(* A row that waits to be enqueued is pending and in nobody's hands.       *)
AskedRows ==
    /\ \A a \in Asks : ask[a].pc = "enqueue" =>
          ask[a].run \in Runs /\ verdict[ask[a].run] = "pending" /\ evalJob[ask[a].run] = "none"
    /\ \A a, b \in Asks : ask[a].pc = "enqueue" /\ ask[b].pc = "enqueue" /\ ask[a].run = ask[b].run => a = b
    /\ \A r \in Runs : evalJob[r] # "none" => verdict[r] # "none"

(* A run that ended and whose alert is open is completed, and its machine  *)
(* is on the way to decide; so is the machine of an orphan whose row is    *)
(* still running.  Nothing of the kind is left of a job in no hands.       *)
Unheard(r) == verdict[r] \in Closed /\ alert[r] = "none"
InHand(m) ==
    LET r == mach[m].run IN
    Busy(m) /\ r \in Runs /\ r \notin spoiled =>
        /\ Unheard(r) => /\ verdict[r] = "completed"
                         /\ \/ mach[m].pc \in {"fail", "close", "alert"}
                            \/ mach[m].pc = "written" /\ mach[m].wrote = "completed"
        /\ r \in orphans /\ verdict[r] = "running" => mach[m].pc = "fail"
        /\ mach[m].pc \in {"lock", "read", "start", "evaluate", "written"} => r \notin orphans
AtRest(r) ==
    evalJob[r] # "active" /\ r \notin spoiled =>
        /\ ~Unheard(r)
        /\ ~(r \in orphans /\ verdict[r] = "running")
        /\ evalJob[r] # "done" => r \notin orphans
Alerts == (\A m \in Machines : InHand(m)) /\ (\A r \in Runs : AtRest(r))

IInv == EvalTypeOK /\ OneHand /\ AskedRows /\ Alerts

----------------------------------------------------------------------------
(* The initial states satisfy the invariant. *)
LEMMA InitInvariant == EvalInit => IInv
<1> SUFFICES ASSUME EvalInit PROVE IInv
  OBVIOUS
<1>1. NotAsking \in AskStates /\ Resting \in MachineStates
  BY DEF NotAsking, AskStates, Triggers, Resting, MachineStates
<1>2. EvalTypeOK
  BY <1>1 DEF EvalInit, EvalTypeOK, Triggers
<1>3. OneHand
  BY DEF EvalInit, OneHand, Busy, Resting
<1>4. AskedRows
  BY DEF EvalInit, AskedRows, NotAsking, Jobs
<1>5. Alerts
  BY DEF EvalInit, Alerts, InHand, AtRest, Busy, Resting, Unheard, Closed
<1>6. QED
  BY <1>2, <1>3, <1>4, <1>5 DEF IInv

(* What the steps of a worker have in common, between the lock and the     *)
(* release: it keeps its job, and touches no row but its run's.            *)
WorksOn(m) ==
    /\ Busy(m) /\ mach' \in [Machines -> MachineStates]
    /\ mach'[m].run = mach[m].run /\ mach'[m].owns = mach[m].owns
    /\ mach'[m].pc \notin {"idle", "lock", "read"}
    /\ mach'[m].pc # "release" => mach[m].run \in Runs
    /\ \A n \in Machines : n # m => mach'[n] = mach[n]
    /\ verdict' \in [Runs -> Open \cup Closed \cup {"none"}] /\ alert' \in [Runs -> {"none", "not_sent", "decided"}]
    /\ \A r \in Runs : r # mach[m].run => verdict'[r] = verdict[r] /\ alert'[r] = alert[r]
    /\ \A r \in Runs : verdict[r] # "none" => verdict'[r] # "none"
    /\ orphans' \in SUBSET Runs /\ spoiled' \in SUBSET Jobs
    /\ \A r \in Runs : r # mach[m].run => (r \in orphans' <=> r \in orphans) /\ (r \in spoiled' <=> r \in spoiled)
    /\ races' \in Nat /\ evalFaults' \in Nat
    /\ UNCHANGED <<evalJob, evalLock, ask, trigger>>

(* So a step of a worker preserves the invariant if it does for its run.   *)
LEMMA WorkKeeps ==
    ASSUME IInv, NEW m \in Machines, WorksOn(m), InHand(m)'
    PROVE  IInv'
<1> USE DEF IInv
<1>1. EvalTypeOK'
  BY DEF WorksOn, EvalTypeOK
<1>2. OneHand'
  <2>1. \A n \in Machines : /\ mach'[n].run = mach[n].run /\ mach'[n].owns = mach[n].owns
                            /\ mach'[n].pc # "idle" <=> mach[n].pc # "idle"
    BY DEF WorksOn, Busy
  <2>2. \A n \in Machines : mach'[n].pc \notin {"idle", "lock", "read", "release"} => mach'[n].run \in Runs
    BY <2>1 DEF WorksOn, OneHand
  <2>3. evalJob' = evalJob /\ evalLock' = evalLock
    BY DEF WorksOn
  <2>4. QED
    BY <2>1, <2>2, <2>3 DEF OneHand, Busy
<1>3. AskedRows'
  <2>1. \A a \in Asks : ask[a].pc = "enqueue" => ask[a].run # mach[m].run
    BY DEF WorksOn, OneHand, AskedRows
  <2>2. ask' = ask /\ evalJob' = evalJob
    BY DEF WorksOn
  <2>3. \A a \in Asks : ask[a].pc = "enqueue" => verdict'[ask[a].run] = verdict[ask[a].run]
    BY <2>1 DEF WorksOn, AskedRows
  <2>4. \A r \in Runs : evalJob[r] # "none" => verdict'[r] # "none"
    BY DEF WorksOn, AskedRows
  <2>5. QED
    BY <2>2, <2>3, <2>4 DEF AskedRows
<1>4. ASSUME NEW n \in Machines PROVE InHand(n)'
  <2>1. CASE n = m
    BY <2>1
  <2>2. CASE n # m
    <3>1. mach'[n] = mach[n]
      BY <2>2 DEF WorksOn
    <3>2. Busy(n) => mach[n].run # mach[m].run
      BY <2>2 DEF WorksOn, OneHand
    <3>3. CASE Busy(n) /\ mach[n].run \in Runs
      <4>1. /\ verdict'[mach[n].run] = verdict[mach[n].run] /\ alert'[mach[n].run] = alert[mach[n].run]
            /\ mach[n].run \in orphans' <=> mach[n].run \in orphans
            /\ mach[n].run \in spoiled' <=> mach[n].run \in spoiled
        BY <3>2, <3>3 DEF WorksOn
      <4>2. InHand(n)
        BY DEF Alerts
      <4>3. QED
        BY <3>1, <4>1, <4>2 DEF InHand, Busy, Unheard
    <3>4. CASE ~(Busy(n) /\ mach[n].run \in Runs)
      BY <3>1, <3>4 DEF InHand, Busy
    <3>5. QED
      BY <3>3, <3>4
  <2>3. QED
    BY <2>1, <2>2
<1>5. ASSUME NEW r \in Runs PROVE AtRest(r)'
  <2> SUFFICES ASSUME evalJob[r] # "active", r \notin spoiled'
               PROVE  /\ ~Unheard(r)' /\ ~(r \in orphans' /\ verdict'[r] = "running")
                      /\ evalJob[r] # "done" => r \notin orphans'
    BY DEF AtRest, WorksOn
  <2>1. r # mach[m].run
    BY DEF WorksOn, OneHand
  <2>2. /\ verdict'[r] = verdict[r] /\ alert'[r] = alert[r]
        /\ r \in orphans' <=> r \in orphans
        /\ r \in spoiled' <=> r \in spoiled
    BY <2>1 DEF WorksOn
  <2>3. AtRest(r)
    BY DEF Alerts
  <2>4. QED
    BY <2>2, <2>3 DEF AtRest, Unheard
<1>6. Alerts'
  BY <1>4, <1>5 DEF Alerts
<1>7. QED
  BY <1>1, <1>2, <1>3, <1>6

(* A worker that only moves on. *)
LEMMA MoveMoves ==
    ASSUME EvalTypeOK, NEW m \in Machines, NEW where \in {"read", "start", "evaluate", "written", "fail", "close", "alert", "release"},
           Move(m, where)
    PROVE  /\ mach' \in [Machines -> MachineStates]
           /\ mach'[m].pc = where /\ mach'[m].run = mach[m].run
           /\ mach'[m].owns = mach[m].owns /\ mach'[m].wrote = mach[m].wrote
           /\ \A n \in Machines : n # m => mach'[n] = mach[n]
<1>1. mach \in [Machines -> MachineStates]
  BY DEF EvalTypeOK
<1>2. mach' = [mach EXCEPT ![m].pc = where]
  BY DEF Move
<1>3. QED
  BY <1>1, <1>2 DEF MachineStates

(* The steps that write neither row nor alert: the worker moves on. *)
LEMMA QuietStepKeeps ==
    ASSUME IInv, NEW m \in Machines,
           \/ Regrade(m) \/ ReadRun(m) \/ ReadFails(m) \/ ConcludeFails(m) \/ Settles(m) \/ HitsCeiling(m)
           \/ RunThrows(m) \/ MarkFails(m) \/ fecharCorridaComOTeto(m) \/ CloseReadFails(m) \/ AlertFails(m)
    PROVE  IInv'
<1> USE DEF IInv
<1> DEFINE r == mach[m].run
<1>1. PICK where \in {"start", "written", "fail", "close", "alert", "release"} : Move(m, where)
  BY DEF Regrade, ReadRun, ReadFails, ConcludeFails, Settles, HitsCeiling, RunThrows, MarkFails,
         fecharCorridaComOTeto, CloseReadFails, AlertFails
<1>2. /\ mach' \in [Machines -> MachineStates]
      /\ mach'[m].pc = where /\ mach'[m].run = r
      /\ mach'[m].owns = mach[m].owns /\ mach'[m].wrote = mach[m].wrote
      /\ \A n \in Machines : n # m => mach'[n] = mach[n]
  BY <1>1, MoveMoves
<1>3. Busy(m) /\ r \in Jobs /\ (where # "release" => r \in Runs)
  <2>1. Busy(m)
    BY DEF Regrade, ReadRun, ReadFails, ConcludeFails, Settles, HitsCeiling, RunThrows, MarkFails,
           fecharCorridaComOTeto, CloseReadFails, AlertFails, At, Busy
  <2>2. CASE ReadRun(m)
    BY <2>1, <2>2 DEF ReadRun, OneHand
  <2>3. CASE Regrade(m)
    BY <1>2, <2>1, <2>3, MoveMoves DEF Regrade, OneHand
  <2>4. CASE ReadFails(m) \/ AlertFails(m) \/ CloseReadFails(m)
    BY <1>2, <2>1, <2>4, MoveMoves DEF ReadFails, AlertFails, CloseReadFails, OneHand
  <2>5. CASE \/ ConcludeFails(m) \/ Settles(m) \/ HitsCeiling(m) \/ RunThrows(m) \/ MarkFails(m)
             \/ fecharCorridaComOTeto(m)
    BY <2>1, <2>5 DEF ConcludeFails, Settles, HitsCeiling, RunThrows, MarkFails, fecharCorridaComOTeto,
                      At, OneHand
  <2>6. QED
    BY <2>2, <2>3, <2>4, <2>5
<1>4. UNCHANGED <<verdict, alert, evalJob, evalLock, ask, trigger, races>> /\ evalFaults' \in Nat
  <2>1. evalFaults' \in Nat
    BY DEF Regrade, ReadRun, ReadFails, ConcludeFails, Settles, HitsCeiling, RunThrows, MarkFails,
           fecharCorridaComOTeto, CloseReadFails, AlertFails, EvalFault, EvalTypeOK
  <2>2. QED
    BY <2>1 DEF Regrade, ReadRun, ReadFails, ConcludeFails, Settles, HitsCeiling, RunThrows, MarkFails,
                fecharCorridaComOTeto, CloseReadFails, AlertFails, AskingKept
<1>5. /\ spoiled' = spoiled \/ spoiled' = spoiled \cup {r}
      /\ orphans' = orphans \/ (orphans' = orphans \cup {r} /\ HitsCeiling(m) /\ r \in Runs)
  <2>1. CASE HitsCeiling(m)
    BY <2>1 DEF HitsCeiling, At, OneHand
  <2>2. CASE ConcludeFails(m) \/ MarkFails(m) \/ AlertFails(m) \/ CloseReadFails(m)
    BY <2>2 DEF ConcludeFails, MarkFails, AlertFails, CloseReadFails
  <2>3. CASE UNCHANGED <<orphans, spoiled>>
    BY <2>3
  <2>4. QED
    BY <2>1, <2>2, <2>3 DEF Regrade, ReadRun, ReadFails, Settles, RunThrows, fecharCorridaComOTeto
<1>6. WorksOn(m)
  BY <1>2, <1>3, <1>4, <1>5 DEF WorksOn, EvalTypeOK
<1>7. InHand(m)'
  <2> SUFFICES ASSUME r \in Runs, r \notin spoiled'
               PROVE  /\ Unheard(r) => /\ verdict[r] = "completed"
                                       /\ \/ where \in {"fail", "close", "alert"}
                                          \/ where = "written" /\ mach[m].wrote = "completed"
                      /\ r \in orphans' /\ verdict[r] = "running" => where = "fail"
                      /\ where \in {"start", "written"} => r \notin orphans'
    BY <1>2, <1>4 DEF InHand, Unheard
  <2>1. InHand(m) /\ r \notin spoiled
    BY <1>5 DEF Alerts
  <2>2. /\ Unheard(r) => /\ verdict[r] = "completed"
                         /\ \/ mach[m].pc \in {"fail", "close", "alert"}
                            \/ mach[m].pc = "written" /\ mach[m].wrote = "completed"
        /\ r \in orphans /\ verdict[r] = "running" => mach[m].pc = "fail"
        /\ mach[m].pc \in {"lock", "read", "start", "evaluate", "written"} => r \notin orphans
    BY <1>3, <2>1 DEF InHand
  <2>3. mach[m].pc \in {"read", "evaluate", "start", "written", "fail", "close", "alert"}
    BY DEF Regrade, ReadRun, ReadFails, ConcludeFails, Settles, HitsCeiling, RunThrows, MarkFails,
           fecharCorridaComOTeto, CloseReadFails, AlertFails, At
  <2>4. CASE ConcludeFails(m) \/ MarkFails(m) \/ AlertFails(m) \/ CloseReadFails(m)
    BY <2>4 DEF ConcludeFails, MarkFails, AlertFails, CloseReadFails
  <2>5. CASE HitsCeiling(m)
    <3>1. where = "fail"
      BY <1>2, <2>5, MoveMoves DEF HitsCeiling
    <3>2. QED
      BY <2>2, <2>5, <3>1 DEF HitsCeiling
  <2>6. CASE RunThrows(m)
    <3>1. where = "fail" /\ orphans' = orphans
      BY <1>2, <2>6, MoveMoves DEF RunThrows
    <3>2. QED
      BY <2>2, <2>6, <3>1 DEF RunThrows
  <2>7. CASE Settles(m)
    <3>1. /\ where = IF mach[m].wrote = "completed" THEN "alert" ELSE "release"
          /\ orphans' = orphans /\ mach[m].pc = "written"
      BY <1>2, <2>7, MoveMoves DEF Settles, At
    <3>2. QED
      BY <2>2, <3>1
  <2>8. CASE fecharCorridaComOTeto(m)
    <3>1. /\ where = IF verdict[r] = "completed" /\ alert[r] = "none" THEN "alert" ELSE "release"
          /\ orphans' = orphans /\ mach[m].pc = "close"
      BY <1>2, <2>8, MoveMoves DEF fecharCorridaComOTeto, At
    <3>2. QED
      BY <2>2, <3>1 DEF Unheard
  <2>9. CASE ReadRun(m)
    <3>1. where \in {"start", "release"} /\ orphans' = orphans /\ mach[m].pc = "read"
      BY <1>2, <2>9, MoveMoves DEF ReadRun, At
    <3>2. QED
      BY <2>2, <3>1
  <2>10. CASE Regrade(m) \/ ReadFails(m)
    <3>1. where = "release" /\ orphans' = orphans /\ mach[m].pc = "read"
      BY <1>2, <2>10, MoveMoves DEF Regrade, ReadFails, At
    <3>2. QED
      BY <2>2, <3>1
  <2>11. QED
    BY <2>4, <2>5, <2>6, <2>7, <2>8, <2>9, <2>10
<1>8. QED
  BY <1>6, <1>7, WorkKeeps

(* The steps that write the row of the run or its alert. *)
LEMMA WriteKeeps ==
    ASSUME IInv, NEW m \in Machines,
           StartRun(m) \/ Concludes(m) \/ marcarFalha(m) \/ alertarSePreciso(m)
    PROVE  IInv'
<1> USE DEF IInv
<1> DEFINE r == mach[m].run
<1>1. Busy(m) /\ r \in Runs
  BY DEF StartRun, Concludes, marcarFalha, alertarSePreciso, At, Busy, OneHand
<1>2. InHand(m) /\ evalJob[r] = "active"
  BY <1>1 DEF Alerts, OneHand
<1>3. mach \in [Machines -> MachineStates] /\ mach[m] \in MachineStates
  BY DEF EvalTypeOK
<1>4. CASE StartRun(m)
  <2>1. Move(m, "evaluate") /\ mach[m].pc = "start"
    BY <1>4 DEF StartRun, At
  <2>2. WorksOn(m)
    BY <1>1, <1>4, <2>1, MoveMoves DEF StartRun, WorksOn, EvalTypeOK, Open, AskingKept
  <2>3. InHand(m)'
    BY <1>1, <1>2, <1>4, <2>1, MoveMoves DEF StartRun, InHand, Unheard, Closed, EvalTypeOK, Busy
  <2>4. QED
    BY <2>2, <2>3, WorkKeeps
<1>5. CASE Concludes(m)
  <2>1. PICK result \in Closed :
            /\ gravarConclusao(r, result)
            /\ mach' = [mach EXCEPT ![m].pc = "written",
                            ![m].wrote = IF verdict[r] = "running" THEN result ELSE "none"]
    BY <1>5 DEF Concludes
  <2>2. /\ mach[m].pc = "evaluate"
        /\ UNCHANGED <<evalJob, evalLock, orphans, spoiled, races, evalFaults, ask, trigger>>
    BY <1>5 DEF Concludes, At, AskingKept
  <2>3. /\ mach' \in [Machines -> MachineStates]
        /\ mach'[m].pc = "written" /\ mach'[m].run = r /\ mach'[m].owns = mach[m].owns
        /\ mach'[m].wrote = IF verdict[r] = "running" THEN result ELSE "none"
        /\ \A n \in Machines : n # m => mach'[n] = mach[n]
    BY <1>3, <2>1 DEF MachineStates, Closed
  <2>4. CASE verdict[r] = "running"
    <3>1. /\ verdict' = [verdict EXCEPT ![r] = result]
          /\ alert' = [alert EXCEPT ![r] = IF result = "failed" THEN "not_sent" ELSE @]
      BY <2>1, <2>4 DEF gravarConclusao
    <3>2. WorksOn(m)
      BY <1>1, <2>2, <2>3, <3>1 DEF WorksOn, EvalTypeOK, Closed
    <3>3. verdict'[r] = result /\ (result = "failed" => alert'[r] = "not_sent")
      BY <1>1, <3>1 DEF EvalTypeOK
    <3>4. InHand(m)'
      BY <1>1, <1>2, <2>2, <2>3, <2>4, <3>3 DEF InHand, Unheard, Closed, Busy
    <3>5. QED
      BY <3>2, <3>4, WorkKeeps
  <2>5. CASE verdict[r] # "running"
    <3>1. UNCHANGED <<verdict, alert>>
      BY <2>1, <2>5 DEF gravarConclusao
    <3>2. WorksOn(m)
      BY <1>1, <2>2, <2>3, <3>1 DEF WorksOn, EvalTypeOK
    <3>3. InHand(m)'
      BY <1>1, <1>2, <2>2, <2>3, <2>5, <3>1 DEF InHand, Unheard, Busy
    <3>4. QED
      BY <3>2, <3>3, WorkKeeps
  <2>6. QED
    BY <2>4, <2>5
<1>6. CASE marcarFalha(m)
  <2>1. UNCHANGED <<evalJob, evalLock, orphans, spoiled, races, evalFaults, ask, trigger>> /\ mach[m].pc = "fail"
    BY <1>6 DEF marcarFalha, AskingKept, At
  <2>2. CASE verdict[r] \in Open
    <3>1. /\ verdict' = [verdict EXCEPT ![r] = "failed"] /\ alert' = [alert EXCEPT ![r] = "not_sent"]
          /\ Move(m, "release")
      BY <1>6, <2>2 DEF marcarFalha
    <3>2. WorksOn(m)
      BY <1>1, <2>1, <3>1, MoveMoves DEF WorksOn, EvalTypeOK, Closed
    <3>3. verdict'[r] = "failed" /\ alert'[r] = "not_sent"
      BY <1>1, <3>1 DEF EvalTypeOK
    <3>4. InHand(m)'
      BY <1>1, <1>2, <2>1, <3>1, <3>3, MoveMoves DEF InHand, Unheard
    <3>5. QED
      BY <3>2, <3>4, WorkKeeps
  <2>3. CASE verdict[r] \notin Open
    <3>1. Move(m, "close") /\ UNCHANGED <<verdict, alert>>
      BY <1>6, <2>3 DEF marcarFalha
    <3>2. WorksOn(m)
      BY <1>1, <2>1, <3>1, MoveMoves DEF WorksOn, EvalTypeOK
    <3>3. InHand(m)'
      BY <1>1, <1>2, <2>1, <2>3, <3>1, MoveMoves DEF InHand, Unheard, Open, Busy
    <3>4. QED
      BY <3>2, <3>3, WorkKeeps
  <2>4. QED
    BY <2>2, <2>3
<1>7. CASE alertarSePreciso(m)
  <2>1. Move(m, "release") /\ mach[m].pc = "alert"
    BY <1>7 DEF alertarSePreciso, At
  <2>2. WorksOn(m)
    BY <1>1, <1>7, <2>1, MoveMoves DEF alertarSePreciso, WorksOn, EvalTypeOK, AskingKept
  <2>3. InHand(m)'
    BY <1>1, <1>2, <1>7, <2>1, MoveMoves DEF alertarSePreciso, InHand, Unheard, EvalTypeOK, Busy
  <2>4. QED
    BY <2>2, <2>3, WorkKeeps
<1>8. QED
  BY <1>4, <1>5, <1>6, <1>7

(* Requests: what they write is in no machine's hands. *)
LEMMA AskKeeps ==
    ASSUME IInv, NEW a \in Asks, AskChecks(a) \/ AskCreates(a) \/ AskEnqueues(a) \/ AskRefused(a)
    PROVE  IInv'
<1> USE DEF IInv
<1>0. ask \in [Asks -> AskStates] /\ ask[a] \in AskStates
  BY DEF EvalTypeOK
<1>1. UNCHANGED <<mach, evalLock, orphans, spoiled>>
  BY DEF AskChecks, AskCreates, AskEnqueues, AskRefused
<1>2. CASE AskChecks(a)
  <2>1. PICK by \in Triggers : ask' = [ask EXCEPT ![a].pc = "create", ![a].by = by]
    BY <1>2 DEF AskChecks
  <2>2. UNCHANGED <<verdict, alert, trigger, evalJob, evalFaults>> /\ races' \in Nat
    <3>1. races' = races \/ races' = races + 1
      BY <1>2 DEF AskChecks
    <3>2. races' \in Nat
      BY <3>1 DEF EvalTypeOK
    <3>3. QED
      BY <1>2, <3>2 DEF AskChecks
  <2>3. ask' \in [Asks -> AskStates] /\ ask'[a].pc = "create" /\ \A b \in Asks : b # a => ask'[b] = ask[b]
    BY <1>0, <2>1 DEF AskStates
  <2>4. EvalTypeOK'
    BY <1>1, <2>2, <2>3 DEF EvalTypeOK
  <2>5. OneHand' /\ Alerts'
    BY <1>1, <2>2 DEF OneHand, Alerts, InHand, AtRest, Busy, Unheard
  <2>6. AskedRows'
    BY <2>2, <2>3 DEF AskedRows
  <2>7. QED
    BY <2>4, <2>5, <2>6
<1>3. CASE AskCreates(a)
  <2>1. PICK r \in Runs : /\ verdict[r] = "none"
                          /\ verdict' = [verdict EXCEPT ![r] = "pending"]
                          /\ trigger' = [trigger EXCEPT ![r] = ask[a].by]
                          /\ ask' = [ask EXCEPT ![a].pc = "enqueue", ![a].run = r]
    BY <1>3 DEF AskCreates
  <2>2. UNCHANGED <<alert, evalJob, races, evalFaults>>
    BY <1>3 DEF AskCreates
  <2>3. /\ ask' \in [Asks -> AskStates] /\ ask'[a].run = r /\ ask[a].by \in Triggers
        /\ \A b \in Asks : b # a => ask'[b] = ask[b]
    BY <1>0, <2>1 DEF AskStates
  <2>4. verdict'[r] = "pending" /\ \A s \in Runs : s # r => verdict'[s] = verdict[s]
    BY <2>1 DEF EvalTypeOK
  <2>5. evalJob[r] = "none"
    BY <2>1 DEF AskedRows
  <2>6. EvalTypeOK'
    BY <1>1, <2>1, <2>2, <2>3 DEF EvalTypeOK, Open
  <2>7. OneHand'
    BY <1>1, <2>2 DEF OneHand, Busy
  <2>8. AskedRows'
    <3>1. \A b \in Asks : b # a /\ ask[b].pc = "enqueue" => ask[b].run # r
      BY <2>1 DEF AskedRows
    <3>2. QED
      BY <2>2, <2>3, <2>4, <2>5, <3>1 DEF AskedRows
  <2>9. Alerts'
    <3>1. \A m \in Machines : Busy(m) => mach[m].run # r
      BY <2>5 DEF OneHand
    <3>2. \A s \in Runs : Unheard(s)' => Unheard(s)
      BY <2>2, <2>4 DEF Unheard, Closed
    <3>3. \A s \in Runs : verdict'[s] = "running" => verdict[s] = "running"
      BY <2>4
    <3>4. \A m \in Machines : InHand(m)'
      BY <1>1, <2>2, <2>4, <3>1 DEF Alerts, InHand, Busy, Unheard
    <3>5. \A s \in Runs : AtRest(s)'
      BY <1>1, <2>2, <3>2, <3>3 DEF Alerts, AtRest
    <3>6. QED
      BY <3>4, <3>5 DEF Alerts
  <2>10. QED
    BY <2>6, <2>7, <2>8, <2>9
<1>4. CASE AskEnqueues(a) \/ AskRefused(a)
  <2> DEFINE r == ask[a].run
  <2>1. /\ ask[a].pc = "enqueue" /\ ask' = [ask EXCEPT ![a].pc = "done"]
        /\ UNCHANGED <<trigger, races>> /\ evalFaults' \in Nat
    BY <1>4 DEF AskEnqueues, AskRefused, EvalFault, EvalTypeOK
  <2>2. r \in Runs /\ verdict[r] = "pending" /\ evalJob[r] = "none"
    BY <2>1 DEF AskedRows
  <2>3. /\ ask' \in [Asks -> AskStates] /\ ask'[a].pc = "done"
        /\ \A b \in Asks : b # a => ask'[b] = ask[b]
    BY <1>0, <2>1 DEF AskStates
  <2>4. /\ evalJob' \in [Jobs -> {"none", "waiting", "active", "done"}]
        /\ evalJob'[r] \in {"none", "waiting"}
        /\ \A j \in Jobs : j # r => evalJob'[j] = evalJob[j]
    BY <1>4, <2>2 DEF AskEnqueues, AskRefused, EvalTypeOK, Jobs
  <2>5. /\ verdict' \in [Runs -> Open \cup Closed \cup {"none"}]
        /\ alert' \in [Runs -> {"none", "not_sent", "decided"}]
        /\ \A s \in Runs : s # r => verdict'[s] = verdict[s] /\ alert'[s] = alert[s]
        /\ verdict'[r] = "pending" \/ (verdict'[r] = "failed" /\ alert'[r] = "not_sent")
    BY <1>4, <2>2 DEF AskEnqueues, AskRefused, EvalTypeOK, Closed
  <2>6. EvalTypeOK'
    BY <1>1, <2>1, <2>3, <2>4, <2>5 DEF EvalTypeOK
  <2>7. \A m \in Machines : Busy(m) => mach[m].run # r
    BY <2>2 DEF OneHand
  <2>8. OneHand'
    BY <1>1, <2>4, <2>7 DEF OneHand, Busy
  <2>9. AskedRows'
    <3>1. \A b \in Asks : b # a /\ ask[b].pc = "enqueue" => ask[b].run \in Runs /\ ask[b].run # r
      BY <2>1 DEF AskedRows
    <3>2. \A s \in Runs : evalJob'[s] # "none" => verdict'[s] # "none"
      BY <2>4, <2>5 DEF AskedRows, Jobs
    <3>3. QED
      BY <2>3, <2>4, <2>5, <3>1, <3>2 DEF AskedRows, Jobs
  <2>10. Alerts'
    <3>1. \A m \in Machines : InHand(m)'
      BY <1>1, <2>5, <2>7 DEF Alerts, InHand, Busy, Unheard
    <3>2. ASSUME NEW s \in Runs PROVE AtRest(s)'
      <4>1. AtRest(s)
        BY DEF Alerts
      <4>2. CASE s = r
        BY <1>1, <2>2, <2>4, <2>5, <4>1, <4>2 DEF AtRest, Unheard, Closed
      <4>3. CASE s # r
        BY <1>1, <2>4, <2>5, <4>1, <4>3 DEF AtRest, Unheard, Jobs
      <4>4. QED
        BY <4>2, <4>3
    <3>3. QED
      BY <3>1, <3>2 DEF Alerts
  <2>11. QED
    BY <2>6, <2>8, <2>9, <2>10
<1>5. QED
  BY <1>2, <1>3, <1>4

(* What the steps that take and leave jobs have in common. *)
RowsKept == UNCHANGED <<verdict, alert, trigger, ask, orphans, races>>

(* A job is taken, won, or goes on without the lock. *)
LEMMA TakeKeeps ==
    ASSUME IInv, NEW m \in Machines, (\E j \in Jobs : TakeJob(m, j)) \/ AcquireLock(m) \/ AcquireFails(m)
    PROVE  IInv'
<1> USE DEF IInv
<1>0. mach \in [Machines -> MachineStates] /\ mach[m] \in MachineStates
  BY DEF EvalTypeOK
<1>1. RowsKept /\ UNCHANGED spoiled /\ evalFaults' \in Nat
  <2>1. CASE \E j \in Jobs : TakeJob(m, j)
    BY <2>1 DEF TakeJob, RowsKept, AskingKept, EvalTypeOK
  <2>2. CASE AcquireLock(m)
    BY <2>2 DEF AcquireLock, RowsKept, AskingKept, EvalTypeOK
  <2>3. CASE AcquireFails(m)
    BY <2>3 DEF AcquireFails, RowsKept, AskingKept, EvalFault, EvalTypeOK
  <2>4. QED
    BY <2>1, <2>2, <2>3
<1>2. CASE \E j \in Jobs : TakeJob(m, j)
  <2>1. PICK j \in Jobs : TakeJob(m, j)
    BY <1>2
  <2>2. /\ mach' \in [Machines -> MachineStates] /\ ~Busy(m) /\ evalJob[j] = "waiting"
        /\ mach'[m].pc = "lock" /\ mach'[m].run = j /\ ~mach'[m].owns
        /\ \A n \in Machines : n # m => mach'[n] = mach[n]
    BY <1>0, <2>1 DEF TakeJob, Resting, MachineStates, At, Busy
  <2>3. /\ evalJob' \in [Jobs -> {"none", "waiting", "active", "done"}]
        /\ evalJob'[j] = "active" /\ \A i \in Jobs : i # j => evalJob'[i] = evalJob[i]
        /\ evalLock' = evalLock
    BY <2>1 DEF TakeJob, EvalTypeOK
  <2>4. EvalTypeOK'
    BY <1>1, <2>2, <2>3 DEF EvalTypeOK, RowsKept
  <2>5. \A n \in Machines : Busy(n) => mach[n].run # j
    BY <2>2 DEF OneHand
  <2>6. OneHand'
    BY <2>2, <2>3, <2>5 DEF OneHand, Busy
  <2>7. AskedRows'
    BY <1>1, <2>2, <2>3 DEF AskedRows, RowsKept, Jobs
  <2>8. InHand(m)'
    BY <1>1, <2>2 DEF InHand, Alerts, AtRest, Unheard, RowsKept
  <2>9. \A n \in Machines : n # m => InHand(n)'
    BY <1>1, <2>2 DEF Alerts, InHand, Busy, Unheard, RowsKept
  <2>10. \A r \in Runs : AtRest(r)'
    BY <1>1, <2>3 DEF Alerts, AtRest, Unheard, RowsKept, Jobs
  <2>11. QED
    BY <2>4, <2>6, <2>7, <2>8, <2>9, <2>10 DEF Alerts
<1>3. CASE \/ AcquireFails(m)
           \/ /\ AcquireLock(m) /\ evalLock = NoRun
  <2>1. /\ mach' \in [Machines -> MachineStates] /\ mach[m].pc = "lock"
        /\ mach'[m].pc = "read" /\ mach'[m].run = mach[m].run
        /\ \A n \in Machines : n # m => mach'[n] = mach[n]
        /\ evalJob' = evalJob
    <3>1. CASE AcquireFails(m)
      BY <3>1, MoveMoves DEF AcquireFails, At
    <3>2. CASE AcquireLock(m) /\ evalLock = NoRun
      BY <1>0, <3>2 DEF AcquireLock, At, MachineStates
    <3>3. QED
      BY <1>3, <3>1, <3>2
  <2>2. /\ evalLock' \in Jobs \cup {NoRun}
        /\ \A n \in Machines : mach'[n].owns => Busy(n) /\ evalLock' = mach[n].run
    <3>1. CASE AcquireFails(m)
      <4>1. evalLock' = evalLock /\ mach'[m].owns = mach[m].owns
        BY <3>1, MoveMoves DEF AcquireFails
      <4>2. QED
        BY <2>1, <4>1 DEF OneHand, EvalTypeOK
    <3>2. CASE AcquireLock(m) /\ evalLock = NoRun
      <4>1. evalLock' = mach[m].run /\ Busy(m) /\ mach[m].run \in Jobs
        BY <2>1, <3>2 DEF AcquireLock, OneHand, Busy
      <4>2. \A n \in Machines : ~mach[n].owns
        BY <3>2, NoRunAssumption DEF OneHand, Jobs
      <4>3. QED
        BY <2>1, <4>1, <4>2
    <3>3. QED
      BY <1>3, <3>1, <3>2
  <2>3. EvalTypeOK'
    BY <1>1, <2>1, <2>2 DEF EvalTypeOK, RowsKept
  <2>4. OneHand'
    BY <2>1, <2>2 DEF OneHand, Busy
  <2>5. AskedRows'
    BY <1>1, <2>1 DEF AskedRows, RowsKept
  <2>6. InHand(m)'
    BY <1>1, <2>1 DEF InHand, Alerts, Unheard, RowsKept, Busy
  <2>7. \A n \in Machines : n # m => InHand(n)'
    BY <1>1, <2>1 DEF Alerts, InHand, Busy, Unheard, RowsKept
  <2>8. \A r \in Runs : AtRest(r)'
    BY <1>1, <2>1 DEF Alerts, AtRest, Unheard, RowsKept
  <2>9. QED
    BY <2>3, <2>4, <2>5, <2>6, <2>7, <2>8 DEF Alerts
<1>4. CASE AcquireLock(m) /\ evalLock # NoRun
  <2> DEFINE j == mach[m].run
  <2>1. /\ mach' \in [Machines -> MachineStates] /\ mach[m].pc = "lock"
        /\ mach'[m].pc = "idle" /\ ~mach'[m].owns
        /\ \A n \in Machines : n # m => mach'[n] = mach[n]
        /\ evalLock' = evalLock
    <3>1. mach' = [mach EXCEPT ![m] = Resting] /\ evalLock' = evalLock /\ mach[m].pc = "lock"
      BY <1>4 DEF AcquireLock, At
    <3>2. Resting \in MachineStates /\ Resting.pc = "idle" /\ ~Resting.owns
      BY DEF Resting, MachineStates
    <3>3. QED
      BY <1>0, <3>1, <3>2
  <2>2. Busy(m) /\ j \in Jobs /\ evalJob[j] = "active"
    BY <2>1 DEF OneHand, Busy
  <2>3. /\ evalJob' \in [Jobs -> {"none", "waiting", "active", "done"}]
        /\ evalJob'[j] = "waiting" /\ \A i \in Jobs : i # j => evalJob'[i] = evalJob[i]
    BY <1>4, <2>2 DEF AcquireLock, EvalTypeOK
  <2>4. EvalTypeOK'
    BY <1>1, <2>1, <2>3 DEF EvalTypeOK, RowsKept
  <2>5. \A n \in Machines : n # m /\ Busy(n) => mach[n].run # j
    BY <2>2 DEF OneHand
  <2>6. OneHand'
    BY <2>1, <2>3, <2>5 DEF OneHand, Busy
  <2>7. AskedRows'
    BY <1>1, <2>2, <2>3 DEF AskedRows, RowsKept, Jobs
  <2>8. \A n \in Machines : InHand(n)'
    BY <1>1, <2>1 DEF Alerts, InHand, Busy, Unheard, RowsKept
  <2>9. ASSUME NEW r \in Runs PROVE AtRest(r)'
    <3>1. CASE r = j
      BY <1>1, <2>1, <2>2, <3>1 DEF Alerts, InHand, AtRest, Unheard, RowsKept
    <3>2. CASE r # j
      BY <1>1, <2>3, <3>2 DEF Alerts, AtRest, Unheard, RowsKept, Jobs
    <3>3. QED
      BY <3>1, <3>2
  <2>10. QED
    BY <2>4, <2>6, <2>7, <2>8, <2>9 DEF Alerts
<1>5. QED
  BY <1>2, <1>3, <1>4

(* A machine lets go of its job: it is over, or it goes back to the queue  *)
(* because the machine died.                                               *)
LEMMA ReleaseKeeps ==
    ASSUME IInv, NEW m \in Machines, liberarTravaGlobal(m) \/ ReleaseFails(m) \/ MachineDies(m)
    PROVE  IInv'
<1> USE DEF IInv
<1> DEFINE j == mach[m].run
<1>0. mach \in [Machines -> MachineStates] /\ mach[m] \in MachineStates
  BY DEF EvalTypeOK
<1>1. Busy(m) /\ j \in Jobs /\ evalJob[j] = "active"
  BY DEF liberarTravaGlobal, ReleaseFails, MachineDies, At, Busy, OneHand
<1>2. RowsKept /\ evalFaults' \in Nat
  BY DEF liberarTravaGlobal, ReleaseFails, MachineDies, RowsKept, AskingKept, EvalFault, EvalTypeOK
<1>3. /\ mach' \in [Machines -> MachineStates] /\ mach'[m].pc = "idle" /\ ~mach'[m].owns
      /\ \A n \in Machines : n # m => mach'[n] = mach[n]
  <2>1. mach' = [mach EXCEPT ![m] = Resting]
    BY DEF liberarTravaGlobal, ReleaseFails, MachineDies
  <2>2. Resting \in MachineStates /\ Resting.pc = "idle" /\ ~Resting.owns
    BY DEF Resting, MachineStates
  <2>3. QED
    BY <1>0, <2>1, <2>2
<1>4. /\ evalJob' \in [Jobs -> {"none", "waiting", "active", "done"}]
      /\ \A i \in Jobs : i # j => evalJob'[i] = evalJob[i]
      /\ \/ evalJob'[j] = "done" /\ spoiled' = spoiled /\ mach[m].pc = "release"
         \/ evalJob'[j] = "waiting" /\ spoiled' = spoiled \cup {j}
  <2>1. CASE liberarTravaGlobal(m) \/ ReleaseFails(m)
    <3>1. evalJob' = [evalJob EXCEPT ![j] = "done"] /\ spoiled' = spoiled /\ mach[m].pc = "release"
      BY <2>1 DEF liberarTravaGlobal, ReleaseFails, At
    <3>2. QED
      BY <1>1, <3>1 DEF EvalTypeOK
  <2>2. CASE MachineDies(m)
    <3>1. evalJob' = [evalJob EXCEPT ![j] = "waiting"] /\ spoiled' = spoiled \cup {j}
      BY <2>2 DEF MachineDies
    <3>2. QED
      BY <1>1, <3>1 DEF EvalTypeOK
  <2>3. QED
    BY <2>1, <2>2
<1>5. /\ evalLock' \in Jobs \cup {NoRun}
      /\ evalLock' # evalLock => evalLock = j
  BY DEF liberarTravaGlobal, ReleaseFails, MachineDies, LockAfter, EvalTypeOK
<1>6. EvalTypeOK'
  BY <1>1, <1>2, <1>3, <1>4, <1>5 DEF EvalTypeOK, RowsKept
<1>7. \A n \in Machines : n # m /\ Busy(n) => mach[n].run # j
  BY <1>1 DEF OneHand
<1>8. OneHand'
  <2>1. \A n \in Machines : n # m /\ mach[n].owns => evalLock' = mach[n].run
    BY <1>5, <1>7 DEF OneHand
  <2>2. QED
    BY <1>3, <1>4, <1>7, <2>1 DEF OneHand, Busy
<1>9. AskedRows'
  <2>1. \A a \in Asks : ask[a].pc = "enqueue" => ask[a].run \in Jobs /\ ask[a].run # j
    BY <1>1 DEF AskedRows, Jobs
  <2>2. \A r \in Runs : evalJob'[r] # "none" => evalJob[r] # "none"
    BY <1>1, <1>4 DEF Jobs
  <2>3. QED
    BY <1>2, <1>4, <2>1, <2>2 DEF AskedRows, RowsKept
<1>10. \A n \in Machines : InHand(n)'
  <2>1. ASSUME NEW n \in Machines, n # m PROVE InHand(n)'
    <3>1. Busy(n) /\ mach[n].run \notin spoiled' => mach[n].run \notin spoiled
      BY <1>4
    <3>2. QED
      BY <1>2, <1>3, <2>1, <3>1 DEF Alerts, InHand, Busy, Unheard, RowsKept
  <2>2. InHand(m)'
    BY <1>3 DEF InHand, Busy
  <2>3. QED
    BY <2>1, <2>2
<1>11. ASSUME NEW r \in Runs PROVE AtRest(r)'
  <2>1. CASE r = j
    <3>1. InHand(m)
      BY DEF Alerts
    <3>2. QED
      BY <1>1, <1>2, <1>4, <2>1, <3>1 DEF InHand, AtRest, Unheard, RowsKept
  <2>2. CASE r # j
    <3>1. evalJob'[r] = evalJob[r] /\ (r \notin spoiled' => r \notin spoiled)
      BY <1>4, <2>2 DEF Jobs
    <3>2. AtRest(r)
      BY DEF Alerts
    <3>3. QED
      BY <1>2, <3>1, <3>2 DEF AtRest, Unheard, RowsKept
  <2>3. QED
    BY <2>1, <2>2
<1>12. QED
  BY <1>6, <1>8, <1>9, <1>10, <1>11 DEF Alerts

(* A regrade is asked for, or the lock of a machine that is gone lapses.   *)
LEMMA SideKeeps ==
    ASSUME IInv, (\E g \in Regrades : RegradeAsked(g)) \/ LockLapses
    PROVE  IInv'
<1> USE DEF IInv
<1>1. CASE \E g \in Regrades : RegradeAsked(g)
  <2>1. PICK g \in Regrades : RegradeAsked(g)
    BY <1>1
  <2>2. /\ RowsKept /\ UNCHANGED <<evalLock, mach, spoiled, evalFaults>>
        /\ evalJob[g] = "none" /\ evalJob' = [evalJob EXCEPT ![g] = "waiting"]
    BY <2>1 DEF RegradeAsked, RowsKept, AskingKept
  <2>3. /\ evalJob' \in [Jobs -> {"none", "waiting", "active", "done"}]
        /\ g \in Jobs /\ \A i \in Jobs : i # g => evalJob'[i] = evalJob[i]
    BY <2>2 DEF EvalTypeOK, Jobs
  <2>4. \A r \in Runs : r \in Jobs /\ r # g
    BY NoRunAssumption DEF Jobs
  <2>5. EvalTypeOK'
    BY <2>2, <2>3 DEF EvalTypeOK, RowsKept
  <2>6. OneHand'
    BY <2>2, <2>3 DEF OneHand, Busy
  <2>7. AskedRows'
    BY <2>2, <2>3, <2>4 DEF AskedRows, RowsKept
  <2>8. Alerts'
    BY <2>2, <2>3, <2>4 DEF Alerts, InHand, AtRest, Busy, Unheard, RowsKept
  <2>9. QED
    BY <2>5, <2>6, <2>7, <2>8
<1>2. CASE LockLapses
  <2>1. /\ RowsKept /\ UNCHANGED <<evalJob, mach, spoiled, evalFaults>> /\ evalLock' = NoRun
        /\ \A n \in Machines : ~(mach[n].owns /\ mach[n].run = evalLock)
    BY <1>2 DEF LockLapses, RowsKept, AskingKept
  <2>2. EvalTypeOK'
    BY <2>1 DEF EvalTypeOK, RowsKept
  <2>3. OneHand'
    BY <2>1 DEF OneHand, Busy
  <2>4. AskedRows'
    BY <2>1 DEF AskedRows, RowsKept
  <2>5. Alerts'
    BY <2>1 DEF Alerts, InHand, AtRest, Busy, Unheard, RowsKept
  <2>6. QED
    BY <2>2, <2>3, <2>4, <2>5
<1>3. QED
  BY <1>1, <1>2

(* The orphan comes back, or the sweep closes what never ended: a row is   *)
(* written that no request is about to enqueue.                            *)
LEMMA LateWriteKeeps ==
    ASSUME IInv, NEW r \in Runs, OrphanReturns(r) \/ Sweep(r)
    PROVE  IInv'
<1> USE DEF IInv
<1>1. UNCHANGED <<trigger, ask, evalJob, evalLock, mach, spoiled, races, evalFaults>>
  BY DEF OrphanReturns, Sweep, AskingKept
<1>2. /\ verdict' \in [Runs -> Open \cup Closed \cup {"none"}]
      /\ alert' \in [Runs -> {"none", "not_sent", "decided"}]
      /\ \A s \in Runs : s # r => verdict'[s] = verdict[s] /\ alert'[s] = alert[s]
      /\ \/ verdict'[r] = verdict[r] /\ alert'[r] = alert[r]
         \/ /\ verdict'[r] = "failed" /\ alert'[r] = "not_sent"
            /\ verdict[r] \in Open
            /\ verdict[r] = "pending" => \A a \in Asks : ~(ask[a].pc = "enqueue" /\ ask[a].run = r)
         \/ /\ verdict'[r] = "completed" /\ verdict[r] = "running" /\ r \in orphans
  <2>1. CASE Sweep(r)
    BY <2>1 DEF Sweep, EvalTypeOK, Closed
  <2>2. CASE OrphanReturns(r)
    <3>1. CASE UNCHANGED <<verdict, alert>>
      BY <3>1 DEF EvalTypeOK
    <3>2. CASE \E result \in Closed : gravarConclusao(r, result)
      <4>1. PICK result \in Closed : gravarConclusao(r, result)
        BY <3>2
      <4>2. CASE verdict[r] = "running"
        <5>1. /\ verdict' = [verdict EXCEPT ![r] = result]
              /\ alert' = [alert EXCEPT ![r] = IF result = "failed" THEN "not_sent" ELSE @]
              /\ r \in orphans
          BY <2>2, <4>1, <4>2 DEF gravarConclusao, OrphanReturns
        <5>2. QED
          BY <4>2, <5>1 DEF EvalTypeOK, Closed, Open
      <4>3. CASE verdict[r] # "running"
        BY <4>1, <4>3 DEF gravarConclusao, EvalTypeOK
      <4>4. QED
        BY <4>2, <4>3
    <3>3. QED
      BY <2>2, <3>1, <3>2 DEF OrphanReturns
  <2>3. QED
    BY <2>1, <2>2
<1>3. orphans' \in SUBSET Runs /\ \A s \in orphans' : s \in orphans
  BY DEF OrphanReturns, Sweep, EvalTypeOK
<1>4. \A s \in Runs : s # r => (s \in orphans' <=> s \in orphans)
  BY DEF OrphanReturns, Sweep
<1>5. EvalTypeOK'
  BY <1>1, <1>2, <1>3 DEF EvalTypeOK
<1>6. OneHand'
  BY <1>1 DEF OneHand, Busy
<1>7. AskedRows'
  <2>1. \A a \in Asks : ask[a].pc = "enqueue" => verdict'[ask[a].run] = verdict[ask[a].run]
    BY <1>2 DEF AskedRows
  <2>2. \A s \in Runs : verdict[s] # "none" => verdict'[s] # "none"
    BY <1>2
  <2>3. QED
    BY <1>1, <2>1, <2>2 DEF AskedRows
<1>8. ASSUME NEW m \in Machines PROVE InHand(m)'
  <2>1. InHand(m)
    BY DEF Alerts
  <2>2. CASE Busy(m) /\ mach[m].run = r
    BY <1>1, <1>2, <1>3, <2>1, <2>2 DEF InHand, Unheard, Busy, Open, Closed
  <2>3. CASE ~(Busy(m) /\ mach[m].run = r)
    BY <1>1, <1>2, <1>4, <2>1, <2>3 DEF InHand, Unheard, Busy
  <2>4. QED
    BY <2>2, <2>3
<1>9. ASSUME NEW s \in Runs PROVE AtRest(s)'
  <2>1. AtRest(s)
    BY DEF Alerts
  <2>2. CASE s = r
    BY <1>1, <1>2, <1>3, <2>1, <2>2 DEF AtRest, Unheard, Open, Closed
  <2>3. CASE s # r
    BY <1>1, <1>2, <1>4, <2>1, <2>3 DEF AtRest, Unheard
  <2>4. QED
    BY <2>2, <2>3
<1>10. QED
  BY <1>5, <1>6, <1>7, <1>8, <1>9 DEF Alerts

(* Every step preserves the invariant. *)
LEMMA StepInvariant == IInv /\ [EvalNext]_evalVars => IInv'
<1> SUFFICES ASSUME IInv, [EvalNext]_evalVars PROVE IInv'
  OBVIOUS
<1>1. CASE UNCHANGED evalVars
  <2>1. UNCHANGED <<verdict, alert, trigger, ask, evalJob, evalLock, mach, orphans, spoiled, races,
                    evalFaults>>
    BY <1>1 DEF evalVars
  <2>2. QED
    BY <2>1 DEF IInv, EvalTypeOK, OneHand, AskedRows, Alerts, InHand, AtRest, Busy, Unheard
<1>2. ASSUME NEW a \in Asks, AskChecks(a) \/ AskCreates(a) \/ AskEnqueues(a) \/ AskRefused(a) PROVE IInv'
  BY <1>2, AskKeeps
<1>3. ASSUME NEW m \in Machines, (\E j \in Jobs : TakeJob(m, j)) \/ AcquireLock(m) \/ AcquireFails(m)
      PROVE IInv'
  BY <1>3, TakeKeeps
<1>4. ASSUME NEW m \in Machines,
             \/ Regrade(m) \/ ReadRun(m) \/ ReadFails(m) \/ ConcludeFails(m) \/ Settles(m) \/ HitsCeiling(m)
             \/ RunThrows(m) \/ MarkFails(m) \/ fecharCorridaComOTeto(m) \/ CloseReadFails(m) \/ AlertFails(m)
      PROVE IInv'
  BY <1>4, QuietStepKeeps
<1>5. ASSUME NEW m \in Machines, StartRun(m) \/ Concludes(m) \/ marcarFalha(m) \/ alertarSePreciso(m)
      PROVE IInv'
  BY <1>5, WriteKeeps
<1>6. ASSUME NEW m \in Machines, liberarTravaGlobal(m) \/ ReleaseFails(m) \/ MachineDies(m) PROVE IInv'
  BY <1>6, ReleaseKeeps
<1>7. ASSUME NEW r \in Runs, OrphanReturns(r) \/ Sweep(r) PROVE IInv'
  BY <1>7, LateWriteKeeps
<1>8. ASSUME (\E g \in Regrades : RegradeAsked(g)) \/ LockLapses PROVE IInv'
  BY <1>8, SideKeeps
<1>9. QED
  BY <1>1, <1>2, <1>3, <1>4, <1>5, <1>6, <1>7, <1>8 DEF EvalNext

----------------------------------------------------------------------------
(* The inductive invariant. *)
THEOREM Invariance == EvalSpec => []IInv
<1>1. EvalInit => IInv
  BY InitInvariant
<1>2. IInv /\ [EvalNext]_evalVars => IInv'
  BY StepInvariant
<1>3. QED
  BY <1>1, <1>2, PTL DEF EvalSpec

(* The variables of EvalQueue keep their shapes. *)
THEOREM TypeCorrectness == EvalSpec => []EvalTypeOK
<1>1. IInv => EvalTypeOK
  BY DEF IInv
<1>2. QED
  BY <1>1, Invariance, PTL

(* Of the machines that won the lock (adquirirTravaGlobal) one at most is  *)
(* at work, however many run without it and release at their end.          *)
THEOREM OwnersAreAlone == EvalSpec => []OneOwnerAtWork
<1>1. ASSUME IInv PROVE OneOwnerAtWork
  <2> SUFFICES ASSUME NEW m \in Machines, NEW n \in Machines, mach[m].owns, mach[n].owns
               PROVE  m = n
    BY DEF OneOwnerAtWork
  <2>1. Busy(m) /\ Busy(n) /\ mach[m].run = mach[n].run
    BY <1>1 DEF IInv, OneHand
  <2>2. QED
    BY <1>1, <2>1 DEF IInv, OneHand
<1>2. QED
  BY <1>1, Invariance, PTL

(* Once its job is over, a run that ended has been alerted or decided upon *)
(* (alertarSePreciso, fecharCorridaComOTeto).                              *)
THEOREM ClosedRunsAreAlerted == EvalSpec => []VerdictsAreAlerted
<1>1. ASSUME IInv PROVE VerdictsAreAlerted
  <2> SUFFICES ASSUME NEW r \in Runs \ spoiled, verdict[r] \in Closed, evalJob[r] = "done"
               PROVE  alert[r] # "none"
    BY DEF VerdictsAreAlerted
  <2>1. AtRest(r)
    BY <1>1 DEF IInv, Alerts
  <2>2. QED
    BY <2>1 DEF AtRest, Unheard
<1>2. QED
  BY <1>1, Invariance, PTL

(* No step but a start decided on an older reading changes a closed run.   *)
LEMMA StepsKeepVerdicts ==
    ASSUME IInv, [EvalNext]_evalVars, NEW r \in Runs, verdict[r] \in Closed, verdict'[r] # verdict[r]
    PROVE  \E m \in Machines : mach[m].run = r /\ mach[m].pc = "start"
<1> USE DEF IInv
<1>1. verdict' # verdict /\ verdict[r] \notin Open /\ verdict[r] # "none"
  BY DEF Closed, Open
<1>2. ASSUME NEW a \in Asks, AskChecks(a) \/ AskCreates(a) \/ AskEnqueues(a) \/ AskRefused(a) PROVE FALSE
  <2>1. CASE AskChecks(a) \/ AskEnqueues(a)
    BY <1>1, <2>1 DEF AskChecks, AskEnqueues
  <2>2. CASE AskCreates(a)
    BY <1>1, <2>2 DEF AskCreates, EvalTypeOK
  <2>3. CASE AskRefused(a)
    BY <1>1, <2>3 DEF AskRefused, AskedRows, Open, EvalTypeOK
  <2>4. QED
    BY <1>2, <2>1, <2>2, <2>3
<1>3. ASSUME NEW m \in Machines, StartRun(m) PROVE mach[m].run = r /\ mach[m].pc = "start"
  BY <1>1, <1>3 DEF StartRun, At, EvalTypeOK
<1>4. ASSUME NEW m \in Machines, Concludes(m) \/ marcarFalha(m) PROVE FALSE
  <2>1. CASE Concludes(m)
    <3>1. PICK result \in Closed : gravarConclusao(mach[m].run, result)
      BY <2>1 DEF Concludes
    <3>2. QED
      BY <1>1, <3>1 DEF gravarConclusao, EvalTypeOK, Open
  <2>2. CASE marcarFalha(m)
    BY <1>1, <2>2 DEF marcarFalha, EvalTypeOK
  <2>3. QED
    BY <1>4, <2>1, <2>2
<1>5. ASSUME NEW s \in Runs, OrphanReturns(s) \/ Sweep(s) PROVE FALSE
  <2>1. CASE OrphanReturns(s)
    BY <1>1, <2>1 DEF OrphanReturns, gravarConclusao, EvalTypeOK, Open
  <2>2. CASE Sweep(s)
    BY <1>1, <2>2 DEF Sweep, EvalTypeOK
  <2>3. QED
    BY <1>5, <2>1, <2>2
<1>6. \/ \E a \in Asks : AskChecks(a) \/ AskCreates(a) \/ AskEnqueues(a) \/ AskRefused(a)
      \/ \E m \in Machines : StartRun(m) \/ Concludes(m) \/ marcarFalha(m)
      \/ \E s \in Runs : OrphanReturns(s) \/ Sweep(s)
  BY <1>1 DEF EvalNext, evalVars, TakeJob, AcquireLock, AcquireFails, Regrade, ReadRun, ReadFails,
     RunThrows, ConcludeFails, Settles, HitsCeiling, MarkFails, fecharCorridaComOTeto, alertarSePreciso,
     CloseReadFails, AlertFails, liberarTravaGlobal, ReleaseFails, MachineDies, RegradeAsked, LockLapses
<1>7. QED
  BY <1>2, <1>3, <1>4, <1>5, <1>6

(* What the client saw is final: no orphan, ceiling or sweep changes a     *)
(* closed run (gravarConclusao, marcarFalha, sweepStuckEvalRuns).          *)
THEOREM ClosedRunsAreFinal == EvalSpec => VerdictsAreFinal
<1>1. IInv /\ [EvalNext]_evalVars =>
        [\A r \in Runs :
           verdict[r] \in Closed /\ verdict'[r] # verdict[r] =>
              \E m \in Machines : mach[m].run = r /\ mach[m].pc = "start"]_evalVars
  BY StepsKeepVerdicts
<1>2. QED
  BY <1>1, Invariance, PTL DEF EvalSpec, VerdictsAreFinal

----------------------------------------------------------------------------
(* Each live run of the client, and each request of theirs between its     *)
(* check and its row, is the first or is paid for by a race: a check       *)
(* passes only while no run of theirs is live.                             *)
Counted ==
    /\ IsFiniteSet(RunsBy("client", Open)) /\ IsFiniteSet(ClientsCreating)
    /\ Cardinality(RunsBy("client", Open)) + Cardinality(ClientsCreating) <= 1 + races

(* What a step does to the runs of the client: it opens none, or it opens  *)
(* one and counts a race.                                                  *)
Closes == races' = races /\ \A r \in Runs : verdict'[r] \in Open => verdict[r] \in Open
Reopens == races' = races + 1 /\ \E q \in Runs : \A r \in Runs \ {q} : verdict'[r] = verdict[r]

LEMMA FewerCounted ==
    ASSUME Counted, races \in Nat, Closes, trigger' = trigger, ClientsCreating' \subseteq ClientsCreating
    PROVE  Counted'
<1>1. RunsBy("client", Open)' \subseteq RunsBy("client", Open)
  BY DEF RunsBy, Closes
<1>2. /\ IsFiniteSet(RunsBy("client", Open)') /\ IsFiniteSet(ClientsCreating')
      /\ Cardinality(RunsBy("client", Open)') <= Cardinality(RunsBy("client", Open))
      /\ Cardinality(ClientsCreating') <= Cardinality(ClientsCreating)
  BY <1>1, FS_Subset DEF Counted
<1>3. /\ Cardinality(RunsBy("client", Open)) \in Nat /\ Cardinality(ClientsCreating) \in Nat
      /\ Cardinality(RunsBy("client", Open)') \in Nat /\ Cardinality(ClientsCreating') \in Nat
  BY <1>2, FS_CardinalityType DEF Counted
<1>4. QED
  BY <1>2, <1>3 DEF Counted, Closes

LEMMA ReopenedIsCounted ==
    ASSUME Counted, races \in Nat, Reopens, trigger' = trigger, ask' = ask
    PROVE  Counted'
<1> DEFINE L == RunsBy("client", Open)
<1>1. PICK q \in Runs : \A r \in Runs \ {q} : verdict'[r] = verdict[r]
  BY DEF Reopens
<1>2. L' \subseteq L \cup {q}
  BY <1>1 DEF RunsBy
<1>3. IsFiniteSet(L \cup {q}) /\ Cardinality(L \cup {q}) <= Cardinality(L) + 1
  <2>1. IsFiniteSet(L) /\ Cardinality(L) \in Nat
    BY FS_CardinalityType DEF Counted
  <2>2. QED
    BY <2>1, FS_AddElement
<1>4. IsFiniteSet(L') /\ Cardinality(L') <= Cardinality(L \cup {q})
  BY <1>2, <1>3, FS_Subset
<1>5. Cardinality(L) \in Nat /\ Cardinality(L') \in Nat /\ Cardinality(L \cup {q}) \in Nat
  BY <1>3, <1>4, FS_CardinalityType DEF Counted
<1>6. ClientsCreating' = ClientsCreating /\ Cardinality(ClientsCreating) \in Nat
  BY FS_CardinalityType DEF ClientsCreating, Counted
<1>7. QED
  BY <1>3, <1>4, <1>5, <1>6 DEF Counted, Reopens

(* No machine, orphan or sweep opens a run that was not open.              *)
LEMMA ResultCloses ==
    ASSUME EvalTypeOK, NEW q \in Runs, NEW result \in Closed, gravarConclusao(q, result)
    PROVE  \A r \in Runs : verdict'[r] \in Open => verdict[r] \in Open
<1>1. verdict' = verdict \/ verdict' = [verdict EXCEPT ![q] = result]
  BY DEF gravarConclusao
<1>2. result \notin Open
  BY DEF Open, Closed
<1>3. QED
  BY <1>1, <1>2 DEF EvalTypeOK

LEMMA MachinesCountRaces ==
    ASSUME IInv, [EvalNext]_evalVars, ~(\E a \in Asks : AskChecks(a) \/ AskCreates(a) \/ AskEnqueues(a) \/ AskRefused(a))
    PROVE  /\ UNCHANGED <<trigger, ask>>
           /\ Closes \/ Reopens
<1>0. EvalTypeOK /\ \A m \in Machines : mach[m].pc \notin {"idle", "lock", "read", "release"} => mach[m].run \in Runs
  BY DEF IInv, OneHand
<1>1. ASSUME verdict' = verdict, races' = races, UNCHANGED <<trigger, ask>>
      PROVE  UNCHANGED <<trigger, ask>> /\ (Closes \/ Reopens)
  BY <1>1 DEF Closes
<1>2. ASSUME NEW m \in Machines,
             \/ \E j \in Jobs : TakeJob(m, j)
             \/ AcquireLock(m) \/ AcquireFails(m) \/ Regrade(m) \/ ReadRun(m) \/ ReadFails(m) \/ RunThrows(m)
             \/ ConcludeFails(m) \/ Settles(m) \/ HitsCeiling(m) \/ MarkFails(m) \/ fecharCorridaComOTeto(m) \/ CloseReadFails(m)
             \/ alertarSePreciso(m) \/ AlertFails(m) \/ liberarTravaGlobal(m) \/ ReleaseFails(m) \/ MachineDies(m)
      PROVE  verdict' = verdict /\ races' = races /\ UNCHANGED <<trigger, ask>>
  BY <1>2 DEF TakeJob, AcquireLock, AcquireFails, Regrade, ReadRun, ReadFails, RunThrows, ConcludeFails, Settles,
     HitsCeiling, MarkFails, fecharCorridaComOTeto, CloseReadFails, alertarSePreciso, AlertFails, liberarTravaGlobal, ReleaseFails,
     MachineDies, AskingKept
<1>3. ASSUME NEW m \in Machines, StartRun(m)
      PROVE  UNCHANGED <<trigger, ask>> /\ (Closes \/ Reopens)
  <2>1. /\ mach[m].run \in Runs /\ verdict' = [verdict EXCEPT ![mach[m].run] = "running"]
        /\ UNCHANGED <<trigger, ask>>
        /\ races' = IF verdict[mach[m].run] \in Open THEN races ELSE races + 1
    BY <1>0, <1>3 DEF StartRun, AskingKept, At
  <2>2. \A r \in Runs \ {mach[m].run} : verdict'[r] = verdict[r]
    BY <1>0, <2>1 DEF EvalTypeOK
  <2>3. CASE verdict[mach[m].run] \in Open
    BY <2>1, <2>2, <2>3 DEF Closes
  <2>4. CASE verdict[mach[m].run] \notin Open
    BY <2>1, <2>2, <2>4 DEF Reopens
  <2>5. QED
    BY <2>1, <2>3, <2>4
<1>4. ASSUME NEW m \in Machines, Concludes(m)
      PROVE  UNCHANGED <<trigger, ask>> /\ (Closes \/ Reopens)
  <2>1. mach[m].run \in Runs /\ UNCHANGED <<trigger, ask, races>>
    BY <1>0, <1>4 DEF Concludes, At, AskingKept
  <2>2. \A r \in Runs : verdict'[r] \in Open => verdict[r] \in Open
    BY <1>0, <1>4, <2>1, ResultCloses DEF Concludes
  <2>3. QED
    BY <2>1, <2>2 DEF Closes
<1>5. ASSUME NEW m \in Machines, marcarFalha(m)
      PROVE  UNCHANGED <<trigger, ask>> /\ (Closes \/ Reopens)
  <2>1. UNCHANGED <<trigger, ask, races>>
    BY <1>5 DEF marcarFalha, AskingKept
  <2>2. verdict' = verdict \/ verdict' = [verdict EXCEPT ![mach[m].run] = "failed"]
    BY <1>5 DEF marcarFalha
  <2>3. QED
    BY <1>0, <2>1, <2>2 DEF EvalTypeOK, Open, Closes
<1>6. ASSUME NEW r \in Runs, OrphanReturns(r)
      PROVE  UNCHANGED <<trigger, ask>> /\ (Closes \/ Reopens)
  <2>1. UNCHANGED <<trigger, ask, races>>
    BY <1>6 DEF OrphanReturns, AskingKept
  <2>2. \A q \in Runs : verdict'[q] \in Open => verdict[q] \in Open
    BY <1>0, <1>6, ResultCloses DEF OrphanReturns
  <2>3. QED
    BY <2>1, <2>2 DEF Closes
<1>7. ASSUME NEW r \in Runs, Sweep(r)
      PROVE  UNCHANGED <<trigger, ask>> /\ (Closes \/ Reopens)
  BY <1>0, <1>7 DEF Sweep, AskingKept, EvalTypeOK, Open, Closes
<1>8. ASSUME (\E g \in Regrades : RegradeAsked(g)) \/ LockLapses \/ UNCHANGED evalVars
      PROVE  UNCHANGED <<trigger, ask>> /\ (Closes \/ Reopens)
  BY <1>1, <1>8 DEF RegradeAsked, LockLapses, AskingKept, evalVars
<1>9. QED
  BY <1>1, <1>2, <1>3, <1>4, <1>5, <1>6, <1>7, <1>8 DEF EvalNext

LEMMA AsksCountRaces ==
    ASSUME IInv, Counted, NEW a \in Asks, AskChecks(a) \/ AskCreates(a) \/ AskEnqueues(a) \/ AskRefused(a)
    PROVE  Counted'
<1> DEFINE L == RunsBy("client", Open)
           C == ClientsCreating
<1>0. EvalTypeOK /\ races \in Nat
  BY DEF IInv, EvalTypeOK
<1>1. /\ IsFiniteSet(L) /\ IsFiniteSet(C) /\ Cardinality(L) + Cardinality(C) <= 1 + races
      /\ Cardinality(L) \in Nat /\ Cardinality(C) \in Nat
  BY FS_CardinalityType DEF Counted
<1>2. CASE AskChecks(a)
  <2>1. PICK by \in Triggers :
           /\ MayAsk(by)
           /\ ask' = [ask EXCEPT ![a].pc = "create", ![a].by = by]
           /\ races' = IF by = "client" /\ C # {} THEN races + 1 ELSE races
    BY <1>2 DEF AskChecks
  <2>2. L' = L /\ ask[a].pc = "idle"
    BY <1>2 DEF AskChecks, RunsBy
  <2>3. \A b \in Asks : IF b = a THEN ask'[b].pc = "create" /\ ask'[b].by = by ELSE ask'[b] = ask[b]
    BY <1>0, <2>1 DEF EvalTypeOK, AskStates
  <2>4. CASE by = "client"
    <3>1. L = {}
      BY <2>1, <2>4 DEF MayAsk, RunsBy
    <3>2. C' = C \cup {a}
      BY <2>3, <2>4 DEF ClientsCreating
    <3>3. IsFiniteSet(C') /\ Cardinality(C') <= Cardinality(C) + 1 /\ Cardinality(C') \in Nat
      <4>1. /\ IsFiniteSet(C \cup {a})
            /\ Cardinality(C \cup {a}) = IF a \in C THEN Cardinality(C) ELSE Cardinality(C) + 1
        BY <1>1, FS_AddElement
      <4>2. Cardinality(C \cup {a}) <= Cardinality(C) + 1 /\ Cardinality(C \cup {a}) \in Nat
        BY <1>1, <4>1
      <4>3. QED
        BY <3>2, <4>1, <4>2
    <3>4. Cardinality(L) = 0 /\ (C = {} => Cardinality(C) = 0)
      BY <3>1, FS_EmptySet
    <3>5. Cardinality(L') + Cardinality(C') <= 1 + races'
      BY <1>0, <1>1, <2>1, <2>2, <2>4, <3>3, <3>4
    <3>6. QED
      BY <1>1, <2>2, <3>3, <3>5 DEF Counted
  <2>5. CASE by # "client"
    <3>1. C' = C /\ races' = races
      BY <2>1, <2>2, <2>3, <2>5 DEF ClientsCreating
    <3>2. QED
      BY <1>1, <2>2, <3>1 DEF Counted
  <2>6. QED
    BY <2>4, <2>5
<1>3. CASE AskCreates(a)
  <2>1. PICK r \in Runs :
         /\ verdict[r] = "none"
         /\ verdict' = [verdict EXCEPT ![r] = "pending"]
         /\ trigger' = [trigger EXCEPT ![r] = ask[a].by]
         /\ ask' = [ask EXCEPT ![a].pc = "enqueue", ![a].run = r]
    BY <1>3 DEF AskCreates
  <2>2. ask[a].pc = "create" /\ races' = races
    BY <1>3 DEF AskCreates
  <2>3. \A b \in Asks : IF b = a THEN ask'[b].pc = "enqueue" ELSE ask'[b] = ask[b]
    BY <1>0, <2>1 DEF EvalTypeOK, AskStates
  <2>4. \A q \in Runs : IF q = r THEN trigger'[q] = ask[a].by /\ verdict[q] \notin Open
                        ELSE trigger'[q] = trigger[q] /\ verdict'[q] = verdict[q]
    BY <1>0, <2>1 DEF EvalTypeOK, Open
  <2>5. C' = C \ {a} /\ (a \in C <=> ask[a].by = "client")
    BY <2>2, <2>3 DEF ClientsCreating
  <2>6. IsFiniteSet(C') /\ Cardinality(C') = (IF a \in C THEN Cardinality(C) - 1 ELSE Cardinality(C))
    BY <1>1, <2>5, FS_RemoveElement
  <2>7. CASE ask[a].by = "client"
    <3>1. L' \subseteq L \cup {r}
      BY <2>4 DEF RunsBy
    <3>2. IsFiniteSet(L \cup {r}) /\ Cardinality(L \cup {r}) <= Cardinality(L) + 1
      <4>1. /\ IsFiniteSet(L \cup {r})
            /\ Cardinality(L \cup {r}) = IF r \in L THEN Cardinality(L) ELSE Cardinality(L) + 1
        BY <1>1, FS_AddElement
      <4>2. QED
        BY <1>1, <4>1
    <3>3. IsFiniteSet(L') /\ Cardinality(L') <= Cardinality(L \cup {r})
      BY <3>1, <3>2, FS_Subset
    <3>4. Cardinality(L') \in Nat /\ Cardinality(L \cup {r}) \in Nat
      BY <3>2, <3>3, FS_CardinalityType
    <3>5. Cardinality(L') + Cardinality(C') <= 1 + races'
      BY <1>0, <1>1, <2>2, <2>5, <2>6, <2>7, <3>2, <3>3, <3>4
    <3>6. QED
      BY <2>6, <3>3, <3>5 DEF Counted
  <2>8. CASE ask[a].by # "client"
    <3>1. L' = L
      BY <2>4, <2>8 DEF RunsBy
    <3>2. QED
      BY <1>1, <2>2, <2>5, <2>6, <2>8, <3>1 DEF Counted
  <2>9. QED
    BY <2>7, <2>8
<1>4. CASE AskEnqueues(a) \/ AskRefused(a)
  <2>1. /\ ask[a].pc = "enqueue" /\ ask' = [ask EXCEPT ![a].pc = "done"]
        /\ trigger' = trigger /\ races' = races
    BY <1>4 DEF AskEnqueues, AskRefused
  <2>2. verdict' = verdict \/ verdict' = [verdict EXCEPT ![ask[a].run] = "failed"]
    BY <1>4 DEF AskEnqueues, AskRefused
  <2>3. Closes
    BY <1>0, <2>1, <2>2 DEF EvalTypeOK, Open, Closes
  <2>4. \A b \in Asks : IF b = a THEN ask'[b].pc = "done" ELSE ask'[b] = ask[b]
    BY <1>0, <2>1 DEF EvalTypeOK, AskStates
  <2>5. C' \subseteq C
    BY <2>4 DEF ClientsCreating
  <2>6. QED
    BY <1>0, <2>1, <2>3, <2>5, FewerCounted
<1>5. QED
  BY <1>2, <1>3, <1>4

LEMMA CountedStep == IInv /\ Counted /\ [EvalNext]_evalVars => Counted'
<1> SUFFICES ASSUME IInv, Counted, [EvalNext]_evalVars PROVE Counted'
  OBVIOUS
<1>1. CASE \E a \in Asks : AskChecks(a) \/ AskCreates(a) \/ AskEnqueues(a) \/ AskRefused(a)
  BY <1>1, AsksCountRaces
<1>2. CASE ~(\E a \in Asks : AskChecks(a) \/ AskCreates(a) \/ AskEnqueues(a) \/ AskRefused(a))
  <2>1. races \in Nat
    BY DEF IInv, EvalTypeOK
  <2>2. UNCHANGED <<trigger, ask>> /\ (Closes \/ Reopens)
    BY <1>2, MachinesCountRaces
  <2>3. ClientsCreating' \subseteq ClientsCreating
    BY <2>2 DEF ClientsCreating
  <2>4. QED
    BY <2>1, <2>2, <2>3, FewerCounted, ReopenedIsCounted
<1>3. QED
  BY <1>1, <1>2

(* Every live test of the client beyond the first took a race: a request   *)
(* that checked between another's check and insert, or a worker that       *)
(* started a run the sweep had closed.                                     *)
THEOREM ClientsTestOnce == EvalSpec => []EachExtraRunIsARace
<1>1. EvalInit => Counted
  <2> SUFFICES ASSUME EvalInit PROVE Counted
    OBVIOUS
  <2>1. RunsBy("client", Open) = {} /\ ClientsCreating = {} /\ races = 0
    BY DEF EvalInit, RunsBy, ClientsCreating, NotAsking, Open
  <2>2. QED
    BY <2>1, FS_EmptySet DEF Counted
<1>2. IInv /\ Counted /\ [EvalNext]_evalVars => Counted'
  BY CountedStep
<1>3. IInv /\ Counted => EachExtraRunIsARace
  <2> SUFFICES ASSUME IInv, Counted PROVE EachExtraRunIsARace
    OBVIOUS
  <2>1. /\ races \in Nat
        /\ Cardinality(RunsBy("client", Open)) \in Nat /\ Cardinality(ClientsCreating) \in Nat
    BY FS_CardinalityType DEF IInv, EvalTypeOK, Counted
  <2>2. QED
    BY <2>1 DEF Counted, EachExtraRunIsARace
<1>4. QED
  BY <1>1, <1>2, <1>3, Invariance, PTL DEF EvalSpec
=============================================================================
