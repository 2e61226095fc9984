------------------------ MODULE ScheduledTasks_proofs ------------------------
(***************************************************************************)
(* Proofs for ScheduledTasks: for any tasks, any fires, any bounds and any *)
(* faults, the fires of a task never overlap, the in-flight keys are       *)
(* exactly those of the fires under way, every active task has exactly one *)
(* timer, waiting or going off, and, until a restart, no run whose turn    *)
(* errored is shown as a success.                                          *)
(***************************************************************************)
EXTENDS ScheduledTasks, TLAPS

(* The steps of a fire that keep it where it is, as far as the overlap     *)
(* guard is concerned, and the ones that start and release it.             *)
LEMMA KeysStep ==
    ASSUME TypeOK, KeysHeld, NoOverlap, [Next]_vars
    PROVE  KeysHeld' /\ NoOverlap'
<1> USE DEF Background, Triggering
<1>0. /\ pc = [g \in Fires |-> pc[g]]
      /\ of \in [Fires -> Tasks]
      /\ inflight \subseteq Tasks
  BY DEF TypeOK
<1>1. ASSUME UNCHANGED <<pc, of, inflight>>
      PROVE  KeysHeld' /\ NoOverlap'
  BY <1>1 DEF KeysHeld, NoOverlap
<1>2. ASSUME NEW f \in Fires, UNCHANGED <<of, inflight>>,
             NEW to, pc' = [pc EXCEPT ![f] = to],
             pc[f] \in Background <=> to \in Background
      PROVE  KeysHeld' /\ NoOverlap'
  <2>1. \A g \in Fires : pc'[g] \in Background <=> pc[g] \in Background
    BY <1>0, <1>2
  <2> HIDE DEF Background
  <2> QED
    BY <1>2, <2>1 DEF KeysHeld, NoOverlap
<1>3. ASSUME NEW f \in Fires, StartFire(f), UNCHANGED of
      PROVE  KeysHeld' /\ NoOverlap'
  <2>1. /\ pc'[f] \in Background /\ pc[f] \notin Background
        /\ \A g \in Fires \ {f} : pc'[g] = pc[g]
    BY <1>0, <1>3 DEF StartFire
  <2>2. of[f] \notin inflight /\ inflight' = inflight \cup {of[f]}
    BY <1>3 DEF StartFire
  <2> HIDE DEF Background
  <2> QED
    BY <1>3, <2>1, <2>2 DEF KeysHeld, NoOverlap
<1>4. ASSUME NEW f \in Fires, Release(f)
      PROVE  KeysHeld' /\ NoOverlap'
  <2>1. /\ pc[f] \in Background /\ pc'[f] \notin Background
        /\ \A g \in Fires \ {f} : pc'[g] = pc[g]
    BY <1>0, <1>4 DEF Release
  <2>2. inflight' = inflight \ {of[f]} /\ of' = of
    BY <1>4 DEF Release
  <2> HIDE DEF Background
  <2> QED
    BY <2>1, <2>2 DEF KeysHeld, NoOverlap
<1>5. CASE Restart
  BY <1>5 DEF TypeOK, KeysHeld, NoOverlap, Restart
<1>6. ASSUME NEW f \in Fires, Settles(f)
      PROVE  KeysHeld' /\ NoOverlap'
  <2>1. CASE ReadRow(f)
    BY <1>2, <2>1 DEF ReadRow, TypeOK
  <2>2. CASE Trigger(f)
    <3>1. CASE StartFire(f)
      BY <1>3, <2>2, <3>1 DEF Trigger
    <3>2. CASE DeclineFire(f)
      BY <1>2, <2>2, <3>2 DEF Trigger, DeclineFire, TypeOK
    <3> QED BY <2>2, <3>1, <3>2 DEF Trigger
  <2>3. CASE ReadAgain(f)
    BY <1>2, <2>3 DEF ReadAgain, TypeOK
  <2>4. CASE CannotLaunch(f)
    BY <1>2, <2>4 DEF CannotLaunch, TypeOK
  <2>5. CASE CreateSession(f)
    BY <1>2, <2>5 DEF CreateSession, TypeOK
  <2>6. CASE Dispatched(f)
    BY <1>2, <2>6 DEF Dispatched, TypeOK
  <2>7. CASE DispatchFails(f)
    BY <1>2, <2>7 DEF DispatchFails, TypeOK
  <2>8. CASE RecordRun(f)
    BY <1>2, <2>8 DEF RecordRun, TypeOK
  <2>9. CASE Release(f)
    BY <1>4, <2>9
  <2> QED BY <1>6, <2>1, <2>2, <2>3, <2>4, <2>5, <2>6, <2>7, <2>8, <2>9
          DEF Settles
<1>7. ASSUME NEW f \in Fires, Tick(f) \/ RunNow(f)
      PROVE  KeysHeld' /\ NoOverlap'
  BY <1>2, <1>7 DEF Tick, RunNow, TypeOK
<1>8. CASE \/ \E t \in Tasks : CreateTask(t) \/ DeleteTask(t) \/ Misfire(t)
           \/ \E t \in Tasks, state \in {"active", "paused"} : PatchTask(t, state)
  BY <1>1, <1>8 DEF CreateTask, DeleteTask, Misfire, PatchTask, fires
<1>9. CASE \/ \E f \in Fires : TurnStarts(f) \/ TrailingIdle(f) \/ TurnGone(f)
           \/ \E f \in Fires, how \in Ended : TurnEnds(f, how)
  BY <1>1, <1>9 DEF TurnStarts, TrailingIdle, TurnGone, TurnEnds, fires
<1>10. CASE \/ Completes \/ ReaderWrites
            \/ \E f \in Fires : Age(f) \/ ReaderReads(f)
  BY <1>1, <1>10
  DEF Completes, WorkerReads, WorkerWrites, ReaderWrites, Age, ReaderReads, fires
<1>11. CASE UNCHANGED vars
  BY <1>1, <1>11 DEF vars, fires
<1> QED
  BY <1>5, <1>6, <1>7, <1>8, <1>9, <1>10, <1>11 DEF Next

-----------------------------------------------------------------------------
(* Type correctness, one step per group of actions.                        *)

\* A published edge is queued and cached in the right form.
LEMMA PublishTypes ==
    ASSUME TypeOK, NEW f \in Fires, NEW status \in {"idle", "failed"},
           Publish(f, status)
    PROVE  /\ cache' \in [Fires -> {"none", "running", "idle", "failed"}]
           /\ queue' \in Seq(Completions)
<1>1. [fire |-> f, status |-> RunStatus(status)] \in Completions
  BY DEF RunStatus, Completions
<1>2. Append(queue, [fire |-> f, status |-> RunStatus(status)]) \in Seq(Completions)
  <2>1. ASSUME NEW e \in Completions PROVE Append(queue, e) \in Seq(Completions)
    BY DEF TypeOK
  <2> QED BY <1>1, <2>1
<1>3. /\ cache \in [Fires -> {"none", "running", "idle", "failed"}]
      /\ queue \in Seq(Completions)
  BY DEF TypeOK
<1>4. CASE status = "idle" /\ cache[f] = "failed"
  BY <1>3, <1>4 DEF Publish
<1>5. CASE ~(status = "idle" /\ cache[f] = "failed")
  <2>1. /\ cache' = [cache EXCEPT ![f] = status]
        /\ queue' = Append(queue, [fire |-> f, status |-> RunStatus(status)])
    BY <1>5 DEF Publish
  <2>2. cache' \in [Fires -> {"none", "running", "idle", "failed"}]
    BY <1>3, <2>1
  <2> QED BY <1>2, <2>1, <2>2
<1> QED
  BY <1>4, <1>5

\* The type invariant, one group of actions at a time: the routes and timers.
LEMMA TypeScheduling ==
    ASSUME TypeOK,
           \/ \E t \in Tasks : CreateTask(t) \/ DeleteTask(t) \/ Misfire(t)
           \/ \E t \in Tasks, state \in {"active", "paused"} : PatchTask(t, state)
    PROVE  TypeOK'
<1> USE DEF RowStates, scheduling, fires, history, turns, completion
<1>1. ASSUME NEW t \in Tasks, NEW state \in RowStates, Register(t, state)
      PROVE  /\ job' \in [Tasks -> 0..MaxJobs]
             /\ jobs' \in [Tasks -> 0..MaxJobs]
             /\ timer' \in [Tasks -> {"none", "set", "over"}]
  <2>1. CASE state = "active"
    <3>1. /\ jobs[t] + 1 \in 0..MaxJobs
          /\ jobs' = [jobs EXCEPT ![t] = jobs[t] + 1]
          /\ job' = [job EXCEPT ![t] = jobs[t] + 1]
      BY <1>1, <2>1, BoundsAssumption DEF TypeOK, Register
    <3>2. timer' \in [Tasks -> {"none", "set", "over"}]
      BY <1>1, <2>1 DEF TypeOK, Register, Arm
    <3> QED BY <3>1, <3>2 DEF TypeOK
  <2>2. CASE state # "active"
    <3>1. /\ 0 \in 0..MaxJobs /\ jobs' = jobs
          /\ job' = [job EXCEPT ![t] = 0]
          /\ timer' = [timer EXCEPT ![t] = "none"]
      BY <1>1, <2>2, BoundsAssumption DEF Register, Arm
    <3> QED BY <3>1 DEF TypeOK
  <2> QED BY <2>1, <2>2
<1>2. ASSUME NEW t \in Tasks, CreateTask(t) PROVE TypeOK'
  BY <1>1, <1>2 DEF TypeOK, CreateTask
<1>3. ASSUME NEW t \in Tasks, NEW state \in {"active", "paused"},
             PatchTask(t, state)
      PROVE  TypeOK'
  BY <1>1, <1>3 DEF TypeOK, PatchTask
<1>4. ASSUME NEW t \in Tasks, DeleteTask(t) PROVE TypeOK'
  <2>1. run' \in [Fires -> RunStates]
    BY <1>4 DEF TypeOK, DeleteTask, DeleteRows, RunStates
  <2> QED BY <1>1, <1>4, <2>1 DEF TypeOK, DeleteTask, DeleteRows
<1>5. ASSUME NEW t \in Tasks, Misfire(t) PROVE TypeOK'
  BY <1>5 DEF TypeOK, Misfire, Arm
<1> QED BY <1>2, <1>3, <1>4, <1>5

\* A fire, from the trigger to the release of its key.
LEMMA TypeFire ==
    ASSUME TypeOK, NEW f \in Fires, Tick(f) \/ RunNow(f) \/ Settles(f)
    PROVE  TypeOK'
<1> USE DEF Background, Triggering, Settled, scheduling, fires, history, turns,
            completion
<1>1. CASE Tick(f)
  BY <1>1 DEF TypeOK, Tick, Arm
<1>2. CASE RunNow(f)
  BY <1>2, BoundsAssumption DEF TypeOK, RunNow
<1>3. CASE ReadRow(f)
  BY <1>3 DEF TypeOK, ReadRow
<1>4. CASE Trigger(f)
  <2>1. /\ pc' \in [Fires -> {"free"} \cup Triggering \cup Background \cup Settled]
        /\ tick' \in [Fires -> 0..MaxJobs]
        /\ inflight' \in SUBSET Tasks
    <3>1. CASE StartFire(f)
      BY <3>1 DEF TypeOK, StartFire
    <3>2. CASE DeclineFire(f)
      BY <3>2, BoundsAssumption DEF TypeOK, DeclineFire
    <3> QED BY <1>4, <3>1, <3>2 DEF Trigger
  <2>2. timer' \in [Tasks -> {"none", "set", "over"}]
    BY <1>4 DEF TypeOK, Trigger, Rearm, Arm
  <2> QED BY <1>4, <2>1, <2>2 DEF TypeOK, Trigger
<1>5. CASE ReadAgain(f)
  BY <1>5 DEF TypeOK, ReadAgain
<1>6. CASE CannotLaunch(f) \/ CreateSession(f) \/ Dispatched(f)
  <2>1. CASE CannotLaunch(f)
    BY <2>1 DEF TypeOK, CannotLaunch
  <2>2. CASE CreateSession(f)
    BY <2>2 DEF TypeOK, CreateSession
  <2>3. CASE Dispatched(f)
    BY <2>3 DEF TypeOK, Dispatched
  <2> QED BY <1>6, <2>1, <2>2, <2>3
<1>7. CASE DispatchFails(f)
  <2>1. /\ cache' \in [Fires -> {"none", "running", "idle", "failed"}]
        /\ queue' \in Seq(Completions)
    BY <1>7, PublishTypes DEF DispatchFails, TypeOK
  <2> QED BY <1>7, <2>1 DEF TypeOK, DispatchFails
<1>8. CASE RecordRun(f)
  BY <1>8 DEF TypeOK, RecordRun, RunStates
<1>9. CASE Release(f)
  BY <1>9, BoundsAssumption DEF TypeOK, Release
<1> QED
  BY <1>1, <1>2, <1>3, <1>4, <1>5, <1>6, <1>7, <1>8, <1>9 DEF Settles

\* The turn of a conversation on its runner.
LEMMA TypeTurn ==
    ASSUME TypeOK, NEW f \in Fires,
           \/ TurnStarts(f) \/ TrailingIdle(f) \/ TurnGone(f)
           \/ \E how \in Ended : TurnEnds(f, how)
    PROVE  TypeOK'
<1> USE DEF scheduling, fires, history, turns, completion
<1>1. CASE TurnStarts(f) \/ TurnGone(f)
  BY <1>1 DEF TypeOK, TurnStarts, TurnGone
<1>2. CASE TrailingIdle(f)
  BY <1>2, PublishTypes DEF TypeOK, TrailingIdle
<1>3. ASSUME NEW how \in Ended, TurnEnds(f, how) PROVE TypeOK'
  BY <1>3, PublishTypes DEF TypeOK, TurnEnds
<1> QED BY <1>1, <1>2, <1>3

\* The completion worker and the backstop.
LEMMA TypeCompletion ==
    ASSUME TypeOK,
           \/ Completes \/ ReaderWrites
           \/ \E f \in Fires : Age(f) \/ ReaderReads(f)
    PROVE  TypeOK'
<1> USE DEF scheduling, fires, history, turns, completion
<1>1. CASE WorkerReads
  <2>1. Head(queue) \in Completions /\ Tail(queue) \in Seq(Completions)
    BY <1>1 DEF TypeOK, WorkerReads
  <2> HIDE DEF Completions
  <2> QED BY <1>1, <2>1 DEF TypeOK, WorkerReads
<1>2. CASE WorkerWrites
  <2>1. worker.status \in {"succeeded", "failed"}
    BY <1>2 DEF TypeOK, WorkerWrites, Completions
  <2>2. run' \in [Fires -> RunStates]
    BY <1>2, <2>1 DEF TypeOK, WorkerWrites, Write, RunStates
  <2> QED BY <1>2, <2>2 DEF TypeOK, WorkerWrites
<1>3. CASE ReaderWrites
  BY <1>3 DEF TypeOK, ReaderWrites, Write, RunStates
<1>4. ASSUME NEW f \in Fires, Age(f) \/ ReaderReads(f) PROVE TypeOK'
  BY <1>4 DEF TypeOK, Age, ReaderReads
<1> QED BY <1>1, <1>2, <1>3, <1>4 DEF Completes

\* A restart forgets all but the rows and the turns.
LEMMA TypeRestart ==
    ASSUME TypeOK, Restart
    PROVE  TypeOK'
<1> USE DEF scheduling, fires, history, turns, completion
<1>1. /\ job' \in [Tasks -> 0..MaxJobs]
      /\ jobs' \in [Tasks -> 0..MaxJobs]
      /\ restarts' \in 0..MaxRestarts
  BY BoundsAssumption DEF TypeOK, Restart
<1>2. pc' \in [Fires -> {"free"} \cup Triggering \cup Background \cup Settled]
  BY DEF TypeOK, Restart, Settled
<1> QED
  BY <1>1, <1>2, BoundsAssumption DEF TypeOK, Restart

\* Every step keeps the type invariant.
LEMMA TypeStep ==
    ASSUME TypeOK, [Next]_vars
    PROVE  TypeOK'
<1>1. CASE UNCHANGED vars
  BY <1>1 DEF TypeOK, vars, scheduling, fires, history, turns, completion
<1> QED
  BY <1>1, TypeScheduling, TypeFire, TypeTurn, TypeCompletion, TypeRestart
  DEF Next

-----------------------------------------------------------------------------
(* One timer per task.  A job number is never used twice (TicksAreOld), so *)
(* a coroutine of a replaced job is never mistaken for the current one's.  *)

\* A step that starts or ends no trigger leaves the timers alone.
LEMMA TimerUntouched ==
    ASSUME TicksAreOld, OneTimerPerTask,
           UNCHANGED <<row, job, jobs, timer, of, tick>>,
           \A f \in Fires : pc'[f] \in Triggering <=> pc[f] \in Triggering
    PROVE  TicksAreOld' /\ OneTimerPerTask'
<1>1. \A t \in Tasks : TriggeredBy(t)' = TriggeredBy(t)
  BY DEF TriggeredBy
<1> QED
  BY <1>1 DEF TicksAreOld, OneTimerPerTask

\* A registration cancels the old timer and arms the one of a new job.
LEMMA TimerRegister ==
    ASSUME TypeOK, TicksAreOld, OneTimerPerTask,
           NEW t \in Tasks, NEW state \in RowStates, Register(t, state),
           row' = [row EXCEPT ![t] = state], UNCHANGED <<pc, of, tick>>
    PROVE  TicksAreOld' /\ OneTimerPerTask'
<1>0. /\ row \in [Tasks -> RowStates] /\ job \in [Tasks -> Nat]
      /\ jobs \in [Tasks -> Nat] /\ tick \in [Fires -> Nat]
      /\ of \in [Fires -> Tasks] /\ timer = [u \in Tasks |-> timer[u]]
  BY BoundsAssumption DEF TypeOK
<1>1. \A u \in Tasks \ {t} : /\ row'[u] = row[u] /\ job'[u] = job[u]
                             /\ jobs'[u] = jobs[u] /\ timer'[u] = timer[u]
  BY <1>0 DEF Register, Arm
<1>2. \A u \in Tasks \ {t} : TriggeredBy(u)' = TriggeredBy(u)
  BY <1>1 DEF TriggeredBy
<1>3. row'[t] = state
  BY <1>0
<1>4. CASE state = "active"
  <2>1. /\ jobs'[t] = jobs[t] + 1 /\ job'[t] = jobs[t] + 1
        /\ timer'[t] \in {"set", "over"}
    BY <1>0, <1>4 DEF Register, Arm
  <2>2. TriggeredBy(t)' = {}
    BY <1>0, <2>1 DEF TriggeredBy, TicksAreOld
  <2>3. TicksAreOld'
    BY <1>0, <1>1, <2>1 DEF TicksAreOld
  <2> QED
    BY <1>0, <1>1, <1>2, <1>3, <1>4, <2>1, <2>2, <2>3 DEF OneTimerPerTask
<1>5. CASE state # "active"
  <2>1. jobs' = jobs /\ job'[t] = 0 /\ timer'[t] = "none"
    BY <1>0, <1>5 DEF Register, Arm
  <2>2. TicksAreOld'
    BY <1>0, <1>1, <2>1 DEF TicksAreOld
  <2> QED
    BY <1>1, <1>2, <1>3, <1>5, <2>1, <2>2 DEF OneTimerPerTask
<1> QED BY <1>4, <1>5

(* The timer goes off: from waiting to going off, for one task.            *)
LEMMA TimerTick ==
    ASSUME TypeOK, TicksAreOld, OneTimerPerTask, NEW f \in Fires, Tick(f)
    PROVE  TicksAreOld' /\ OneTimerPerTask'
<1> USE DEF Triggering
<1>0. /\ job \in [Tasks -> Nat] /\ jobs \in [Tasks -> Nat]
      /\ tick \in [Fires -> Nat] /\ of \in [Fires -> Tasks]
      /\ timer = [u \in Tasks |-> timer[u]] /\ pc = [g \in Fires |-> pc[g]]
  BY BoundsAssumption DEF TypeOK
<1>1. /\ of' = of /\ row' = row /\ job' = job /\ jobs' = jobs
      /\ pc[f] = "free" /\ timer[of[f]] = "set" /\ timer'[of[f]] = "none"
      /\ tick'[f] = job[of[f]] /\ pc'[f] = "reading"
      /\ \A g \in Fires \ {f} : tick'[g] = tick[g] /\ pc'[g] = pc[g]
      /\ \A u \in Tasks \ {of[f]} : timer'[u] = timer[u]
  BY <1>0 DEF Tick, Arm
<1>2. row[of[f]] = "active" /\ job[of[f]] # 0 /\ TriggeredBy(of[f]) = {}
  BY <1>0, <1>1 DEF OneTimerPerTask
<1>3. TriggeredBy(of[f])' = {f}
  BY <1>0, <1>1, <1>2 DEF TriggeredBy
<1>4. \A u \in Tasks \ {of[f]} : TriggeredBy(u)' = TriggeredBy(u)
  BY <1>0, <1>1 DEF TriggeredBy
<1>5. TicksAreOld'
  BY <1>0, <1>1 DEF TicksAreOld
<1> QED
  BY <1>0, <1>1, <1>2, <1>3, <1>4, <1>5 DEF OneTimerPerTask

(* The coroutine ends and re-arms, if its job is still the registered one. *)
LEMMA TimerTrigger ==
    ASSUME TypeOK, TicksAreOld, OneTimerPerTask, NEW f \in Fires, Trigger(f)
    PROVE  TicksAreOld' /\ OneTimerPerTask'
<1> USE DEF Triggering
<1>0. /\ job \in [Tasks -> Nat] /\ jobs \in [Tasks -> Nat]
      /\ tick \in [Fires -> Nat] /\ of \in [Fires -> Tasks]
      /\ timer = [u \in Tasks |-> timer[u]] /\ pc = [g \in Fires |-> pc[g]]
  BY BoundsAssumption DEF TypeOK
<1>1. /\ of' = of /\ row' = row /\ job' = job /\ jobs' = jobs
      /\ pc[f] \in Triggering /\ pc'[f] \notin Triggering
      /\ tick'[f] \in {0, tick[f]}
      /\ \A g \in Fires \ {f} : tick'[g] = tick[g] /\ pc'[g] = pc[g]
  BY <1>0 DEF Trigger, StartFire, DeclineFire
<1>2. TicksAreOld'
  BY <1>0, <1>1 DEF TicksAreOld
<1>3. \A u \in Tasks : TriggeredBy(u)' = TriggeredBy(u) \ {f}
  BY <1>0, <1>1 DEF TriggeredBy
<1>4. CASE tick[f] # 0 /\ job[of[f]] = tick[f]
  <2>1. /\ timer'[of[f]] \in {"set", "over"}
        /\ \A u \in Tasks \ {of[f]} : timer'[u] = timer[u]
    BY <1>0, <1>4 DEF Trigger, Rearm, Arm
  <2>2. f \in TriggeredBy(of[f])
    BY <1>1, <1>4 DEF TriggeredBy
  <2>3. row[of[f]] = "active" /\ TriggeredBy(of[f]) = {f}
    BY <1>0, <1>4, <2>2 DEF OneTimerPerTask
  <2>4. TriggeredBy(of[f])' = {}
    BY <1>0, <1>1, <1>3, <2>3
  <2>5. \A u \in Tasks \ {of[f]} : TriggeredBy(u)' = TriggeredBy(u)
    BY <1>3 DEF TriggeredBy
  <2> QED
    BY <1>0, <1>1, <1>2, <2>1, <2>3, <2>4, <2>5 DEF OneTimerPerTask
<1>5. CASE ~(tick[f] # 0 /\ job[of[f]] = tick[f])
  <2>1. timer' = timer
    BY <1>5 DEF Trigger, Rearm
  <2>2. \A u \in Tasks : f \notin TriggeredBy(u)
    BY <1>5 DEF TriggeredBy
  <2>3. \A u \in Tasks : TriggeredBy(u)' = TriggeredBy(u)
    BY <1>3, <2>2
  <2> QED
    BY <1>1, <1>2, <2>1, <2>3 DEF OneTimerPerTask
<1> QED BY <1>4, <1>5

\* start() arms one timer for each active row.
LEMMA TimerRestart ==
    ASSUME TypeOK, TicksAreOld, OneTimerPerTask, Restart
    PROVE  TicksAreOld' /\ OneTimerPerTask'
<1>0. /\ job \in [Tasks -> Nat] /\ jobs \in [Tasks -> Nat]
      /\ of \in [Fires -> Tasks]
  BY BoundsAssumption DEF TypeOK
<1>1. of' = of /\ row' = row /\ \A f \in Fires : tick'[f] = 0
  BY DEF Restart
<1>4. ASSUME NEW t \in Tasks
      PROVE  /\ row[t] = "active" => /\ jobs'[t] = jobs[t] + 1
                                     /\ job'[t] = jobs[t] + 1
                                     /\ timer'[t] # "none"
             /\ row[t] # "active" => /\ jobs'[t] = jobs[t]
                                     /\ job'[t] = 0
                                     /\ timer'[t] = "none"
  BY DEF Restart
<1>2. \A t \in Tasks : TriggeredBy(t)' = {}
  BY <1>1 DEF TriggeredBy
<1>3. TicksAreOld'
  <2>1. \A t \in Tasks : jobs'[t] \in Nat /\ job'[t] <= jobs'[t]
    BY <1>0, <1>4
  <2> QED
    BY <1>0, <1>1, <2>1 DEF TicksAreOld
<1> QED
  BY <1>0, <1>1, <1>2, <1>3, <1>4 DEF OneTimerPerTask

\* Every step keeps one timer for each active task.
LEMMA TimerStep ==
    ASSUME TypeOK, TicksAreOld, OneTimerPerTask, [Next]_vars
    PROVE  TicksAreOld' /\ OneTimerPerTask'
<1> USE DEF Triggering, scheduling, fires
<1>0. pc = [g \in Fires |-> pc[g]]
  BY DEF TypeOK
<1>1. ASSUME UNCHANGED <<row, job, jobs, timer, of, tick, pc>>
      PROVE  TicksAreOld' /\ OneTimerPerTask'
  BY <1>1, TimerUntouched
<1>2. ASSUME NEW t \in Tasks, CreateTask(t)
      PROVE  TicksAreOld' /\ OneTimerPerTask'
  BY <1>2, TimerRegister DEF CreateTask, RowStates
<1>3. ASSUME NEW t \in Tasks, NEW state \in {"active", "paused"},
             PatchTask(t, state)
      PROVE  TicksAreOld' /\ OneTimerPerTask'
  BY <1>3, TimerRegister DEF PatchTask, RowStates
<1>4. ASSUME NEW t \in Tasks, DeleteTask(t)
      PROVE  TicksAreOld' /\ OneTimerPerTask'
  BY <1>4, TimerRegister DEF DeleteTask, DeleteRows, RowStates
<1>5. ASSUME NEW t \in Tasks, Misfire(t)
      PROVE  TicksAreOld' /\ OneTimerPerTask'
  <2>1. /\ UNCHANGED <<row, job, jobs, of, tick, pc>>
        /\ timer[t] = "set" /\ timer'[t] = "over"
        /\ \A u \in Tasks \ {t} : timer'[u] = timer[u]
    BY <1>5 DEF Misfire, Arm, TypeOK
  <2>2. \A u \in Tasks : TriggeredBy(u)' = TriggeredBy(u)
    BY <2>1 DEF TriggeredBy
  <2>3. TicksAreOld'
    BY <2>1 DEF TicksAreOld
  <2> QED BY <2>1, <2>2, <2>3 DEF OneTimerPerTask
<1>6. ASSUME NEW f \in Fires, RunNow(f) \/ Release(f)
      PROVE  TicksAreOld' /\ OneTimerPerTask'
  <2>1. /\ UNCHANGED <<row, job, jobs, timer, of>>
        /\ tick'[f] = 0 /\ pc[f] \notin Triggering
        /\ \A g \in Fires \ {f} : pc'[g] = pc[g] /\ tick'[g] = tick[g]
    BY <1>0, <1>6 DEF RunNow, Release, TypeOK
  <2>2. \A u \in Tasks : TriggeredBy(u)' = TriggeredBy(u)
    BY <2>1 DEF TriggeredBy
  <2>3. TicksAreOld'
    <3>1. of \in [Fires -> Tasks] /\ jobs \in [Tasks -> Nat]
      BY BoundsAssumption DEF TypeOK
    <3> QED BY <2>1, <3>1 DEF TicksAreOld
  <2> QED BY <2>1, <2>2, <2>3 DEF OneTimerPerTask
<1>7. ASSUME NEW f \in Fires, Settles(f)
      PROVE  TicksAreOld' /\ OneTimerPerTask'
  <2>1. CASE Trigger(f)
    BY <2>1, TimerTrigger
  <2>2. CASE Release(f)
    BY <1>6, <2>2
  <2>3. CASE ReadRow(f)
    BY <1>0, <2>3, TimerUntouched DEF ReadRow
  <2>4. CASE ReadAgain(f)
    BY <1>0, <2>4, TimerUntouched DEF ReadAgain
  <2>5. CASE CannotLaunch(f) \/ CreateSession(f) \/ Dispatched(f)
    BY <1>0, <2>5, TimerUntouched DEF CannotLaunch, CreateSession, Dispatched
  <2>6. CASE DispatchFails(f) \/ RecordRun(f)
    BY <1>0, <2>6, TimerUntouched DEF DispatchFails, RecordRun
  <2> QED BY <1>7, <2>1, <2>2, <2>3, <2>4, <2>5, <2>6 DEF Settles
<1>8. CASE \/ \E f \in Fires : TurnStarts(f) \/ TrailingIdle(f) \/ TurnGone(f)
           \/ \E f \in Fires, how \in Ended : TurnEnds(f, how)
  BY <1>1, <1>8 DEF TurnStarts, TrailingIdle, TurnGone, TurnEnds
<1>9. CASE \/ Completes \/ ReaderWrites
           \/ \E f \in Fires : Age(f) \/ ReaderReads(f)
  BY <1>1, <1>9
  DEF Completes, WorkerReads, WorkerWrites, ReaderWrites, Age, ReaderReads
<1>10. CASE UNCHANGED vars
  BY <1>1, <1>10 DEF vars
<1> QED
  BY <1>2, <1>3, <1>4, <1>5, <1>6, <1>7, <1>8, <1>9, <1>10, TimerTick,
     TimerRestart DEF Next

-----------------------------------------------------------------------------
\* Before the first task there is no timer, key or fire.
LEMMA InitIInv == Init => IInv
<1> SUFFICES ASSUME Init PROVE IInv
  OBVIOUS
<1>1. TypeOK
  BY BoundsAssumption DEF Init, TypeOK, RowStates, RunStates
<1>2. \A t \in Tasks : job[t] = 0 /\ jobs[t] = 0 /\ row[t] = "absent"
                       /\ timer[t] = "none"
  BY DEF Init
<1>3. \A f \in Fires : pc[f] = "free" /\ tick[f] = 0 /\ of[f] \in Tasks
  BY DEF Init
<1>4. KeysHeld /\ NoOverlap
  BY <1>3 DEF Init, KeysHeld, NoOverlap, Background
<1>5. TicksAreOld
  BY <1>2, <1>3 DEF TicksAreOld
<1>6. OneTimerPerTask
  BY <1>2 DEF OneTimerPerTask
<1> QED BY <1>1, <1>4, <1>5, <1>6 DEF IInv

(* The inductive invariant of the scheduled tasks: the types, the overlap  *)
(* guard with its keys, and the timers with the age of their jobs.         *)
THEOREM Invariance == Spec => []IInv
<1>1. IInv /\ [Next]_vars => IInv'
  BY KeysStep, TypeStep, TimerStep DEF IInv
<1> QED
  BY InitIInv, <1>1, PTL DEF Spec

(* Every variable keeps its type, for any number of tasks and fires.       *)
THEOREM Typing == Spec => []TypeOK
<1>1. IInv => TypeOK
  BY DEF IInv
<1> QED BY Invariance, <1>1, PTL

(* No two background fires of one task run at once (_IN_FLIGHT_TASKS).     *)
THEOREM FiresNeverOverlap == Spec => []NoOverlap
<1>1. IInv => NoOverlap
  BY DEF IInv
<1> QED BY Invariance, <1>1, PTL

(* The in-flight keys are exactly those of the fires under way: the done   *)
(* callback gives back every key that _trigger_fire took.                  *)
THEOREM NoKeyLeaks == Spec => []KeysBelongToFires
<1>1. IInv => KeysBelongToFires
  <2> SUFFICES ASSUME TypeOK, KeysHeld PROVE KeysBelongToFires
    BY DEF IInv
  <2>1. \A t \in inflight : t \in {of[f] : f \in {g \in Fires : pc[g] \in Background}}
    BY DEF KeysHeld
  <2>2. \A t \in {of[f] : f \in {g \in Fires : pc[g] \in Background}} : t \in inflight
    BY DEF KeysHeld
  <2> QED BY <2>1, <2>2 DEF KeysBelongToFires
<1> QED BY Invariance, <1>1, PTL

(* Every active task has exactly one timer, waiting or going off, however  *)
(* edits, deletions and restarts interleave with its ticks.                *)
THEOREM OneTimerEach == Spec => []OneTimerPerTask
<1>1. IInv => OneTimerPerTask
  BY DEF IInv
<1> QED BY Invariance, <1>1, PTL
-----------------------------------------------------------------------------
(* What a run is reported as.  Three places hold a claim that the turn of  *)
(* a fire ended well: the run's row, the completion the worker is about to *)
(* write, and the completions still queued.  A queued claim may be false,  *)
(* since a failed forward publishes idle whatever the turn does: then the  *)
(* fire records its run as failed, and the worker will not find it running.*)

(* The fire is past the write of its row.                                  *)
Recorded(f) == pc[f] \in {"ending", "ended"}

WellEnded(f) == turn[f] \in {"completed", "stopped"}

(* The row of the fire is not running and never will be.                   *)
NeverRuns(f) ==
    /\ run[f] # "running"
    /\ Recorded(f) \/ (pc[f] = "recording" /\ intent[f] = "failed")

(* A success claimed for a turn that did not end well is one the worker    *)
(* will drop.                                                              *)
ClaimSound(c) ==
    c.status = "succeeded" => WellEnded(c.fire) \/ NeverRuns(c.fire)

(* The failed edge of an errored turn is still cached; a row that was      *)
(* written, or that the backstop holds, is of a fire past its write.       *)
FireSound(f) ==
    /\ turn[f] = "errored" => cache[f] = "failed"
    /\ run[f] # "none" \/ f = reader => Recorded(f)
    /\ run[f] = "succeeded" => WellEnded(f)

(* The worker holds a completion only of a run it found running.           *)
WorkerSound ==
    worker # NoCompletion =>
        /\ Recorded(worker.fire)
        /\ worker.status = "succeeded" => WellEnded(worker.fire)

(* As long as the server stays up: no claim is a lie that will be believed.*)
EdgesInv ==
    restarts = 0 => /\ \A f \in Fires : FireSound(f)
                    /\ WorkerSound
                    /\ \A i \in 1..Len(queue) : ClaimSound(queue[i])

(* Every completion is of a fire.                                          *)
LEMMA ClaimsTyped ==
    ASSUME TypeOK
    PROVE  /\ \A i \in 1..Len(queue) : queue[i].fire \in Fires
           /\ queue # <<>> => Head(queue).fire \in Fires
           /\ worker # NoCompletion => worker.fire \in Fires
<1>1. \A c \in Completions : c.fire \in Fires
  BY DEF Completions
<1>2. queue \in Seq(Completions) /\ worker \in Completions \cup {NoCompletion}
  BY DEF TypeOK
<1> HIDE DEF Completions
<1>3. /\ \A i \in 1..Len(queue) : queue[i] \in Completions
      /\ queue # <<>> => Head(queue) \in Completions
  BY <1>2
<1> QED BY <1>1, <1>2, <1>3

(* A step that publishes nothing, moves no completion and ends no turn,    *)
(* and moves a fire only forwards, keeps every claim as sound as it was.   *)
LEMMA EdgesQuiet ==
    ASSUME EdgesInv, UNCHANGED <<turn, cache, queue, worker, restarts>>,
           TypeOK,
           \A f \in Fires :
               /\ Recorded(f) => Recorded(f)'
               /\ pc[f] = "recording" /\ intent[f] = "failed"
                     => \/ pc'[f] = "recording" /\ intent'[f] = "failed"
                        \/ pc'[f] = "ending"
               /\ run'[f] # "none" \/ f = reader' => Recorded(f)'
               /\ run'[f] = "succeeded" => run[f] = "succeeded"
               /\ run'[f] = "running" => \/ run[f] = "running"
                                         \/ pc[f] = "recording" /\ intent[f] = "running"
    PROVE  EdgesInv'
<1> SUFFICES ASSUME restarts = 0 PROVE EdgesInv'
  BY DEF EdgesInv
<1>1. \A f \in Fires : /\ WellEnded(f) => WellEnded(f)'
                       /\ NeverRuns(f) => NeverRuns(f)'
  BY DEF WellEnded, NeverRuns, Recorded
<1>2. /\ \A i \in 1..Len(queue) : queue[i].fire \in Fires
      /\ worker # NoCompletion => worker.fire \in Fires
  BY ClaimsTyped
<1>3. \A i \in 1..Len(queue') : ClaimSound(queue[i])'
  BY <1>1, <1>2 DEF ClaimSound, EdgesInv
<1>4. WorkerSound'
  BY <1>1, <1>2 DEF EdgesInv, WorkerSound
<1>5. \A f \in Fires : FireSound(f)'
  BY <1>1 DEF EdgesInv, FireSound
<1> QED
  BY <1>3, <1>4, <1>5 DEF EdgesInv

(* Routes, timers, the fire path up to the dispatch, the row's first write *)
(* and the backstop.                                                       *)
LEMMA EdgesFire ==
    ASSUME TypeOK, EdgesInv,
           \/ \E t \in Tasks : CreateTask(t) \/ DeleteTask(t) \/ Misfire(t)
           \/ \E t \in Tasks, state \in {"active", "paused"} : PatchTask(t, state)
           \/ \E f \in Fires : \/ Tick(f) \/ RunNow(f) \/ ReadRow(f) \/ Trigger(f)
                               \/ ReadAgain(f) \/ CannotLaunch(f) \/ CreateSession(f)
                               \/ Dispatched(f) \/ RecordRun(f) \/ Release(f)
                               \/ Age(f) \/ ReaderReads(f)
           \/ ReaderWrites,
           restarts = 0
    PROVE  EdgesInv'
<1> USE DEF scheduling, fires, history, turns, completion
<1>0. /\ pc = [g \in Fires |-> pc[g]] /\ run = [g \in Fires |-> run[g]]
      /\ intent = [g \in Fires |-> intent[g]]
      /\ \A g \in Fires : run[g] # "none" \/ g = reader => Recorded(g)
  BY DEF TypeOK, EdgesInv, FireSound
<1>1. ASSUME UNCHANGED <<turn, cache, queue, worker, restarts, pc, intent, run, reader>>
      PROVE  EdgesInv'
  BY <1>0, <1>1, EdgesQuiet DEF Recorded
<1>2. CASE \/ \E t \in Tasks : CreateTask(t) \/ Misfire(t)
           \/ \E t \in Tasks, state \in {"active", "paused"} : PatchTask(t, state)
           \/ \E f \in Fires : Age(f)
  BY <1>1, <1>2 DEF CreateTask, Misfire, PatchTask, Age
<1>9. ASSUME NEW f \in Fires, ReaderReads(f) PROVE EdgesInv'
  <2>1. /\ UNCHANGED <<turn, cache, queue, worker, restarts, pc, intent, run>>
        /\ reader' = f /\ run[f] = "running"
    BY <1>9 DEF ReaderReads
  <2> QED BY <1>0, <2>1, EdgesQuiet DEF Recorded
<1>3. ASSUME NEW t \in Tasks, DeleteTask(t) PROVE EdgesInv'
  <2>1. \A f \in Fires : run'[f] = run[f] \/ (run'[f] = "deleted" /\ run[f] # "none")
    BY <1>3 DEF DeleteTask, DeleteRows
  <2>2. UNCHANGED <<turn, cache, queue, worker, restarts, pc, intent, reader>>
    BY <1>3 DEF DeleteTask
  <2> QED BY <1>0, <2>1, <2>2, EdgesQuiet DEF Recorded
<1>4. ASSUME ReaderWrites PROVE EdgesInv'
  <2>1. \A f \in Fires : \/ run'[f] = run[f]
                         \/ run'[f] = "incomplete" /\ f = reader
    BY <1>0, <1>4 DEF ReaderWrites, Write
  <2>2. /\ UNCHANGED <<turn, cache, queue, worker, restarts, pc, intent>>
        /\ reader' \notin Fires
    BY <1>4, FiresAssumption DEF ReaderWrites
  <2> QED BY <1>0, <2>1, <2>2, EdgesQuiet DEF Recorded
<1>5. ASSUME NEW f \in Fires,
             UNCHANGED <<turn, cache, queue, worker, reader, restarts, run,
                         intent>>,
             NEW from, NEW to, pc[f] = from, pc' = [pc EXCEPT ![f] = to],
             from # "recording",
             from \in {"ending", "ended"} => to \in {"ending", "ended"}
      PROVE  EdgesInv'
  <2>1. pc'[f] = to /\ \A g \in Fires \ {f} : pc'[g] = pc[g]
    BY <1>0, <1>5
  <2> QED BY <1>0, <1>5, <2>1, EdgesQuiet DEF Recorded
<1>6. ASSUME NEW f \in Fires,
             \/ Tick(f) \/ RunNow(f) \/ ReadRow(f) \/ Trigger(f) \/ ReadAgain(f)
             \/ CreateSession(f) \/ Release(f)
      PROVE  EdgesInv'
  <2>1. CASE Tick(f)
    BY <1>5, <2>1 DEF Tick
  <2>2. CASE RunNow(f)
    BY <1>5, <2>2 DEF RunNow
  <2>3. CASE ReadRow(f)
    BY <1>5, <2>3 DEF ReadRow
  <2>4. CASE Trigger(f)
    BY <1>5, <2>4 DEF Trigger, StartFire, DeclineFire
  <2>5. CASE ReadAgain(f)
    BY <1>5, <2>5 DEF ReadAgain
  <2>6. CASE CreateSession(f)
    BY <1>5, <2>6 DEF CreateSession
  <2>7. CASE Release(f)
    BY <1>5, <2>7 DEF Release
  <2> QED BY <1>6, <2>1, <2>2, <2>3, <2>4, <2>5, <2>6, <2>7
<1>7. ASSUME NEW f \in Fires, CannotLaunch(f) \/ Dispatched(f) PROVE EdgesInv'
  <2>1. /\ UNCHANGED <<turn, cache, queue, worker, reader, restarts, run>>
        /\ pc[f] \in {"working", "dispatching"} /\ pc'[f] = "recording"
        /\ \A g \in Fires \ {f} : pc'[g] = pc[g] /\ intent'[g] = intent[g]
    BY <1>0, <1>7 DEF CannotLaunch, Dispatched
  <2> QED BY <1>0, <2>1, EdgesQuiet DEF Recorded
<1>8. ASSUME NEW f \in Fires, RecordRun(f) PROVE EdgesInv'
  <2>1. /\ UNCHANGED <<turn, cache, queue, worker, reader, restarts>>
        /\ pc[f] = "recording" /\ pc'[f] = "ending"
        /\ run'[f] \in {run[f], intent[f]} /\ intent[f] # "succeeded"
        /\ \A g \in Fires \ {f} : /\ pc'[g] = pc[g] /\ intent'[g] = intent[g]
                                  /\ run'[g] = run[g]
    BY <1>0, <1>8 DEF RecordRun, TypeOK
  <2> QED BY <1>0, <2>1, EdgesQuiet DEF Recorded
<1> QED
  BY <1>2, <1>3, <1>4, <1>6, <1>7, <1>8, <1>9

(* A terminal edge: the sticky guard keeps idle off a failed turn, so the  *)
(* claim it submits is sound when its turn ended well or its run is over.  *)
LEMMA EdgesPublish ==
    ASSUME TypeOK, EdgesInv, restarts = 0,
           UNCHANGED <<worker, run, reader, restarts>>,
           NEW f \in Fires, NEW status \in {"idle", "failed"}, Publish(f, status),
           \A g \in Fires \ {f} : /\ turn'[g] = turn[g] /\ pc'[g] = pc[g]
                                  /\ intent'[g] = intent[g],
           turn[f] # "running" => turn'[f] = turn[f],
           run[f] # "none" \/ f = reader => Recorded(f)',
           Recorded(f) => Recorded(f)',
           NeverRuns(f) => NeverRuns(f)',
           turn'[f] = "errored" => cache[f] = "failed" \/ status = "failed",
           status = "idle" /\ cache[f] # "failed" => WellEnded(f)' \/ NeverRuns(f)'
    PROVE  EdgesInv'
<1> DEFINE claim == [fire |-> f, status |-> RunStatus(status)]
<1>0. cache = [g \in Fires |-> cache[g]] /\ queue \in Seq(Completions)
  BY DEF TypeOK
<1>1. \A g \in Fires : /\ WellEnded(g) => WellEnded(g)'
                       /\ NeverRuns(g) => NeverRuns(g)'
                       /\ Recorded(g) => Recorded(g)'
  BY DEF WellEnded, NeverRuns, Recorded
<1>2. \A i \in 1..Len(queue) : queue[i].fire \in Fires
  BY ClaimsTyped
<1>3. ASSUME NEW i \in 1..Len(queue), queue[i].status = "succeeded"
      PROVE  \E g \in Fires : g = queue[i].fire /\ (WellEnded(g)' \/ NeverRuns(g)')
  BY <1>1, <1>2, <1>3 DEF ClaimSound, EdgesInv
<1>4. /\ queue' = queue \/ queue' = Append(queue, claim)
      /\ queue' = queue \/ status = "failed" \/ cache[f] # "failed"
      /\ \A g \in Fires \ {f} : cache'[g] = cache[g]
      /\ cache'[f] = IF status = "idle" /\ cache[f] = "failed" THEN "failed" ELSE status
  BY <1>0 DEF Publish
<1>5. claim.fire = f /\ (claim.status = "succeeded" => status = "idle")
  BY DEF RunStatus
<1> HIDE DEF claim
<1>6. \A i \in 1..Len(queue') : ClaimSound(queue[i])'
  <2>1. CASE queue' = queue
    BY <1>3, <2>1 DEF EdgesInv, ClaimSound
  <2>2. CASE queue' # queue
    <3>1. queue' = Append(queue, claim)
      BY <1>4, <2>2
    <3>2. claim.status = "succeeded" => WellEnded(f)' \/ NeverRuns(f)'
      BY <1>4, <1>5, <2>2
    <3>3. \A i \in 1..Len(queue') : \/ i \in 1..Len(queue) /\ queue'[i] = queue[i]
                                    \/ queue'[i] = claim
      BY <1>0, <3>1
    <3> QED
      BY <1>3, <1>5, <3>2, <3>3 DEF EdgesInv, ClaimSound, WellEnded, NeverRuns, Recorded
  <2> QED BY <2>1, <2>2
<1>7. WorkerSound'
  <2>1. worker # NoCompletion => worker.fire \in Fires
    BY ClaimsTyped
  <2> QED BY <1>1, <2>1 DEF EdgesInv, WorkerSound
<1>8. \A g \in Fires : FireSound(g)'
  BY <1>1, <1>4 DEF EdgesInv, FireSound
<1> QED
  BY <1>6, <1>7, <1>8 DEF EdgesInv

(* The turn starts, ends, is reported once more or vanishes, and a         *)
(* dispatch fails.                                                         *)
LEMMA EdgesTurn ==
    ASSUME TypeOK, EdgesInv, restarts = 0, NEW f \in Fires,
           \/ TurnStarts(f) \/ TrailingIdle(f) \/ TurnGone(f) \/ DispatchFails(f)
           \/ \E how \in Ended : TurnEnds(f, how)
    PROVE  EdgesInv'
<1> USE DEF scheduling, fires, history, turns, completion
<1>0. /\ turn = [g \in Fires |-> turn[g]] /\ cache = [g \in Fires |-> cache[g]]
      /\ pc = [g \in Fires |-> pc[g]] /\ intent = [g \in Fires |-> intent[g]]
  BY DEF TypeOK
<1>1. ASSUME TurnStarts(f) \/ TurnGone(f) PROVE EdgesInv'
  <2>1. /\ UNCHANGED <<pc, intent, run, queue, worker, reader, restarts>>
        /\ turn[f] \in {"none", "running"} /\ turn'[f] \in {"running", "gone"}
        /\ \A g \in Fires \ {f} : turn'[g] = turn[g] /\ cache'[g] = cache[g]
    BY <1>0, <1>1 DEF TurnStarts, TurnGone
  <2>2. \A g \in Fires : /\ WellEnded(g) <=> WellEnded(g)'
                         /\ NeverRuns(g) <=> NeverRuns(g)'
                         /\ Recorded(g) <=> Recorded(g)'
    BY <2>1 DEF WellEnded, NeverRuns, Recorded
  <2>3. /\ \A i \in 1..Len(queue) : queue[i].fire \in Fires
        /\ worker # NoCompletion => worker.fire \in Fires
    BY ClaimsTyped
  <2>4. \A i \in 1..Len(queue') : ClaimSound(queue[i])'
    BY <2>1, <2>2, <2>3 DEF ClaimSound, EdgesInv
  <2>5. WorkerSound'
    BY <2>1, <2>2, <2>3 DEF EdgesInv, WorkerSound
  <2>6. \A g \in Fires : FireSound(g)'
    BY <2>1, <2>2 DEF EdgesInv, FireSound
  <2> QED BY <2>4, <2>5, <2>6 DEF EdgesInv
<1>2. ASSUME TrailingIdle(f) PROVE EdgesInv'
  <2>1. /\ UNCHANGED <<pc, intent, turn, run, worker, reader, restarts>>
        /\ Publish(f, "idle") /\ turn[f] \in {"completed", "errored", "stopped"}
    BY <1>2 DEF TrailingIdle, Ended
  <2>2. /\ NeverRuns(f) => NeverRuns(f)'
        /\ Recorded(f) => Recorded(f)'
    BY <2>1 DEF NeverRuns, Recorded
  <2>3. cache[f] # "failed" => WellEnded(f)'
    BY <2>1 DEF EdgesInv, FireSound, WellEnded
  <2> QED BY <2>1, <2>2, <2>3, EdgesPublish DEF EdgesInv, FireSound
<1>3. ASSUME NEW how \in Ended, TurnEnds(f, how) PROVE EdgesInv'
  <2>1. /\ UNCHANGED <<pc, intent, run, worker, reader, restarts>>
        /\ Publish(f, IF how = "errored" THEN "failed" ELSE "idle")
        /\ turn[f] = "running" /\ turn'[f] = how
        /\ \A g \in Fires \ {f} : turn'[g] = turn[g]
    BY <1>0, <1>3 DEF TurnEnds
  <2>2. /\ NeverRuns(f) => NeverRuns(f)'
        /\ Recorded(f) => Recorded(f)'
    BY <2>1 DEF NeverRuns, Recorded
  <2>3. CASE how = "errored"
    BY <2>1, <2>2, <2>3, EdgesPublish DEF EdgesInv, FireSound
  <2>4. CASE how # "errored"
    <3>1. WellEnded(f)' /\ Publish(f, "idle")
      BY <2>1, <2>4 DEF WellEnded, Ended
    <3> QED BY <2>1, <2>2, <2>4, <3>1, EdgesPublish DEF EdgesInv, FireSound
  <2> QED BY <2>3, <2>4
<1>4. ASSUME DispatchFails(f) PROVE EdgesInv'
  <2>1. /\ UNCHANGED <<turn, run, worker, reader, restarts>>
        /\ pc[f] = "dispatching" /\ pc'[f] = "recording" /\ intent'[f] = "failed"
        /\ \A g \in Fires \ {f} : pc'[g] = pc[g] /\ intent'[g] = intent[g]
        /\ Publish(f, "idle") \/ UNCHANGED <<cache, queue>>
    BY <1>0, <1>4 DEF DispatchFails
  <2>2. run[f] = "none" /\ f # reader /\ NeverRuns(f)' /\ ~Recorded(f)
    BY <2>1 DEF EdgesInv, FireSound, NeverRuns, Recorded
  <2>3. CASE Publish(f, "idle")
    BY <2>1, <2>2, <2>3, EdgesPublish DEF EdgesInv, FireSound
  <2>4. CASE UNCHANGED <<cache, queue>>
    BY <2>1, <2>2, <2>4, EdgesQuiet DEF EdgesInv, FireSound, Recorded
  <2> QED BY <2>1, <2>3, <2>4
<1> QED
  BY <1>1, <1>2, <1>3, <1>4

(* The worker drops a claim whose run is not running, so the one it holds  *)
(* is of a turn that ended well, and that is what it writes.               *)
LEMMA EdgesWorker ==
    ASSUME TypeOK, EdgesInv, restarts = 0, Completes
    PROVE  EdgesInv'
<1> USE DEF scheduling, fires, history, turns, completion
<1>0. run = [g \in Fires |-> run[g]] /\ queue \in Seq(Completions)
  BY DEF TypeOK
<1>1. ASSUME WorkerReads PROVE EdgesInv'
  <2>1. /\ UNCHANGED <<pc, intent, turn, cache, run, reader, restarts>>
        /\ queue # <<>> /\ queue' = Tail(queue)
        /\ worker' # NoCompletion => /\ worker' = Head(queue)
                                     /\ run[Head(queue).fire] = "running"
    BY <1>1 DEF WorkerReads
  <2>2. Head(queue) = queue[1] /\ 1 \in 1..Len(queue)
    BY <1>0, <2>1
  <2>3. \A i \in 1..Len(queue') : i + 1 \in 1..Len(queue) /\ queue'[i] = queue[i + 1]
    BY <1>0, <2>1
  <2>4. \A i \in 1..Len(queue') : ClaimSound(queue[i])'
    BY <2>1, <2>3 DEF EdgesInv, ClaimSound, WellEnded, NeverRuns, Recorded
  <2>5. WorkerSound'
    <3>1. worker' # NoCompletion => Head(queue).fire \in Fires
      BY <2>1, ClaimsTyped
    <3> QED
      BY <2>1, <2>2, <3>1
      DEF EdgesInv, WorkerSound, ClaimSound, FireSound, WellEnded, NeverRuns, Recorded
  <2>6. \A f \in Fires : FireSound(f)'
    BY <2>1 DEF EdgesInv, FireSound, WellEnded, Recorded
  <2> QED BY <2>4, <2>5, <2>6 DEF EdgesInv
<1>2. ASSUME WorkerWrites PROVE EdgesInv'
  <2>1. /\ UNCHANGED <<pc, intent, turn, cache, queue, reader, restarts>>
        /\ worker # NoCompletion /\ worker' = NoCompletion
        /\ \A g \in Fires :
              \/ run'[g] = run[g]
              \/ g = worker.fire /\ run'[g] = worker.status
    BY <1>0, <1>2 DEF WorkerWrites, Write
  <2>2. worker.status # "running" /\ worker.fire \in Fires
    BY <2>1 DEF TypeOK, Completions
  <2>3. \A f \in Fires : FireSound(f)'
    BY <2>1 DEF EdgesInv, FireSound, WorkerSound, WellEnded, Recorded
  <2>4. \A f \in Fires : NeverRuns(f) => NeverRuns(f)'
    BY <2>1, <2>2 DEF NeverRuns, Recorded
  <2>5. \A i \in 1..Len(queue) : queue[i].fire \in Fires
    BY ClaimsTyped
  <2>6. \A i \in 1..Len(queue') : ClaimSound(queue[i])'
    BY <2>1, <2>4, <2>5 DEF EdgesInv, ClaimSound, WellEnded
  <2>7. WorkerSound'
    BY <2>1 DEF WorkerSound
  <2> QED BY <2>3, <2>6, <2>7 DEF EdgesInv
<1> QED
  BY <1>1, <1>2 DEF Completes

\* Every step keeps what a queued or cached edge says of its turn.
LEMMA EdgesStep ==
    ASSUME TypeOK, EdgesInv, [Next]_vars
    PROVE  EdgesInv'
<1>1. CASE Restart
  <2>1. restarts' # 0
    BY <1>1, BoundsAssumption DEF Restart, TypeOK
  <2> QED BY <2>1 DEF EdgesInv
<1>2. CASE UNCHANGED vars
  BY <1>2 DEF vars, scheduling, fires, history, turns, completion, EdgesInv,
     FireSound, WorkerSound, ClaimSound, WellEnded, NeverRuns, Recorded
<1>3. CASE restarts # 0 /\ ~Restart
  <2>1. restarts' = restarts
    BY <1>3 DEF Next, vars, CreateTask, PatchTask, DeleteTask, Misfire, Tick,
       RunNow, Settles, ReadRow, Trigger, ReadAgain, CannotLaunch,
       CreateSession, Dispatched, DispatchFails, RecordRun, Release,
       TurnStarts, TurnEnds, TrailingIdle, TurnGone, Completes, WorkerReads,
       WorkerWrites, Age, ReaderReads, ReaderWrites
  <2> QED BY <1>3, <2>1 DEF EdgesInv
<1>4. CASE restarts = 0 /\ Next /\ ~Restart
  BY <1>4, EdgesFire, EdgesTurn, EdgesWorker DEF Next, Settles
<1> QED
  BY <1>1, <1>2, <1>3, <1>4

(* What the claims rest on, next to the invariant of the fires.            *)
THEOREM EdgesInvariance == Spec => []EdgesInv
<1>1. Init => EdgesInv
  BY FiresAssumption DEF Init, EdgesInv, FireSound, WorkerSound, ClaimSound
<1>2. TypeOK /\ EdgesInv /\ [Next]_vars => EdgesInv'
  BY EdgesStep
<1> QED
  BY Typing, <1>1, <1>2, PTL DEF Spec

(* As long as the server stays up, no run whose turn errored, vanished or  *)
(* is still going is ever reported as succeeded: not by the idle edge that *)
(* trails a failed turn, and not by the one a failed forward publishes.    *)
THEOREM SuccessesAreReal == Spec => []ErrorsAreNotSuccesses
<1>1. EdgesInv => ErrorsAreNotSuccesses
  BY DEF EdgesInv, FireSound, WellEnded, ErrorsAreNotSuccesses
<1> QED BY EdgesInvariance, <1>1, PTL
=============================================================================
