--------------------------- MODULE ScheduledTasks ---------------------------
(***************************************************************************)
(* The scheduled-task subsystem of the server: one self-rearming timer per *)
(* active task (scheduled/scheduler.py), the fire path that turns a tick   *)
(* or a manual "run now" into a session (scheduled/fire.py), the event-    *)
(* driven completion of a run (session_live_state.py), and the lazy-on-    *)
(* read backstop that fails a stale run (scheduled/run_reconciler.py).     *)
(*                                                                         *)
(* Three kinds of threads touch the rows.  The event loop runs the routes, *)
(* the timers and the fire coroutines, and gives way only at an await.     *)
(* asyncio.to_thread runs a coroutine's store calls beside the loop.  One  *)
(* worker thread applies the completions in order.  The backstop's store   *)
(* calls run on the loop itself, so between its read and its write no      *)
(* other loop step happens, but the other threads go on.                   *)
(*                                                                         *)
(* A fire is one activation of _trigger_fire with the background body it   *)
(* may start, the run row it may record and the conversation's turn.       *)
(***************************************************************************)
EXTENDS Naturals, Sequences

CONSTANTS
    Tasks,          \* the scheduled tasks that may be created
    Fires,          \* the fires that may happen
    NoFire,         \* not a fire: nothing held
    Hosted,         \* the fires that find their host online
    MaxJobs,        \* bound: registrations of a task with the scheduler
    MaxRestarts,    \* bound: restarts of the server
    Faults          \* "db": a store call may raise; "long": a turn, or the
                    \* completion it submitted, may take longer than
                    \* STALE_RUN_MAX_AGE_SECONDS

ASSUME FiresAssumption == NoFire \notin Fires /\ Hosted \subseteq Fires
ASSUME BoundsAssumption == MaxJobs \in Nat /\ MaxRestarts \in Nat

VARIABLES
    row,        \* row[t]: the task's row and its state
    job,        \* job[t]: the registration _jobs holds for t, 0 when none
    jobs,       \* jobs[t]: how many _Job objects were built for t
    timer,      \* timer[t]: "set", or "over" when the rule has no next fire,
                \* or "none": no job, or its timer went off and is not re-armed
    pc,         \* pc[f]: how far the fire has come
    of,         \* of[f]: the task it fires
    tick,       \* tick[f]: the _Job whose timer started it, 0 for run_now
                \* and once the fire is over
    intent,     \* intent[f]: the status _record_run will be called with
    inflight,   \* _IN_FLIGHT_TASKS
    run,        \* run[f]: the status of the fire's scheduled_task_runs row
    stale,      \* stale[f]: the row is older than STALE_RUN_MAX_AGE_SECONDS
    turn,       \* turn[f]: what the agent's turn in the conversation came to
    cache,      \* cache[f]: _session_status_cache of the conversation
    trailed,    \* trailed[f]: a second terminal edge was already published
    queue,      \* completions submitted to the worker, oldest first
    worker,     \* the completion between update_run's read and its write
    reader,     \* the run the backstop has read as stale and will now fail
    restarts    \* restarts of the server so far

scheduling == <<row, job, jobs, timer>>
fires == <<pc, of, tick, intent, inflight>>
history == <<run, stale>>
turns == <<turn, cache, trailed>>
completion == <<queue, worker>>
vars == <<scheduling, fires, history, turns, completion, reader, restarts>>

RowStates == {"absent", "active", "paused", "deleted"}
Background == {"starting", "working", "dispatching", "recording", "ending"}
Triggering == {"reading", "read", "refused"}
Settled == {"declined", "ended", "lost"}
RunStates == {"none", "running", "succeeded", "failed", "skipped",
              "incomplete", "deleted"}
Terminal == {"succeeded", "failed", "skipped", "incomplete"}
Ended == {"completed", "errored", "stopped"}
Completions == [fire : Fires, status : {"succeeded", "failed"}]
NoCompletion == [fire |-> NoFire, status |-> "none"]

(* One type invariant.                                                     *)
TypeOK ==
    /\ row \in [Tasks -> RowStates]
    /\ job \in [Tasks -> 0..MaxJobs]
    /\ jobs \in [Tasks -> 0..MaxJobs]
    /\ timer \in [Tasks -> {"none", "set", "over"}]
    /\ pc \in [Fires -> {"free"} \cup Triggering \cup Background \cup Settled]
    /\ of \in [Fires -> Tasks]
    /\ tick \in [Fires -> 0..MaxJobs]
    /\ intent \in [Fires -> {"none", "running", "failed", "skipped"}]
    /\ inflight \in SUBSET Tasks
    /\ run \in [Fires -> RunStates]
    /\ stale \in [Fires -> BOOLEAN]
    /\ turn \in [Fires -> {"none", "running", "gone"} \cup Ended]
    /\ cache \in [Fires -> {"none", "running", "idle", "failed"}]
    /\ trailed \in [Fires -> BOOLEAN]
    /\ queue \in Seq(Completions)
    /\ worker \in Completions \cup {NoCompletion}
    /\ reader \in Fires \cup {NoFire}
    /\ restarts \in 0..MaxRestarts

Init ==
    /\ row = [t \in Tasks |-> "absent"]
    /\ job = [t \in Tasks |-> 0]
    /\ jobs = [t \in Tasks |-> 0]
    /\ timer = [t \in Tasks |-> "none"]
    /\ pc = [f \in Fires |-> "free"]
    /\ of \in [Fires -> Tasks]
    /\ tick = [f \in Fires |-> 0]
    /\ intent = [f \in Fires |-> "none"]
    /\ inflight = {}
    /\ run = [f \in Fires |-> "none"]
    /\ stale = [f \in Fires |-> FALSE]
    /\ turn = [f \in Fires |-> "none"]
    /\ cache = [f \in Fires |-> "none"]
    /\ trailed = [f \in Fires |-> FALSE]
    /\ queue = <<>>
    /\ worker = NoCompletion
    /\ reader = NoFire
    /\ restarts = 0

(* The backstop does not give way between its read and its write.          *)
LoopFree == reader = NoFire

(* What a terminal edge makes of a run.                                    *)
RunStatus(status) == IF status = "idle" THEN "succeeded" ELSE "failed"

(* Mutant: the sticky guard is dropped.                                    *)
mutant_Publish(f, status) ==
    /\ cache' = [cache EXCEPT ![f] = status]
    /\ queue' = Append(queue, [fire |-> f, status |-> RunStatus(status)])

(* _publish_status: failed is sticky against a trailing idle; any other    *)
(* edge is cached and its completion submitted.                            *)
Publish(f, status) ==
    IF status = "idle" /\ cache[f] = "failed"
    THEN UNCHANGED <<cache, queue>>
    ELSE /\ cache' = [cache EXCEPT ![f] = status]
         /\ queue' = Append(queue, [fire |-> f, status |-> RunStatus(status)])

-----------------------------------------------------------------------------
(* The routes, each with its scheduler call: no await lies between them.   *)

(* _arm: the next occurrence is armed, unless the rule has run out.        *)
Arm(t, next) == timer' = [timer EXCEPT ![t] = next]

(* add and update: whatever was registered is dropped and an active task   *)
(* gets a new _Job.                                                        *)
Register(t, state) ==
    IF state = "active"
    THEN /\ jobs[t] < MaxJobs
         /\ jobs' = [jobs EXCEPT ![t] = @ + 1]
         /\ job' = [job EXCEPT ![t] = jobs[t] + 1]
         /\ \E next \in {"set", "over"} : Arm(t, next)
    ELSE /\ job' = [job EXCEPT ![t] = 0]
         /\ Arm(t, "none")
         /\ UNCHANGED jobs

CreateTask(t) ==
    /\ LoopFree
    /\ row[t] = "absent"
    /\ row' = [row EXCEPT ![t] = "active"]
    /\ Register(t, "active")
    /\ UNCHANGED <<fires, history, turns, completion, reader, restarts>>

(* PATCH: a pause, a resume, or an edit that leaves the state as it is.    *)
PatchTask(t, state) ==
    /\ LoopFree
    /\ row[t] \in {"active", "paused"}
    /\ row' = [row EXCEPT ![t] = state]
    /\ Register(t, state)
    /\ UNCHANGED <<fires, history, turns, completion, reader, restarts>>

(* The store deletes a task's row together with its runs.                  *)
DeleteRows(t) ==
    /\ row' = [row EXCEPT ![t] = "deleted"]
    /\ run' = [f \in Fires |-> IF of[f] = t /\ run[f] # "none" THEN "deleted"
                                                               ELSE run[f]]

(* DELETE: the rows, then the timer.                                       *)
DeleteTask(t) ==
    /\ LoopFree
    /\ row[t] \in {"active", "paused"}
    /\ DeleteRows(t)
    /\ Register(t, "deleted")
    /\ UNCHANGED <<fires, stale, turns, completion, reader, restarts>>

-----------------------------------------------------------------------------
(* The fire path.                                                          *)

(* The timer of the registered job goes off and its coroutine starts.  A   *)
(* wake before the due time, or past MISFIRE_GRACE_TIME_S, arms again.     *)
Tick(f) ==
    /\ LoopFree
    /\ pc[f] = "free"
    /\ timer[of[f]] = "set"
    /\ pc' = [pc EXCEPT ![f] = "reading"]
    /\ tick' = [tick EXCEPT ![f] = job[of[f]]]
    /\ Arm(of[f], "none")
    /\ UNCHANGED <<row, job, jobs, of, intent, inflight, history, turns,
                   completion, reader, restarts>>

Misfire(t) ==
    /\ LoopFree
    /\ timer[t] = "set"
    /\ Arm(t, "over")
    /\ UNCHANGED <<row, job, jobs, fires, history, turns, completion, reader,
                   restarts>>

(* POST .../run: an existing task, paused ones included.                   *)
RunNow(f) ==
    /\ LoopFree
    /\ pc[f] = "free"
    /\ row[of[f]] \in {"active", "paused"}
    /\ pc' = [pc EXCEPT ![f] = "reading"]
    /\ tick' = [tick EXCEPT ![f] = 0]
    /\ UNCHANGED <<scheduling, of, intent, inflight, history, turns,
                   completion, reader, restarts>>

(* Both reads of the row end in the same verdict: gone, or not active when *)
(* a timer asks.                                                           *)
Runnable(f) ==
    \/ row[of[f]] = "active"
    \/ row[of[f]] = "paused" /\ tick[f] = 0

(* The first read, in a thread.                                            *)
ReadRow(f) ==
    /\ pc[f] = "reading"
    /\ \E verdict \in {"read", "refused"} :
         /\ \/ verdict = IF Runnable(f) THEN "read" ELSE "refused"
            \/ verdict = "refused" /\ "db" \in Faults
         /\ pc' = [pc EXCEPT ![f] = verdict]
    /\ UNCHANGED <<scheduling, of, tick, intent, inflight, history, turns,
                   completion, reader, restarts>>

(* Mutant: re-arms without asking whether the job was replaced mid-fire.   *)
mutant_Rearm(f) ==
    IF tick[f] # 0
    THEN \E next \in {"set", "over"} : Arm(of[f], next)
    ELSE UNCHANGED timer

(* _fire_and_rearm's finally clause: re-arm if the job is still the        *)
(* registered one.                                                         *)
Rearm(f) ==
    IF tick[f] # 0 /\ job[of[f]] = tick[f]
    THEN \E next \in {"set", "over"} : Arm(of[f], next)
    ELSE UNCHANGED timer

(* Mutant: starts whether or not a fire of the task is in flight.          *)
mutant_StartFire(f) ==
    /\ pc[f] = "read"
    /\ pc' = [pc EXCEPT ![f] = "starting"]
    /\ inflight' = inflight \cup {of[f]}
    /\ UNCHANGED tick

(* _trigger_fire resumes on the loop: decline, or take the in-flight key   *)
(* and start the background body; a tick then re-arms in the same step.    *)
StartFire(f) ==
    /\ pc[f] = "read"
    /\ of[f] \notin inflight
    /\ pc' = [pc EXCEPT ![f] = "starting"]
    /\ inflight' = inflight \cup {of[f]}
    /\ UNCHANGED tick

DeclineFire(f) ==
    /\ pc[f] = "refused" \/ (pc[f] = "read" /\ of[f] \in inflight)
    /\ pc' = [pc EXCEPT ![f] = "declined"]
    /\ tick' = [tick EXCEPT ![f] = 0]
    /\ UNCHANGED inflight

Trigger(f) ==
    /\ LoopFree
    /\ StartFire(f) \/ DeclineFire(f)
    /\ Rearm(f)
    /\ UNCHANGED <<row, job, jobs, of, intent, history, turns, completion,
                   reader, restarts>>

(* The background body re-reads the row in a thread; a store error ends it.*)
ReadAgain(f) ==
    /\ pc[f] = "starting"
    /\ \E next \in {"working", "ending"} :
         /\ \/ next = IF Runnable(f) THEN "working" ELSE "ending"
            \/ next = "ending" /\ "db" \in Faults
         /\ pc' = [pc EXCEPT ![f] = next]
    /\ UNCHANGED <<scheduling, of, tick, intent, inflight, history, turns,
                   completion, reader, restarts>>

(* A target other than a connected host is not supported: skipped.  No     *)
(* host, a preflight, a validation, the session's creation or its owner    *)
(* grant that fails: failed.                                               *)
CannotLaunch(f) ==
    /\ LoopFree
    /\ pc[f] = "working"
    /\ pc' = [pc EXCEPT ![f] = "recording"]
    /\ \E status \in {"skipped", "failed"} :
          intent' = [intent EXCEPT ![f] = status]
    /\ UNCHANGED <<scheduling, of, tick, inflight, history, turns, completion,
                   reader, restarts>>

(* The session is created and granted, and the dispatch begins.            *)
CreateSession(f) ==
    /\ LoopFree
    /\ pc[f] = "working"
    /\ f \in Hosted
    /\ pc' = [pc EXCEPT ![f] = "dispatching"]
    /\ UNCHANGED <<scheduling, of, tick, intent, inflight, history, turns,
                   completion, reader, restarts>>

(* The prompt reaches the runner and the turn starts.                      *)
TurnStarts(f) ==
    /\ pc[f] = "dispatching"
    /\ turn[f] = "none"
    /\ turn' = [turn EXCEPT ![f] = "running"]
    /\ cache' = [cache EXCEPT ![f] = "running"]
    /\ UNCHANGED <<scheduling, fires, history, trailed, completion, reader,
                   restarts>>

(* The dispatch call returns.                                              *)
Dispatched(f) ==
    /\ LoopFree
    /\ pc[f] = "dispatching"
    /\ turn[f] # "none"
    /\ pc' = [pc EXCEPT ![f] = "recording"]
    /\ intent' = [intent EXCEPT ![f] = "running"]
    /\ UNCHANGED <<scheduling, of, tick, inflight, history, turns, completion,
                   reader, restarts>>

(* Mutant: the wait for the runner has no timeout.                         *)
mutant_DispatchFails(f) ==
    /\ LoopFree
    /\ pc[f] = "dispatching" /\ turn[f] # "none"
    /\ pc' = [pc EXCEPT ![f] = "recording"]
    /\ intent' = [intent EXCEPT ![f] = "failed"]
    /\ Publish(f, "idle") \/ UNCHANGED <<cache, queue>>
    /\ UNCHANGED <<scheduling, of, tick, inflight, history, turn, trailed,
                   worker, reader, restarts>>

(* It raises instead: no host, the launch failed, the runner did not       *)
(* connect in _RUNNER_CONNECT_TIMEOUT_S, or the forward of the prompt      *)
(* failed, which publishes idle first.                                     *)
DispatchFails(f) ==
    /\ LoopFree
    /\ pc[f] = "dispatching"
    /\ pc' = [pc EXCEPT ![f] = "recording"]
    /\ intent' = [intent EXCEPT ![f] = "failed"]
    /\ Publish(f, "idle") \/ UNCHANGED <<cache, queue>>
    /\ UNCHANGED <<scheduling, of, tick, inflight, history, turn, trailed,
                   worker, reader, restarts>>

(* _record_run_sync, in a thread: the task's last_run fields, then a run   *)
(* row, whether or not the task is still there.                            *)
RecordRun(f) ==
    /\ pc[f] = "recording"
    /\ pc' = [pc EXCEPT ![f] = "ending"]
    /\ intent' = [intent EXCEPT ![f] = "none"]
    /\ \/ run' = [run EXCEPT ![f] = intent[f]]
       \/ "db" \in Faults /\ UNCHANGED run
    /\ UNCHANGED <<scheduling, of, tick, inflight, stale, turns, completion,
                   reader, restarts>>

(* The task's done callback gives the in-flight key back.                  *)
Release(f) ==
    /\ LoopFree
    /\ pc[f] = "ending"
    /\ pc' = [pc EXCEPT ![f] = "ended"]
    /\ tick' = [tick EXCEPT ![f] = 0]
    /\ inflight' = inflight \ {of[f]}
    /\ UNCHANGED <<scheduling, of, intent, history, turns, completion,
                   reader, restarts>>

-----------------------------------------------------------------------------
(* The completion of a run.                                                *)

(* The relay sees the turn end: the agent is done, the turn errored or its *)
(* runner disconnected, or the user stopped it (published as idle).        *)
TurnEnds(f, how) ==
    /\ LoopFree
    /\ turn[f] = "running"
    /\ turn' = [turn EXCEPT ![f] = how]
    /\ Publish(f, IF how = "errored" THEN "failed" ELSE "idle")
    /\ UNCHANGED <<scheduling, fires, history, trailed, worker, reader,
                   restarts>>

(* The pane goes quiet and the activity watcher reports idle once more.    *)
TrailingIdle(f) ==
    /\ LoopFree
    /\ turn[f] \in Ended /\ ~trailed[f]
    /\ trailed' = [trailed EXCEPT ![f] = TRUE]
    /\ Publish(f, "idle")
    /\ UNCHANGED <<scheduling, fires, history, turn, worker, reader, restarts>>

(* The turn's host dies and no edge is ever published.                     *)
TurnGone(f) ==
    /\ turn[f] = "running"
    /\ turn' = [turn EXCEPT ![f] = "gone"]
    /\ UNCHANGED <<scheduling, fires, history, cache, trailed, completion,
                   reader, restarts>>

(* The worker takes a completion and finds the conversation's running run, *)
(* update_run reading it as running too; or there is none.                 *)
WorkerReads ==
    /\ worker = NoCompletion
    /\ queue # <<>>
    /\ queue' = Tail(queue)
    /\ worker' = IF run[Head(queue).fire] = "running" THEN Head(queue)
                                                      ELSE NoCompletion
    /\ UNCHANGED <<scheduling, fires, history, turns, reader, restarts>>

(* A row's UPDATE by primary key: nothing to update once it is deleted.    *)
Write(f, status) ==
    run' = [run EXCEPT ![f] = IF @ = "deleted" THEN @ ELSE status]

WorkerWrites ==
    /\ worker # NoCompletion
    /\ worker' = NoCompletion
    /\ \/ Write(worker.fire, worker.status)
       \/ "db" \in Faults /\ UNCHANGED run
    /\ UNCHANGED <<scheduling, fires, stale, turns, queue, reader, restarts>>

(* STALE_RUN_MAX_AGE_SECONDS pass for a run that is still running.         *)
Age(f) ==
    /\ run[f] = "running" /\ ~stale[f]
    /\ \/ "long" \in Faults
       \/ turn[f] # "running" /\ queue = <<>> /\ worker = NoCompletion
    /\ stale' = [stale EXCEPT ![f] = TRUE]
    /\ UNCHANGED <<scheduling, fires, run, turns, completion, reader, restarts>>

(* Mutant: the backstop looks at active tasks only.                        *)
mutant_Listed(f) == row[of[f]] = "active"

(* Somebody lists the tasks or a task's runs: only runs of tasks that are  *)
(* still there are read.                                                   *)
Listed(f) == row[of[f]] \in {"active", "paused"}

ReaderReads(f) ==
    /\ LoopFree
    /\ Listed(f)
    /\ run[f] = "running" /\ stale[f]
    /\ reader' = f
    /\ UNCHANGED <<scheduling, fires, history, turns, completion, restarts>>

ReaderWrites ==
    /\ reader # NoFire
    /\ Write(reader, "incomplete")
    /\ reader' = NoFire
    /\ UNCHANGED <<scheduling, fires, stale, turns, completion, restarts>>

-----------------------------------------------------------------------------
(* The server dies and comes back.  The rows survive; jobs, fires, the     *)
(* in-flight keys, the status cache and the submitted completions do not.  *)
(* start() registers the active tasks again.  The runners go on.           *)
Restart ==
    /\ restarts < MaxRestarts
    /\ \A t \in Tasks : row[t] = "active" => jobs[t] < MaxJobs
    /\ restarts' = restarts + 1
    /\ jobs' = [t \in Tasks |-> IF row[t] = "active" THEN jobs[t] + 1
                                                     ELSE jobs[t]]
    /\ job' = [t \in Tasks |-> IF row[t] = "active" THEN jobs[t] + 1 ELSE 0]
    /\ timer' \in [Tasks -> {"none", "set", "over"}]
    /\ \A t \in Tasks : timer'[t] = "none" <=> row[t] # "active"
    /\ pc' = [f \in Fires |-> IF pc[f] \in Triggering \cup Background
                              THEN "lost" ELSE pc[f]]
    /\ tick' = [f \in Fires |-> 0]
    /\ intent' = [f \in Fires |-> "none"]
    /\ inflight' = {}
    /\ cache' = [f \in Fires |-> "none"]
    /\ queue' = <<>>
    /\ worker' = NoCompletion
    /\ reader' = NoFire
    /\ UNCHANGED <<row, of, history, turn, trailed>>

Settles(f) == \/ ReadRow(f) \/ Trigger(f) \/ ReadAgain(f) \/ CannotLaunch(f)
              \/ CreateSession(f) \/ Dispatched(f) \/ DispatchFails(f) \/ RecordRun(f)
              \/ Release(f)

Completes == WorkerReads \/ WorkerWrites

Next ==
    \/ \E t \in Tasks : CreateTask(t)
    \/ \E t \in Tasks, state \in {"active", "paused"} : PatchTask(t, state)
    \/ \E t \in Tasks : DeleteTask(t)
    \/ \E t \in Tasks : Misfire(t)
    \/ \E f \in Fires : Tick(f)
    \/ \E f \in Fires : RunNow(f)
    \/ \E f \in Fires : Settles(f)
    \/ \E f \in Fires : TurnStarts(f)
    \/ \E f \in Fires, how \in Ended : TurnEnds(f, how)
    \/ \E f \in Fires : TrailingIdle(f)
    \/ \E f \in Fires : TurnGone(f)
    \/ Completes
    \/ \E f \in Fires : Age(f)
    \/ \E f \in Fires : ReaderReads(f)
    \/ ReaderWrites
    \/ Restart

Spec == Init /\ [][Next]_vars

(* The loop keeps running ready coroutines and threads finish their store  *)
(* calls; a dispatch is cut off by its connect timeout; the worker drains  *)
(* its queue; time passes; and somebody looks at the task's runs in the    *)
(* end.  Nothing is assumed of the agent's turn or of the user's requests. *)
FairSpec ==
    /\ Spec
    /\ \A f \in Fires : WF_vars(Settles(f)) /\ WF_vars(Age(f))
                        /\ WF_vars(ReaderReads(f))
    /\ WF_vars(Completes)
    /\ WF_vars(ReaderWrites)

-----------------------------------------------------------------------------
(* Properties.                                                             *)

TriggeredBy(t) == {f \in Fires : /\ pc[f] \in Triggering
                                 /\ of[f] = t
                                 /\ tick[f] # 0 /\ tick[f] = job[t]}

(* Every active task is registered, no other is, and its one timer is      *)
(* either waiting or going off: never both (the task would fire twice per  *)
(* occurrence) and never neither (it would fall silent for good), however  *)
(* edits, pauses and deletions interleave with a tick in progress.         *)
OneTimerPerTask ==
    \A t \in Tasks :
        /\ (job[t] # 0) <=> (row[t] = "active")
        /\ row[t] # "active" => timer[t] = "none"
        /\ row[t] = "active" => IF timer[t] = "none"
                                THEN \E f \in Fires : TriggeredBy(t) = {f}
                                ELSE TriggeredBy(t) = {}

(* A task never has two background fires at once, be they from a timer, a  *)
(* replaced job's timer, or run_now, and a fire that is under way holds    *)
(* the task's key until its own done callback.                             *)
NoOverlap ==
    \A f, g \in Fires :
        pc[f] \in Background /\ pc[g] \in Background /\ of[f] = of[g] => f = g

(* The overlap guard never outlives its fire: a key that leaked would      *)
(* refuse every later fire of the task until the server restarts.          *)
KeysBelongToFires ==
    inflight = {of[f] : f \in {g \in Fires : pc[g] \in Background}}

(* As long as the server stays up, a run reported as succeeded had a turn  *)
(* that ended without an error: neither the idle edge that trails a failed *)
(* turn nor the one a failed forward publishes turns a run into a success. *)
ErrorsAreNotSuccesses ==
    \A f \in Fires :
        run[f] = "succeeded" /\ restarts = 0 => turn[f] \in {"completed", "stopped"}

(* What makes the two above inductive: every key has its fire, a fire its  *)
(* key, and no job a coroutine came from is newer than the last one built. *)
KeysHeld ==
    /\ \A f \in Fires : pc[f] \in Background => of[f] \in inflight
    /\ \A t \in inflight : \E f \in Fires : pc[f] \in Background /\ of[f] = t

TicksAreOld ==
    /\ \A t \in Tasks : job[t] <= jobs[t]
    /\ \A f \in Fires : tick[f] <= jobs[of[f]]

IInv == TypeOK /\ KeysHeld /\ NoOverlap /\ TicksAreOld /\ OneTimerPerTask

(* Every accepted trigger comes to an end and gives the task's key back.   *)
FiresSettle ==
    \A f \in Fires : (pc[f] # "free") ~> (pc[f] \in Settled)

(* Every run ends: by its turn's terminal edge or, once it is stale and    *)
(* somebody lists it, by the backstop; after a dropped completion, a       *)
(* restart and a dead host too.  A run of a deleted task is the exception: *)
(* no list shows it, so only its turn can end it.                          *)
RunsEnd ==
    \A f \in Fires :
        (run[f] = "running") ~> (run[f] # "running" \/ row[of[f]] = "deleted")

(* update_run is documented as conditional on the run still being          *)
(* running: whatever ends a run first has the last word.                   *)
TerminalIsFinal ==
    [][\A f \in Fires : run[f] \in Terminal => run'[f] \in {run[f], "deleted"}]_vars

(* The completion hook is documented to end every normal run: a run whose  *)
(* turn reported its end is never failed as incomplete by the backstop.    *)
(* Not so of a turn that ends before its row is written: see the README.   *)
ReportedTurnsAreComplete ==
    \A f \in Fires : run[f] = "incomplete" => turn[f] \notin Ended
=============================================================================
