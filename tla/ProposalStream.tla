--------------------------- MODULE ProposalStream ---------------------------
(***************************************************************************)
(* One proposal of a server run: the harness process, the thread that      *)
(* streams its output and snapshots its work (_stream_proposal), the       *)
(* thread that scores its progress (_track_progress), and the run thread   *)
(* that joins both (_execute).                                             *)
(*                                                                         *)
(* Abstraction of the data.  A transcript is the number of rendered        *)
(* chunks, up to MaxText and saturating there: a harness may print for     *)
(* ever.  The work in the worktree is a version number, up to MaxWork,     *)
(* zero being the tree the worktree was created with.  The pipe holds one  *)
(* line.                                                                   *)
(***************************************************************************)
EXTENDS Integers, Sequences

CONSTANTS
    MaxText,   \* bound: transcript chunks told apart
    MaxWork,   \* bound: versions of the work told apart
    GitFails   \* TRUE iff git calls of snapshot_proposal may fail or time out

ASSUME StreamAssumption ==
    /\ MaxText \in Nat \ {0} /\ MaxWork \in Nat \ {0}
    /\ GitFails \in BOOLEAN

VARIABLES
    \* --- the harness process
    harness,     \* "none", "running", "exited" or "killed"
    exitCode,    \* 0 or 1, once exited
    pipe,        \* "empty", "line" or "closed": what readline() would find
    work,        \* the version of the work tree
    late,        \* time.monotonic() > deadline
    \* --- _stream_proposal
    stream,      \* where the thread stands
    transcript, error, diff, ok, pstatus,
    committed,   \* the version at the tip of the branch
    \* --- _track_progress
    sampler,     \* where the thread stands
    consumed,    \* transcript consumed by updates
    seen,        \* what the last poll read
    steps,       \* the number of updates, up to MaxText + 1
    lastStep,    \* what the last update was given
    \* --- _execute
    main         \* "join", "join_sampler" or "collected"

harnessVars == <<harness, exitCode, pipe, work, late>>
streamVars == <<stream, transcript, error, diff, ok, pstatus, committed>>
samplerVars == <<sampler, consumed, seen, steps, lastStep>>
vars == <<harnessVars, streamVars, samplerVars, main>>

NoStep == [text |-> 0, diff |-> FALSE]

Init ==
    /\ harness = "none" /\ exitCode = 0 /\ pipe = "empty" /\ work = 0 /\ late = FALSE
    /\ stream = "launch" /\ transcript = 0 /\ error = "none" /\ diff = FALSE
    /\ ok = FALSE /\ pstatus = "running" /\ committed = 0
    /\ sampler = "create" /\ consumed = 0 /\ steps = 0
    /\ seen = [finished |-> FALSE, text |-> 0, diff |-> FALSE] /\ lastStep = NoStep
    /\ main = "join"
-----------------------------------------------------------------------------
(***************************************************************************)
(* The harness: external, it may do anything at any time.                  *)
(***************************************************************************)
HarnessWrites ==
    /\ harness = "running" /\ work < MaxWork
    /\ work' = work + 1
    /\ UNCHANGED <<harness, exitCode, pipe, late, streamVars, samplerVars, main>>

HarnessPrints ==
    /\ harness = "running" /\ pipe = "empty"
    /\ pipe' = "line"
    /\ UNCHANGED <<harness, exitCode, work, late, streamVars, samplerVars, main>>

HarnessExits(rc) ==
    /\ harness = "running"
    /\ harness' = "exited" /\ exitCode' = rc
    /\ UNCHANGED <<pipe, work, late, streamVars, samplerVars, main>>

\* End of file reaches the reader once every holder of the pipe closed it: a
\* harness may close it and run on, and a child of it may keep it open.
PipeCloses ==
    /\ harness # "none" /\ pipe = "empty"
    /\ pipe' = "closed"
    /\ UNCHANGED <<harness, exitCode, work, late, streamVars, samplerVars, main>>

\* proposal_timeout_s have passed since the launch.
Deadline ==
    /\ harness # "none" /\ ~late
    /\ late' = TRUE
    /\ UNCHANGED <<harness, exitCode, pipe, work, streamVars, samplerVars, main>>
-----------------------------------------------------------------------------
(***************************************************************************)
(* _stream_proposal and snapshot_proposal                                  *)
(***************************************************************************)
Launch ==
    /\ stream = "launch"
    /\ \/ harness' = "running" /\ stream' = "reading" /\ UNCHANGED error
       \/ stream' = "add" /\ error' = "launch" /\ UNCHANGED harness     \* OSError
    /\ UNCHANGED <<exitCode, pipe, work, late, transcript, diff, ok, pstatus, committed,
                   samplerVars, main>>

\* time.monotonic() > deadline.  The mutant never times out.
mutant_Overdue == FALSE
Overdue == late

\* An exception nobody catches ends the thread before the status is published.
\* The mutant publishes it in a finally.
mutant_Dies == stream' = "dead" /\ pstatus' = "failed"
Dies == stream' = "dead" /\ UNCHANGED pstatus

\* A line that is not valid text: the iteration over process.stdout raises
\* UnicodeDecodeError, which is neither OSError nor TimeoutExpired.
UndecodableLine ==
    /\ stream = "reading" /\ pipe = "line"
    /\ pipe' = "empty"
    /\ Dies
    /\ UNCHANGED <<harness, exitCode, work, late, transcript, error, diff, ok, committed,
                   samplerVars, main>>

\* One line: rendered lines are appended under the lock, the deadline is looked
\* at only now, after a line.
ReadLine ==
    /\ stream = "reading" /\ pipe = "line"
    /\ pipe' = "empty"
    /\ \E rendered \in {0, 1} :
        transcript' = IF transcript + rendered > MaxText THEN MaxText ELSE transcript + rendered
    /\ IF Overdue
       THEN /\ harness' = IF harness = "running" THEN "killed" ELSE harness
            /\ error' = "timeout"
            /\ stream' = "waiting"
       ELSE UNCHANGED <<harness, error, stream>>
    /\ UNCHANGED <<exitCode, work, late, diff, ok, pstatus, committed, samplerVars, main>>

EndOfFile ==
    /\ stream = "reading" /\ pipe = "closed"
    /\ stream' = "waiting"
    /\ UNCHANGED <<harnessVars, transcript, error, diff, ok, pstatus, committed,
                   samplerVars, main>>

\* process.wait(timeout=30): a harness that closed its output and runs on is
\* reported as one that did not exit after being killed.
Wait ==
    /\ stream = "waiting"
    /\ error' = IF harness = "running" THEN "no_exit"
                ELSE IF harness = "exited" /\ exitCode # 0 /\ error = "none" THEN "exit"
                ELSE error
    /\ stream' = "add"
    /\ UNCHANGED <<harnessVars, transcript, diff, ok, pstatus, committed, samplerVars, main>>

\* git add -A and git commit; "nothing to commit" is fine, another failure is an
\* error unless there is one already, and a timeout is caught by nobody.
Commit ==
    /\ stream = "add"
    /\ \/ committed' = work /\ stream' = "diff" /\ UNCHANGED <<error, pstatus>>
       \/ GitFails /\ stream' = "diff" /\ UNCHANGED <<committed, pstatus>>
             /\ error' = IF error = "none" THEN "commit" ELSE error
       \/ GitFails /\ Dies /\ UNCHANGED <<committed, error>>
    /\ UNCHANGED <<harnessVars, transcript, diff, ok, samplerVars, main>>

\* git diff, then Proposal.ok.
Usable(d) == error = "none" \/ d \/ transcript > 0

Diff ==
    /\ stream = "diff"
    /\ \/ /\ diff' \in {committed > 0} \cup (IF GitFails THEN {FALSE} ELSE {})
          /\ ok' = Usable(diff')
          /\ stream' = "publish"
          /\ UNCHANGED pstatus
       \/ GitFails /\ Dies /\ UNCHANGED <<diff, ok>>
    /\ UNCHANGED <<harnessVars, transcript, error, committed, samplerVars, main>>

\* proposal_status under the lock, the thread's last statement.
Publish ==
    /\ stream = "publish"
    /\ pstatus' = IF ok THEN "ok" ELSE "failed"
    /\ stream' = "ended"
    /\ UNCHANGED <<harnessVars, transcript, error, diff, ok, committed, samplerVars, main>>

Stream == Launch \/ ReadLine \/ UndecodableLine \/ EndOfFile \/ Wait \/ Commit \/ Diff \/ Publish
-----------------------------------------------------------------------------
(***************************************************************************)
(* _track_progress                                                         *)
(***************************************************************************)
\* The tracker cannot be built: the thread returns at once.
CreateTracker ==
    /\ sampler = "create"
    /\ sampler' \in {"poll", "gone"}
    /\ UNCHANGED <<harnessVars, streamVars, consumed, seen, steps, lastStep, main>>

\* The mutant counts a poll without new text.
mutant_NewText == transcript >= consumed
NewText == transcript > consumed
AtEnd(finished) == finished /\ NewText
LoopEnds(finished) == finished

\* One iteration reads under the lock; an update is due when enough new text
\* and time went by, which is the scheduler's choice, or at the end when there
\* is new text.  The mutant asks the process instead of the published status.
mutant_Finished == harness \in {"exited", "killed"}
Finished == pstatus # "running"

Poll ==
    LET finished == Finished
        update == [text |-> transcript, diff |-> finished /\ diff]
    IN  /\ sampler = "poll"
        /\ seen' = [finished |-> finished, text |-> transcript, diff |-> diff]
        /\ \/ /\ NewText \/ AtEnd(finished)
              /\ sampler' = "update"
              /\ consumed' = transcript
              /\ steps' = steps + 1
              /\ lastStep' = update
           \/ /\ ~AtEnd(finished)
              /\ sampler' = IF LoopEnds(finished) THEN "gone" ELSE "poll"
              /\ UNCHANGED <<consumed, steps, lastStep>>
        /\ UNCHANGED <<harnessVars, streamVars, main>>

\* tracker.update returned, or raised: the thread ends if it saw the end.
Update ==
    /\ sampler = "update"
    /\ sampler' = IF LoopEnds(seen.finished) THEN "gone" ELSE "poll"
    /\ UNCHANGED <<harnessVars, streamVars, consumed, seen, steps, lastStep, main>>

Sample == CreateTracker \/ Poll \/ Update
-----------------------------------------------------------------------------
(***************************************************************************)
(* _execute                                                                *)
(***************************************************************************)
JoinStream ==
    /\ main = "join" /\ stream \in {"ended", "dead"}
    /\ main' = "join_sampler"
    /\ UNCHANGED <<harnessVars, streamVars, samplerVars>>

\* join(timeout=90): the sampler may still be at work.
JoinSampler ==
    /\ main = "join_sampler"
    /\ main' = "collected"
    /\ UNCHANGED <<harnessVars, streamVars, samplerVars>>

Main == JoinStream \/ JoinSampler

Harness ==
    HarnessWrites \/ HarnessPrints \/ (\E rc \in {0, 1} : HarnessExits(rc)) \/ PipeCloses
Next == Harness \/ Deadline \/ Stream \/ Sample \/ Main

Spec == Init /\ [][Next]_vars

\* Threads are scheduled, git calls return or time out, and time passes.  The
\* harness owes nothing, except that in TalkingSpec it goes on printing while
\* it runs, and its output is closed once it stopped.
ThreadFairness == WF_vars(Deadline) /\ WF_vars(Stream) /\ WF_vars(Sample) /\ WF_vars(Main)
Talking == WF_vars(HarnessPrints) /\ WF_vars(harness # "running" /\ PipeCloses)
TalkingSpec == Spec /\ ThreadFairness /\ Talking
-----------------------------------------------------------------------------
TypeOK ==
    /\ harness \in {"none", "running", "exited", "killed"} /\ exitCode \in {0, 1}
    /\ pipe \in {"empty", "line", "closed"}
    /\ work \in 0..MaxWork /\ committed \in 0..MaxWork
    /\ late \in BOOLEAN /\ diff \in BOOLEAN /\ ok \in BOOLEAN
    /\ stream \in {"launch", "reading", "waiting", "add", "diff", "publish", "ended", "dead"}
    /\ transcript \in 0..MaxText /\ consumed \in 0..MaxText
    /\ error \in {"none", "launch", "timeout", "no_exit", "exit", "commit"}
    /\ pstatus \in {"running", "ok", "failed"}
    /\ sampler \in {"create", "poll", "update", "gone"}
    /\ seen \in [finished : BOOLEAN, text : 0..MaxText, diff : BOOLEAN]
    /\ steps \in 0..MaxText
    /\ lastStep \in [text : 0..MaxText, diff : BOOLEAN]
    /\ main \in {"join", "join_sampler", "collected"}

\* A poll that finds the proposal finished has read its whole transcript and
\* its final diff, although diff is written outside the lock: the status is
\* published last.
FinishedIsComplete ==
    seen.finished => seen.text = transcript /\ seen.diff = diff

\* What the sampler consumed when it saw the end is everything: no text is left
\* unscored by a sampler that ended after the proposal did.
NothingLeftUnscored ==
    (sampler = "gone" /\ seen.finished) => consumed = transcript

\* Both about what the sampler makes of the end.
SamplerSeesAll == FinishedIsComplete /\ NothingLeftUnscored

\* The thread keeps ProposalPromise, which BestOfNRuns builds on.
Promise == INSTANCE ProposalPromise WITH
    thread <- IF stream \in {"ended", "dead"} THEN stream ELSE "streaming",
    ok <- IF stream = "ended" THEN ok ELSE FALSE,
    changed <- stream = "ended" /\ diff
KeepsProposalPromise == Promise!Spec

\* A harness that keeps printing is stopped by proposal_timeout_s: the run
\* thread gets to collect the proposal, and the sampler ends unless the stream
\* thread died.
TalkerIsCollected == <>(main = "collected")
SamplerEnds == (pstatus # "running") ~> (sampler = "gone")
ThreadsEnd == TalkerIsCollected /\ SamplerEnds

\* "One extra update runs after the proposal finishes, with the final diff
\* appended, so the last point reflects the completed attempt."  Not so when
\* the text was consumed before the diff existed: see the README.
FinalUpdateSeesDiff ==
    (sampler = "gone" /\ seen.finished /\ seen.diff /\ steps > 0) => lastStep.diff
=============================================================================
