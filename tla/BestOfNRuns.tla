----------------------------- MODULE BestOfNRuns -----------------------------
(***************************************************************************)
(* Best-of-N runs over one git repository.                                 *)
(*                                                                         *)
(* A run fans a task out to proposer harnesses, one worktree and branch    *)
(* each, selects the best proposal and squash-merges it into the branch    *)
(* checked out in the repository.  Two engines do this: the server's run   *)
(* manager (best_of_n_runs.py, one thread per run and per proposal) and    *)
(* the command line (best_of_n.run_best_of_n, one process per run).  Any   *)
(* number of them may work on the same repository at once; only git and    *)
(* the manager's registry are shared.                                      *)
(*                                                                         *)
(* Abstraction of the data.  What a tree holds is the set of proposals     *)
(* whose changes are in it, and a commit is identified by its tree: the    *)
(* branch only moves by commits that add something.  The harness process,  *)
(* its transcript and the progress sampler are in ProposalStream; here a   *)
(* proposal thread is one step with that module's possible outcomes.       *)
(* Scores are abstracted to the ranking they induce (PivotTournament).     *)
(***************************************************************************)
EXTENDS Integers, FiniteSets

CONSTANTS
    Runs,          \* run ids (uuid4: never reused)
    CliRuns,       \* the ones started by the command line
    MaxSlots,      \* bound: proposals of one run
    MaxFinished,   \* _MAX_FINISHED_RUNS
    MaxActive,     \* bound: runs in flight at the same time
    KeepBranches,  \* config.keep_proposal_branches
    Faults         \* which environment failures may happen

FaultKinds ==
    {"repo",     \* git init or the baseline commit fails
     "create",   \* git worktree add fails and leaves nothing
     "partial",  \* git worktree add is killed by its timeout half way
     "thread",   \* an exception nobody catches ends a proposal's thread
     "select",   \* select_best raises
     "merge",    \* git merge --squash fails for another reason than content
     "commit",   \* git commit fails (hook, index.lock)
     "remove",   \* git worktree remove, or git branch -D, fails
     "crash"}    \* the process dies

ASSUME RunsAssumption ==
    /\ CliRuns \subseteq Runs
    /\ MaxSlots \in Nat \ {0} /\ MaxFinished \in Nat /\ MaxActive \in Nat
    /\ KeepBranches \in BOOLEAN
    /\ Faults \subseteq FaultKinds

Slots == 0..(MaxSlots - 1)
Proposals == Runs \X Slots
None == -1

VARIABLES
    \* --- the run manager and the run threads
    registry,     \* the ids in BestOfNRunManager._runs
    pc,           \* where the run's thread stands
    status,       \* _RunState.status
    nslots,       \* len(slots)
    created,      \* len(proposals)
    cursor,       \* the position of _cleanup's loop
    base,         \* base_commit
    winner,       \* winner and winner_index
    merge_commit,
    finished_at,  \* 0 is Python's None
    clock,        \* time.time()
    \* --- the proposals
    thread,       \* the proposal's thread: "none", "streaming", "ended", "dead"
    pstatus,      \* proposal_status, "pending" when there is no entry
    ok,           \* Proposal.ok
    diff,         \* Proposal.diff
    \* --- git
    repo,         \* "none" (no repository), "unborn" (no commit) or "ready"
    head,         \* the tree of the checked out branch
    staged,       \* what index and work tree hold beyond head
    unmerged,     \* TRUE iff the index holds conflicts
    worktree,     \* the proposals whose worktree exists
    branch,       \* the proposals whose branch exists
    tip,          \* the tree at the tip of each branch
    forked        \* the tree each branch was created from

runVars == <<registry, pc, status, nslots, created, cursor, base, winner,
             merge_commit, finished_at, clock>>
proposalVars == <<thread, pstatus, ok, diff>>
indexVars == <<repo, head, staged, unmerged>>
branchVars == <<worktree, branch, tip, forked>>
gitVars == <<indexVars, branchVars>>
vars == <<runVars, proposalVars, gitVars>>

\* The pc values of a run whose thread (or process) is alive.
Working == {"creating", "proposing", "selecting", "merging", "committing",
            "reading", "cleaning"}
Starting == {"checking", "launching"}
InFlight == {r \in Runs : pc[r] \in Working \cup Starting}

Of(r) == {<<r, s>> : s \in 0..(created[r] - 1)}
Dirty == staged # {} \/ unmerged
Terminal == {"done", "failed"}

Init ==
    /\ registry = {} /\ clock = 1
    /\ pc = [r \in Runs |-> "idle"]
    /\ status = [r \in Runs |-> "none"]
    /\ nslots = [r \in Runs |-> 0] /\ created = [r \in Runs |-> 0]
    /\ cursor = [r \in Runs |-> 0]
    /\ base = [r \in Runs |-> {}] /\ winner = [r \in Runs |-> None]
    /\ merge_commit = [r \in Runs |-> {}]
    /\ finished_at = [r \in Runs |-> 0]
    /\ thread = [p \in Proposals |-> "none"]
    /\ pstatus = [p \in Proposals |-> "pending"]
    /\ ok = [p \in Proposals |-> FALSE] /\ diff = [p \in Proposals |-> {}]
    /\ repo \in {"none", "unborn", "ready"}
    /\ head = {} /\ staged = {} /\ unmerged = FALSE
    /\ worktree = {} /\ branch = {}
    /\ tip = [p \in Proposals |-> {}] /\ forked = [p \in Proposals |-> {}]
-----------------------------------------------------------------------------
(***************************************************************************)
(* start_run, and the head of run_best_of_n                                *)
(***************************************************************************)

\* ensure_repo_ready, then `git rev-parse HEAD`.  A folder that is no
\* repository, or has no commit, gets a baseline commit of what is in it.
ResolveHead(r) ==
    /\ pc[r] = "idle"
    /\ Cardinality(InFlight) < MaxActive
    /\ \/ /\ "repo" \in Faults /\ repo # "ready"
          /\ repo' \in {repo, "unborn"}
          /\ pc' = [pc EXCEPT ![r] = "refused"]
          /\ UNCHANGED base
       \/ /\ repo' = "ready"
          /\ base' = [base EXCEPT ![r] = head]
          /\ pc' = [pc EXCEPT ![r] = "checking"]
    /\ UNCHANGED <<registry, status, nslots, created, cursor, winner, merge_commit,
                   finished_at, clock, proposalVars, head, staged, unmerged, branchVars>>

\* start_run raises: uncommitted changes, or no launchable slot.
mutant_Refuses(m) == m = 0
Refuses(m) == Dirty \/ m = 0

\* `git status --porcelain` and the roster: m slots are launchable.
CheckClean(r) ==
    /\ pc[r] = "checking"
    /\ \E m \in 0..MaxSlots :
        /\ nslots' = [nslots EXCEPT ![r] = m]
        /\ pc' = [pc EXCEPT ![r] = IF Refuses(m) THEN "refused" ELSE "launching"]
    /\ UNCHANGED <<registry, status, created, cursor, base, winner, merge_commit,
                   finished_at, clock, proposalVars, gitVars>>

\* _prune_finished_locked: the finished runs beyond the MaxFinished newest.
\* Mutants: by status alone; the newest go first.
mutant_Finished == {q \in registry : status[q] \in Terminal}
Finished == {q \in registry : status[q] \in Terminal /\ finished_at[q] # 0}
mutant_prune_finished ==
    {q \in Finished :
        Cardinality({x \in Finished : finished_at[x] < finished_at[q]}) >= MaxFinished}
prune_finished ==
    {q \in Finished :
        Cardinality({x \in Finished : finished_at[x] > finished_at[q]}) >= MaxFinished}

\* The run is registered and its thread started: status "preparing" becomes
\* "proposing" as the thread's first statement.
Launch(r) ==
    /\ pc[r] = "launching"
    /\ registry' = IF r \in CliRuns THEN registry
                   ELSE (registry \ prune_finished) \cup {r}
    /\ pc' = [pc EXCEPT ![r] = "creating"]
    /\ status' = [status EXCEPT ![r] = "proposing"]
    /\ UNCHANGED <<nslots, created, cursor, base, winner, merge_commit, finished_at,
                   clock, proposalVars, gitVars>>
-----------------------------------------------------------------------------
(***************************************************************************)
(* _execute, and the body of run_best_of_n                                 *)
(***************************************************************************)

\* An exception inside the try: failed, then the cleanup of the finally.
Fail(r) ==
    /\ pc' = [pc EXCEPT ![r] = "cleaning"]
    /\ status' = [status EXCEPT ![r] = "failed"]

\* An exception outside run_best_of_n's try leaves at once: no cleanup runs.
LeaveUncleaned(r) ==
    /\ pc' = [pc EXCEPT ![r] = "finished"]
    /\ status' = [status EXCEPT ![r] = "failed"]

CreateRaises(r) == IF r \in CliRuns THEN LeaveUncleaned(r) ELSE Fail(r)

\* create_worktree for the next slot: a new branch at the current HEAD of the
\* repository, which is base_commit only if nobody committed meanwhile.
CreateWorktree(r) ==
    LET p == <<r, created[r]>>
    IN  /\ pc[r] = "creating" /\ created[r] < nslots[r]
        /\ worktree' = worktree \cup {p}
        /\ branch' = branch \cup {p}
        /\ tip' = [tip EXCEPT ![p] = head]
        /\ forked' = [forked EXCEPT ![p] = head]
        /\ pstatus' = [pstatus EXCEPT ![p] = "running"]
        /\ created' = [created EXCEPT ![r] = @ + 1]
        /\ UNCHANGED <<registry, pc, status, nslots, cursor, base, winner, merge_commit,
                       finished_at, clock, thread, ok, diff, indexVars>>

\* create_worktree raises.  When git is killed half way the branch, or the
\* branch and the worktree, stay behind and nobody knows of them.
CreateWorktreeFails(r) ==
    LET p == <<r, created[r]>>
    IN  /\ pc[r] = "creating" /\ created[r] < nslots[r]
        /\ \/ "create" \in Faults /\ UNCHANGED <<worktree, branch>>
           \/ "partial" \in Faults /\ branch' = branch \cup {p} /\ UNCHANGED worktree
           \/ "partial" \in Faults /\ branch' = branch \cup {p} /\ worktree' = worktree \cup {p}
        /\ CreateRaises(r)
        /\ UNCHANGED <<registry, nslots, created, cursor, base, winner, merge_commit,
                       finished_at, clock, proposalVars, indexVars, tip, forked>>

\* Every worktree exists: the proposal threads start.
StartThreads(r) ==
    /\ pc[r] = "creating" /\ created[r] = nslots[r]
    /\ pc' = [pc EXCEPT ![r] = "proposing"]
    /\ thread' = [p \in Proposals |-> IF p \in Of(r) THEN "streaming" ELSE thread[p]]
    /\ UNCHANGED <<registry, status, nslots, created, cursor, base, winner, merge_commit,
                   finished_at, clock, pstatus, ok, diff, gitVars>>

\* The tree at the tip of p's branch once snapshot_proposal committed what the
\* harness left in the worktree: `wrote` says whether it left anything.
\* The mutant: the run's proposals work in the same directory.
mutant_Snapshot(p, wrote) ==
    IF wrote THEN tip[p] \cup {q \in worktree : q[1] = p[1]} ELSE tip[p]
Snapshot(p, wrote) == IF wrote THEN tip[p] \cup {p} ELSE tip[p]

\* The harness ends (or is killed) and its work is snapshotted.  `error` is
\* Proposal.error # None, `text` whether the transcript says anything.
StreamProposal(p, wrote, error, text) ==
    /\ thread[p] = "streaming"
    /\ thread' = [thread EXCEPT ![p] = "ended"]
    /\ tip' = [tip EXCEPT ![p] = Snapshot(p, wrote)]
    /\ diff' = [diff EXCEPT ![p] = Snapshot(p, wrote) \ base[p[1]]]
    /\ ok' = [ok EXCEPT ![p] = ~error \/ diff'[p] # {} \/ text]
    /\ pstatus' = [pstatus EXCEPT ![p] = IF ok'[p] THEN "ok" ELSE "failed"]
    /\ UNCHANGED <<runVars, indexVars, worktree, branch, forked>>

\* A git call of snapshot_proposal raises TimeoutExpired, or a line of the
\* harness is no text, and nobody catches it: the thread is gone, before or
\* after the commit, and nothing is recorded.
StreamDies(p, wrote) ==
    /\ "thread" \in Faults
    /\ thread[p] = "streaming"
    /\ thread' = [thread EXCEPT ![p] = "dead"]
    /\ tip' = [tip EXCEPT ![p] = Snapshot(p, wrote)]
    /\ UNCHANGED <<runVars, pstatus, ok, diff, indexVars, worktree, branch, forked>>

\* The usable proposals.
Usable(r) == {s \in Slots : <<r, s>> \in Of(r) /\ ok[<<r, s>>]}

\* Thread.join returns however the thread ended.  The mutant waits for the
\* proposal's outcome instead.
mutant_Joined(p) == pstatus[p] # "running"
Joined(p) == thread[p] \in {"ended", "dead"}

\* All threads are joined.  In run_best_of_n a thread's exception surfaces
\* here, outside the try; with no usable proposal both engines clean up.
JoinThreads(r) ==
    /\ pc[r] = "proposing"
    /\ \A p \in Of(r) : Joined(p)
    /\ IF r \in CliRuns /\ \E p \in Of(r) : thread[p] = "dead"
       THEN LeaveUncleaned(r)
       ELSE IF Usable(r) = {}
       THEN Fail(r)
       ELSE /\ pc' = [pc EXCEPT ![r] = "selecting"]
            /\ status' = [status EXCEPT ![r] = "scoring"]
    /\ UNCHANGED <<registry, nslots, created, cursor, base, winner, merge_commit,
                   finished_at, clock, proposalVars, gitVars>>

\* select_best ranks the usable proposals; the result is published under the
\* run's lock with status "merging".
Select(r) ==
    /\ pc[r] = "selecting"
    /\ \E s \in Usable(r) : winner' = [winner EXCEPT ![r] = s]
    /\ pc' = [pc EXCEPT ![r] = "merging"]
    /\ status' = [status EXCEPT ![r] = "merging"]
    /\ UNCHANGED <<registry, nslots, created, cursor, base, merge_commit, finished_at,
                   clock, proposalVars, gitVars>>

SelectRaises(r) ==
    /\ "select" \in Faults
    /\ pc[r] = "selecting"
    /\ Fail(r)
    /\ UNCHANGED <<registry, nslots, created, cursor, base, winner, merge_commit,
                   finished_at, clock, proposalVars, gitVars>>
-----------------------------------------------------------------------------
(***************************************************************************)
(* _merge_winner                                                           *)
(***************************************************************************)

\* The mutant takes the first proposal for the winner.
mutant_Winner(r) == <<r, 0>>
Winner(r) == <<r, winner[r]>>

\* What is published once merge_winner returned `commit`.
Done(r, commit) ==
    /\ merge_commit' = [merge_commit EXCEPT ![r] = commit]
    /\ status' = [status EXCEPT ![r] = "done"]
    /\ pc' = [pc EXCEPT ![r] = "cleaning"]

\* An empty diff: nothing to merge, no commit.
NothingToMerge(r) ==
    /\ pc[r] = "merging" /\ diff[Winner(r)] = {}
    /\ Done(r, {})
    /\ UNCHANGED <<registry, nslots, created, cursor, base, winner, finished_at, clock,
                   proposalVars, gitVars>>

\* git's cases of `merge --squash`, as its return codes show them to the code:
\* an index with conflicts is refused; a branch without a commit of its own is
\* "already up to date"; a fast forward tolerates an index that is ahead of
\* HEAD unless it touches the same files; a real merge does not tolerate it.
UpToDate(w) == tip[w] = forked[w]
FastForward(w) == forked[w] = head
MayStage(w) == ~unmerged /\ (UpToDate(w) \/ FastForward(w) \/ staged = {})
MayRefuse(w) == unmerged \/ (~UpToDate(w) /\ staged # {}) \/ "merge" \in Faults
MayConflict(w) == ~unmerged /\ ~UpToDate(w) /\ ~FastForward(w) /\ staged = {}
ToStage(w) == IF UpToDate(w) THEN staged ELSE staged \cup (tip[w] \ head)

MergeSquash(r) ==
    /\ pc[r] = "merging" /\ diff[Winner(r)] # {}
    /\ MayStage(Winner(r))
    /\ staged' = ToStage(Winner(r))
    /\ pc' = [pc EXCEPT ![r] = "committing"]
    /\ UNCHANGED <<registry, status, nslots, created, cursor, base, winner, merge_commit,
                   finished_at, clock, proposalVars, repo, head, unmerged, branchVars>>

\* A failed squash raises; nothing puts the index back.
MergeFails(r) ==
    /\ pc[r] = "merging" /\ diff[Winner(r)] # {}
    /\ \/ MayRefuse(Winner(r)) /\ UNCHANGED <<staged, unmerged>>
       \/ MayConflict(Winner(r)) /\ staged' = ToStage(Winner(r)) /\ unmerged' = TRUE
       \/ "merge" \in Faults /\ MayStage(Winner(r))       \* killed after staging
             /\ staged' = ToStage(Winner(r)) /\ UNCHANGED unmerged
    /\ Fail(r)
    /\ UNCHANGED <<registry, nslots, created, cursor, base, winner, merge_commit,
                   finished_at, clock, proposalVars, repo, head, branchVars>>

\* git commit takes everything in the index, whoever staged it.
CommitWinner(r) ==
    /\ pc[r] = "committing"
    /\ staged # {} /\ ~unmerged
    /\ head' = head \cup staged
    /\ staged' = {}
    /\ pc' = [pc EXCEPT ![r] = "reading"]
    /\ UNCHANGED <<registry, status, nslots, created, cursor, base, winner, merge_commit,
                   finished_at, clock, proposalVars, repo, unmerged, branchVars>>

\* "nothing to commit" is a failure here, and so are conflicts.  The mutant
\* records the error and goes on.
mutant_CommitFails(r) ==
    /\ pc[r] = "committing"
    /\ staged = {} \/ unmerged \/ "commit" \in Faults
    /\ pc' = [pc EXCEPT ![r] = "reading"]
    /\ status' = [status EXCEPT ![r] = "failed"]
    /\ UNCHANGED <<registry, nslots, created, cursor, base, winner, merge_commit,
                   finished_at, clock, proposalVars, gitVars>>
CommitFails(r) ==
    /\ pc[r] = "committing"
    /\ staged = {} \/ unmerged \/ "commit" \in Faults
    /\ Fail(r)
    /\ UNCHANGED <<registry, nslots, created, cursor, base, winner, merge_commit,
                   finished_at, clock, proposalVars, gitVars>>

\* The commit id is read back with `git rev-parse HEAD`, a second command.
\* Mutants: the id resolved at the start is reported; reading it back raises.
mutant_ReadHead(r) ==
    /\ pc[r] = "reading"
    /\ Done(r, base[r])
    /\ UNCHANGED <<registry, nslots, created, cursor, base, winner, finished_at, clock,
                   proposalVars, gitVars>>
mutant_ReadHeadRaises(r) ==
    /\ pc[r] = "reading"
    /\ Fail(r)
    /\ UNCHANGED <<registry, nslots, created, cursor, base, winner, merge_commit,
                   finished_at, clock, proposalVars, gitVars>>
ReadHead(r) ==
    /\ pc[r] = "reading"
    /\ Done(r, head)
    /\ UNCHANGED <<registry, nslots, created, cursor, base, winner, finished_at, clock,
                   proposalVars, gitVars>>
-----------------------------------------------------------------------------
(***************************************************************************)
(* _cleanup: remove_worktree for every proposal, errors swallowed          *)
(***************************************************************************)

\* Mutants: the winner is dropped and the losers kept; every worktree of the
\* repository goes.
mutant_KeepBranch(p) == KeepBranches \/ p[2] # winner[p[1]]
KeepBranch(p) == KeepBranches \/ p[2] = winner[p[1]]
MoreToClean(r) == cursor[r] < created[r]
mutant_WorktreesWithout(p) == {}
WorktreesWithout(p) == worktree \ {p}

CleanNext(r) ==
    LET p == <<r, cursor[r]>>
    IN  /\ pc[r] = "cleaning" /\ MoreToClean(r)
        /\ \/ /\ worktree' = WorktreesWithout(p)
              /\ branch' = IF KeepBranch(p) THEN branch ELSE branch \ {p}
           \/ "remove" \in Faults /\ UNCHANGED <<worktree, branch>>
           \/ "remove" \in Faults /\ worktree' = WorktreesWithout(p) /\ UNCHANGED branch
        /\ cursor' = [cursor EXCEPT ![r] = @ + 1]
        /\ UNCHANGED <<registry, pc, status, nslots, created, base, winner, merge_commit,
                       finished_at, clock, proposalVars, indexVars, tip, forked>>

Finish(r) ==
    /\ pc[r] = "cleaning" /\ cursor[r] = created[r]
    /\ finished_at' = [finished_at EXCEPT ![r] = clock]
    /\ clock' = clock + 1
    /\ pc' = [pc EXCEPT ![r] = "finished"]
    /\ UNCHANGED <<registry, status, nslots, created, cursor, base, winner, merge_commit,
                   proposalVars, gitVars>>

\* A process dies and takes its threads along: they are daemons, no finally
\* runs.  For the server that is every run of the manager, finished or not.
Crash(S) ==
    /\ "crash" \in Faults
    /\ \E r \in S : pc[r] \in Working \cup Starting
    /\ registry' = registry \ S
    /\ pc' = [r \in Runs |-> IF r \in S /\ pc[r] # "idle" THEN "lost" ELSE pc[r]]
    /\ thread' = [p \in Proposals |-> IF p[1] \in S /\ thread[p] = "streaming"
                                      THEN "dead" ELSE thread[p]]
    /\ UNCHANGED <<status, nslots, created, cursor, base, winner, merge_commit,
                   finished_at, clock, pstatus, ok, diff, gitVars>>
-----------------------------------------------------------------------------
Start(r) == ResolveHead(r) \/ CheckClean(r) \/ Launch(r)
Execute(r) ==
    \/ CreateWorktree(r) \/ CreateWorktreeFails(r) \/ StartThreads(r) \/ JoinThreads(r)
    \/ Select(r) \/ SelectRaises(r)
    \/ NothingToMerge(r) \/ MergeSquash(r) \/ MergeFails(r)
    \/ CommitWinner(r) \/ CommitFails(r) \/ ReadHead(r)
    \/ CleanNext(r) \/ Finish(r)
Stream(p) ==
    \/ \E wrote, error, text \in BOOLEAN : StreamProposal(p, wrote, error, text)
    \/ \E wrote \in BOOLEAN : StreamDies(p, wrote)
ServerCrash == Crash(Runs \ CliRuns)
CliCrash == \E r \in CliRuns : Crash({r})

Next ==
    \/ \E r \in Runs : Start(r) \/ Execute(r)
    \/ \E p \in Proposals : Stream(p)
    \/ ServerCrash
    \/ CliCrash

Spec == Init /\ [][Next]_vars

\* The scheduler runs every thread, every git call returns (each has a
\* timeout), and every harness ends: that last one is an assumption on the
\* harness, see ProposalStream.
Fairness ==
    /\ \A r \in Runs : WF_vars(CheckClean(r) \/ Launch(r)) /\ WF_vars(Execute(r))
    /\ \A p \in Proposals : WF_vars(Stream(p))
FairSpec == Spec /\ Fairness
-----------------------------------------------------------------------------
(***************************************************************************)
(* Properties.                                                             *)
(***************************************************************************)

TypeOK ==
    /\ registry \subseteq Runs \ CliRuns
    /\ pc \in [Runs -> Working \cup Starting \cup {"idle", "refused", "finished", "lost"}]
    /\ status \in [Runs -> {"none", "proposing", "scoring", "merging"} \cup Terminal]
    /\ nslots \in [Runs -> 0..MaxSlots]
    /\ created \in [Runs -> 0..MaxSlots]
    /\ cursor \in [Runs -> 0..MaxSlots]
    /\ base \in [Runs -> SUBSET Proposals]
    /\ winner \in [Runs -> Slots \cup {None}]
    /\ merge_commit \in [Runs -> SUBSET Proposals]
    /\ finished_at \in [Runs -> Nat] /\ clock \in Nat \ {0}
    /\ thread \in [Proposals -> {"none", "streaming", "ended", "dead"}]
    /\ pstatus \in [Proposals -> {"pending", "running", "ok", "failed"}]
    /\ ok \in [Proposals -> BOOLEAN]
    /\ diff \in [Proposals -> SUBSET Proposals]
    /\ repo \in {"none", "unborn", "ready"}
    /\ head \in SUBSET Proposals /\ staged \in SUBSET Proposals /\ unmerged \in BOOLEAN
    /\ worktree \in SUBSET Proposals /\ branch \in SUBSET Proposals
    /\ tip \in [Proposals -> SUBSET Proposals]
    /\ forked \in [Proposals -> SUBSET Proposals]

\* A server run whose thread is still at work can be found through get() and
\* list(): _prune_finished_locked never evicts a run before its cleanup ended,
\* not even one whose status is already "done" or "failed".
LiveRunsListed == \A r \in Runs \ CliRuns : pc[r] \in Working => r \in registry

\* However runs interleave, crash or fail, what reaches the user's branch, or
\* is left staged on it, never holds two proposals of the same run.
OneProposalPerRun ==
    \A r \in Runs : \A s, t \in Slots :
        ({<<r, s>>, <<r, t>>} \subseteq head \cup staged) => s = t

\* Whatever reaches the branch, or is staged for it, is the selected proposal of
\* its run and one that ended in a usable trajectory: never the work of a failed
\* or still running proposal (`usable` in _execute and run_best_of_n).
OnlySelectedWorkLands ==
    \A p \in head \cup staged : winner[p[1]] = p[2] /\ ok[p] /\ pstatus[p] = "ok"

\* A run reported "done" whose winner changed something has those changes on the
\* branch, even when another run's commit swept them up (_merge_winner).
DoneMeansLanded ==
    \A r \in Runs :
        (status[r] = "done" /\ diff[Winner(r)] # {}) => diff[Winner(r)] \subseteq head

\* Until its cleanup begins, every proposal of a run has its worktree and its
\* branch: no other run's cleanup takes them away, so that the harnesses have a
\* place to work and the winner a branch to merge.
WorktreesOutliveTheRun ==
    \A r \in Runs : pc[r] \in Working \ {"cleaning"} => Of(r) \subseteq worktree \cap branch

\* A run that ended left no worktree, and of its branches only the winner's (all
\* of them with keep_proposal_branches), whatever step raised, as long as git
\* itself removes what it is asked to.  On the command line this holds only when
\* the exception came after the proposals were collected (LeaveUncleaned).
Collected(r) == created[r] = nslots[r] /\ \A p \in Of(r) : thread[p] = "ended"
CleansUp ==
    (Faults \cap {"remove", "partial"} = {}) =>
        \A r \in Runs :
            (pc[r] = "finished" /\ (r \in CliRuns => Collected(r))) =>
                /\ worktree \cap ({r} \X Slots) = {}
                /\ \A s \in Slots :
                    <<r, s>> \in branch <=>
                        <<r, s>> \in Of(r) /\ (KeepBranches \/ winner[r] = s)

\* Only finished runs are evicted, oldest first, and never below the cap
\* (_prune_finished_locked); a restart of the server forgets all of them.
EvictOldestFirst ==
    [][(registry' # registry /\ registry' # {}) =>
        \A q \in registry \ registry' :
            /\ pc[q] = "finished"
            /\ \A x \in registry \cap registry' :
                pc[x] = "finished" => finished_at[x] > finished_at[q]
            /\ Cardinality({x \in registry' : pc[x] = "finished"}) >= MaxFinished]_vars

\* Once a run shows an outcome, later steps, its own cleanup and the other runs'
\* included, change neither the outcome nor the winner nor the commit.
OutcomeIsFinal ==
    [][\A r \in Runs : status[r] \in Terminal =>
        UNCHANGED <<status[r], winner[r], merge_commit[r]>>]_vars

\* The commit a run reports is the commit the run started from plus its winner's
\* own changes and nothing else ("the final commit on the user's branch is the
\* selected best-of-N proposal").  True of runs that do not overlap.
ReportsItsOwnCommit ==
    \A r \in Runs :
        (status[r] = "done" /\ diff[Winner(r)] # {}) =>
            merge_commit[r] = base[r] \cup {Winner(r)}

\* A run reported "failed" has nothing on the branch, now or after later runs.
\* True of runs that do not overlap.
FailedNeverLands ==
    \A r \in Runs : status[r] = "failed" => head \cap ({r} \X Slots) = {}

\* A worktree always belongs to a run that is still at work on it or cleaning it
\* up: what the module comment of best_of_n_runs.py says a restart preserves.  A
\* crash breaks it: see the README.
NoStrandedWorktrees == \A p \in worktree : pc[p[1]] \in Working

\* Every run that passed ResolveHead ends: refused, finished, or lost with its
\* process; no interleaving of the runs blocks one of them.
EveryRunEnds ==
    \A r \in Runs : pc[r] = "checking" ~> pc[r] \in {"refused", "finished", "lost"}
-----------------------------------------------------------------------------
(***************************************************************************)
(* The inductive invariant behind the proofs of BestOfNRuns_proofs.        *)
(***************************************************************************)
Merging == {"merging", "committing", "reading"}
Ended == {"cleaning", "finished", "lost"}
NotLaunched == {"idle", "checking", "launching"}

\* Control: an outcome is shown only once the try block was left, a finish time
\* only after the cleanup, and nothing is created before the launch.
PhasesAgree ==
    \A r \in Runs :
        /\ status[r] \in Terminal => pc[r] \in Ended
        /\ finished_at[r] # 0 => pc[r] \in {"finished", "lost"}
        /\ pc[r] \in NotLaunched => created[r] = 0

\* Results belong to threads that ended, threads to proposals that were created,
\* and no thread streams once the run joined its threads.
ThreadsAgree ==
    \A p \in Proposals :
        /\ thread[p] # "none" =>
            p[2] < created[p[1]] /\ pc[p[1]] \notin NotLaunched \cup {"creating"}
        /\ (ok[p] \/ diff[p] # {}) => thread[p] = "ended"
        /\ ok[p] => pstatus[p] = "ok"
        /\ (pc[p[1]] \in Merging \cup {"selecting"} \/ status[p[1]] = "done") =>
            thread[p] # "streaming"

\* A run that merges, or is done, has a usable winner among its proposals.
WinnerChosen ==
    \A r \in Runs :
        (pc[r] \in Merging \/ status[r] = "done") => winner[r] \in Usable(r)

\* A branch is its fork point plus its own proposal, the fork point is in the
\* branch's history, and the winner's diff moves from index to head.
TreesAgree ==
    /\ \A p \in Proposals :
        /\ forked[p] \subseteq head
        /\ tip[p] \subseteq head \cup {p}
        /\ diff[p] \subseteq tip[p]
    /\ \A r \in Runs :
        /\ pc[r] = "committing" => diff[Winner(r)] \subseteq head \cup staged
        /\ (pc[r] = "reading" \/ status[r] = "done") => diff[Winner(r)] \subseteq head

\* What is on the branch or staged belongs to runs that got as far as merging.
LandedByMergers ==
    \A p \in head \cup staged : pc[p[1]] \in Merging \cup Ended

IInv ==
    /\ TypeOK /\ PhasesAgree /\ ThreadsAgree /\ WinnerChosen /\ TreesAgree
    /\ LandedByMergers /\ OnlySelectedWorkLands
    /\ LiveRunsListed /\ WorktreesOutliveTheRun
-----------------------------------------------------------------------------
(***************************************************************************)
(* The promise, and how the state of the runs shows it.                    *)
(***************************************************************************)
Outcome ==
    [r \in Runs |->
        IF head \cap ({r} \X Slots) # {} THEN "landed"
        ELSE IF status[r] = "failed" THEN "failed"
        ELSE IF status[r] = "done" THEN "unchanged"
        ELSE "open"]

Promise == INSTANCE BestOfNPromise WITH branchTip <- head, outcome <- Outcome

\* Runs that do not overlap keep the promise of BestOfNPromise: one of three
\* outcomes, and a branch that grows by one proposal per landed run, at the
\* instant of `git commit`.
KeepsPromise == Promise!Spec
=============================================================================
