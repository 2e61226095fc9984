------------------------- MODULE BestOfNRuns_proofs -------------------------
(***************************************************************************)
(* Proofs about BestOfNRuns, for any number of runs, slots and overlapping *)
(* runs and for any set of faults.                                         *)
(***************************************************************************)
EXTENDS BestOfNRuns, FiniteSetTheorems, WellFoundedInduction, TLAPS

USE DEF Terminal, Working, Starting

\* A slot is a number, and the absence of a winner is not a slot.
LEMMA SlotsAreNats == Slots \subseteq Nat /\ None \notin Slots
  BY RunsAssumption DEF Slots, None

\* The type invariant: it holds before the first run, and each group of actions keeps it.
LEMMA TypeInit == Init => TypeOK
<1>. SUFFICES ASSUME Init PROVE TypeOK
  OBVIOUS
<1>1. /\ registry \subseteq Runs \ CliRuns
      /\ nslots \in [Runs -> 0..MaxSlots]
      /\ created \in [Runs -> 0..MaxSlots]
      /\ cursor \in [Runs -> 0..MaxSlots]
      /\ winner \in [Runs -> Slots \cup {None}]
      /\ finished_at \in [Runs -> Nat] /\ clock \in Nat \ {0}
  BY RunsAssumption DEF Init
<1>2. /\ base \in [Runs -> SUBSET Proposals]
      /\ merge_commit \in [Runs -> SUBSET Proposals]
      /\ diff \in [Proposals -> SUBSET Proposals]
      /\ tip \in [Proposals -> SUBSET Proposals]
      /\ forked \in [Proposals -> SUBSET Proposals]
  BY DEF Init
<1>3. ok \in [Proposals -> BOOLEAN] /\ unmerged \in BOOLEAN
  BY Zenon DEF Init
<1>. QED  BY <1>1, <1>2, <1>3 DEF Init, TypeOK

\* start_run and the command line up to the launch.
LEMMA TypeStart ==
  ASSUME TypeOK, NEW r \in Runs, Start(r)
  PROVE  TypeOK'
<1>1. CASE ResolveHead(r)
  BY <1>1, RunsAssumption DEF TypeOK, ResolveHead, proposalVars, branchVars
<1>2. CASE CheckClean(r)
  BY <1>2, RunsAssumption DEF TypeOK, CheckClean, proposalVars, gitVars, indexVars, branchVars
<1>3. CASE Launch(r)
  BY <1>3, RunsAssumption
  DEF TypeOK, Launch, prune_finished, Finished, proposalVars, gitVars, indexVars, branchVars
<1>. QED  BY <1>1, <1>2, <1>3 DEF Start

\* The thread of one proposal.
LEMMA TypeStream ==
  ASSUME TypeOK, NEW p \in Proposals, Stream(p)
  PROVE  TypeOK'
<1>1. ASSUME NEW wrote \in BOOLEAN, NEW error \in BOOLEAN, NEW text \in BOOLEAN,
             StreamProposal(p, wrote, error, text)
      PROVE  TypeOK'
  <2>1. Snapshot(p, wrote) \in SUBSET Proposals
    BY DEF TypeOK, Snapshot
  <2>. QED BY <1>1, <2>1
       DEF TypeOK, StreamProposal, runVars, indexVars
<1>2. ASSUME NEW wrote \in BOOLEAN, StreamDies(p, wrote)
      PROVE  TypeOK'
  <2>1. Snapshot(p, wrote) \in SUBSET Proposals
    BY DEF TypeOK, Snapshot
  <2>. QED BY <1>2, <2>1 DEF TypeOK, StreamDies, runVars, indexVars
<1>. QED BY <1>1, <1>2 DEF Stream

\* The thread of a run, from the first worktree to the finish.
LEMMA TypeExecute ==
  ASSUME TypeOK, WinnerChosen, NEW r \in Runs, Execute(r)
  PROVE  TypeOK'
<1>. USE RunsAssumption
<1>1. CASE CreateWorktree(r)
  <2>1. <<r, created[r]>> \in Proposals
    BY <1>1 DEF TypeOK, CreateWorktree, Proposals, Slots
  <2>2. created[r] + 1 \in 0..MaxSlots
    BY <1>1 DEF TypeOK, CreateWorktree
  <2>. QED  BY <1>1, <2>1, <2>2 DEF TypeOK, CreateWorktree, indexVars
<1>2. CASE CreateWorktreeFails(r)
  <2>1. <<r, created[r]>> \in Proposals
    BY <1>2 DEF TypeOK, CreateWorktreeFails, Proposals, Slots
  <2>2. worktree' \in SUBSET Proposals /\ branch' \in SUBSET Proposals
    BY <1>2, <2>1 DEF TypeOK, CreateWorktreeFails
  <2>. QED  BY <1>2, <2>2
       DEF TypeOK, CreateWorktreeFails, CreateRaises, LeaveUncleaned, Fail, proposalVars, indexVars
<1>3. CASE StartThreads(r)
  BY <1>3 DEF TypeOK, StartThreads, gitVars, indexVars, branchVars
<1>4. CASE JoinThreads(r)
  BY <1>4 DEF TypeOK, JoinThreads, LeaveUncleaned, Fail, proposalVars, gitVars, indexVars, branchVars
<1>5. CASE Select(r)
  <2>1. Usable(r) \subseteq Slots
    BY DEF Usable
  <2>. QED  BY <1>5, <2>1 DEF TypeOK, Select, proposalVars, gitVars, indexVars, branchVars
<1>6. CASE SelectRaises(r)
  BY <1>6 DEF TypeOK, SelectRaises, Fail, proposalVars, gitVars, indexVars, branchVars
<1>7. CASE NothingToMerge(r)
  BY <1>7 DEF TypeOK, NothingToMerge, Done, proposalVars, gitVars, indexVars, branchVars
<1>8. ASSUME pc[r] = "merging"
      PROVE  ToStage(Winner(r)) \in SUBSET Proposals
  <2>1. Winner(r) \in Proposals
    BY <1>8 DEF WinnerChosen, Usable, Merging, Winner, Proposals
  <2>. QED  BY <2>1 DEF TypeOK, ToStage
<1>9. CASE MergeSquash(r)
  BY <1>8, <1>9 DEF TypeOK, MergeSquash, proposalVars, branchVars
<1>10. CASE MergeFails(r)
  <2>1. staged' \in SUBSET Proposals /\ unmerged' \in BOOLEAN
    BY <1>8, <1>10 DEF TypeOK, MergeFails
  <2>. QED  BY <1>10, <2>1 DEF TypeOK, MergeFails, Fail, proposalVars, branchVars
<1>11. CASE CommitWinner(r)
  BY <1>11 DEF TypeOK, CommitWinner, proposalVars, branchVars
<1>12. CASE CommitFails(r)
  BY <1>12 DEF TypeOK, CommitFails, Fail, proposalVars, gitVars, indexVars, branchVars
<1>13. CASE ReadHead(r)
  BY <1>13 DEF TypeOK, ReadHead, Done, proposalVars, gitVars, indexVars, branchVars
<1>14. CASE CleanNext(r)
  <2>1. cursor[r] + 1 \in 0..MaxSlots
    BY <1>14 DEF TypeOK, CleanNext, MoreToClean
  <2>2. worktree' \in SUBSET Proposals /\ branch' \in SUBSET Proposals
    BY <1>14 DEF TypeOK, CleanNext, WorktreesWithout
  <2>. QED  BY <1>14, <2>1, <2>2 DEF TypeOK, CleanNext, proposalVars, indexVars
<1>15. CASE Finish(r)
  BY <1>15 DEF TypeOK, Finish, proposalVars, gitVars, indexVars, branchVars
<1>. QED
  BY <1>1, <1>2, <1>3, <1>4, <1>5, <1>6, <1>7, <1>9, <1>10, <1>11, <1>12, <1>13,
     <1>14, <1>15 DEF Execute

\* The process of some runs dies.
LEMMA TypeCrash ==
  ASSUME TypeOK, NEW S \in SUBSET Runs, Crash(S)
  PROVE  TypeOK'
BY DEF TypeOK, Crash, gitVars, indexVars, branchVars

\* Outcomes and finish times are written in the last phases only.
LEMMA PhasesStep ==
  ASSUME TypeOK, PhasesAgree, Next
  PROVE  PhasesAgree'
<1>. USE RunsAssumption DEF TypeOK, PhasesAgree, Ended, NotLaunched
<1>1. ASSUME NEW r \in Runs, Start(r) PROVE PhasesAgree'
  BY <1>1 DEF Start, ResolveHead, CheckClean, Launch
<1>2. ASSUME NEW r \in Runs, Execute(r) PROVE PhasesAgree'
  BY <1>2 DEF Execute, CreateWorktree, CreateWorktreeFails, CreateRaises, LeaveUncleaned,
     Fail, StartThreads, JoinThreads, Select, SelectRaises, NothingToMerge, Done, MergeSquash,
     MergeFails, CommitWinner, CommitFails, ReadHead, CleanNext, Finish
<1>3. ASSUME NEW p \in Proposals, Stream(p) PROVE PhasesAgree'
  BY <1>3 DEF Stream, StreamProposal, StreamDies, runVars
<1>4. ASSUME NEW S \in SUBSET Runs, Crash(S) PROVE PhasesAgree'
  BY <1>4 DEF Crash
<1>. QED  BY <1>1, <1>2, <1>3, <1>4 DEF Next, ServerCrash, CliCrash

\* _prune removes finished runs only, so a run at work stays listed.
LEMMA ListedStep ==
  ASSUME TypeOK, PhasesAgree, LiveRunsListed, Next
  PROVE  LiveRunsListed'
<1>. USE RunsAssumption DEF TypeOK, LiveRunsListed
<1>1. ASSUME NEW r \in Runs, Start(r) PROVE LiveRunsListed'
  <2>1. CASE ResolveHead(r) \/ CheckClean(r)
    BY <2>1 DEF ResolveHead, CheckClean
  <2>2. CASE Launch(r)
    BY <2>2 DEF Launch, prune_finished, Finished, PhasesAgree
  <2>. QED  BY <1>1, <2>1, <2>2 DEF Start
<1>2. ASSUME NEW r \in Runs, Execute(r) PROVE LiveRunsListed'
  BY <1>2 DEF Execute, CreateWorktree, CreateWorktreeFails, CreateRaises, LeaveUncleaned,
     Fail, StartThreads, JoinThreads, Select, SelectRaises, NothingToMerge, Done, MergeSquash,
     MergeFails, CommitWinner, CommitFails, ReadHead, CleanNext, Finish
<1>3. ASSUME NEW p \in Proposals, Stream(p) PROVE LiveRunsListed'
  BY <1>3 DEF Stream, StreamProposal, StreamDies, runVars
<1>4. CASE ServerCrash
  BY <1>4 DEF ServerCrash, Crash
<1>5. CASE CliCrash
  BY <1>5 DEF CliCrash, Crash
<1>. QED  BY <1>1, <1>2, <1>3, <1>4, <1>5 DEF Next

\* Worktrees and branches are removed by the run that created them.
LEMMA WorktreesStep ==
  ASSUME TypeOK, PhasesAgree, WorktreesOutliveTheRun, Next
  PROVE  WorktreesOutliveTheRun'
<1>. USE RunsAssumption DEF TypeOK, WorktreesOutliveTheRun, Of
<1>1. ASSUME NEW r \in Runs, Start(r) PROVE WorktreesOutliveTheRun'
  BY <1>1 DEF Start, ResolveHead, CheckClean, Launch, gitVars, branchVars, PhasesAgree, NotLaunched
<1>2. ASSUME NEW r \in Runs, Execute(r) PROVE WorktreesOutliveTheRun'
  <2>1. CASE CreateWorktree(r)
    <3>. SUFFICES ASSUME NEW q \in Runs, pc'[q] \in Working \ {"cleaning"},
                         NEW s \in 0..(created'[q] - 1)
                  PROVE  <<q, s>> \in worktree' \cap branch'
      OBVIOUS
    <3>1. CASE s \in 0..(created[q] - 1)
      BY <2>1, <3>1 DEF CreateWorktree
    <3>2. CASE s \notin 0..(created[q] - 1)
      <4>1. created[q] \in Nat /\ created'[q] = IF q = r THEN created[q] + 1 ELSE created[q]
        BY <2>1 DEF CreateWorktree
      <4>2. q = r /\ s = created[r]
        BY <3>2, <4>1
      <4>. QED  BY <2>1, <4>2 DEF CreateWorktree
    <3>. QED  BY <3>1, <3>2
  <2>2. CASE CreateWorktreeFails(r)
    BY <2>2 DEF CreateWorktreeFails, CreateRaises, LeaveUncleaned, Fail
  <2>3. CASE CleanNext(r)
    BY <2>3 DEF CleanNext, WorktreesWithout
  <2>4. CASE ~(CreateWorktree(r) \/ CreateWorktreeFails(r) \/ CleanNext(r))
    BY <1>2, <2>4 DEF Execute, LeaveUncleaned, Fail, StartThreads, JoinThreads, Select,
       SelectRaises, NothingToMerge, Done, MergeSquash, MergeFails, CommitWinner, CommitFails,
       ReadHead, Finish, gitVars, branchVars
  <2>. QED  BY <2>1, <2>2, <2>3, <2>4
<1>3. ASSUME NEW p \in Proposals, Stream(p) PROVE WorktreesOutliveTheRun'
  BY <1>3 DEF Stream, StreamProposal, StreamDies, runVars
<1>4. ASSUME NEW S \in SUBSET Runs, Crash(S) PROVE WorktreesOutliveTheRun'
  BY <1>4 DEF Crash, gitVars, branchVars
<1>. QED  BY <1>1, <1>2, <1>3, <1>4 DEF Next, ServerCrash, CliCrash

\* A result comes from an ended thread; joining waits for all of them.
LEMMA ThreadsStep ==
  ASSUME TypeOK, PhasesAgree, ThreadsAgree, Next
  PROVE  ThreadsAgree'
<1>. USE RunsAssumption DEF TypeOK, ThreadsAgree, NotLaunched, Merging, Proposals, Slots
<1>1. ASSUME NEW r \in Runs, Start(r) PROVE ThreadsAgree'
  BY <1>1 DEF Start, ResolveHead, CheckClean, Launch, proposalVars
<1>2. ASSUME NEW r \in Runs, Execute(r) PROVE ThreadsAgree'
  <2>1. CASE CreateWorktree(r)
    BY <2>1 DEF CreateWorktree
  <2>2. CASE CreateWorktreeFails(r)
    BY <2>2 DEF CreateWorktreeFails, CreateRaises, LeaveUncleaned, Fail, proposalVars
  <2>3. CASE StartThreads(r)
    <3>. SUFFICES ASSUME NEW p \in Proposals
                  PROVE  /\ thread'[p] # "none" =>
                              p[2] < created'[p[1]] /\ pc'[p[1]] \notin NotLaunched \cup {"creating"}
                         /\ (ok'[p] \/ diff'[p] # {}) => thread'[p] = "ended"
                         /\ ok'[p] => pstatus'[p] = "ok"
                         /\ (pc'[p[1]] \in Merging \cup {"selecting"} \/ status'[p[1]] = "done") =>
                              thread'[p] # "streaming"
      OBVIOUS
    <3>1. p[1] \in Runs /\ p[2] \in Slots /\ p = <<p[1], p[2]>>
      OBVIOUS
    <3>2. CASE p[1] = r
      <4>1. /\ UNCHANGED <<created, status, ok, diff, pstatus>>
            /\ pc[r] = "creating" /\ pc'[r] = "proposing"
            /\ thread'[p] = IF p \in Of(r) THEN "streaming" ELSE thread[p]
        BY <2>3 DEF StartThreads
      <4>2. thread[p] = "none" /\ ~ok[p] /\ diff[p] = {}
        BY <3>1, <3>2, <4>1
      <4>3. p \in Of(r) => p[2] < created[r]
        BY <3>1 DEF Of
      <4>4. status[r] # "done"
        BY <4>1 DEF PhasesAgree, Ended
      <4>. QED  BY <3>2, <4>1, <4>2, <4>3, <4>4
    <3>3. CASE p[1] # r
      BY <2>3, <3>1, <3>3 DEF StartThreads, Of
    <3>. QED  BY <3>2, <3>3
  <2>4. CASE JoinThreads(r)
    BY <2>4 DEF JoinThreads, Joined, Of, LeaveUncleaned, Fail, proposalVars, PhasesAgree, Ended
  <2>5. CASE Execute(r) /\ ~(CreateWorktree(r) \/ CreateWorktreeFails(r) \/ StartThreads(r)
                              \/ JoinThreads(r))
    BY <2>5 DEF Execute, Fail, Select, SelectRaises, NothingToMerge, Done, MergeSquash,
       MergeFails, CommitWinner, CommitFails, ReadHead, CleanNext, Finish, proposalVars
  <2>. QED  BY <1>2, <2>1, <2>2, <2>3, <2>4, <2>5
<1>3. ASSUME NEW p \in Proposals, Stream(p) PROVE ThreadsAgree'
  BY <1>3 DEF Stream, StreamProposal, StreamDies, runVars
<1>4. ASSUME NEW S \in SUBSET Runs, Crash(S) PROVE ThreadsAgree'
  BY <1>4 DEF Crash
<1>. QED  BY <1>1, <1>2, <1>3, <1>4 DEF Next, ServerCrash, CliCrash

\* A run goes on to merge only with a usable proposal of its own.
LEMMA WinnerStep ==
  ASSUME TypeOK, PhasesAgree, ThreadsAgree, WinnerChosen, Next
  PROVE  WinnerChosen'
<1>. USE RunsAssumption DEF TypeOK, WinnerChosen, Usable, Of, Merging, Proposals, Slots
<1>1. ASSUME NEW r \in Runs, Start(r) PROVE WinnerChosen'
  BY <1>1 DEF Start, ResolveHead, CheckClean, Launch, proposalVars
<1>2. ASSUME NEW r \in Runs, Execute(r) PROVE WinnerChosen'
  <2>1. CASE CreateWorktree(r)
    BY <2>1 DEF CreateWorktree, PhasesAgree, Ended
  <2>2. CASE Select(r)
    <3>1. PICK s \in Usable(r) : winner' = [winner EXCEPT ![r] = s]
      BY <2>2, Zenon DEF Select
    <3>2. \A q \in Runs : winner'[q] = IF q = r THEN s ELSE winner[q]
      BY <3>1
    <3>3. UNCHANGED <<created, ok>> /\ \A q \in Runs \ {r} : UNCHANGED <<pc[q], status[q]>>
      BY <2>2 DEF Select, proposalVars
    <3>4. SUFFICES ASSUME NEW q \in Runs, pc'[q] \in Merging \/ status'[q] = "done"
                   PROVE  winner'[q] \in Usable(q)'
      BY DEF WinnerChosen
    <3>5. CASE q = r
      BY <3>1, <3>2, <3>3, <3>5
    <3>6. CASE q # r
      BY <3>2, <3>3, <3>4, <3>6
    <3>. QED  BY <3>5, <3>6
  <2>3. CASE Execute(r) /\ ~(CreateWorktree(r) \/ Select(r))
    BY <2>3 DEF Execute, CreateWorktreeFails, CreateRaises, LeaveUncleaned, Fail, StartThreads,
       JoinThreads, SelectRaises, NothingToMerge, Done, MergeSquash, MergeFails, CommitWinner,
       CommitFails, ReadHead, CleanNext, Finish, proposalVars
  <2>. QED  BY <1>2, <2>1, <2>2, <2>3
<1>3. ASSUME NEW p \in Proposals, Stream(p) PROVE WinnerChosen'
  BY <1>3 DEF Stream, StreamProposal, StreamDies, runVars, ThreadsAgree
<1>4. ASSUME NEW S \in SUBSET Runs, Crash(S) PROVE WinnerChosen'
  BY <1>4 DEF Crash
<1>. HIDE DEF TypeOK, WinnerChosen, Usable
<1>. QED  BY <1>1, <1>2, <1>3, <1>4 DEF Next, ServerCrash, CliCrash

\* The winner of a run that merges is one of the proposals, and a usable one.
LEMMA WinnerIsUsable ==
  ASSUME TypeOK, ThreadsAgree, WinnerChosen, NEW r \in Runs,
         pc[r] \in Merging \/ status[r] = "done"
  PROVE  /\ Winner(r) \in Proposals /\ ok[Winner(r)]
         /\ thread[Winner(r)] = "ended" /\ pstatus[Winner(r)] = "ok"
BY DEF WinnerChosen, Usable, Winner, Proposals, ThreadsAgree

\* What `git merge --squash` stages is at most the winner itself, and with it
\* the whole diff of the winner is in index or branch.
LEMMA SquashStages ==
  ASSUME TypeOK, ThreadsAgree, WinnerChosen, TreesAgree, NEW r \in Runs, pc[r] = "merging"
  PROVE  /\ staged \subseteq ToStage(Winner(r))
         /\ ToStage(Winner(r)) \subseteq staged \cup {Winner(r)}
         /\ diff[Winner(r)] \subseteq head \cup ToStage(Winner(r))
<1>1. Winner(r) \in Proposals
  BY WinnerIsUsable DEF Merging
<1>. QED  BY <1>1 DEF TreesAgree, ToStage, UpToDate

\* The winner's diff moves from its branch to the index to the head.
LEMMA TreesStep ==
  ASSUME TypeOK, PhasesAgree, ThreadsAgree, WinnerChosen, TreesAgree, Next
  PROVE  TreesAgree'
<1>0. \A r \in Runs : (pc[r] \in Merging \/ status[r] = "done") =>
          Winner(r) \in Proposals /\ thread[Winner(r)] = "ended"
  BY WinnerIsUsable
<1>. USE RunsAssumption DEF TypeOK, TreesAgree, Merging
<1>1. ASSUME NEW r \in Runs, Start(r) PROVE TreesAgree'
  BY <1>1 DEF Start, ResolveHead, CheckClean, Launch, proposalVars, gitVars, indexVars,
     branchVars, Winner
<1>2. ASSUME NEW r \in Runs, Execute(r) PROVE TreesAgree'
  <2>1. CASE CreateWorktree(r)
    <3>1. diff[<<r, created[r]>>] = {}
      BY <2>1 DEF CreateWorktree, ThreadsAgree, Proposals, Slots
    <3>2. UNCHANGED <<pc, status, winner, diff, head, staged>>
      BY <2>1 DEF CreateWorktree, indexVars
    <3>3. ASSUME NEW p \in Proposals
          PROVE  forked'[p] \subseteq head /\ tip'[p] \subseteq head \cup {p} /\ diff[p] \subseteq tip'[p]
      <4>1. CASE p = <<r, created[r]>>
        BY <2>1, <3>1, <4>1 DEF CreateWorktree
      <4>2. CASE p # <<r, created[r]>>
        BY <2>1, <4>2 DEF CreateWorktree
      <4>. QED  BY <4>1, <4>2
    <3>. QED  BY <3>2, <3>3 DEF Winner
  <2>2. CASE Select(r)
    BY <2>2, <1>0 DEF Select, PhasesAgree, Ended, proposalVars, gitVars, indexVars, branchVars, Winner
  <2>3. CASE MergeSquash(r)
    <3>1. /\ UNCHANGED <<status, winner, diff, head, tip, forked>>
          /\ pc' = [pc EXCEPT ![r] = "committing"]
          /\ pc[r] = "merging" /\ staged' = ToStage(Winner(r))
      BY <2>3 DEF MergeSquash, proposalVars, branchVars
    <3>2. staged \subseteq staged' /\ diff[Winner(r)] \subseteq head \cup staged'
      BY <3>1, SquashStages
    <3>3. ASSUME NEW q \in Runs, pc'[q] = "committing"
          PROVE  diff[Winner(q)] \subseteq head \cup staged'
      BY <3>1, <3>2, <3>3
    <3>4. ASSUME NEW q \in Runs, pc'[q] = "reading" \/ status[q] = "done"
          PROVE  diff[Winner(q)] \subseteq head
      BY <3>1, <3>4
    <3>. QED  BY <3>1, <3>3, <3>4 DEF Winner
  <2>4. CASE MergeFails(r)
    BY <2>4, SquashStages DEF MergeFails, Fail, proposalVars, branchVars, Winner
  <2>5. CASE CommitWinner(r)
    BY <2>5 DEF CommitWinner, proposalVars, branchVars, Winner
  <2>6. CASE ReadHead(r) \/ NothingToMerge(r)
    BY <2>6 DEF ReadHead, NothingToMerge, Done, proposalVars, gitVars, indexVars, branchVars, Winner
  <2>7. CASE Execute(r) /\ ~(CreateWorktree(r) \/ Select(r) \/ MergeSquash(r) \/ MergeFails(r)
                             \/ CommitWinner(r) \/ ReadHead(r) \/ NothingToMerge(r))
    BY <2>7 DEF Execute, CreateWorktreeFails, CreateRaises, LeaveUncleaned, Fail, StartThreads,
       JoinThreads, SelectRaises, CommitFails, CleanNext, Finish, proposalVars, gitVars,
       indexVars, branchVars, Winner
  <2>. QED  BY <1>2, <2>1, <2>2, <2>3, <2>4, <2>5, <2>6, <2>7
<1>3. ASSUME NEW p \in Proposals, Stream(p) PROVE TreesAgree'
  <2>1. /\ thread[p] = "streaming"
        /\ UNCHANGED <<pc, status, winner, head, staged, forked>>
        /\ \A q \in Proposals \ {p} : diff'[q] = diff[q] /\ tip'[q] = tip[q]
    BY <1>3 DEF Stream, StreamProposal, StreamDies, runVars, indexVars
  <2>2. tip'[p] \subseteq head \cup {p} /\ diff'[p] \subseteq tip'[p]
    BY <1>3 DEF Stream, StreamProposal, StreamDies, Snapshot
  <2>3. ASSUME NEW r \in Runs, pc[r] \in Merging \/ status[r] = "done"
        PROVE  diff'[Winner(r)] = diff[Winner(r)]
    BY <1>0, <2>1, <2>3
  <2>4. ASSUME NEW q \in Proposals
        PROVE  forked[q] \subseteq head /\ tip'[q] \subseteq head \cup {q} /\ diff'[q] \subseteq tip'[q]
    BY <2>1, <2>2
  <2>. QED  BY <2>1, <2>3, <2>4 DEF Winner
<1>4. ASSUME NEW S \in SUBSET Runs, Crash(S) PROVE TreesAgree'
  BY <1>4 DEF Crash, gitVars, indexVars, branchVars, Winner
<1>. HIDE DEF TypeOK, TreesAgree, Merging
<1>. QED  BY <1>1, <1>2, <1>3, <1>4 DEF Next, ServerCrash, CliCrash

\* What reaches index or branch is put there by the squash of a winner.
LEMMA LandedStep ==
  ASSUME TypeOK, PhasesAgree, ThreadsAgree, WinnerChosen, TreesAgree, LandedByMergers,
         OnlySelectedWorkLands, Next
  PROVE  LandedByMergers' /\ OnlySelectedWorkLands'
<1>. DEFINE Landed == head \cup staged
            Safe == \A p \in Landed : /\ p \in Proposals /\ p[1] \in Runs
                                      /\ pc[p[1]] \in Merging \cup Ended
                                      /\ winner[p[1]] = p[2] /\ ok[p] /\ pstatus[p] = "ok"
<1>0. Safe
  BY DEF TypeOK, LandedByMergers, OnlySelectedWorkLands, Proposals
<1>. SUFFICES Safe'
  BY DEF LandedByMergers, OnlySelectedWorkLands
<1>. USE RunsAssumption DEF TypeOK, Merging, Ended
<1>1. ASSUME NEW r \in Runs, Start(r) PROVE Safe'
  <2>1. UNCHANGED <<head, staged, winner, ok, pstatus>>
    BY <1>1 DEF Start, ResolveHead, CheckClean, Launch, proposalVars, gitVars, indexVars
  <2>2. \A q \in Runs : q # r => pc'[q] = pc[q]
    BY <1>1 DEF Start, ResolveHead, CheckClean, Launch
  <2>3. pc[r] \notin Merging \cup Ended
    BY <1>1 DEF Start, ResolveHead, CheckClean, Launch
  <2>. QED  BY <1>0, <2>1, <2>2, <2>3
<1>2. ASSUME NEW r \in Runs, Execute(r) PROVE Safe'
  <2>1. CASE CreateWorktree(r)
    <3>1. ~ok[<<r, created[r]>>]
      BY <2>1 DEF CreateWorktree, ThreadsAgree, Proposals, Slots
    <3>. QED  BY <1>0, <2>1, <3>1 DEF CreateWorktree, indexVars
  <2>2. CASE Select(r)
    BY <1>0, <2>2 DEF Select, proposalVars, gitVars, indexVars
  <2>3. ASSUME pc[r] = "merging"
        PROVE  /\ ToStage(Winner(r)) \subseteq staged \cup {Winner(r)}
               /\ Winner(r) \in Proposals /\ ok[Winner(r)] /\ pstatus[Winner(r)] = "ok"
    BY <2>3, SquashStages, WinnerIsUsable
  <2>4. CASE MergeSquash(r)
    <3>1. Landed' \subseteq Landed \cup {Winner(r)}
      BY <2>3, <2>4 DEF MergeSquash
    <3>2. /\ pc[r] = "merging" /\ pc'[r] \in Merging \cup Ended
          /\ \A q \in Runs \ {r} : pc'[q] = pc[q]
          /\ UNCHANGED <<winner, ok, pstatus>>
      BY <2>4 DEF MergeSquash, proposalVars
    <3>3. ASSUME NEW p \in Landed' PROVE
            /\ p \in Proposals /\ p[1] \in Runs /\ pc'[p[1]] \in Merging \cup Ended
            /\ winner[p[1]] = p[2] /\ ok[p] /\ pstatus[p] = "ok"
      <4>1. CASE p \in Landed
        BY <1>0, <3>2, <4>1
      <4>2. CASE p = Winner(r)
        BY <2>3, <3>2, <4>2 DEF Winner
      <4>. QED  BY <3>1, <4>1, <4>2
    <3>. QED  BY <3>2, <3>3
  <2>5. CASE MergeFails(r)
    <3>1. Landed' \subseteq Landed \cup {Winner(r)}
      BY <2>3, <2>5 DEF MergeFails
    <3>2. /\ pc[r] = "merging" /\ pc'[r] \in Merging \cup Ended
          /\ \A q \in Runs \ {r} : pc'[q] = pc[q]
          /\ UNCHANGED <<winner, ok, pstatus>>
      BY <2>5 DEF MergeFails, Fail, proposalVars
    <3>3. ASSUME NEW p \in Landed' PROVE
            /\ p \in Proposals /\ p[1] \in Runs /\ pc'[p[1]] \in Merging \cup Ended
            /\ winner[p[1]] = p[2] /\ ok[p] /\ pstatus[p] = "ok"
      <4>1. CASE p \in Landed
        BY <1>0, <3>2, <4>1
      <4>2. CASE p = Winner(r)
        BY <2>3, <3>2, <4>2 DEF Winner
      <4>. QED  BY <3>1, <4>1, <4>2
    <3>. QED  BY <3>2, <3>3
  <2>6. CASE CommitWinner(r)
    BY <1>0, <2>6 DEF CommitWinner, proposalVars
  <2>7. CASE Execute(r) /\ ~(CreateWorktree(r) \/ Select(r) \/ MergeSquash(r) \/ MergeFails(r)
                             \/ CommitWinner(r))
    <3>1. UNCHANGED <<winner, ok, pstatus, head, staged>>
      BY <2>7 DEF Execute, CreateWorktreeFails, StartThreads, JoinThreads, SelectRaises,
         NothingToMerge, CommitFails, ReadHead, CleanNext, Finish, proposalVars, gitVars, indexVars
    <3>2. \A q \in Runs : pc[q] \in Merging \cup Ended => pc'[q] \in Merging \cup Ended
      BY <2>7 DEF Execute, CreateWorktreeFails, CreateRaises, LeaveUncleaned, Fail,
         StartThreads, JoinThreads, SelectRaises, NothingToMerge, Done, CommitFails, ReadHead,
         CleanNext, Finish
    <3>. QED  BY <1>0, <3>1, <3>2
  <2>. QED  BY <1>2, <2>1, <2>2, <2>4, <2>5, <2>6, <2>7
<1>3. ASSUME NEW p \in Proposals, Stream(p) PROVE Safe'
  <2>1. p \notin Landed
    BY <1>0, <1>3 DEF Stream, StreamProposal, StreamDies, ThreadsAgree
  <2>. QED  BY <1>0, <1>3, <2>1 DEF Stream, StreamProposal, StreamDies, runVars, indexVars
<1>4. ASSUME NEW S \in SUBSET Runs, Crash(S) PROVE Safe'
  BY <1>0, <1>4 DEF Crash, gitVars, indexVars
<1>. HIDE DEF TypeOK, Safe
<1>. QED  BY <1>1, <1>2, <1>3, <1>4 DEF Next, ServerCrash, CliCrash

\* Every step of every run keeps the invariant.
LEMMA Inductive == IInv /\ [Next]_vars => IInv'
<1>. SUFFICES ASSUME IInv, [Next]_vars PROVE IInv'
  OBVIOUS
<1>1. CASE Next
  <2>1. TypeOK'
    BY <1>1, TypeStart, TypeExecute, TypeStream, TypeCrash, RunsAssumption
    DEF IInv, Next, ServerCrash, CliCrash
  <2>. QED  BY <1>1, <2>1, PhasesStep, ListedStep, WorktreesStep, ThreadsStep, WinnerStep,
               TreesStep, LandedStep DEF IInv
<1>2. CASE UNCHANGED vars
  <2>. USE <1>2 DEF IInv, vars, runVars, proposalVars, gitVars, indexVars, branchVars
  <2>1. TypeOK' /\ PhasesAgree'
    BY DEF TypeOK, PhasesAgree
  <2>2. ThreadsAgree' /\ WinnerChosen'
    BY DEF ThreadsAgree, WinnerChosen, Usable, Of
  <2>3. TreesAgree' /\ LandedByMergers' /\ OnlySelectedWorkLands'
    BY DEF TreesAgree, Winner, LandedByMergers, OnlySelectedWorkLands
  <2>4. LiveRunsListed' /\ WorktreesOutliveTheRun'
    BY DEF LiveRunsListed, WorktreesOutliveTheRun, Of
  <2>. QED  BY <2>1, <2>2, <2>3, <2>4
<1>. QED  BY <1>1, <1>2

\* The invariant holds before the first run.
LEMMA InitIInv == Init => IInv
<1>. SUFFICES ASSUME Init PROVE IInv
  OBVIOUS
<1>1. TypeOK
  BY TypeInit
<1>2. PhasesAgree /\ LiveRunsListed
  BY DEF Init, PhasesAgree, LiveRunsListed, NotLaunched
<1>3. ThreadsAgree /\ WinnerChosen /\ WorktreesOutliveTheRun
  BY DEF Init, ThreadsAgree, WinnerChosen, Merging, WorktreesOutliveTheRun, Proposals
<1>4. TreesAgree /\ LandedByMergers /\ OnlySelectedWorkLands
  BY DEF Init, TreesAgree, LandedByMergers, OnlySelectedWorkLands
<1>. QED  BY <1>1, <1>2, <1>3, <1>4 DEF IInv

\* The invariant behind the theorems of this module: phases, threads, winners
\* and the trees of git agree in every reachable state of both engines.
THEOREM Invariance == Spec => []IInv
BY InitIInv, Inductive, PTL DEF Spec
-----------------------------------------------------------------------------
\* Type correctness of the runs, the proposals and git's state: in particular
\* the cursor of _cleanup never leaves the proposals that were created.
THEOREM Typing == Spec => []TypeOK
<1>1. IInv => TypeOK  BY DEF IInv
<1>. QED  BY <1>1, Invariance, PTL

\* Whatever reaches the user's branch or index is the selected, usable proposal
\* of its run, for any number of overlapping server and command line runs and
\* any faults of git, of the selection and of the processes.
THEOREM SelectedWorkOnly == Spec => []OnlySelectedWorkLands
<1>1. IInv => OnlySelectedWorkLands  BY DEF IInv
<1>. QED  BY <1>1, Invariance, PTL

\* The branch never holds two proposals of one run.
THEOREM AtMostOneLands == Spec => []OneProposalPerRun
<1>1. IInv => OneProposalPerRun
  BY Zenon DEF IInv, OnlySelectedWorkLands, OneProposalPerRun
<1>. QED  BY <1>1, Invariance, PTL

\* A run that _execute or run_best_of_n reports as done has its winner's changes
\* on the branch, also when another run's commit took them along.
THEOREM DoneHasLanded == Spec => []DoneMeansLanded
<1>1. IInv => DoneMeansLanded  BY DEF IInv, TreesAgree, DoneMeansLanded
<1>. QED  BY <1>1, Invariance, PTL

\* get() and list() find every server run at work: _prune_finished_locked never
\* evicts one, whatever the cap.
THEOREM LiveRunsStayListed == Spec => []LiveRunsListed
<1>1. IInv => LiveRunsListed  BY DEF IInv
<1>. QED  BY <1>1, Invariance, PTL

\* No cleanup of another run takes a worktree or branch from a run at work.
THEOREM WorktreesStay == Spec => []WorktreesOutliveTheRun
<1>1. IInv => WorktreesOutliveTheRun  BY DEF IInv
<1>. QED  BY <1>1, Invariance, PTL

\* Once a run shows "done" or "failed", no step of it or of another run changes
\* the outcome, the winner or the reported commit.
THEOREM OutcomesAreFinal == Spec => OutcomeIsFinal
<1>. DEFINE Kept == \A r \in Runs : status[r] \in Terminal =>
                        UNCHANGED <<status[r], winner[r], merge_commit[r]>>
<1>1. ASSUME TypeOK, PhasesAgree, Next
      PROVE  Kept
  <2>0. /\ status = [q \in Runs |-> status[q]] /\ winner = [q \in Runs |-> winner[q]]
        /\ merge_commit = [q \in Runs |-> merge_commit[q]]
        /\ \A q \in Runs : status[q] \in Terminal => pc[q] \in Ended
    BY <1>1 DEF TypeOK, PhasesAgree
  <2>. USE DEF Ended
  <2>1. ASSUME NEW r \in Runs, Start(r) PROVE Kept
    <3>1. \A q \in Runs \ {r} :
             status'[q] = status[q] /\ winner'[q] = winner[q] /\ merge_commit'[q] = merge_commit[q]
      BY <2>0, <2>1 DEF Start, ResolveHead, CheckClean, Launch
    <3>2. pc[r] \in Ended =>
             status'[r] = status[r] /\ winner'[r] = winner[r] /\ merge_commit'[r] = merge_commit[r]
      BY <2>0, <2>1 DEF Start, ResolveHead, CheckClean, Launch
    <3>. QED  BY <2>0, <3>1, <3>2
  <2>2. ASSUME NEW r \in Runs, Execute(r) PROVE Kept
    <3>1. \A q \in Runs \ {r} :
             status'[q] = status[q] /\ winner'[q] = winner[q] /\ merge_commit'[q] = merge_commit[q]
      BY <2>0, <2>2 DEF Execute, CreateWorktree, CreateWorktreeFails, CreateRaises,
         LeaveUncleaned, Fail, StartThreads, JoinThreads, Select, SelectRaises, NothingToMerge,
         Done, MergeSquash, MergeFails, CommitWinner, CommitFails, ReadHead, CleanNext, Finish
    <3>2. pc[r] \in Ended =>
             status'[r] = status[r] /\ winner'[r] = winner[r] /\ merge_commit'[r] = merge_commit[r]
      BY <2>0, <2>2 DEF Execute, CreateWorktree, CreateWorktreeFails, CreateRaises,
         LeaveUncleaned, Fail, StartThreads, JoinThreads, Select, SelectRaises, NothingToMerge,
         Done, MergeSquash, MergeFails, CommitWinner, CommitFails, ReadHead, CleanNext, Finish
    <3>. QED  BY <2>0, <3>1, <3>2
  <2>3. ASSUME NEW p \in Proposals, Stream(p) PROVE Kept
    <3>1. UNCHANGED <<status, winner, merge_commit>>
      BY <2>3 DEF Stream, StreamProposal, StreamDies, runVars
    <3>. QED  BY <3>1
  <2>4. ASSUME NEW S \in SUBSET Runs, Crash(S) PROVE Kept
    <3>1. UNCHANGED <<status, winner, merge_commit>>
      BY <2>4 DEF Crash
    <3>. QED  BY <3>1
  <2>. HIDE DEF Kept
  <2>. QED  BY <1>1, RunsAssumption, <2>1, <2>2, <2>3, <2>4 DEF Next, ServerCrash, CliCrash
<1>2. IInv /\ [Next]_vars => [Kept]_vars
  BY <1>1 DEF IInv
<1>. QED  BY <1>2, Invariance, PTL DEF Spec, OutcomeIsFinal
-----------------------------------------------------------------------------
(***************************************************************************)
(* Eviction from the manager's registry.                                   *)
(***************************************************************************)

\* Some element of a nonempty set has the least number attached to it.
LEMMA LeastNumber ==
  ASSUME NEW T, T # {}, NEW f, \A x \in T : f[x] \in Nat
  PROVE  \E x \in T : \A y \in T : f[x] <= f[y]
<1>1. {f[x] : x \in T} \subseteq Nat /\ {f[x] : x \in T} # {}
  OBVIOUS
<1>2. PICK n \in {f[x] : x \in T} :
         \A m \in {f[x] : x \in T} : <<m, n>> \notin OpToRel(<, Nat)
  BY <1>1, WFMin, NatLessThanWellFounded
<1>3. PICK x \in T : n = f[x]
  BY <1>2
<1>4. ASSUME NEW y \in T PROVE f[x] <= f[y]
  <2>1. ~(f[y] < f[x])
    BY <1>1, <1>2, <1>3 DEF OpToRel
  <2>. QED  BY <2>1
<1>. QED  BY <1>4

\* The runs of F that finished after q did.
Later(F, q) == {x \in F : finished_at[x] > finished_at[q]}

\* What _prune_finished_locked does to a finite registry: when it evicts a run
\* at all, every run it keeps is newer, and it keeps MaxFinished of them.
LEMMA PruneKeepsNewest ==
  ASSUME NEW F, IsFiniteSet(F), \A x \in F : finished_at[x] \in Nat,
         NEW P, P = {q \in F : Cardinality(Later(F, q)) >= MaxFinished},
         NEW q \in P
  PROVE  /\ \A x \in F \ P : finished_at[x] > finished_at[q]
         /\ Cardinality(F \ P) >= MaxFinished
<1>. USE RunsAssumption
<1>1. \A x \in F : /\ IsFiniteSet(Later(F, x)) /\ Cardinality(Later(F, x)) \in Nat
                   /\ Later(F, x) \subseteq F
  BY FS_Subset, FS_CardinalityType DEF Later
<1>2. ASSUME NEW x \in F \ P PROVE finished_at[x] > finished_at[q]
  <2>. SUFFICES ASSUME ~(finished_at[x] > finished_at[q]) PROVE FALSE
    OBVIOUS
  <2>1. Later(F, q) \subseteq Later(F, x)
    BY DEF Later
  <2>2. Cardinality(Later(F, q)) <= Cardinality(Later(F, x))
    BY <1>1, <2>1, FS_Subset
  <2>3. /\ Cardinality(Later(F, q)) \in Nat /\ Cardinality(Later(F, x)) \in Nat
        /\ Cardinality(Later(F, q)) >= MaxFinished
        /\ ~(Cardinality(Later(F, x)) >= MaxFinished)
    BY <1>1
  <2>. QED  BY <2>2, <2>3
<1>3. Cardinality(F \ P) >= MaxFinished
  <2>. DEFINE f == [x \in P |-> Cardinality(Later(F, x))]
  <2>1. P # {} /\ \A x \in P : f[x] \in Nat
    BY <1>1
  <2>. HIDE DEF f
  <2>2. PICK x \in P : \A y \in P : f[x] <= f[y]
    BY <2>1, LeastNumber
  <2>3. \A y \in P : Cardinality(Later(F, x)) <= Cardinality(Later(F, y))
    BY <2>2 DEF f
  <2>4. ASSUME NEW y \in Later(F, x) PROVE y \notin P
    <3>1. Later(F, y) \subseteq Later(F, x) /\ y \notin Later(F, y) /\ y \in F
      BY DEF Later
    <3>2. /\ Cardinality(Later(F, y)) <= Cardinality(Later(F, x))
          /\ Cardinality(Later(F, y)) # Cardinality(Later(F, x))
      BY <1>1, <3>1, FS_Subset
    <3>3. Cardinality(Later(F, y)) \in Nat /\ Cardinality(Later(F, x)) \in Nat
      BY <1>1, <3>1
    <3>. QED  BY <2>3, <3>2, <3>3
  <2>5. Later(F, x) \subseteq F \ P
    BY <2>4 DEF Later
  <2>6. /\ IsFiniteSet(F \ P) /\ Cardinality(F \ P) \in Nat
        /\ Cardinality(Later(F, x)) <= Cardinality(F \ P)
    <3>1. IsFiniteSet(F \ P) /\ Cardinality(F \ P) \in Nat
      BY FS_Subset, FS_CardinalityType
    <3>. QED  BY <2>5, <3>1, FS_Subset
  <2>7. Cardinality(Later(F, x)) \in Nat /\ Cardinality(Later(F, x)) >= MaxFinished
    BY <1>1
  <2>. QED  BY <2>6, <2>7
<1>. QED  BY <1>2, <1>3

\* The registry is finite and holds only runs that are at work or finished, and
\* a finished run of the server shows its outcome and the time it ended.
RegistryInv ==
  /\ IsFiniteSet(registry)
  /\ \A q \in registry : pc[q] \in Working \cup {"finished"}
  /\ \A q \in Runs \ CliRuns :
        /\ pc[q] \in {"cleaning", "finished"} => status[q] \in Terminal
        /\ pc[q] = "finished" => finished_at[q] # 0

\* Every step keeps what the registry is known to hold.
LEMMA RegistryStep ==
  ASSUME TypeOK, RegistryInv, Next
  PROVE  RegistryInv'
<1>0. \A q \in registry : q \in Runs \ CliRuns
  BY DEF TypeOK
<1>. USE RunsAssumption DEF RegistryInv
<1>1. ASSUME NEW r \in Runs, Start(r) PROVE RegistryInv'
  <2>1. CASE ResolveHead(r) \/ CheckClean(r)
    BY <1>0, <2>1 DEF ResolveHead, CheckClean, TypeOK
  <2>2. CASE Launch(r)
    <3>1. IsFiniteSet(registry')
      <4>1. IsFiniteSet(registry \ prune_finished)
        BY FS_Subset
      <4>2. IsFiniteSet((registry \ prune_finished) \cup {r})
        BY <4>1, FS_AddElement
      <4>. QED  BY <2>2, <4>2 DEF Launch
    <3>2. /\ pc[r] = "launching" /\ pc'[r] = "creating"
          /\ \A q \in Runs \ {r} : pc'[q] = pc[q] /\ status'[q] = status[q]
          /\ finished_at' = finished_at /\ registry' \subseteq registry \cup {r}
      BY <2>2 DEF Launch, TypeOK
    <3>. QED  BY <1>0, <3>1, <3>2
  <2>. QED  BY <1>1, <2>1, <2>2 DEF Start
<1>2. ASSUME NEW r \in Runs, Execute(r) PROVE RegistryInv'
  <2>1. registry' = registry
    BY <1>2 DEF Execute, CreateWorktree, CreateWorktreeFails, StartThreads, JoinThreads,
       Select, SelectRaises, NothingToMerge, MergeSquash, MergeFails, CommitWinner,
       CommitFails, ReadHead, CleanNext, Finish
  <2>2. /\ pc[r] \in Working /\ pc'[r] \in Working \cup {"finished"}
        /\ \A q \in Runs \ {r} :
              pc'[q] = pc[q] /\ status'[q] = status[q] /\ finished_at'[q] = finished_at[q]
    BY <1>2 DEF TypeOK, Execute, CreateWorktree, CreateWorktreeFails, CreateRaises,
       LeaveUncleaned, Fail, StartThreads, JoinThreads, Select, SelectRaises, NothingToMerge,
       Done, MergeSquash, MergeFails, CommitWinner, CommitFails, ReadHead, CleanNext, Finish
  <2>3. r \notin CliRuns =>
        /\ pc'[r] \in {"cleaning", "finished"} => status'[r] \in Terminal
        /\ pc'[r] = "finished" => finished_at'[r] # 0
    BY <1>2 DEF TypeOK, Execute, CreateWorktree, CreateWorktreeFails, CreateRaises,
       LeaveUncleaned, Fail, StartThreads, JoinThreads, Select, SelectRaises, NothingToMerge,
       Done, MergeSquash, MergeFails, CommitWinner, CommitFails, ReadHead, CleanNext, Finish
  <2>. QED  BY <1>0, <2>1, <2>2, <2>3
<1>3. ASSUME NEW p \in Proposals, Stream(p) PROVE RegistryInv'
  <2>1. UNCHANGED <<registry, pc, status, finished_at>>
    BY <1>3 DEF Stream, StreamProposal, StreamDies, runVars
  <2>. QED  BY <2>1
<1>4. ASSUME NEW S \in SUBSET Runs, Crash(S) PROVE RegistryInv'
  <2>1. /\ registry' = registry \ S /\ UNCHANGED <<status, finished_at>>
        /\ \A q \in Runs : pc'[q] = IF q \in S /\ pc[q] # "idle" THEN "lost" ELSE pc[q]
    BY <1>4 DEF Crash
  <2>2. IsFiniteSet(registry')
    BY <2>1, FS_Subset
  <2>. QED  BY <1>0, <2>1, <2>2
<1>. QED  BY <1>1, <1>2, <1>3, <1>4 DEF Next, ServerCrash, CliCrash

\* What the pruning relies on holds of the registry in every reachable state.
LEMMA RegistryInvariance == Spec => []RegistryInv
<1>1. Init => RegistryInv
  BY FS_EmptySet DEF Init, RegistryInv
<1>2. TypeOK /\ RegistryInv /\ [Next]_vars => RegistryInv'
  <2>1. CASE UNCHANGED vars
    BY <2>1 DEF RegistryInv, vars, runVars
  <2>. QED  BY <2>1, RegistryStep
<1>. QED  BY <1>1, <1>2, Typing, PTL DEF Spec

\* _prune_finished_locked evicts finished runs only, oldest first, and leaves
\* MaxFinished of them, for any cap and any number of runs; nothing but a launch
\* and a restart of the server ever removes a run.
THEOREM OldestEvictedFirst == Spec => EvictOldestFirst
<1>. DEFINE Evicts ==
       (registry' # registry /\ registry' # {}) =>
          \A q \in registry \ registry' :
            /\ pc[q] = "finished"
            /\ \A x \in registry \cap registry' :
                pc[x] = "finished" => finished_at[x] > finished_at[q]
            /\ Cardinality({x \in registry' : pc[x] = "finished"}) >= MaxFinished
<1>1. ASSUME TypeOK, PhasesAgree, RegistryInv, Next
      PROVE  Evicts
  <2>0. registry \subseteq Runs \ CliRuns
    BY <1>1 DEF TypeOK
  <2>1. ASSUME NEW r \in Runs, Launch(r), r \notin CliRuns PROVE Evicts
    <3>. DEFINE F == Finished
                P == prune_finished
    <3>1. /\ registry' = (registry \ P) \cup {r} /\ pc[r] = "launching"
      BY <2>1 DEF Launch
    <3>2. F = {x \in registry : pc[x] = "finished"}
      <4>1. \A x \in registry : status[x] \in Terminal /\ finished_at[x] # 0 => pc[x] = "finished"
        BY <1>1, <2>0 DEF RegistryInv, PhasesAgree
      <4>2. \A x \in registry : pc[x] = "finished" => status[x] \in Terminal /\ finished_at[x] # 0
        BY <1>1, <2>0 DEF RegistryInv
      <4>. QED  BY <4>1, <4>2 DEF Finished
    <3>3. IsFiniteSet(F) /\ (\A x \in F : finished_at[x] \in Nat)
      BY <1>1, <2>0, <3>2, FS_Subset DEF RegistryInv, TypeOK
    <3>4. P = {q \in F : Cardinality(Later(F, q)) >= MaxFinished}
      BY DEF prune_finished, Later
    <3>5. F \ P = {x \in registry' : pc[x] = "finished"}
      BY <3>1, <3>2, <3>4
    <3>. HIDE DEF F, P
    <3>6. ASSUME NEW q \in registry \ registry'
          PROVE  /\ pc[q] = "finished"
                 /\ \A x \in registry \cap registry' :
                     pc[x] = "finished" => finished_at[x] > finished_at[q]
                 /\ Cardinality({x \in registry' : pc[x] = "finished"}) >= MaxFinished
      <4>1. q \in P
        BY <3>1
      <4>2. /\ \A x \in F \ P : finished_at[x] > finished_at[q]
            /\ Cardinality(F \ P) >= MaxFinished
        BY <3>3, <3>4, <4>1, PruneKeepsNewest
      <4>. QED  BY <3>2, <3>4, <3>5, <4>1, <4>2
    <3>. QED  BY <3>6
  <2>2. ASSUME NEW r \in Runs,
               \/ Execute(r) \/ ResolveHead(r) \/ CheckClean(r)
               \/ Launch(r) /\ r \in CliRuns
        PROVE  registry' = registry
    BY <2>2 DEF ResolveHead, CheckClean, Launch, Execute, CreateWorktree, CreateWorktreeFails,
       StartThreads, JoinThreads, Select, SelectRaises, NothingToMerge, MergeSquash, MergeFails,
       CommitWinner, CommitFails, ReadHead, CleanNext, Finish
  <2>3. ASSUME NEW p \in Proposals, Stream(p) PROVE registry' = registry
    BY <2>3 DEF Stream, StreamProposal, StreamDies, runVars
  <2>4. ServerCrash => registry' = {}
    BY <2>0 DEF ServerCrash, Crash
  <2>5. CliCrash => registry' = registry
    BY <2>0 DEF CliCrash, Crash
  <2>6. registry' = registry \/ registry' = {} => Evicts
    OBVIOUS
  <2>. HIDE DEF Evicts
  <2>. QED  BY <1>1, <2>1, <2>2, <2>3, <2>4, <2>5, <2>6 DEF Next, Start
<1>2. IInv /\ RegistryInv /\ [Next]_vars => [Evicts]_vars
  BY <1>1 DEF IInv
<1>. QED  BY <1>2, Invariance, RegistryInvariance, PTL DEF Spec, EvictOldestFirst
-----------------------------------------------------------------------------
(***************************************************************************)
(* What a run leaves behind.                                               *)
(***************************************************************************)
Tidy == Faults \cap {"remove", "partial"} = {}

\* A command line run that raised before its proposals were collected.
Abandoned(r) ==
  r \in CliRuns /\ (created[r] < nslots[r] \/ \E p \in Of(r) : thread[p] = "dead")

\* _cleanup has done the proposals up to the cursor and none beyond it.
Swept(r) ==
  /\ cursor[r] <= created[r]
  /\ \A s \in Slots :
       /\ s < cursor[r] => /\ <<r, s>> \notin worktree
                           /\ <<r, s>> \in branch <=> KeepBranches \/ winner[r] = s
       /\ cursor[r] <= s /\ s < created[r] => <<r, s>> \in worktree \cap branch

\* Only what a run knows of exists, the cleanup begins at the first proposal,
\* and a run finishes either through it or as an abandoned one.
CleanRun(r) ==
  /\ \A s \in Slots : <<r, s>> \in worktree \cup branch => s < created[r]
  /\ pc[r] \in NotLaunched \cup (Working \ {"cleaning"}) => cursor[r] = 0
  /\ pc[r] = "cleaning" => Swept(r)
  /\ pc[r] = "finished" => Abandoned(r) \/ (cursor[r] = created[r] /\ Swept(r))

CleanInv == \A r \in Runs : CleanRun(r)

\* A step that leaves a run's control, worktrees and branches alone.
LEMMA CleanFrame ==
  ASSUME TypeOK, NEW q \in Runs, CleanRun(q),
         UNCHANGED <<pc[q], cursor[q], created[q], nslots[q], winner[q]>>,
         \A s \in Slots : /\ <<q, s>> \in worktree' <=> <<q, s>> \in worktree
                          /\ <<q, s>> \in branch' <=> <<q, s>> \in branch
                          /\ thread[<<q, s>>] = "dead" => thread'[<<q, s>>] = "dead"
  PROVE  CleanRun(q)'
<1>1. Of(q)' = Of(q) /\ \A p \in Of(q) : \E s \in Slots : p = <<q, s>>
  BY RunsAssumption DEF Of, TypeOK, Slots
<1>2. Abandoned(q) => Abandoned(q)'
  BY <1>1 DEF Abandoned
<1>3. Swept(q) => Swept(q)'
  BY DEF Swept
<1>. QED  BY <1>2, <1>3 DEF CleanRun

\* A step of a run at work that touches none of its worktrees: if it is the one
\* that enters _cleanup, everything is still there.
LEMMA CleanEntered ==
  ASSUME TypeOK, WorktreesOutliveTheRun, NEW r \in Runs, CleanRun(r),
         pc[r] \in Working \ {"cleaning"}, pc'[r] \in Working,
         UNCHANGED <<cursor, created, worktree, branch>>
  PROVE  CleanRun(r)'
<1>1. cursor[r] = 0 /\ created[r] \in Nat
  BY RunsAssumption DEF CleanRun, TypeOK
<1>2. \A s \in Slots : s < created[r] => <<r, s>> \in worktree \cap branch
  <2>1. \A s \in Slots : s < created[r] => <<r, s>> \in Of(r)
    BY <1>1, RunsAssumption DEF Of, Slots
  <2>. QED  BY <2>1 DEF WorktreesOutliveTheRun
<1>3. \A s \in Slots : ~(s < cursor[r])
  BY <1>1, SlotsAreNats
<1>4. Swept(r)'
  BY <1>1, <1>2, <1>3 DEF Swept
<1>. QED  BY <1>1, <1>4 DEF CleanRun

\* A run that is being started has created nothing yet.
LEMMA CleanStart ==
  ASSUME TypeOK, PhasesAgree, NEW r \in Runs, CleanRun(r), Start(r)
  PROVE  CleanRun(r)'
<1>1. /\ pc[r] \in NotLaunched /\ pc'[r] \in NotLaunched \cup {"refused", "creating"}
      /\ UNCHANGED <<cursor, created, worktree, branch>>
  BY DEF Start, ResolveHead, CheckClean, Launch, TypeOK, gitVars, branchVars, NotLaunched
<1>. QED  BY <1>1 DEF CleanRun, NotLaunched

\* git worktree remove and git branch -D for the proposal at the cursor.
LEMMA CleanNextStep ==
  ASSUME Tidy, TypeOK, NEW r \in Runs, CleanRun(r), CleanNext(r)
  PROVE  CleanRun(r)'
<1>. DEFINE c == cursor[r]
<1>1. /\ c \in Nat /\ created[r] \in Nat /\ c < created[r]
      /\ pc[r] = "cleaning" /\ cursor'[r] = c + 1
      /\ UNCHANGED <<pc, created, nslots, winner>>
      /\ worktree' = worktree \ {<<r, c>>}
      /\ branch' = IF KeepBranch(<<r, c>>) THEN branch ELSE branch \ {<<r, c>>}
  BY RunsAssumption DEF CleanNext, MoreToClean, TypeOK, WorktreesWithout, Tidy
<1>2. Swept(r) /\ c \in Slots
  BY <1>1, RunsAssumption DEF CleanRun, Slots, TypeOK
<1>. HIDE DEF c
<1>3. KeepBranch(<<r, c>>) <=> KeepBranches \/ winner[r] = c
  BY DEF KeepBranch
<1>4. /\ \A s \in Slots \ {c} : /\ <<r, s>> \in worktree' <=> <<r, s>> \in worktree
                                /\ <<r, s>> \in branch' <=> <<r, s>> \in branch
      /\ <<r, c>> \notin worktree' /\ <<r, c>> \in branch
      /\ <<r, c>> \in branch' <=> KeepBranches \/ winner[r] = c
  BY <1>1, <1>2, <1>3 DEF Swept, c
<1>5. ASSUME NEW s \in Slots
      PROVE  /\ s < cursor'[r] => /\ <<r, s>> \notin worktree'
                                  /\ <<r, s>> \in branch' <=> KeepBranches \/ winner'[r] = s
             /\ cursor'[r] <= s /\ s < created'[r] => <<r, s>> \in worktree' \cap branch'
  <2>1. CASE s = c
    BY <1>1, <1>4, <2>1
  <2>2. CASE s # c
    <3>1. /\ s < cursor'[r] => s < c
          /\ cursor'[r] <= s => c <= s
      BY <1>1, <2>2, SlotsAreNats
    <3>. QED  BY <1>1, <1>2, <1>4, <2>2, <3>1 DEF Swept, c
  <2>. QED  BY <2>1, <2>2
<1>6. Swept(r)'
  BY <1>1, <1>5 DEF Swept
<1>7. \A s \in Slots : <<r, s>> \in worktree' \cup branch' => s < created'[r]
  BY <1>1 DEF CleanRun
<1>. QED  BY <1>1, <1>6, <1>7 DEF CleanRun, NotLaunched

\* A step of a run's own thread keeps its worktrees accounted for.
LEMMA CleanExecute ==
  ASSUME Tidy, TypeOK, PhasesAgree, WorktreesOutliveTheRun, NEW r \in Runs, CleanRun(r),
         Execute(r)
  PROVE  CleanRun(r)'
<1>. USE DEF gitVars, branchVars, NotLaunched
<1>1. CASE CreateWorktree(r)
  <2>1. /\ pc[r] = "creating" /\ pc'[r] = pc[r] /\ cursor' = cursor
        /\ created[r] \in Nat /\ created'[r] = created[r] + 1
        /\ worktree' = worktree \cup {<<r, created[r]>>}
        /\ branch' = branch \cup {<<r, created[r]>>}
    BY <1>1, RunsAssumption DEF CreateWorktree, TypeOK
  <2>2. \A s \in Slots : <<r, s>> \in worktree' \cup branch' => s < created'[r]
    <3>1. ASSUME NEW s \in Slots, <<r, s>> \in worktree' \cup branch'
          PROVE  s = created[r] \/ <<r, s>> \in worktree \cup branch
      BY <2>1, <3>1
    <3>2. \A s \in Slots : <<r, s>> \in worktree \cup branch => s < created[r]
      BY DEF CleanRun
    <3>3. \A s \in Slots : s \in Nat
      BY SlotsAreNats
    <3>. QED  BY <2>1, <3>1, <3>2, <3>3
  <2>. QED  BY <2>1, <2>2 DEF CleanRun
<1>2. CASE CreateWorktreeFails(r)
  <2>1. /\ pc[r] = "creating" /\ created[r] < nslots[r]
        /\ UNCHANGED <<worktree, branch, cursor, created, nslots>>
        /\ pc'[r] \in {"cleaning", "finished"} /\ (pc'[r] = "finished" => r \in CliRuns)
    BY <1>2 DEF CreateWorktreeFails, CreateRaises, Fail, LeaveUncleaned, TypeOK, Tidy
  <2>2. CASE pc'[r] = "cleaning"
    BY <2>1, <2>2, CleanEntered
  <2>3. CASE pc'[r] = "finished"
    BY <2>1, <2>3 DEF CleanRun, Abandoned
  <2>. QED  BY <2>1, <2>2, <2>3
<1>3. CASE JoinThreads(r)
  <2>1. /\ pc[r] = "proposing"
        /\ UNCHANGED <<worktree, branch, cursor, created, nslots, thread>>
        /\ pc'[r] \in {"cleaning", "selecting", "finished"}
        /\ pc'[r] = "finished" => r \in CliRuns /\ \E p \in Of(r) : thread[p] = "dead"
    BY <1>3 DEF JoinThreads, Fail, LeaveUncleaned, TypeOK, proposalVars
  <2>2. CASE pc'[r] # "finished"
    BY <2>1, <2>2, CleanEntered
  <2>3. CASE pc'[r] = "finished"
    <3>1. Abandoned(r)'
      BY <2>1, <2>3 DEF Abandoned, Of
    <3>. QED  BY <2>1, <2>3, <3>1 DEF CleanRun
  <2>. QED  BY <2>1, <2>2, <2>3
<1>4. CASE CleanNext(r)
  BY <1>4, CleanNextStep
<1>5. CASE Finish(r)
  <2>1. /\ pc[r] = "cleaning" /\ cursor[r] = created[r] /\ pc'[r] = "finished"
        /\ UNCHANGED <<cursor, created, winner, worktree, branch>>
    BY <1>5 DEF Finish, TypeOK
  <2>2. Swept(r)'
    BY <2>1 DEF CleanRun, Swept
  <2>. QED  BY <2>1, <2>2 DEF CleanRun
<1>6. CASE \/ StartThreads(r) \/ Select(r) \/ SelectRaises(r) \/ NothingToMerge(r)
           \/ MergeSquash(r) \/ MergeFails(r) \/ CommitWinner(r) \/ CommitFails(r)
           \/ ReadHead(r)
  <2>1. /\ pc[r] \in Working \ {"cleaning"} /\ pc'[r] \in Working
        /\ UNCHANGED <<cursor, created, worktree, branch>>
    BY <1>6 DEF StartThreads, Select, SelectRaises, NothingToMerge, MergeSquash, MergeFails,
       CommitWinner, CommitFails, ReadHead, Fail, Done, TypeOK
  <2>. QED  BY <2>1, CleanEntered
<1>. QED  BY <1>1, <1>2, <1>3, <1>4, <1>5, <1>6 DEF Execute

\* The steps of one run leave the worktrees, branches and threads of the others.
LEMMA CleanOthers ==
  ASSUME TypeOK, NEW r \in Runs, Start(r) \/ Execute(r), NEW q \in Runs \ {r}, CleanRun(q)
  PROVE  CleanRun(q)'
<1>1. UNCHANGED <<pc[q], cursor[q], created[q], nslots[q], winner[q]>>
  BY DEF TypeOK, Start, ResolveHead, CheckClean, Launch, Execute, CreateWorktree,
     CreateWorktreeFails, CreateRaises, LeaveUncleaned, Fail, StartThreads, JoinThreads, Select,
     SelectRaises, NothingToMerge, Done, MergeSquash, MergeFails, CommitWinner, CommitFails,
     ReadHead, CleanNext, Finish
<1>2. \A s \in Slots : /\ <<q, s>> \in worktree' <=> <<q, s>> \in worktree
                       /\ <<q, s>> \in branch' <=> <<q, s>> \in branch
  BY DEF Start, ResolveHead, CheckClean, Launch, Execute, CreateWorktree,
     CreateWorktreeFails, StartThreads, JoinThreads, Select, SelectRaises, NothingToMerge,
     MergeSquash, MergeFails, CommitWinner, CommitFails, ReadHead, CleanNext,
     WorktreesWithout, Finish, gitVars, branchVars
<1>3. \A s \in Slots : thread'[<<q, s>>] = thread[<<q, s>>]
  <2>1. CASE StartThreads(r)
    <3>1. \A s \in Slots : <<q, s>> \in Proposals /\ <<q, s>> \notin Of(r)
      BY DEF Proposals, Of
    <3>. QED  BY <2>1, <3>1 DEF StartThreads
  <2>2. CASE ~StartThreads(r)
    BY <2>2 DEF Start, ResolveHead, CheckClean, Launch, Execute, CreateWorktree,
       CreateWorktreeFails, JoinThreads, Select, SelectRaises, NothingToMerge, MergeSquash,
       MergeFails, CommitWinner, CommitFails, ReadHead, CleanNext, Finish, proposalVars
  <2>. QED  BY <2>1, <2>2
<1>. QED  BY <1>1, <1>2, <1>3, CleanFrame

\* Every step keeps every run's worktrees accounted for.
LEMMA CleanStep ==
  ASSUME Tidy, TypeOK, PhasesAgree, WorktreesOutliveTheRun, CleanInv, Next
  PROVE  CleanInv'
<1>0. ASSUME NEW q \in Runs PROVE CleanRun(q)
  BY DEF CleanInv
<1>1. ASSUME NEW r \in Runs, Start(r) \/ Execute(r), NEW q \in Runs PROVE CleanRun(q)'
  <2>1. CASE q = r
    BY <1>0, <1>1, <2>1, CleanStart, CleanExecute
  <2>2. CASE q # r
    BY <1>0, <1>1, <2>2, CleanOthers
  <2>. QED  BY <2>1, <2>2
<1>2. ASSUME NEW p \in Proposals, Stream(p), NEW q \in Runs PROVE CleanRun(q)'
  <2>1. /\ UNCHANGED <<pc, cursor, created, nslots, winner, worktree, branch>>
        /\ thread[p] = "streaming" /\ \E t : thread' = [thread EXCEPT ![p] = t]
    BY <1>2 DEF Stream, StreamProposal, StreamDies, runVars
  <2>2. \A s \in Slots : thread[<<q, s>>] = "dead" => thread'[<<q, s>>] = "dead"
    BY <2>1 DEF TypeOK, Proposals
  <2>. QED  BY <1>0, <2>1, <2>2, CleanFrame
<1>3. ASSUME NEW S \in SUBSET Runs, Crash(S), NEW q \in Runs PROVE CleanRun(q)'
  <2>1. /\ UNCHANGED <<cursor, created, nslots, winner, worktree, branch>>
        /\ pc'[q] = IF q \in S /\ pc[q] # "idle" THEN "lost" ELSE pc[q]
        /\ \A s \in Slots : thread[<<q, s>>] = "dead" => thread'[<<q, s>>] = "dead"
    BY <1>3 DEF Crash, gitVars, branchVars, Proposals
  <2>2. CASE pc'[q] = "lost"
    BY <1>0, <2>1, <2>2 DEF CleanRun, NotLaunched
  <2>3. CASE pc'[q] = pc[q]
    BY <1>0, <2>1, <2>3, CleanFrame
  <2>. QED  BY <2>1, <2>2, <2>3
<1>. QED  BY <1>1, <1>2, <1>3, RunsAssumption DEF Next, ServerCrash, CliCrash, CleanInv

\* Whatever step raises, a run that ended has removed its worktrees and all of
\* its branches but the winner's, if git removes what it is asked to and no
\* `worktree add` is killed half way; the exception are the command line runs
\* whose exception came before their proposals were collected.
THEOREM RunsCleanUp == Spec => []CleansUp
<1>. DEFINE Clean == Tidy => CleanInv
<1>1. Init => Clean
  <2>. SUFFICES ASSUME Init PROVE CleanInv
    OBVIOUS
  <2>. QED  BY DEF Init, CleanInv, CleanRun
<1>2. IInv /\ Clean /\ [Next]_vars => Clean'
  <2>. SUFFICES ASSUME IInv, CleanInv, Tidy, [Next]_vars PROVE CleanInv'
    BY DEF Tidy
  <2>1. CASE UNCHANGED vars
    <3>1. \A q \in Runs : CleanRun(q)'
      BY <2>1, CleanFrame DEF IInv, CleanInv, vars, runVars, proposalVars, gitVars, branchVars
    <3>. QED  BY <3>1 DEF CleanInv
  <2>. QED  BY <2>1, CleanStep DEF IInv
<1>3. IInv /\ Clean => CleansUp
  <2>. SUFFICES ASSUME TypeOK, CleanInv, NEW r \in Runs, pc[r] = "finished",
                       r \in CliRuns => Collected(r)
                PROVE  /\ worktree \cap ({r} \X Slots) = {}
                       /\ \A s \in Slots :
                           <<r, s>> \in branch <=>
                               <<r, s>> \in Of(r) /\ (KeepBranches \/ winner[r] = s)
    BY DEF CleansUp, Tidy, IInv
  <2>0. created[r] \in Nat /\ nslots[r] \in Nat
    BY RunsAssumption DEF TypeOK
  <2>1. ~Abandoned(r)
    BY <2>0 DEF Abandoned, Collected
  <2>2. cursor[r] = created[r] /\ Swept(r)
    BY <2>1 DEF CleanInv, CleanRun
  <2>3. \A s \in Slots : <<r, s>> \in Of(r) <=> s < created[r]
    BY <2>0, SlotsAreNats DEF Of
  <2>4. \A s \in Slots : <<r, s>> \notin worktree
    BY <2>2 DEF CleanInv, CleanRun, Swept
  <2>5. \A s \in Slots : <<r, s>> \in branch <=>
                           s < created[r] /\ (KeepBranches \/ winner[r] = s)
    BY <2>2 DEF CleanInv, CleanRun, Swept
  <2>. QED  BY <2>3, <2>4, <2>5
<1>. HIDE DEF Clean
<1>. QED  BY <1>1, <1>2, <1>3, Invariance, PTL DEF Spec
-----------------------------------------------------------------------------
(***************************************************************************)
(* Runs that do not overlap.                                               *)
(***************************************************************************)
HasLanded(r) == \E s \in Slots : <<r, s>> \in head

\* What the run at work may rely on: the branch stands where the run began, with
\* a clean index, until the run itself stages its winner and commits it; its
\* proposals are based on it and their diffs are taken against it.
OwnTree(r) ==
  /\ pc[r] \in Starting \cup (Working \ {"reading", "cleaning"}) =>
       head = base[r] /\ ~HasLanded(r)
  /\ pc[r] \in {"launching", "creating", "proposing", "selecting", "merging"} =>
       staged = {} /\ ~unmerged
  /\ pc[r] \in Working \ {"cleaning"} =>
       \A p \in Of(r) :
         /\ forked[p] = base[r] /\ base[r] \subseteq tip[p]
         /\ thread[p] = "ended" => diff[p] = tip[p] \ base[r]
  /\ pc[r] = "committing" => staged = {Winner(r)} /\ ~unmerged
  /\ pc[r] = "reading" => head = base[r] \cup {Winner(r)}
  /\ pc[r] \in {"committing", "reading"} => diff[Winner(r)] = {Winner(r)}

\* What a run that shows an outcome has done to the branch.
Verdict(r) ==
  /\ status[r] = "failed" => ~HasLanded(r)
  /\ status[r] = "done" /\ diff[Winner(r)] = {} => ~HasLanded(r)
  /\ status[r] = "done" /\ diff[Winner(r)] # {} =>
       merge_commit[r] = base[r] \cup {Winner(r)} /\ HasLanded(r)

SerialInv ==
  /\ \A r, q \in InFlight : r = q
  /\ \A r \in InFlight : OwnTree(r)
  /\ \A r \in Runs : Verdict(r)

\* A run begins only when no other is at work, if at most one may be.
LEMMA NobodyAtWork ==
  ASSUME MaxActive = 1, SerialInv, Cardinality(InFlight) < MaxActive
  PROVE  InFlight = {}
<1>. SUFFICES ASSUME NEW r \in InFlight PROVE FALSE
  OBVIOUS
<1>1. InFlight = {r}
  BY DEF SerialInv
<1>2. Cardinality({r}) = 1
  BY FS_Singleton
<1>. QED  BY <1>1, <1>2

\* A step after which a run's outcome rests on what it rested on before.
LEMMA VerdictFrame ==
  ASSUME NEW q \in Runs, Verdict(q),
         UNCHANGED <<status[q], winner[q], merge_commit[q], base[q]>>,
         status[q] = "done" => diff'[Winner(q)] = diff[Winner(q)],
         HasLanded(q)' <=> HasLanded(q)
  PROVE  Verdict(q)'
<1>1. Winner(q)' = Winner(q)
  BY DEF Winner
<1>. QED  BY <1>1 DEF Verdict

\* The steps of one run do not touch what another run's outcome rests on: the
\* only thing a run adds to the branch is its own winner.
LEMMA VerdictOfOthers ==
  ASSUME TypeOK, SerialInv, NEW r \in Runs, Start(r) \/ Execute(r), NEW q \in Runs \ {r}
  PROVE  Verdict(q)'
<1>1. UNCHANGED <<status[q], winner[q], merge_commit[q], base[q], diff>>
  BY DEF TypeOK, Start, ResolveHead, CheckClean, Launch, Execute, CreateWorktree,
     CreateWorktreeFails, CreateRaises, LeaveUncleaned, Fail, StartThreads, JoinThreads, Select,
     SelectRaises, NothingToMerge, Done, MergeSquash, MergeFails, CommitWinner, CommitFails,
     ReadHead, CleanNext, Finish, proposalVars
<1>2. HasLanded(q)' <=> HasLanded(q)
  <2>1. CASE CommitWinner(r)
    <3>1. pc[r] = "committing" /\ head' = head \cup staged
      BY <2>1 DEF CommitWinner
    <3>2. OwnTree(r)
      BY <3>1 DEF SerialInv, InFlight
    <3>3. head' = head \cup {<<r, winner[r]>>}
      BY <3>1, <3>2 DEF OwnTree, Winner
    <3>. QED  BY <3>3 DEF HasLanded
  <2>2. CASE ~CommitWinner(r)
    <3>1. head' = head
      BY <2>2 DEF Start, ResolveHead, CheckClean, Launch, Execute, CreateWorktree,
         CreateWorktreeFails, StartThreads, JoinThreads, Select, SelectRaises, NothingToMerge,
         MergeSquash, MergeFails, CommitFails, ReadHead, CleanNext, Finish, gitVars, indexVars
    <3>. QED  BY <3>1 DEF HasLanded
  <2>. QED  BY <2>1, <2>2
<1>3. Verdict(q)
  BY DEF SerialInv
<1>. QED  BY <1>1, <1>2, <1>3, VerdictFrame

\* ensure_repo_ready, the clean check and the launch.
LEMMA SerialStart ==
  ASSUME TypeOK, PhasesAgree, LandedByMergers, NEW r \in Runs, Start(r),
         r \in InFlight => OwnTree(r)
  PROVE  (r \in InFlight' => OwnTree(r)') /\ Verdict(r)'
<1>1. /\ pc[r] \in NotLaunched /\ created[r] = 0 /\ created' = created
      /\ UNCHANGED <<head, staged, unmerged, winner>>
      /\ pc'[r] \in {"checking", "launching", "creating", "refused"}
      /\ status[r] \notin Terminal /\ status'[r] \notin Terminal
  BY DEF Start, ResolveHead, CheckClean, Launch, TypeOK, PhasesAgree, NotLaunched, Ended,
     gitVars, indexVars
<1>2. Verdict(r)'
  BY <1>1 DEF Verdict
<1>3. ~HasLanded(r)'
  <2>1. \A s \in Slots : <<r, s>> \in head => pc[r] \in Merging \cup Ended
    BY DEF LandedByMergers
  <2>2. pc[r] \notin Merging \cup Ended
    BY <1>1 DEF NotLaunched, Merging, Ended
  <2>. QED  BY <1>1, <2>1, <2>2 DEF HasLanded
<1>4. Of(r)' = {}
  <2>1. 0..(0 - 1) = {}
    OBVIOUS
  <2>. QED  BY <1>1, <2>1 DEF Of
<1>5. pc'[r] \in {"checking", "launching", "creating"} => head' = base'[r]
  BY <1>1 DEF Start, ResolveHead, CheckClean, Launch, TypeOK, InFlight, OwnTree
<1>6. pc'[r] \in {"launching", "creating"} => staged' = {} /\ ~unmerged'
  BY <1>1 DEF Start, ResolveHead, CheckClean, Launch, TypeOK, InFlight, OwnTree, Refuses, Dirty
<1>7. r \in InFlight' => OwnTree(r)'
  BY <1>1, <1>3, <1>4, <1>5, <1>6 DEF OwnTree, InFlight
<1>. QED  BY <1>2, <1>7

\* An exception before the commit: nothing of the run is on the branch.
LEMMA SerialFails ==
  ASSUME NEW r \in Runs, OwnTree(r), pc[r] \in Working \ {"reading", "cleaning"},
         pc'[r] \in {"cleaning", "finished"}, status'[r] = "failed", head' = head
  PROVE  OwnTree(r)' /\ Verdict(r)'
<1>1. ~HasLanded(r)'
  BY DEF OwnTree, HasLanded
<1>2. Verdict(r)'
  BY <1>1 DEF Verdict
<1>. QED  BY <1>2 DEF OwnTree

\* A proposal's branch, worktree and thread.
LEMMA SerialPropose ==
  ASSUME TypeOK, PhasesAgree, ThreadsAgree, NEW r \in Runs, OwnTree(r), Verdict(r),
         \/ CreateWorktree(r) \/ CreateWorktreeFails(r) \/ StartThreads(r) \/ JoinThreads(r)
         \/ Select(r) \/ SelectRaises(r)
  PROVE  OwnTree(r)' /\ Verdict(r)'
<1>. USE DEF gitVars, indexVars, branchVars, proposalVars
<1>0. \A p \in Of(r) : p \in Proposals
  BY RunsAssumption DEF Of, Proposals, Slots, TypeOK
<1>1. CASE CreateWorktree(r)
  <2>. DEFINE n == <<r, created[r]>>
  <2>1. /\ pc[r] = "creating" /\ n \in Proposals /\ created[r] \in Nat
        /\ UNCHANGED <<pc, base, head, staged, unmerged, thread, diff, status>>
        /\ created'[r] = created[r] + 1
        /\ tip' = [tip EXCEPT ![n] = head] /\ forked' = [forked EXCEPT ![n] = head]
    BY <1>1, RunsAssumption DEF CreateWorktree, TypeOK, Proposals, Slots
  <2>2. thread[n] = "none"
    BY <2>1, RunsAssumption DEF ThreadsAgree
  <2>3. \A p \in Of(r)' : p = n \/ p \in Of(r)
    BY <2>1 DEF Of
  <2>. HIDE DEF n
  <2>4. ASSUME NEW p \in Of(r)'
        PROVE  /\ forked'[p] = base[r] /\ base[r] \subseteq tip'[p]
               /\ thread[p] = "ended" => diff[p] = tip'[p] \ base[r]
    <3>1. CASE p = n
      BY <2>1, <2>2, <3>1 DEF OwnTree, TypeOK
    <3>2. CASE p # n
      <4>1. p \in Of(r) /\ p \in Proposals
        BY <1>0, <2>3, <3>2
      <4>2. forked'[p] = forked[p] /\ tip'[p] = tip[p]
        BY <2>1, <3>2, <4>1 DEF TypeOK
      <4>. QED  BY <2>1, <4>1, <4>2 DEF OwnTree
    <3>. QED  BY <3>1, <3>2
  <2>5. Verdict(r)'
    BY <2>1 DEF PhasesAgree, Ended, Verdict
  <2>. QED  BY <2>1, <2>4, <2>5 DEF OwnTree, HasLanded
<1>2. CASE CreateWorktreeFails(r) \/ SelectRaises(r)
  <2>1. /\ pc[r] \in {"creating", "selecting"} /\ pc'[r] \in {"cleaning", "finished"}
        /\ status'[r] = "failed" /\ head' = head
    BY <1>2 DEF CreateWorktreeFails, CreateRaises, SelectRaises, Fail, LeaveUncleaned, TypeOK
  <2>. QED  BY <2>1, SerialFails
<1>3. CASE StartThreads(r)
  <2>1. /\ pc[r] = "creating" /\ pc'[r] = "proposing"
        /\ UNCHANGED <<created, base, head, staged, unmerged, diff, tip, forked, status>>
    BY <1>3 DEF StartThreads, TypeOK
  <2>2. Of(r)' = Of(r) /\ \A p \in Of(r) : thread'[p] = "streaming"
    BY <1>0, <1>3 DEF StartThreads, Of
  <2>3. \A p \in Of(r)' : /\ forked'[p] = base'[r] /\ base'[r] \subseteq tip'[p]
                          /\ thread'[p] = "ended" => diff'[p] = tip'[p] \ base'[r]
    BY <2>1, <2>2 DEF OwnTree
  <2>4. Verdict(r)'
    BY <2>1 DEF PhasesAgree, Ended, Verdict
  <2>. QED  BY <2>1, <2>3, <2>4 DEF OwnTree, HasLanded
<1>4. CASE JoinThreads(r) \/ Select(r)
  <2>1. CASE pc'[r] \in {"cleaning", "finished"}
    <3>1. pc[r] = "proposing" /\ status'[r] = "failed" /\ head' = head
      BY <1>4, <2>1 DEF JoinThreads, Select, Fail, LeaveUncleaned, TypeOK
    <3>. QED  BY <2>1, <3>1, SerialFails
  <2>2. CASE pc'[r] \notin {"cleaning", "finished"}
    <3>1. /\ pc[r] \in {"proposing", "selecting"} /\ pc'[r] \in {"selecting", "merging"}
          /\ UNCHANGED <<created, base, head, staged, unmerged, thread, diff, tip, forked>>
          /\ status'[r] \notin Terminal
      BY <1>4, <2>2 DEF JoinThreads, Select, Fail, LeaveUncleaned, TypeOK
    <3>2. Of(r)' = Of(r)
      BY <3>1 DEF Of
    <3>3. \A p \in Of(r)' : /\ forked'[p] = base'[r] /\ base'[r] \subseteq tip'[p]
                            /\ thread'[p] = "ended" => diff'[p] = tip'[p] \ base'[r]
      BY <3>1, <3>2 DEF OwnTree
    <3>4. Verdict(r)'
      BY <3>1 DEF Verdict
    <3>. QED  BY <3>1, <3>3, <3>4 DEF OwnTree, HasLanded
  <2>. QED  BY <2>1, <2>2
<1>. QED  BY <1>1, <1>2, <1>3, <1>4

\* The winner's diff, staged alone on a clean index and committed alone.
LEMMA SerialMerge ==
  ASSUME TypeOK, PhasesAgree, ThreadsAgree, WinnerChosen, TreesAgree, NEW r \in Runs,
         OwnTree(r), Verdict(r),
         \/ NothingToMerge(r) \/ MergeSquash(r) \/ MergeFails(r)
         \/ CommitWinner(r) \/ CommitFails(r) \/ ReadHead(r)
  PROVE  OwnTree(r)' /\ Verdict(r)'
<1>. USE DEF gitVars, indexVars, branchVars, proposalVars
<1>. DEFINE w == Winner(r)
<1>0. /\ pc[r] \in Merging
      /\ w \in Proposals /\ w \in Of(r) /\ thread[w] = "ended"
  <2>1. pc[r] \in Merging
    BY DEF NothingToMerge, MergeSquash, MergeFails, CommitWinner, CommitFails, ReadHead, Merging
  <2>2. w \in Of(r)
    BY <2>1 DEF WinnerChosen, Usable, Winner
  <2>. QED  BY <2>1, <2>2, WinnerIsUsable
<1>00. winner' = winner /\ Winner(r)' = w /\ diff' = diff /\ base' = base
  BY DEF NothingToMerge, MergeSquash, MergeFails, CommitWinner, CommitFails, ReadHead, Winner
<1>1. CASE NothingToMerge(r)
  <2>1. /\ pc[r] = "merging" /\ pc'[r] = "cleaning" /\ status'[r] = "done"
        /\ diff[w] = {} /\ head' = head
    BY <1>1 DEF NothingToMerge, Done, TypeOK
  <2>. HIDE DEF w
  <2>2. ~HasLanded(r)'
    BY <2>1 DEF OwnTree, HasLanded
  <2>3. Verdict(r)'
    BY <1>00, <2>1, <2>2 DEF Verdict
  <2>. QED  BY <2>1, <2>3 DEF OwnTree
<1>2. CASE MergeSquash(r)
  <2>1. /\ pc[r] = "merging" /\ pc'[r] = "committing" /\ diff[w] # {}
        /\ UNCHANGED <<status, created, head, unmerged, thread, tip, forked, merge_commit>>
        /\ staged' = ToStage(w)
    BY <1>2 DEF MergeSquash, TypeOK
  <2>. HIDE DEF w
  <2>2. /\ head = base[r] /\ staged = {} /\ ~unmerged /\ ~HasLanded(r)
        /\ forked[w] = base[r] /\ diff[w] = tip[w] \ base[r]
    BY <1>0, <2>1 DEF OwnTree
  <2>3. tip[w] \subseteq head \cup {w}
    BY <1>0 DEF TreesAgree
  <2>4. diff[w] = {w}
    BY <2>1, <2>2, <2>3
  <2>5. staged' = {w}
    BY <2>1, <2>2, <2>4 DEF ToStage, UpToDate
  <2>6. Of(r)' = Of(r)
    BY <2>1 DEF Of
  <2>7. \A p \in Of(r)' : /\ forked'[p] = base'[r] /\ base'[r] \subseteq tip'[p]
                          /\ thread'[p] = "ended" => diff'[p] = tip'[p] \ base'[r]
    BY <1>00, <2>1, <2>6 DEF OwnTree
  <2>8. ~HasLanded(r)'
    BY <2>1, <2>2 DEF HasLanded
  <2>9. Verdict(r)'
    BY <2>1 DEF Verdict, PhasesAgree, Ended
  <2>. QED  BY <1>00, <2>1, <2>2, <2>4, <2>5, <2>7, <2>8, <2>9 DEF OwnTree
<1>3. CASE MergeFails(r) \/ CommitFails(r)
  <2>1. /\ pc[r] \in {"merging", "committing"} /\ pc'[r] = "cleaning"
        /\ status'[r] = "failed" /\ head' = head
    BY <1>3 DEF MergeFails, CommitFails, Fail, TypeOK
  <2>. QED  BY <2>1, SerialFails
<1>4. CASE CommitWinner(r)
  <2>1. /\ pc[r] = "committing" /\ pc'[r] = "reading"
        /\ UNCHANGED <<status, created, thread, tip, forked, merge_commit>>
        /\ head' = head \cup staged
    BY <1>4 DEF CommitWinner, TypeOK
  <2>. HIDE DEF w
  <2>2. head' = base[r] \cup {w} /\ diff[w] = {w}
    BY <2>1 DEF OwnTree, w
  <2>3. Of(r)' = Of(r)
    BY <2>1 DEF Of
  <2>4. \A p \in Of(r)' : /\ forked'[p] = base'[r] /\ base'[r] \subseteq tip'[p]
                          /\ thread'[p] = "ended" => diff'[p] = tip'[p] \ base'[r]
    BY <1>00, <2>1, <2>3 DEF OwnTree
  <2>5. Verdict(r)'
    BY <2>1 DEF Verdict, PhasesAgree, Ended
  <2>. QED  BY <1>00, <2>1, <2>2, <2>4, <2>5 DEF OwnTree
<1>5. CASE ReadHead(r)
  <2>1. /\ pc[r] = "reading" /\ pc'[r] = "cleaning" /\ status'[r] = "done"
        /\ head' = head /\ merge_commit'[r] = head
    BY <1>5 DEF ReadHead, Done, TypeOK
  <2>2. head = base[r] \cup {w} /\ diff[w] = {w}
    BY <2>1 DEF OwnTree
  <2>3. HasLanded(r)'
    BY <1>0, <2>1, <2>2 DEF HasLanded, Winner, Proposals
  <2>. HIDE DEF w
  <2>4. Verdict(r)'
    BY <1>00, <2>1, <2>2, <2>3 DEF Verdict
  <2>. QED  BY <2>1, <2>4 DEF OwnTree
<1>. QED  BY <1>1, <1>2, <1>3, <1>4, <1>5

\* The harness of a proposal ends: the winner's thread has ended before.
LEMMA SerialStream ==
  ASSUME TypeOK, ThreadsAgree, WinnerChosen, SerialInv, NEW p \in Proposals, Stream(p)
  PROVE  SerialInv'
<1>1. /\ UNCHANGED <<pc, status, created, base, winner, merge_commit, head, staged, unmerged,
                     forked>>
      /\ thread[p] = "streaming"
      /\ \A q \in Proposals \ {p} : /\ thread'[q] = thread[q] /\ tip'[q] = tip[q]
                                    /\ diff'[q] = diff[q]
      /\ tip'[p] \in {tip[p], tip[p] \cup {p}}
      /\ thread'[p] = "ended" => diff'[p] = tip'[p] \ base[p[1]]
  BY DEF Stream, StreamProposal, StreamDies, Snapshot, TypeOK, runVars, indexVars
<1>2. ASSUME NEW r \in Runs, pc[r] \in Merging \/ status[r] = "done"
      PROVE  diff'[Winner(r)] = diff[Winner(r)]
  <2>1. Winner(r) \in Proposals /\ thread[Winner(r)] = "ended"
    BY <1>2, WinnerIsUsable
  <2>. QED  BY <1>1, <2>1
<1>3. ASSUME NEW r \in Runs PROVE Verdict(r)'
  <2>1. Verdict(r)
    BY DEF SerialInv
  <2>2. HasLanded(r)' <=> HasLanded(r)
    BY <1>1 DEF HasLanded
  <2>. QED  BY <1>1, <1>2, <2>1, <2>2, VerdictFrame
<1>4. ASSUME NEW r \in InFlight PROVE OwnTree(r)'
  <2>0. OwnTree(r) /\ r \in Runs
    BY DEF SerialInv, InFlight
  <2>1. Of(r)' = Of(r) /\ \A q \in Of(r) : q \in Proposals /\ q[1] = r
    BY <1>1, <2>0, RunsAssumption DEF Of, TypeOK, Slots, Proposals
  <2>2. ASSUME pc[r] \in Working \ {"cleaning"}, NEW q \in Of(r)
        PROVE  /\ forked[q] = base[r] /\ base[r] \subseteq tip'[q]
               /\ thread'[q] = "ended" => diff'[q] = tip'[q] \ base[r]
    <3>1. CASE q = p
      BY <1>1, <2>0, <2>1, <2>2, <3>1 DEF OwnTree
    <3>2. CASE q # p
      BY <1>1, <2>0, <2>1, <2>2, <3>2 DEF OwnTree
    <3>. QED  BY <3>1, <3>2
  <2>3. Winner(r)' = Winner(r) /\ HasLanded(r)' = HasLanded(r)
    BY <1>1 DEF Winner, HasLanded
  <2>4. pc[r] \in {"committing", "reading"} => diff'[Winner(r)] = diff[Winner(r)]
    BY <1>2, <2>0 DEF Merging
  <2>. QED  BY <1>1, <2>0, <2>1, <2>2, <2>3, <2>4 DEF OwnTree
<1>5. InFlight' = InFlight
  BY <1>1 DEF InFlight
<1>. QED  BY <1>3, <1>4, <1>5 DEF SerialInv

\* A process dies: the index and the branch stay as they are, and so does what
\* the outcomes of the other runs rest on.
LEMMA SerialCrash ==
  ASSUME TypeOK, SerialInv, NEW S \in SUBSET Runs, Crash(S)
  PROVE  SerialInv'
<1>1. /\ UNCHANGED <<status, created, base, winner, merge_commit, head, staged, unmerged,
                     forked, tip, diff>>
      /\ \A r \in Runs : pc'[r] \in {pc[r], "lost"}
      /\ \A q \in Proposals : thread'[q] = "ended" => thread[q] = "ended"
  BY DEF Crash, gitVars, indexVars, branchVars
<1>2. ASSUME NEW r \in Runs PROVE Verdict(r)'
  <2>1. Verdict(r)
    BY DEF SerialInv
  <2>2. HasLanded(r)' <=> HasLanded(r)
    BY <1>1 DEF HasLanded
  <2>. QED  BY <1>1, <2>1, <2>2, VerdictFrame
<1>3. \A r \in InFlight' : r \in InFlight /\ r \in Runs /\ pc'[r] = pc[r]
  BY <1>1 DEF InFlight
<1>4. ASSUME NEW r \in InFlight' PROVE OwnTree(r)'
  <2>0. OwnTree(r) /\ r \in Runs /\ pc'[r] = pc[r]
    BY <1>3 DEF SerialInv
  <2>1. Of(r)' = Of(r) /\ \A q \in Of(r) : q \in Proposals
    BY <1>1, <2>0, RunsAssumption DEF Of, TypeOK, Slots, Proposals
  <2>2. Winner(r)' = Winner(r) /\ HasLanded(r)' = HasLanded(r)
    BY <1>1 DEF Winner, HasLanded
  <2>3. ASSUME pc[r] \in Working \ {"cleaning"}, NEW q \in Of(r)
        PROVE  /\ forked[q] = base[r] /\ base[r] \subseteq tip[q]
               /\ thread'[q] = "ended" => diff[q] = tip[q] \ base[r]
    BY <1>1, <2>0, <2>1, <2>3 DEF OwnTree
  <2>. QED  BY <1>1, <2>0, <2>1, <2>2, <2>3 DEF OwnTree
<1>. QED  BY <1>2, <1>3, <1>4 DEF SerialInv

\* Runs that do not overlap: every step keeps the account of the branch.
LEMMA SerialStep ==
  ASSUME MaxActive = 1, IInv, SerialInv, [Next]_vars
  PROVE  SerialInv'
<1>. USE DEF IInv
<1>1. ASSUME NEW r \in Runs, Start(r) \/ Execute(r) PROVE SerialInv'
  <2>1. InFlight' \subseteq {r}
    <3>1. \A q \in Runs \ {r} : pc'[q] = pc[q]
      BY <1>1 DEF TypeOK, Start, ResolveHead, CheckClean, Launch, Execute, CreateWorktree,
         CreateWorktreeFails, CreateRaises, LeaveUncleaned, Fail, StartThreads, JoinThreads,
         Select, SelectRaises, NothingToMerge, Done, MergeSquash, MergeFails, CommitWinner,
         CommitFails, ReadHead, CleanNext, Finish
    <3>2. CASE ResolveHead(r)
      <4>1. InFlight = {}
        BY <3>2, NobodyAtWork DEF ResolveHead
      <4>. QED  BY <3>1, <4>1 DEF InFlight
    <3>3. CASE ~ResolveHead(r)
      <4>1. r \in InFlight
        BY <1>1, <3>3 DEF Start, CheckClean, Launch, Execute, CreateWorktree,
           CreateWorktreeFails, StartThreads, JoinThreads, Select, SelectRaises,
           NothingToMerge, MergeSquash, MergeFails, CommitWinner, CommitFails, ReadHead,
           CleanNext, Finish, InFlight
      <4>. QED  BY <3>1, <4>1 DEF InFlight, SerialInv
    <3>. QED  BY <3>2, <3>3
  <2>2. ASSUME NEW q \in Runs \ {r} PROVE Verdict(q)'
    BY <1>1, VerdictOfOthers
  <2>3. (r \in InFlight' => OwnTree(r)') /\ Verdict(r)'
    <3>0. Verdict(r) /\ (r \in InFlight => OwnTree(r))
      BY DEF SerialInv
    <3>1. CASE Start(r)
      BY <3>0, <3>1, SerialStart
    <3>2. CASE \/ CreateWorktree(r) \/ CreateWorktreeFails(r) \/ StartThreads(r)
               \/ JoinThreads(r) \/ Select(r) \/ SelectRaises(r)
      <4>1. r \in InFlight
        BY <3>2 DEF CreateWorktree, CreateWorktreeFails, StartThreads, JoinThreads, Select,
           SelectRaises, InFlight
      <4>. QED  BY <3>0, <3>2, <4>1, SerialPropose
    <3>3. CASE \/ NothingToMerge(r) \/ MergeSquash(r) \/ MergeFails(r)
               \/ CommitWinner(r) \/ CommitFails(r) \/ ReadHead(r)
      <4>1. r \in InFlight
        BY <3>3 DEF NothingToMerge, MergeSquash, MergeFails, CommitWinner, CommitFails,
           ReadHead, InFlight
      <4>. QED  BY <3>0, <3>3, <4>1, SerialMerge
    <3>4. CASE CleanNext(r) \/ Finish(r)
      <4>1. /\ pc'[r] \in {"cleaning", "finished"}
            /\ UNCHANGED <<status, winner, merge_commit, base, diff, head>>
        BY <3>4 DEF CleanNext, Finish, TypeOK, proposalVars, gitVars, indexVars
      <4>2. Verdict(r)'
        BY <3>0, <4>1, VerdictFrame DEF HasLanded
      <4>. QED  BY <4>1, <4>2 DEF OwnTree
    <3>. QED  BY <1>1, <3>1, <3>2, <3>3, <3>4 DEF Execute
  <2>4. \A q \in Runs : Verdict(q)'
    BY <2>2, <2>3
  <2>. QED  BY <2>1, <2>3, <2>4 DEF SerialInv
<1>2. ASSUME NEW p \in Proposals, Stream(p) PROVE SerialInv'
  BY <1>2, SerialStream
<1>3. ASSUME NEW S \in SUBSET Runs, Crash(S) PROVE SerialInv'
  BY <1>3, SerialCrash
<1>4. CASE UNCHANGED vars
  BY <1>4 DEF vars, runVars, proposalVars, gitVars, indexVars, branchVars, SerialInv, InFlight,
     OwnTree, Verdict, Winner, HasLanded, Of
<1>. QED  BY <1>1, <1>2, <1>3, <1>4, RunsAssumption DEF Next, ServerCrash, CliCrash

\* With at most one run at work, the branch and the index are that run's alone.
THEOREM SerialInvariance ==
  ASSUME MaxActive = 1
  PROVE  Spec => []SerialInv
<1>1. Init => SerialInv
  BY DEF Init, SerialInv, InFlight, Verdict
<1>2. IInv /\ SerialInv /\ [Next]_vars => SerialInv'
  BY SerialStep
<1>. QED  BY <1>1, <1>2, Invariance, PTL DEF Spec

\* A run that overlaps no other reports the commit it made: the one it started
\* from plus its own winner, whatever failed or crashed before it.
THEOREM SerialCommitIsOwn ==
  ASSUME MaxActive = 1
  PROVE  Spec => []ReportsItsOwnCommit
<1>1. SerialInv => ReportsItsOwnCommit
  BY DEF SerialInv, Verdict, ReportsItsOwnCommit
<1>. QED  BY <1>1, SerialInvariance, PTL

\* What a failed run left in the index never reaches the branch by way of a
\* later run: the clean check of start_run and run_best_of_n refuses that run.
THEOREM SerialFailuresStayOff ==
  ASSUME MaxActive = 1
  PROVE  Spec => []FailedNeverLands
<1>1. SerialInv => FailedNeverLands
  BY DEF SerialInv, Verdict, HasLanded, FailedNeverLands
<1>. QED  BY <1>1, SerialInvariance, PTL

-----------------------------------------------------------------------------
(***************************************************************************)
(* Runs that do not overlap implement BestOfNPromise.                      *)
(***************************************************************************)

\* A tree holds some proposal of the run.
LEMMA MeetsColumn ==
  ASSUME NEW T, NEW r
  PROVE  T \cap ({r} \X Slots) # {} <=> \E s \in Slots : <<r, s>> \in T
<1>1. ASSUME NEW p \in T \cap ({r} \X Slots) PROVE \E s \in Slots : <<r, s>> \in T
  <2>1. p = <<r, p[2]>> /\ p[2] \in Slots /\ p \in T
    BY <1>1
  <2>. QED  BY <2>1
<1>2. ASSUME NEW s \in Slots, <<r, s>> \in T PROVE <<r, s>> \in T \cap ({r} \X Slots)
  BY <1>2
<1>. QED  BY <1>1, <1>2

\* The outcome of one run, by whether it landed and what it reports.
LEMMA OutcomeOf ==
  ASSUME NEW r \in Runs
  PROVE  /\ HasLanded(r) => Outcome[r] = "landed"
         /\ ~HasLanded(r) /\ status[r] = "failed" => Outcome[r] = "failed"
         /\ ~HasLanded(r) /\ status[r] = "done" => Outcome[r] = "unchanged"
         /\ ~HasLanded(r) /\ status[r] \notin Terminal => Outcome[r] = "open"
<1>1. head \cap ({r} \X Slots) # {} <=> HasLanded(r)
  BY MeetsColumn DEF HasLanded
<1>. QED  BY <1>1 DEF Outcome

\* How the refinement mapping reads the state after a step.
LEMMA OutcomeOfNext ==
  ASSUME NEW r \in Runs
  PROVE  /\ HasLanded(r)' => Outcome'[r] = "landed"
         /\ ~HasLanded(r)' /\ status'[r] = "failed" => Outcome'[r] = "failed"
         /\ ~HasLanded(r)' /\ status'[r] = "done" => Outcome'[r] = "unchanged"
         /\ ~HasLanded(r)' /\ status'[r] \notin Terminal => Outcome'[r] = "open"
<1>1. head' \cap ({r} \X Slots) # {} <=> HasLanded(r)'
  BY MeetsColumn DEF HasLanded
<1>. QED  BY <1>1 DEF Outcome

\* A run whose landing stays as it was and whose report stays, or is still
\* open, keeps its outcome.
LEMMA OutcomeKept ==
  ASSUME TypeOK, NEW q \in Runs, HasLanded(q)' <=> HasLanded(q),
         status'[q] = status[q] \/ {status[q], status'[q]} \cap Terminal = {}
  PROVE  Outcome'[q] = Outcome[q]
<1>1. status[q] \in Terminal \/ status[q] \notin Terminal
  OBVIOUS
<1>2. CASE HasLanded(q)
  BY <1>2, OutcomeOf, OutcomeOfNext
<1>3. CASE ~HasLanded(q) /\ status'[q] = status[q]
  BY <1>3, OutcomeOf, OutcomeOfNext
<1>4. CASE ~HasLanded(q) /\ {status[q], status'[q]} \cap Terminal = {}
  <2>1. status[q] \notin Terminal /\ status'[q] \notin Terminal
    BY <1>4
  <2>. QED  BY <1>4, <2>1, OutcomeOf, OutcomeOfNext
<1>. QED  BY <1>2, <1>3, <1>4

\* A step that leaves the branch alone and lets at most one run report its
\* outcome ends that run without touching the branch, or stutters.
LEMMA PromiseEnds ==
  ASSUME TypeOK, SerialInv', head' = head, NEW r \in Runs,
         \A q \in Runs \ {r} : status'[q] = status[q],
         status[r] \in Terminal => status'[r] = status[r]
  PROVE  [Promise!Next]_(Promise!vars)
<1>0. \A q \in Runs : HasLanded(q)' <=> HasLanded(q)
  BY DEF HasLanded
<1>1. /\ Outcome = [q \in Runs |-> Outcome[q]]
      /\ Outcome' = [q \in Runs |-> Outcome'[q]]
  BY DEF Outcome
<1>2. \A q \in Runs \ {r} : Outcome'[q] = Outcome[q]
  BY <1>0, OutcomeKept
<1>3. CASE Outcome'[r] = Outcome[r]
  <2>1. Outcome' = Outcome
    BY <1>1, <1>2, <1>3
  <2>. QED  BY <2>1 DEF Promise!vars
<1>4. CASE Outcome'[r] # Outcome[r]
  <2>1. status[r] \notin Terminal /\ status'[r] \in Terminal
    BY <1>0, <1>4, OutcomeKept
  <2>2. ~HasLanded(r)
    BY <1>0, <1>4, OutcomeOf, OutcomeOfNext
  <2>3. Outcome[r] = "open" /\ Outcome'[r] \in {"unchanged", "failed"}
    BY <1>0, <2>1, <2>2, OutcomeOf, OutcomeOfNext
  <2>4. Outcome' = [Outcome EXCEPT ![r] = Outcome'[r]]
    BY <1>1, <1>2
  <2>5. Promise!End(r, "unchanged") \/ Promise!End(r, "failed")
    BY <2>3, <2>4 DEF Promise!End
  <2>. QED  BY <2>5 DEF Promise!Next
<1>. QED  BY <1>3, <1>4

\* The commit lands the run in one step.
LEMMA PromiseLands ==
  ASSUME TypeOK, PhasesAgree, WinnerChosen, SerialInv, NEW r \in Runs, CommitWinner(r)
  PROVE  Promise!Next
<1>1. /\ pc[r] = "committing" /\ head' = head \cup staged /\ status' = status
  BY DEF CommitWinner
<1>2. OwnTree(r)
  BY <1>1 DEF SerialInv, InFlight
<1>3. /\ head' = head \cup {<<r, winner[r]>>} /\ ~HasLanded(r)
      /\ winner[r] \in Slots
  BY <1>1, <1>2 DEF OwnTree, Winner, WinnerChosen, Usable, Merging
<1>4. HasLanded(r)' /\ \A q \in Runs \ {r} : HasLanded(q)' <=> HasLanded(q)
  BY <1>3 DEF HasLanded
<1>5. status[r] \notin Terminal
  BY <1>1 DEF PhasesAgree, Ended
<1>6. Outcome[r] = "open" /\ Outcome'[r] = "landed"
  BY <1>3, <1>4, <1>5, OutcomeOf, OutcomeOfNext
<1>7. \A q \in Runs \ {r} : Outcome'[q] = Outcome[q]
  BY <1>1, <1>4, OutcomeKept
<1>8. Outcome' = [Outcome EXCEPT ![r] = "landed"]
  <2>1. /\ Outcome = [q \in Runs |-> Outcome[q]]
        /\ Outcome' = [q \in Runs |-> Outcome'[q]]
    BY DEF Outcome
  <2>. QED  BY <1>6, <1>7, <2>1
<1>. QED  BY <1>3, <1>6, <1>8 DEF Promise!Next, Promise!Land

\* Runs that do not overlap keep the promise: each ends in exactly one of three
\* ways, and the branch grows by one proposal, at the instant of the commit of
\* the run that lands.
THEOREM SerialRunsKeepPromise ==
  ASSUME MaxActive = 1
  PROVE  Spec => KeepsPromise
<1>1. Init => Promise!Init
  BY DEF Init, Promise!Init, Outcome
<1>2. ASSUME IInv, SerialInv, SerialInv', [Next]_vars
      PROVE  [Promise!Next]_(Promise!vars)
  <2>. USE <1>2 DEF IInv
  <2>1. ASSUME NEW r \in Runs, Start(r) \/ Execute(r), ~CommitWinner(r)
        PROVE  [Promise!Next]_(Promise!vars)
    <3>1. head' = head
      BY <2>1 DEF Start, ResolveHead, CheckClean, Launch, Execute, CreateWorktree,
         CreateWorktreeFails, StartThreads, JoinThreads, Select, SelectRaises, NothingToMerge,
         MergeSquash, MergeFails, CommitFails, ReadHead, CleanNext, Finish, gitVars, indexVars
    <3>2. \A q \in Runs \ {r} : status'[q] = status[q]
      BY <2>1 DEF TypeOK, Start, ResolveHead, CheckClean, Launch, Execute, CreateWorktree,
         CreateWorktreeFails, CreateRaises, LeaveUncleaned, Fail, StartThreads, JoinThreads,
         Select, SelectRaises, NothingToMerge, Done, MergeSquash, MergeFails, CommitFails,
         ReadHead, CleanNext, Finish
    <3>3. pc[r] \in Ended => status'[r] = status[r]
      BY <2>1 DEF Ended, Start, ResolveHead, CheckClean, Launch, Execute, CreateWorktree,
         CreateWorktreeFails, StartThreads, JoinThreads, Select, SelectRaises, NothingToMerge,
         MergeSquash, MergeFails, CommitFails, ReadHead, CleanNext, Finish
    <3>4. status[r] \in Terminal => status'[r] = status[r]
      BY <3>3 DEF PhasesAgree
    <3>. QED  BY <3>1, <3>2, <3>4, PromiseEnds
  <2>2. ASSUME NEW r \in Runs, CommitWinner(r) PROVE [Promise!Next]_(Promise!vars)
    BY <2>2, PromiseLands
  <2>3. ASSUME UNCHANGED <<head, status>> PROVE [Promise!Next]_(Promise!vars)
    BY <2>3 DEF Outcome, Promise!vars
  <2>4. ASSUME NEW p \in Proposals, Stream(p) PROVE UNCHANGED <<head, status>>
    BY <2>4 DEF Stream, StreamProposal, StreamDies, runVars, indexVars
  <2>5. ASSUME NEW S \in SUBSET Runs, Crash(S) PROVE UNCHANGED <<head, status>>
    BY <2>5 DEF Crash, gitVars, indexVars
  <2>6. UNCHANGED vars => UNCHANGED <<head, status>>
    BY DEF vars, runVars, gitVars, indexVars
  <2>. QED  BY <2>1, <2>2, <2>3, <2>4, <2>5, <2>6, RunsAssumption
            DEF Next, ServerCrash, CliCrash
<1>3. IInv /\ SerialInv /\ SerialInv' /\ [Next]_vars => [Promise!Next]_(Promise!vars)
  BY <1>2
<1>. QED  BY <1>1, <1>3, Invariance, SerialInvariance, PTL DEF Spec, KeepsPromise, Promise!Spec
=============================================================================
