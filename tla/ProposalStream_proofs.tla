----------------------- MODULE ProposalStream_proofs -----------------------
(***************************************************************************)
(* Proofs about ProposalStream, for any bounds: the sampler is given the   *)
(* whole of a finished proposal, and the stream thread implements          *)
(* ProposalPromise step by step.                                           *)
(***************************************************************************)
EXTENDS ProposalStream, TLAPS

(* The sampler's counters follow the transcript.                           *)
Counted == steps <= consumed /\ consumed <= transcript

(* The status is published by the thread's last statement and by nothing   *)
(* else, and Proposal.ok was computed from what is final by then.          *)
PublishedLast ==
    /\ pstatus # "running" <=> stream = "ended"
    /\ stream = "publish" => ok = Usable(diff)
    /\ stream = "ended" => pstatus = IF ok THEN "ok" ELSE "failed"

(* A poll saw the end only after it; what it read is what there is, and    *)
(* what it is about to score is what it read.                              *)
SeenIsFinal ==
    /\ seen.finished => /\ stream = "ended"
                        /\ seen.text = transcript /\ seen.diff = diff
    /\ sampler = "create" => ~seen.finished
    /\ sampler = "update" => consumed = seen.text
    /\ sampler = "gone" /\ seen.finished => consumed = transcript

(* They are inductive together.                                            *)
StreamInv == TypeOK /\ Counted /\ PublishedLast /\ SeenIsFinal

\* Before the harness starts nothing is printed, read or sampled.
LEMMA InitInv == Init => StreamInv
<1> SUFFICES ASSUME Init PROVE StreamInv
  OBVIOUS
<1>0. /\ seen \in [finished : BOOLEAN, text : 0..MaxText, diff : BOOLEAN]
      /\ lastStep \in [text : 0..MaxText, diff : BOOLEAN]
  BY StreamAssumption DEF Init, NoStep
<1>1. TypeOK
  <2>1. late \in BOOLEAN /\ diff \in BOOLEAN /\ ok \in BOOLEAN
    BY DEF Init
  <2>2. work \in 0..MaxWork /\ committed \in 0..MaxWork /\ exitCode \in {0, 1}
    BY StreamAssumption DEF Init
  <2>3. transcript \in 0..MaxText /\ consumed \in 0..MaxText /\ steps \in 0..MaxText
    BY StreamAssumption DEF Init
  <2> QED BY <1>0, <2>1, <2>2, <2>3, Zenon DEF Init, TypeOK
<1>2. ~seen.finished
  BY DEF Init
<1>3. Counted /\ PublishedLast /\ SeenIsFinal
  BY <1>2 DEF Init, Counted, PublishedLast, SeenIsFinal
<1> QED BY <1>1, <1>3 DEF StreamInv

(* The harness and the clock touch nothing the threads agree on.           *)
LEMMA HarnessKeeps ==
    ASSUME StreamInv, Harness \/ Deadline PROVE StreamInv'
<1>1. UNCHANGED <<streamVars, samplerVars, main>>
  BY DEF Harness, HarnessWrites, HarnessPrints, HarnessExits, PipeCloses, Deadline
<1>2. /\ harness' \in {"none", "running", "exited", "killed"} /\ exitCode' \in {0, 1}
      /\ pipe' \in {"empty", "line", "closed"} /\ late' \in BOOLEAN
  BY DEF Harness, HarnessWrites, HarnessPrints, HarnessExits, PipeCloses, Deadline,
         StreamInv, TypeOK
<1>3. work' \in 0..MaxWork
  BY StreamAssumption
     DEF Harness, HarnessWrites, HarnessPrints, HarnessExits, PipeCloses, Deadline,
         StreamInv, TypeOK
<1>4. TypeOK'
  BY <1>1, <1>2, <1>3 DEF StreamInv, TypeOK, streamVars, samplerVars
<1> QED BY <1>1, <1>4
      DEF StreamInv, Counted, PublishedLast, SeenIsFinal, Usable, streamVars, samplerVars

(* A thread that has not ended has not been seen finished.                 *)
LEMMA NotSeen == ASSUME StreamInv, stream # "ended" PROVE ~seen.finished
BY DEF StreamInv, SeenIsFinal

(* The stream thread: the transcript only grows, and what Publish makes    *)
(* visible is not touched afterwards.                                      *)
LEMMA StreamTypes == ASSUME StreamInv, Stream PROVE TypeOK'
<1> USE StreamAssumption DEF StreamInv, TypeOK, samplerVars, harnessVars
<1>1. CASE Launch
  BY <1>1 DEF Launch
<1>2. CASE ReadLine
  BY <1>2 DEF ReadLine
<1>3. CASE UndecodableLine
  BY <1>3 DEF UndecodableLine, Dies
<1>4. CASE EndOfFile \/ Wait
  BY <1>4 DEF EndOfFile, Wait
<1>5. CASE Commit
  BY <1>5 DEF Commit, Dies
<1>6. CASE Diff
  <2>0. diff \in BOOLEAN /\ ok \in BOOLEAN
    BY Zenon
  <2>1. (committed > 0) \in BOOLEAN
    BY SMT
  <2>2. diff' \in BOOLEAN
    BY <1>6, <2>0, <2>1, Zenon DEF Diff
  <2>3. Usable(diff') \in BOOLEAN
    BY Zenon DEF Usable
  <2>4. ok' \in BOOLEAN
    BY <1>6, <2>0, <2>3, Zenon DEF Diff
  <2>5. /\ stream' \in {"publish", "dead"}
        /\ UNCHANGED <<harnessVars, transcript, error, committed, pstatus, samplerVars, main>>
    BY <1>6, Zenon DEF Diff, Dies
  <2> QED BY <2>2, <2>4, <2>5
<1>7. CASE Publish
  BY <1>7 DEF Publish
<1> QED BY <1>1, <1>2, <1>3, <1>4, <1>5, <1>6, <1>7 DEF Stream

\* The steps of _stream_proposal.
LEMMA StreamKeeps == ASSUME StreamInv, Stream PROVE StreamInv'
<1>1. TypeOK'
  BY StreamTypes
<1>2. /\ stream \notin {"ended", "dead"}
      /\ UNCHANGED <<sampler, consumed, seen, steps>>
  BY DEF Stream, Launch, ReadLine, UndecodableLine, EndOfFile, Wait, Commit, Diff, Publish,
         samplerVars
<1>3. ~seen.finished
  BY <1>2, NotSeen
<1>4. transcript <= transcript'
  <2>1. transcript \in 0..MaxText /\ MaxText \in Nat
    BY StreamAssumption DEF StreamInv, TypeOK
  <2>2. CASE ReadLine
    BY <2>1, <2>2 DEF ReadLine
  <2>3. CASE ~ReadLine
    <3>1. transcript' = transcript
      BY <2>3, Zenon DEF Stream, Launch, UndecodableLine, EndOfFile, Wait, Commit, Diff, Publish
    <3> QED BY <2>1, <3>1
  <2> QED BY <2>2, <2>3
<1>5. Counted' /\ SeenIsFinal'
  BY <1>1, <1>2, <1>3, <1>4 DEF StreamInv, TypeOK, Counted, SeenIsFinal
<1>6. PublishedLast'
  <2>1. CASE Publish
    BY <2>1 DEF Publish, PublishedLast, StreamInv
  <2>2. CASE Diff
    <3>1. /\ stream' \in {"publish", "dead"} /\ pstatus' = pstatus
          /\ error' = error /\ transcript' = transcript
          /\ stream' = "publish" => ok' = Usable(diff')
      BY <2>2 DEF Diff, Dies
    <3>2. stream' = "publish" => ok' = (error' = "none" \/ diff' \/ transcript' > 0)
      BY <3>1 DEF Usable
    <3> QED BY <1>2, <3>1, <3>2 DEF PublishedLast, StreamInv, Usable
  <2>3. CASE ~Publish /\ ~Diff
    BY <1>2, <2>3 DEF Stream, Launch, ReadLine, UndecodableLine, EndOfFile, Wait, Commit,
       Dies, PublishedLast, StreamInv
  <2> QED BY <2>1, <2>2, <2>3
<1> QED BY <1>1, <1>5, <1>6 DEF StreamInv

(* The sampler reads status, transcript and diff in one step, and the run  *)
(* thread only waits.                                                      *)
LEMMA SampleKeeps == ASSUME StreamInv, Sample \/ Main PROVE StreamInv'
<1>1. UNCHANGED <<harnessVars, streamVars>>
  BY DEF Sample, Main, CreateTracker, Poll, Update, JoinStream, JoinSampler
<1>2. PublishedLast'
  BY <1>1 DEF StreamInv, PublishedLast, Usable, streamVars
<1>3. CASE Poll
  <2> DEFINE finished == pstatus # "running"
  <2>0. finished \in BOOLEAN
    OBVIOUS
  <2>1. /\ seen' = [finished |-> finished, text |-> transcript, diff |-> diff]
        /\ main' = main
        /\ \/ /\ transcript > consumed /\ sampler' = "update" /\ consumed' = transcript
              /\ steps' = steps + 1
              /\ lastStep' = [text |-> transcript, diff |-> finished /\ diff]
           \/ /\ ~(finished /\ transcript > consumed)
              /\ sampler' = (IF finished THEN "gone" ELSE "poll")
              /\ UNCHANGED <<consumed, steps, lastStep>>
    BY <1>3 DEF Poll, Finished, NewText, AtEnd, LoopEnds
  <2>2. (finished /\ diff) \in BOOLEAN
    OBVIOUS
  <2> HIDE DEF finished
  <2>3. TypeOK'
    <3>1. /\ seen' \in [finished : BOOLEAN, text : 0..MaxText, diff : BOOLEAN]
          /\ lastStep' \in [text : 0..MaxText, diff : BOOLEAN]
      BY <2>0, <2>1, <2>2 DEF StreamInv, TypeOK
    <3>2. consumed' \in 0..MaxText /\ steps' \in 0..MaxText
      BY <2>1, StreamAssumption DEF StreamInv, TypeOK, Counted
    <3>3. sampler' \in {"create", "poll", "update", "gone"} /\ main' = main
      BY <2>1
    <3> QED BY <1>1, <3>1, <3>2, <3>3 DEF StreamInv, TypeOK, harnessVars, streamVars
  <2>4. Counted'
    BY <1>1, <2>1 DEF StreamInv, TypeOK, Counted, streamVars
  <2>5. finished => stream = "ended"
    BY DEF finished, StreamInv, PublishedLast
  <2>6. SeenIsFinal'
    BY <1>1, <2>1, <2>5 DEF StreamInv, TypeOK, Counted, SeenIsFinal, streamVars
  <2> QED BY <1>2, <2>3, <2>4, <2>6 DEF StreamInv
<1>4. CASE ~Poll
  <2>1. /\ UNCHANGED <<consumed, seen, steps, lastStep>>
        /\ \/ sampler' = sampler
           \/ sampler = "create" /\ sampler' \in {"poll", "gone"}
           \/ sampler = "update" /\ sampler' = (IF seen.finished THEN "gone" ELSE "poll")
        /\ main' \in {main, "join_sampler", "collected"}
    BY <1>4 DEF Sample, Main, CreateTracker, Update, JoinStream, JoinSampler, LoopEnds, samplerVars
  <2>2. TypeOK'
    BY <1>1, <2>1 DEF StreamInv, TypeOK, harnessVars, streamVars
  <2>3. Counted'
    BY <1>1, <2>1 DEF StreamInv, Counted, streamVars
  <2>4. SeenIsFinal'
    <3>1. /\ sampler' = "update" => sampler = "update"
          /\ sampler' = "create" => sampler = "create"
      BY <2>1
    <3>2. sampler' = "gone" /\ seen.finished => consumed = transcript
      BY <2>1 DEF StreamInv, SeenIsFinal
    <3> QED BY <1>1, <2>1, <3>1, <3>2 DEF StreamInv, SeenIsFinal, streamVars
  <2> QED BY <1>2, <2>2, <2>3, <2>4 DEF StreamInv
<1> QED BY <1>3, <1>4

\* Every step of the four actors keeps the invariant.
LEMMA NextKeeps == StreamInv /\ [Next]_vars => StreamInv'
<1>1. CASE UNCHANGED vars
  BY <1>1 DEF vars, harnessVars, streamVars, samplerVars, StreamInv, TypeOK, Counted,
              PublishedLast, SeenIsFinal, Usable
<1> QED BY <1>1, HarnessKeeps, StreamKeeps, SampleKeeps DEF Next

(* The inductive invariant holds in every reachable state.                 *)
THEOREM Invariance == Spec => []StreamInv
BY InitInv, NextKeeps, PTL DEF Spec

(* Every state of the harness, the threads and the samples is well typed;  *)
(* the sampler never makes more updates than there are chunks.             *)
THEOREM Typing == Spec => []TypeOK
<1>1. StreamInv => TypeOK
  BY DEF StreamInv
<1> QED BY <1>1, Invariance, PTL

(* A sampler that saw the end has seen all of it: transcript and diff were *)
(* final when the status was published, and nothing is left unscored.      *)
THEOREM SeesAll == Spec => []SamplerSeesAll
<1>1. StreamInv => SamplerSeesAll
  BY DEF StreamInv, SeenIsFinal, SamplerSeesAll, FinishedIsComplete, NothingLeftUnscored
<1> QED BY <1>1, Invariance, PTL

-----------------------------------------------------------------------------
(* The refinement.  The promise sees of the thread whether it has ended,   *)
(* and of the fields only what they are once it has.                       *)

(* Steps that neither end the thread nor follow its end are hidden.        *)
LEMMA HiddenStep ==
    ASSUME pstatus' = pstatus,
           \/ stream' = stream /\ ok' = ok /\ diff' = diff
           \/ stream \notin {"ended", "dead"} /\ stream' \notin {"ended", "dead"}
    PROVE  UNCHANGED Promise!vars
<1>1. CASE stream' = stream /\ ok' = ok /\ diff' = diff
  BY <1>1 DEF Promise!vars
<1>2. CASE stream \notin {"ended", "dead"} /\ stream' \notin {"ended", "dead"}
  <2>1. (stream = "ended" /\ diff) = FALSE /\ (stream' = "ended" /\ diff') = FALSE
    BY <1>2
  <2>2. (stream = "ended" /\ diff)' = (stream = "ended" /\ diff)
    BY <2>1, Zenon
  <2> QED BY <1>2, <2>2, Zenon DEF Promise!vars
<1> QED BY <1>1, <1>2

(* The thread's last statement is the promise's End, with what Proposal.ok *)
(* was computed from.                                                      *)
LEMMA PublishIsEnd == ASSUME StreamInv, Publish PROVE Promise!Next
<1>1. /\ stream = "publish" /\ stream' = "ended" /\ ok' = ok /\ diff' = diff
      /\ pstatus' = IF ok THEN "ok" ELSE "failed"
  BY DEF Publish
<1>2. ok = (error = "none" \/ diff \/ transcript > 0)
  BY <1>1 DEF StreamInv, PublishedLast, Usable
<1>3. diff \in BOOLEAN /\ ok \in BOOLEAN
  BY DEF StreamInv, TypeOK
<1>4. (error # "none") \in BOOLEAN /\ (transcript > 0) \in BOOLEAN
  BY SMT
<1>5. Promise!End(diff, error # "none", transcript > 0)
  BY <1>1, <1>2, <1>3 DEF Promise!End
<1> QED BY <1>3, <1>4, <1>5, Zenon DEF Promise!Next

(* An exception nobody catches is the promise's Die.                       *)
LEMMA DeathIsDie ==
    ASSUME StreamInv, stream \notin {"ended", "dead"}, stream' = "dead", pstatus' = pstatus
    PROVE  Promise!Next
BY DEF Promise!Next, Promise!Die

\* Every step is one of ProposalPromise, or none of its state changes.
LEMMA PromiseStep == StreamInv /\ [Next]_vars => [Promise!Next]_(Promise!vars)
<1> SUFFICES ASSUME StreamInv, [Next]_vars PROVE Promise!Next \/ UNCHANGED Promise!vars
  BY DEF Promise!vars
<1>1. CASE Publish
  BY <1>1, PublishIsEnd
<1>2. CASE Stream /\ ~Publish
  <2>1. /\ stream \notin {"ended", "dead"} /\ pstatus' = pstatus
        /\ stream' # "ended"
    BY <1>2, Zenon DEF Stream, Launch, ReadLine, UndecodableLine, EndOfFile, Wait, Commit, Diff, Dies
  <2>2. CASE stream' = "dead"
    BY <2>1, <2>2, DeathIsDie
  <2>3. CASE stream' # "dead"
    BY <2>1, <2>3, HiddenStep
  <2> QED BY <2>2, <2>3
<1>3. CASE ~Stream
  <2>1. UNCHANGED <<stream, pstatus, ok, diff>>
    BY <1>3 DEF Next, vars, streamVars, Harness, HarnessWrites, HarnessPrints, HarnessExits,
       PipeCloses, Deadline, Sample, CreateTracker, Poll, Update, Main, JoinStream, JoinSampler
  <2> QED BY <2>1, HiddenStep
<1> QED BY <1>1, <1>2, <1>3

(* The stream thread implements what BestOfNRuns assumes of a proposal:    *)
(* its fields do not change until the thread ends, are consistent with     *)
(* each other then, and are final.                                         *)
THEOREM Refinement == Spec => KeepsProposalPromise
<1>1. Init => Promise!Init
  BY DEF Init, Promise!Init
<1> QED BY <1>1, Invariance, PromiseStep, PTL DEF Spec, KeepsProposalPromise, Promise!Spec
=============================================================================
