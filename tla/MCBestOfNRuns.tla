--------------------------- MODULE MCBestOfNRuns ---------------------------
(***************************************************************************)
(* Instances of BestOfNRuns for TLC, and the refinement of BestOfNPromise  *)
(* by runs that do not overlap.                                            *)
(***************************************************************************)
EXTENDS BestOfNRuns

CONSTANTS r1, r2, r3, c1

ServerPair == {r1, r2}
ServerTriple == {r1, r2, r3}
Mixed == {r1, c1}
OneServer == {r1}
OneCli == {c1}
NoRun == {}

NoFault == {}
GitFaults == {"create", "thread", "select", "merge", "commit"}
RunFaults == {"repo", "select", "commit", "crash"}
AllFaults == FaultKinds
CrashOnly == {"crash"}
=============================================================================
