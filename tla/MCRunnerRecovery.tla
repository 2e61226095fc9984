-------------------------- MODULE MCRunnerRecovery --------------------------
(* Connections and relay tasks are interchangeable: the specification      *)
(* names none of them.                                                     *)
EXTENDS RunnerRecovery, TLC

Symmetry == Permutations(Conns) \cup Permutations(Reqs)
=============================================================================
