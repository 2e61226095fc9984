-------------------------- MODULE MCPivotTournament -------------------------
(* Values of the constants of PivotTournament for TLC. *)
EXTENDS PivotTournament
MCVerdicts == {-2, 2}
=============================================================================
