--------------------------- MODULE BestOfNPromise ---------------------------
(***************************************************************************)
(* What a Best-of-N run promises the owner of the repository: it ends in   *)
(* exactly one of three ways, and the branch changes only when it lands,   *)
(* by one proposal, in one step.                                           *)
(***************************************************************************)
EXTENDS Integers

CONSTANTS Runs, Slots

VARIABLES
    branchTip,  \* the proposals on the user's branch
    outcome     \* of each run: "open", "landed", "unchanged" or "failed"

vars == <<branchTip, outcome>>

Init == branchTip = {} /\ outcome = [r \in Runs |-> "open"]

\* The winner of run r is committed.
Land(r) ==
    /\ outcome[r] = "open"
    /\ \E s \in Slots : branchTip' = branchTip \cup {<<r, s>>}
    /\ outcome' = [outcome EXCEPT ![r] = "landed"]

\* The run ends without touching the branch.
End(r, how) ==
    /\ outcome[r] = "open"
    /\ outcome' = [outcome EXCEPT ![r] = how]
    /\ UNCHANGED branchTip

Next == \E r \in Runs : Land(r) \/ End(r, "unchanged") \/ End(r, "failed")

Spec == Init /\ [][Next]_vars
=============================================================================
