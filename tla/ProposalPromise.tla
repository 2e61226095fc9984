--------------------------- MODULE ProposalPromise --------------------------
(***************************************************************************)
(* What the thread of one proposal promises the run that joins it: the     *)
(* proposal's fields are as they were until the thread ends, and then they *)
(* are final and consistent with each other.  This is the proposal step    *)
(* that BestOfNRuns is built on.                                           *)
(***************************************************************************)
VARIABLES
    thread,   \* "streaming", "ended" or "dead"
    pstatus,  \* proposal_status as the API shows it
    ok,       \* Proposal.ok
    changed   \* Proposal.diff is not empty

vars == <<thread, pstatus, ok, changed>>

Init == thread = "streaming" /\ pstatus = "running" /\ ok = FALSE /\ changed = FALSE

\* The thread ends: usable when there was no error, or a diff or a transcript.
End(wrote, error, text) ==
    /\ thread = "streaming"
    /\ thread' = "ended"
    /\ changed' = wrote
    /\ ok' = (~error \/ wrote \/ text)
    /\ pstatus' = IF ok' THEN "ok" ELSE "failed"

\* The thread dies of an exception: the proposal never gets an outcome.
Die == thread = "streaming" /\ thread' = "dead" /\ UNCHANGED <<pstatus, ok, changed>>

Next == Die \/ \E wrote, error, text \in BOOLEAN : End(wrote, error, text)

Spec == Init /\ [][Next]_vars
=============================================================================
