-------------------------- MODULE PivotTournament --------------------------
(***************************************************************************)
(* llm_verifier.select: the probabilistic pivot tournament that picks the  *)
(* best of n candidate trajectories.                                       *)
(*                                                                         *)
(* A behaviour is one call of select(), and calls of it again with the     *)
(* same arguments and cache: the ring pass is scored, its leaders become   *)
(* the pivots, the pivot rounds are scored, everything is aggregated into  *)
(* w_i and c_i, and the winner is the best mean w_i / c_i.                 *)
(* Each score_directed_pairs call is one step: its thread pool finishes    *)
(* the calls in any order, but only the set of results matters.            *)
(*                                                                         *)
(* Abstraction of the data.  One criterion and one repetition, so that one *)
(* directed pair is one verifier call.  A verdict is the reward difference *)
(* R_a - R_b in half units, -2..2, the only thing bradley_terry looks at;  *)
(* the soft win is a fixed-point number of Scale-ths.  A mean w_i / c_i is *)
(* kept as the pair of its terms and compared by cross multiplication.     *)
(***************************************************************************)
EXTENDS Integers, FiniteSets, FiniteSetsExt, Sequences, SequencesExt

CONSTANTS
    MaxCandidates,  \* bound: select() is called with at most this many
    MaxPivots,      \* bound: the `pivots` argument is 1..MaxPivots
    Verdicts,       \* the reward differences the verifier may return
    MaxRerun,       \* bound: select() is called again, once, with at most this many
    UseCache        \* TRUE iff the caller passes a `cache` path

ASSUME SelectAssumption ==
    /\ MaxCandidates \in Nat /\ MaxRerun \in Nat
    /\ MaxPivots \in Nat \ {0}   \* BestOfNConfig.from_dict clamps at 1
    /\ Verdicts \subseteq -2..2
    /\ UseCache \in BOOLEAN

VARIABLES
    phase,     \* where select() stands, see TypeOK
    n,         \* number of candidates
    k,         \* the `pivots` argument
    on_error,  \* the `on_error` argument: "tie" or "raise"
    ring,      \* the directed pairs of the ring pass
    pivots,    \* pivot_set, best first
    score,     \* the dict the current `score` closure reads: pair -> verdict
    file,      \* the cache file: pair -> verdict
    verdict,   \* what every call of this select() yielded: pair -> verdict
    failed,    \* the pairs whose last call failed
    result,    \* the VerifierResult
    reruns     \* how often select() was called again: 0 or 1

vars == <<phase, n, k, on_error, ring, pivots, score, file, verdict, failed, result, reruns>>

Empty == <<>>               \* the empty dict
NoResult == [index |-> -1]
Candidates == 0..(n - 1)
Error == 9                  \* a verifier call that raised: no reward difference
-----------------------------------------------------------------------------
(***************************************************************************)
(* pivot_tournament.py                                                     *)
(***************************************************************************)

\* A mutant: the path is not closed to a cycle.
mutant_ring_cycle(m) ==
    {{<<perm[t], perm[t + 1]>> : t \in 1..(m - 1)} : perm \in SetToSeqs(0..(m - 1))}

\* All Hamiltonian cycles ring_cycle() may draw, as sets of directed pairs.
ring_cycle(m) ==
    {{<<perm[t], perm[(t % m) + 1]>> : t \in 1..m} : perm \in SetToSeqs(0..(m - 1))}

\* bradley_terry: sigmoid of the reward difference, in Scale-ths.
Scale == 10000
bradley_terry(d) ==
    CASE d = -2 -> 2689 [] d = -1 -> 3775 [] d = 0 -> 5000
      [] d =  1 -> 6225 [] d =  2 -> 7311

\* A mutant: the two slots are swapped.
mutant_directed_reward(s, pair) == IF pair \in DOMAIN s THEN -s[pair] ELSE 0

\* directed_reward: a pair with no entry is a tie.
directed_reward(s, pair) == IF pair \in DOMAIN s THEN s[pair] ELSE 0

\* accumulate: what the pairs add to w[i] and to c[i].
accumulate_w(pairs, s, i) ==
    LET won(pair) ==
            LET p == bradley_terry(directed_reward(s, pair))
            IN  IF pair[1] = i THEN p ELSE Scale - p
    IN  MapThenSumSet(won, {pair \in pairs : i \in {pair[1], pair[2]}})
accumulate_c(pairs, i) == Cardinality({pair \in pairs : i \in {pair[1], pair[2]}})

\* The order both select_pivots and VerifierResult.ranking sort by.
Better(mean, i, j) ==
    LET l == mean[i][1] * mean[j][2]
        r == mean[j][1] * mean[i][2]
    IN  l > r \/ (l = r /\ i < j)
Sorted(mean) ==
    CHOOSE s \in SetToSeqs(DOMAIN mean) :
        \A a, b \in DOMAIN s : a < b => Better(mean, s[a], s[b])

select_pivots(mean, kk) ==
    SubSeq(Sorted(mean), 1, Min({kk, Cardinality(DOMAIN mean)}))

pivot_round_pairs(piv) ==
    LET P == ToSet(piv)
    IN  ((Candidates \ P) \X P) \cup {pair \in P \X P : pair[1] < pair[2]}

-----------------------------------------------------------------------------
(***************************************************************************)
(* score_directed_pairs                                                    *)
(***************************************************************************)

Merge(old, new) ==
    [p \in DOMAIN old \cup DOMAIN new |-> IF p \in DOMAIN new THEN new[p] ELSE old[p]]
Without(f, S) == [p \in DOMAIN f \ S |-> f[p]]

\* Mutants: a failure is no tie; the cached entries are left out.
mutant_Returned(cached, answer) == Merge(cached, answer)
mutant_ReturnedFresh(cached, answer) ==
    [p \in DOMAIN answer |-> IF answer[p] = Error THEN 0 ELSE answer[p]]

\* What a call returns when `answer` is the outcome of each job: the cached
\* entries and this call's, a failed job being a tie.  Without a cache path
\* nothing from an earlier call is in it.
Returned(cached, answer) ==
    Merge(cached, [p \in DOMAIN answer |-> IF answer[p] = Error THEN 0 ELSE answer[p]])

Failures(answer) == {p \in DOMAIN answer : answer[p] = Error}

\* Mutants: error ties are persisted; the file is overwritten, not merged.
mutant_Persisted(cached, answer) ==
    IF UseCache THEN Returned(cached, answer) ELSE Empty
mutant_PersistedFresh(cached, answer) ==
    IF UseCache THEN Without(answer, Failures(answer)) ELSE Empty

\* What the call leaves in the cache file: failed jobs are never persisted.
Persisted(cached, answer) ==
    IF UseCache THEN Merge(cached, Without(answer, Failures(answer))) ELSE Empty

\* One call on the directed `pairs`; `next` is the phase it leads to.
score_directed_pairs(pairs, next) ==
    \E answer \in [pairs \ DOMAIN file -> Verdicts \cup {Error}] :
        IF on_error = "raise" /\ Failures(answer) # {}
        THEN \* periodic saves: some of the successes are already on disk
             /\ \E saved \in SUBSET (DOMAIN answer \ Failures(answer)) :
                    file' = Persisted(file, Without(answer, DOMAIN answer \ saved))
             /\ phase' = "raised"
             /\ verdict' = Merge(verdict, file')
             /\ UNCHANGED <<score, failed>>
        ELSE /\ score' = Returned(file, answer)
             /\ file' = Persisted(file, answer)
             /\ verdict' = Merge(verdict, Returned(Empty, answer))
             /\ failed' = (failed \ DOMAIN answer) \cup Failures(answer)
             /\ phase' = next
-----------------------------------------------------------------------------
(***************************************************************************)
(* select                                                                  *)
(***************************************************************************)

\* Means of every candidate over the ring alone, and over ring and rounds: a
\* pair that is in both is counted twice.
RingMean(s) == [i \in Candidates |-> <<accumulate_w(ring, s, i), accumulate_c(ring, i)>>]
TotalMean(s, rounds) ==
    [i \in Candidates |->
        <<accumulate_w(ring, s, i) + accumulate_w(rounds, s, i),
          accumulate_c(ring, i) + accumulate_c(rounds, i)>>]

\* max(range(n), key = (mean, -i)), computed without the sort.
ArgMax(mean) ==
    CHOOSE i \in DOMAIN mean : \A j \in DOMAIN mean \ {i} : Better(mean, i, j)

Init ==
    /\ phase = "start" /\ n = 0 /\ k = 1 /\ on_error = "tie" /\ ring = {} /\ pivots = <<>>
    /\ score = Empty /\ file = Empty /\ verdict = Empty /\ failed = {}
    /\ result = NoResult /\ reruns = 0

\* select() is called: no candidate is an error, one candidate wins at once.
Call ==
    /\ phase = "start"
    /\ n' \in 0..MaxCandidates
    /\ k' \in 1..MaxPivots
    /\ on_error' \in {"tie", "raise"}
    /\ CASE n' = 0 -> phase' = "raised" /\ UNCHANGED <<ring, result>>
         [] n' = 1 -> /\ phase' = "done"
                      /\ result' = [index |-> 0, scores |-> [i \in {0} |-> <<Scale, 1>>],
                                    ranking |-> <<0>>, n_comparisons |-> 0]
                      /\ UNCHANGED ring
         [] OTHER  -> phase' = "ring" /\ ring' \in ring_cycle(n') /\ UNCHANGED result
    /\ UNCHANGED <<pivots, score, file, verdict, failed, reruns>>

\* Phase A: the ring pass is scored.
ScoreRing ==
    /\ phase = "ring"
    /\ score_directed_pairs(ring, "pivots")
    /\ UNCHANGED <<n, k, on_error, ring, pivots, result, reruns>>

\* The ring's leaders become the pivots.
PickPivots ==
    /\ phase = "pivots"
    /\ pivots' = select_pivots(RingMean(score), k)
    /\ phase' = "rounds"
    /\ UNCHANGED <<n, k, on_error, ring, score, file, verdict, failed, result, reruns>>

\* Phase B: the pivot rounds are scored; the closure is rebound.
ScoreRounds ==
    /\ phase = "rounds"
    /\ score_directed_pairs(pivot_round_pairs(pivots), "total")
    /\ UNCHANGED <<n, k, on_error, ring, pivots, result, reruns>>

\* Ring and rounds are accumulated through the closure of phase B.
Aggregate ==
    LET rounds == pivot_round_pairs(pivots)
        mean   == TotalMean(score, rounds)
    IN  /\ phase = "total"
        /\ result' = [index |-> ArgMax(mean), scores |-> mean, ranking |-> Sorted(mean),
                      n_comparisons |-> Cardinality(ring) + Cardinality(rounds)]
        /\ phase' = "done"
        /\ UNCHANGED <<n, k, on_error, ring, pivots, score, file, verdict, failed, reruns>>

\* select() is called again with the same arguments: the seed is the same, so
\* the ring is; the cache file is what the calls before left.
Rerun ==
    /\ phase \in {"done", "raised"} /\ n \in 2..MaxRerun /\ reruns = 0
    /\ phase' = "ring" /\ reruns' = reruns + 1
    /\ pivots' = <<>> /\ score' = Empty /\ failed' = {} /\ result' = NoResult
    /\ UNCHANGED <<n, k, on_error, ring, file, verdict>>

Next == Call \/ ScoreRing \/ PickPivots \/ ScoreRounds \/ Aggregate \/ Rerun

Spec == Init /\ [][Next]_vars
-----------------------------------------------------------------------------
Pairs == (0..(MaxCandidates - 1)) \X (0..(MaxCandidates - 1))
Dicts(f) == DOMAIN f \subseteq Pairs /\ \A p \in DOMAIN f : f[p] \in Verdicts \cup {0}

TypeOK ==
    /\ phase \in {"start", "ring", "pivots", "rounds", "total", "done", "raised"}
    /\ n \in 0..MaxCandidates /\ k \in 1..MaxPivots
    /\ ring \subseteq Pairs
    /\ ToSet(pivots) \subseteq Candidates
    /\ Dicts(score) /\ Dicts(file) /\ Dicts(verdict)
    /\ failed \subseteq DOMAIN verdict
    /\ result = NoResult \/ result.index \in Candidates
    /\ reruns \in 0..1 /\ on_error \in {"tie", "raise"}

\* Every candidate stands exactly once in slot A and once in slot B of the ring
\* pass, whatever cycle is drawn, so that a slot preference cancels
\* (pivot_tournament.ring_cycle), and the ring leaves no candidate without a
\* comparison, so that no mean is the 0.0 fallback.
RingCancelsSlotBias ==
    ring # {} =>
        /\ \A i \in Candidates : Cardinality({p \in ring : p[1] = i}) = 1
        /\ \A i \in Candidates : Cardinality({p \in ring : p[2] = i}) = 1
        /\ \A p \in ring : p[1] # p[2]

\* select() reports N + k(N - k) + C(k, 2) comparisons with k clamped to N, at
\* every boundary of n and k (n = 1 included, where nothing is compared).
ComparisonCount ==
    phase = "done" =>
        LET kk == Min({k, n})
        IN  result.n_comparisons =
                IF n = 1 THEN 0 ELSE n + kk * (n - kk) + (kk * (kk - 1)) \div 2

\* The winner select() computes with max() is the head of the ranking that
\* VerifierResult computes with sorted(), ties included, and the ranking names
\* every candidate once: best_of_n publishes both and they must not disagree.
WinnerHeadsRanking ==
    phase = "done" =>
        /\ result.ranking[1] = result.index
        /\ ToSet(result.ranking) = Candidates /\ Len(result.ranking) = n

\* Both about the schedule of the comparisons.
BalancedSchedule == RingCancelsSlotBias /\ ComparisonCount

\* A failed verifier call is a tie for this call only: no failed pair is ever
\* in the cache file, so a transient error cannot become a permanent tie, and
\* what is in the file is what the verifier said (score_directed_pairs).
ErrorTiesNeverPersisted ==
    /\ phase # "raised" => DOMAIN file \cap failed = {}
    /\ \A p \in DOMAIN file : p \in DOMAIN verdict /\ file[p] = verdict[p]

\* "Re-running with the same cache re-scores only the comparisons not seen
\* before": no step, not even a call that raises half way, loses or replaces a
\* verdict that reached the file.
VerdictsOnFileStay ==
    [][\A p \in DOMAIN file : p \in DOMAIN file' /\ file'[p] = file[p]]_vars

\* The published scores aggregate every comparison that was made, ring and
\* pivot rounds alike, as pivot_tournament.select_best does.
AllComparisonsAggregated ==
    (phase = "done" /\ n > 1) =>
        result.scores = TotalMean(verdict, pivot_round_pairs(pivots))

\* A candidate that won every comparison of this call by the full margin, when
\* it is the only one, is the winner.  (An earlier call on the same cache may
\* have had other pivots; what was compared then does not count now.)
WonAll(i) ==
    \A p \in ring \cup pivot_round_pairs(pivots) :
        (p[1] = i => verdict[p] = 2) /\ (p[2] = i => verdict[p] = -2)
UndefeatedWins ==
    (phase = "done" /\ n > 1) =>
        \A i \in Candidates :
            (WonAll(i) /\ \A j \in Candidates \ {i} : ~WonAll(j)) => result.index = i

\* Both about the outcome: the winner is the right one, and the one shown first.
WinnerIsBest == UndefeatedWins /\ WinnerHeadsRanking
=============================================================================
