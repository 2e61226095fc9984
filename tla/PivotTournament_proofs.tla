----------------------- MODULE PivotTournament_proofs -----------------------
(***************************************************************************)
(* Proofs about PivotTournament, for any number of candidates and pivots   *)
(* and any verdicts: the ring cancels a preference for a slot and the      *)
(* comparisons are as many as announced, the cache file never loses a      *)
(* verdict and never holds an error's tie, winner and ranking agree, and   *)
(* with a cache the published scores aggregate every comparison and the    *)
(* only undefeated candidate wins.                                         *)
(***************************************************************************)
EXTENDS PivotTournament, FiniteSetTheorems, TLAPS

-----------------------------------------------------------------------------
(* What accumulate adds up.                                                *)

(* Induction over the size of a set, as the existence of a least number.   *)
LEMMA LeastSize ==
    ASSUME NEW S \in SUBSET Nat, S # {}
    PROVE  \E c \in S : \A d \in S : c <= d
<1>1. PICK c \in S : \A d \in S : <<d, c>> \notin OpToRel(<, Nat)
  BY WFMin, NatLessThanWellFounded
<1>2. ASSUME NEW d \in S PROVE c <= d
  <2>1. ~(d < c)
    BY <1>1 DEF OpToRel
  <2> QED BY <2>1
<1> QED BY <1>2

(* The entries of a dict are reward differences.                           *)
Rewards(s) == \A p \in DOMAIN s : s[p] \in -2..2

(* The soft win of a full reward difference.                              *)
Full == 7311

(* What one comparison adds to candidate i, in Scale-ths.                  *)
Gain(s, i, p) ==
    LET x == bradley_terry(directed_reward(s, p))
    IN  IF p[1] = i THEN x ELSE Scale - x

(* The element a fold takes out first.                                     *)
Pick(T) == CHOOSE p \in T : TRUE

(* f adds up the gains of i over the sets of family F.                     *)
AddsUp(f, F, s, i) ==
    f = [T \in F |-> IF T = {} THEN 0 ELSE Gain(s, i, Pick(T)) + f[T \ {Pick(T)}]]

(* The subsets of at most c elements.                                      *)
Upto(S, c) == {T \in SUBSET S : Cardinality(T) <= c}

(* A nonempty set of a layer is one element and a set of the layer below.  *)
LEMMA Layer ==
    ASSUME NEW S, IsFiniteSet(S), NEW c \in Nat, NEW T \in Upto(S, c + 1), T # {}
    PROVE  /\ Pick(T) \in T /\ T \ {Pick(T)} \in Upto(S, c)
           /\ Cardinality(T \ {Pick(T)}) = Cardinality(T) - 1
<1>1. Pick(T) \in T
  BY DEF Pick
<1>2. IsFiniteSet(T) /\ Cardinality(T) \in Nat
  BY FS_Subset, FS_CardinalityType DEF Upto
<1>3. Cardinality(T \ {Pick(T)}) = Cardinality(T) - 1
  BY <1>1, <1>2, FS_RemoveElement
<1>4. Cardinality(T) <= c + 1 /\ T \in SUBSET S
  BY DEF Upto
<1> HIDE DEF Pick
<1> QED BY <1>1, <1>2, <1>3, <1>4 DEF Upto

(* Layer by layer, the recursion that MapThenSumSet chooses a solution of has one.*)
LEMMA SumsExist ==
    ASSUME NEW S, IsFiniteSet(S), NEW s, NEW i
    PROVE  \E f : AddsUp(f, SUBSET S, s, i)
<1> DEFINE Bad == {c \in Nat : \A f : ~AddsUp(f, Upto(S, c), s, i)}
<1>1. 0 \notin Bad
  <2> DEFINE f == [T \in Upto(S, 0) |-> 0]
  <2>1. \A T \in Upto(S, 0) : T = {}
    <3> TAKE T \in Upto(S, 0)
    <3>1. IsFiniteSet(T) /\ Cardinality(T) \in Nat /\ Cardinality(T) <= 0
      BY FS_Subset, FS_CardinalityType DEF Upto
    <3> QED BY <3>1, FS_EmptySet
  <2>2. AddsUp(f, Upto(S, 0), s, i)
    BY <2>1 DEF AddsUp
  <2> QED BY <2>2
<1>2. ASSUME NEW c \in Nat, c \notin Bad
      PROVE  c + 1 \notin Bad
  <2>1. PICK f : AddsUp(f, Upto(S, c), s, i)
    BY <1>2
  <2> DEFINE g == [T \in Upto(S, c + 1) |->
                     IF T = {} THEN 0 ELSE Gain(s, i, Pick(T)) + f[T \ {Pick(T)}]]
  <2>2. \A T \in Upto(S, c) : T \in Upto(S, c + 1)
    <3> TAKE T \in Upto(S, c)
    <3>1. Cardinality(T) \in Nat
      BY FS_Subset, FS_CardinalityType DEF Upto
    <3> QED BY <3>1 DEF Upto
  <2>3. \A T \in Upto(S, c) : f[T] = IF T = {} THEN 0 ELSE Gain(s, i, Pick(T)) + f[T \ {Pick(T)}]
    <3> HIDE DEF Bad
    <3> QED BY <2>1 DEF AddsUp
  <2>4. \A T \in Upto(S, c) : g[T] = f[T]
    <3> HIDE DEF Bad
    <3> QED BY <2>2, <2>3
  <2>5. \A T \in Upto(S, c + 1) : T # {} => g[T \ {Pick(T)}] = f[T \ {Pick(T)}]
    <3> HIDE DEF g, Bad
    <3> QED BY <2>4, Layer
  <2>6. AddsUp(g, Upto(S, c + 1), s, i)
    <3>1. \A T \in Upto(S, c + 1) :
             g[T] = IF T = {} THEN 0 ELSE Gain(s, i, Pick(T)) + g[T \ {Pick(T)}]
      <4> SUFFICES ASSUME NEW T \in Upto(S, c + 1)
                   PROVE g[T] = IF T = {} THEN 0 ELSE Gain(s, i, Pick(T)) + g[T \ {Pick(T)}]
        OBVIOUS
      <4>1. g[T] = IF T = {} THEN 0 ELSE Gain(s, i, Pick(T)) + f[T \ {Pick(T)}]
        OBVIOUS
      <4> HIDE DEF g, Bad
      <4> QED BY <2>5, <4>1
    <3>2. DOMAIN g = Upto(S, c + 1) /\ g = [T \in Upto(S, c + 1) |-> g[T]]
      OBVIOUS
    <3> HIDE DEF g, Bad
    <3> QED BY <3>1, <3>2 DEF AddsUp
  <2> HIDE DEF g
  <2> QED BY <2>6
<1>3. Bad = {}
  <2> SUFFICES ASSUME Bad # {} PROVE FALSE
    OBVIOUS
  <2>1. PICK c \in Bad : \A d \in Bad : c <= d
    <3> Bad \in SUBSET Nat
      OBVIOUS
    <3> HIDE DEF Bad
    <3> QED BY LeastSize
  <2>2. c \in Nat /\ c # 0
    BY <1>1, <2>1
  <2> HIDE DEF Bad
  <2>3. c - 1 \in Nat /\ c - 1 \notin Bad
    BY <2>1, <2>2
  <2>4. (c - 1) + 1 \notin Bad
    BY <1>2, <2>3
  <2> QED BY <2>1, <2>2, <2>4
<1>4. Cardinality(S) \in Nat /\ Upto(S, Cardinality(S)) = SUBSET S
  BY FS_Subset, FS_CardinalityType DEF Upto
<1>5. Cardinality(S) \notin Bad
  BY <1>3
<1>6. \E f : AddsUp(f, Upto(S, Cardinality(S)), s, i)
  BY <1>4, <1>5
<1> HIDE DEF Bad
<1> QED BY <1>4, <1>6

(* A reward difference moves a soft win between its two extremes, which    *)
(* only a full win and a full loss reach.                                  *)
LEMMA GainBounds ==
    ASSUME NEW s, Rewards(s), NEW i, NEW p
    PROVE  /\ Gain(s, i, p) \in 2689..7311
           /\ Gain(s, i, p) = 7311 <=>
                  IF p[1] = i THEN directed_reward(s, p) = 2 ELSE directed_reward(s, p) = -2
<1>1. directed_reward(s, p) \in {-2, -1, 0, 1, 2}
  BY DEF directed_reward, Rewards
<1>2. /\ bradley_terry(-2) = 2689 /\ bradley_terry(-1) = 3775 /\ bradley_terry(0) = 5000
      /\ bradley_terry(1) = 6225 /\ bradley_terry(2) = 7311
  BY DEF bradley_terry
<1> DEFINE d == directed_reward(s, p)
           x == bradley_terry(d)
<1>3. /\ x \in 2689..7311
      /\ x = 7311 <=> d = 2
      /\ x = 2689 <=> d = -2
  <2>1. d \in {-2, -1, 0, 1, 2}
    BY <1>1
  <2> HIDE DEF d
  <2>2. CASE d = -2
    BY <1>2, <2>2
  <2>3. CASE d = -1
    BY <1>2, <2>3
  <2>4. CASE d = 0
    BY <1>2, <2>4
  <2>5. CASE d = 1
    BY <1>2, <2>5
  <2>6. CASE d = 2
    BY <1>2, <2>6
  <2> QED BY <2>1, <2>2, <2>3, <2>4, <2>5, <2>6
<1>4. Gain(s, i, p) = IF p[1] = i THEN x ELSE 10000 - x
  BY DEF Gain, Scale
<1> HIDE DEF x
<1> QED BY <1>3, <1>4

(* A sum of T's gains is at most Full for each, and is exactly that only   *)
(* if every comparison in T was won.                                       *)
Bounded(f, T, s, i) ==
    /\ Cardinality(T) \in Nat
    /\ f[T] \in Int /\ f[T] <= Full * Cardinality(T)
    /\ f[T] = Full * Cardinality(T) <=> \A p \in T : Gain(s, i, p) = Full

(* By induction over the size of the set.                                  *)
LEMMA SumBounds ==
    ASSUME NEW S, IsFiniteSet(S), NEW s, Rewards(s), NEW i,
           NEW f, AddsUp(f, SUBSET S, s, i), NEW U \in SUBSET S
    PROVE  Bounded(f, U, s, i)
<1> DEFINE Good(T) == /\ f[T] \in Int /\ f[T] <= Full * Cardinality(T)
                      /\ f[T] = Full * Cardinality(T) <=> \A p \in T : Gain(s, i, p) = Full
           Bad == {Cardinality(T) : T \in {V \in SUBSET S : ~Good(V)}}
<1> USE DEF Full
<1>0. \A T \in SUBSET S : IsFiniteSet(T) /\ Cardinality(T) \in Nat
  BY FS_Subset, FS_CardinalityType
<1>1. \A T \in SUBSET S : f[T] = IF T = {} THEN 0 ELSE Gain(s, i, Pick(T)) + f[T \ {Pick(T)}]
  <2> HIDE DEF Good, Bad
  <2> QED BY DEF AddsUp
<1>2. Good({})
  <2>1. f[{}] = 0
    BY <1>1
  <2>2. Cardinality({}) = 0
    BY FS_EmptySet
  <2> QED BY <2>1, <2>2
<1>3. ASSUME NEW T \in SUBSET S, T # {}, Good(T \ {Pick(T)})
      PROVE  Good(T)
  <2> DEFINE q == Pick(T)
             R == T \ {q}
             m == Cardinality(R)
             g == Gain(s, i, q)
  <2>1. q \in T
    BY <1>3 DEF Pick
  <2>2. m \in Nat /\ Cardinality(T) = m + 1
    <3>1. IsFiniteSet(T) /\ Cardinality(T) \in Nat /\ Cardinality(R) = Cardinality(T) - 1
      <4> HIDE DEF q
      <4> QED BY <1>0, <2>1, FS_RemoveElement
    <3>2. m \in Nat
      BY <1>0
    <3> QED BY <3>1, <3>2
  <2>3. f[T] = g + f[R]
    <3> HIDE DEF Good, Bad
    <3> QED BY <1>1, <1>3
  <2>4. g \in Int /\ g <= Full
    <3>1. g \in 2689..7311
      <4> HIDE DEF Good, Bad, q
      <4> QED BY GainBounds
    <3> HIDE DEF Good, Bad, g
    <3> QED BY <3>1 DEF Full
  <2>5. /\ f[R] \in Int /\ f[R] <= Full * m
        /\ f[R] = Full * m <=> \A p \in R : Gain(s, i, p) = Full
    BY <1>3
  <2>6. (\A p \in T : Gain(s, i, p) = Full) <=> g = Full /\ \A p \in R : Gain(s, i, p) = Full
    <3> HIDE DEF Good, Bad
    <3>1. \A p : p \in T <=> p = q \/ p \in R
      BY <2>1
    <3> HIDE DEF R, q
    <3> QED BY <3>1
  <2> HIDE DEF Good, Bad, g, m, R
  <2>7. f[T] \in Int /\ f[T] <= Full * (m + 1)
    BY <2>2, <2>3, <2>4, <2>5
  <2>8. f[T] = Full * (m + 1) <=> g = Full /\ f[R] = Full * m
    BY <2>2, <2>3, <2>4, <2>5
  <2> QED BY <2>2, <2>5, <2>6, <2>7, <2>8 DEF Good
<1>4. Bad = {}
  <2> SUFFICES ASSUME Bad # {} PROVE FALSE
    OBVIOUS
  <2>1. PICK c \in Bad : \A d \in Bad : c <= d
    <3> Bad \in SUBSET Nat
      BY <1>0
    <3> HIDE DEF Bad
    <3> QED BY LeastSize
  <2>2. PICK T \in SUBSET S : ~Good(T) /\ c = Cardinality(T)
    <3> HIDE DEF Good
    <3> QED BY <2>1
  <2>3. T # {}
    <3> HIDE DEF Good
    <3> QED BY <1>2, <2>2
  <2> DEFINE R == T \ {Pick(T)}
  <2>4. Cardinality(R) = c - 1 /\ c \in Nat
    <3>1. Pick(T) \in T
      BY <2>3 DEF Pick
    <3> QED BY <1>0, <2>2, <3>1, FS_RemoveElement
  <2>5. Good(R)
    <3>1. R \in SUBSET S /\ Cardinality(R) \notin Bad
      <4> R \in SUBSET S
        OBVIOUS
      <4> HIDE DEF Bad, R
      <4> QED BY <2>1, <2>4
    <3> HIDE DEF Good, R
    <3> QED BY <3>1
  <2> HIDE DEF Good, Bad
  <2> QED BY <1>3, <2>2, <2>3, <2>5
<1>5. Good(U)
  <2> HIDE DEF Good
  <2> QED BY <1>4
<1> QED BY <1>0, <1>5 DEF Bounded

(* The comparisons of pairs that candidate i takes part in.                *)
Of(pairs, i) == {p \in pairs : i \in {p[1], p[2]}}

(* What accumulate adds to w[i] and c[i]: a mean of at most 7311 Scale-ths,*)
(* and of exactly that only for a candidate that won all it took part in.  *)
LEMMA Accumulated ==
    ASSUME NEW pairs, IsFiniteSet(pairs), NEW s, Rewards(s), NEW i
    PROVE  /\ accumulate_c(pairs, i) \in Nat /\ accumulate_w(pairs, s, i) \in Int
           /\ accumulate_w(pairs, s, i) <= Full * accumulate_c(pairs, i)
           /\ accumulate_w(pairs, s, i) = Full * accumulate_c(pairs, i) <=>
                  \A p \in Of(pairs, i) : Gain(s, i, p) = Full
<1> DEFINE S == Of(pairs, i)
           f == CHOOSE g : AddsUp(g, SUBSET S, s, i)
<1>1. accumulate_w(pairs, s, i) = f[S]
  BY Zenon DEF accumulate_w, MapThenSumSet, MapThenFoldSet, AddsUp, Gain, Pick, Of
<1>2. accumulate_c(pairs, i) = Cardinality(S)
  BY DEF accumulate_c, Of
<1>3. IsFiniteSet(S)
  BY FS_Subset DEF Of
<1>4. AddsUp(f, SUBSET S, s, i)
  <2> HIDE DEF S
  <2> QED BY <1>3, SumsExist
<1> HIDE DEF f, S
<1>5. Bounded(f, S, s, i)
  <2>1. S \in SUBSET S
    OBVIOUS
  <2> QED BY <1>3, <1>4, <2>1, SumBounds
<1> QED BY <1>1, <1>2, <1>5 DEF Bounded, S

(* What a candidate gains depends on the rewards of the pairs that are     *)
(* added up, and on nothing else of the dict.                              *)
LEMMA SameRewardsSameSums ==
    ASSUME NEW pairs, NEW s, NEW t, NEW i,
           \A p \in pairs : directed_reward(s, p) = directed_reward(t, p)
    PROVE  accumulate_w(pairs, s, i) = accumulate_w(pairs, t, i)
<1> DEFINE S == {p \in pairs : i \in {p[1], p[2]}}
           ws(p) == LET x == bradley_terry(directed_reward(s, p))
                    IN  IF p[1] = i THEN x ELSE Scale - x
           wt(p) == LET x == bradley_terry(directed_reward(t, p))
                    IN  IF p[1] = i THEN x ELSE Scale - x
           pick(s1) == CHOOSE x \in s1 : TRUE
           bs(f, s1) == IF s1 = {} THEN 0 ELSE ws(pick(s1)) + f[s1 \ {pick(s1)}]
           bt(f, s1) == IF s1 = {} THEN 0 ELSE wt(pick(s1)) + f[s1 \ {pick(s1)}]
<1>1. \A p \in S : ws(p) = wt(p)
  OBVIOUS
<1>2. \A s1 \in SUBSET S : s1 # {} => pick(s1) \in S
  OBVIOUS
<1>3. \A f : \A s1 \in SUBSET S : bs(f, s1) = bt(f, s1)
  <2> HIDE DEF ws, wt, pick, S
  <2> QED BY <1>1, <1>2
<1>4. \A f : [s1 \in SUBSET S |-> bs(f, s1)] = [s1 \in SUBSET S |-> bt(f, s1)]
  <2> HIDE DEF bs, bt, S
  <2> QED BY <1>3
<1>5. (CHOOSE f : f = [s1 \in SUBSET S |-> bs(f, s1)])
         = (CHOOSE f : f = [s1 \in SUBSET S |-> bt(f, s1)])
  <2> HIDE DEF bs, bt, S
  <2> QED BY <1>4
<1>6. accumulate_w(pairs, s, i) = (CHOOSE f : f = [s1 \in SUBSET S |-> bs(f, s1)])[S]
  BY Zenon DEF accumulate_w, MapThenSumSet, MapThenFoldSet
<1>7. accumulate_w(pairs, t, i) = (CHOOSE f : f = [s1 \in SUBSET S |-> bt(f, s1)])[S]
  BY Zenon DEF accumulate_w, MapThenSumSet, MapThenFoldSet
<1> QED BY <1>5, <1>6, <1>7

-----------------------------------------------------------------------------
(* The ring.                                                               *)

(* The place after t on a cycle of m, and the place before it.             *)
After(t, m) == (t % m) + 1
Before(t, m) == IF t = 1 THEN m ELSE t - 1

\* The successor on the ring: the last place is followed by the first.
LEMMA Around ==
    ASSUME NEW m \in Nat, m >= 2, NEW t \in 1..m
    PROVE  /\ After(t, m) = IF t = m THEN 1 ELSE t + 1
           /\ After(t, m) \in 1..m /\ After(t, m) # t
           /\ Before(t, m) \in 1..m /\ After(Before(t, m), m) = t
<1>1. \A u \in 1..m : u % m = IF u = m THEN 0 ELSE u
  OBVIOUS
<1>2. \A u \in 1..m : After(u, m) = IF u = m THEN 1 ELSE u + 1
  BY <1>1 DEF After
<1>3. Before(t, m) \in 1..m /\ Before(t, m) = IF t = 1 THEN m ELSE t - 1
  BY DEF Before
<1> HIDE DEF After, Before
<1> QED BY <1>2, <1>3

(* Whatever cycle is drawn, each candidate is once in slot A and once in   *)
(* slot B, and is never compared with itself.                              *)
LEMMA CycleBalanced ==
    ASSUME NEW m \in Nat, m >= 2, NEW cycle \in ring_cycle(m)
    PROVE  /\ \A i \in 0..(m - 1) : Cardinality({p \in cycle : p[1] = i}) = 1
           /\ \A i \in 0..(m - 1) : Cardinality({p \in cycle : p[2] = i}) = 1
           /\ \A p \in cycle : p[1] # p[2]
<1> DEFINE D == 1..m
           C == 0..(m - 1)
<1>1. Cardinality(C) = m /\ IsFiniteSet(C) /\ Cardinality(D) = m /\ IsFiniteSet(D)
  BY FS_Interval
<1>2. PICK perm \in SetToSeqs(C) : cycle = {<<perm[t], perm[After(t, m)]>> : t \in D}
  BY DEF ring_cycle, After
<1>3. /\ perm \in [D -> C]
      /\ \A t, u \in D : t # u => perm[t] # perm[u]
  BY <1>1, <1>2 DEF SetToSeqs
<1>4. \A i \in C : \E t \in D : perm[t] = i
  <2> HIDE DEF D, C
  <2>1. perm \in Injection(D, C)
    BY <1>3 DEF Injection, IsInjective
  <2>2. perm \in Surjection(D, C)
    BY <1>1, <2>1, FS_Injection
  <2> QED BY <2>2 DEF Surjection
<1>5. \A t \in D : After(t, m) \in D /\ After(t, m) # t
  BY Around
<1>6. \A t, u \in D : After(u, m) = t => u = Before(t, m)
  <2> SUFFICES ASSUME NEW u \in D
               PROVE  u = Before(After(u, m), m)
    OBVIOUS
  <2>1. After(u, m) = IF u = m THEN 1 ELSE u + 1
    BY Around
  <2> HIDE DEF After
  <2> QED BY <2>1 DEF Before
<1>7. ASSUME NEW i \in C
      PROVE  Cardinality({p \in cycle : p[1] = i}) = 1
  <2>1. PICK t \in D : perm[t] = i
    BY <1>4
  <2>2. {p \in cycle : p[1] = i} = {<<perm[t], perm[After(t, m)]>>}
    <3> HIDE DEF D, C, After
    <3> QED BY <1>2, <1>3, <2>1
  <2> QED BY <2>2, FS_Singleton
<1>8. ASSUME NEW i \in C
      PROVE  Cardinality({p \in cycle : p[2] = i}) = 1
  <2>1. PICK t \in D : perm[t] = i
    BY <1>4
  <2>2. Before(t, m) \in D /\ After(Before(t, m), m) = t
    BY Around
  <2>3. {p \in cycle : p[2] = i} = {<<perm[Before(t, m)], perm[t]>>}
    <3> HIDE DEF D, C, After, Before
    <3> QED BY <1>2, <1>3, <1>5, <1>6, <2>1, <2>2
  <2> QED BY <2>3, FS_Singleton
<1>9. \A p \in cycle : p[1] # p[2]
  <2> HIDE DEF D, C, After
  <2> QED BY <1>2, <1>3, <1>5
<1> QED BY <1>7, <1>8, <1>9

-----------------------------------------------------------------------------
(* The order of the means.                                                 *)

(* Every candidate has a mean: a sum, and a count that is not zero.        *)
Means(mean, m) ==
    /\ DOMAIN mean = 0..(m - 1)
    /\ \A i \in 0..(m - 1) : mean[i][1] \in Int /\ mean[i][2] \in Nat \ {0}

(* Fractions with positive denominators may be compared through a third.   *)
LEMMA CrossMultiplied ==
    ASSUME NEW a1 \in Int, NEW c1 \in Nat \ {0}, NEW a2 \in Int, NEW c2 \in Nat \ {0},
           NEW a3 \in Int, NEW c3 \in Nat \ {0},
           a1 * c2 >= a2 * c1, a2 * c3 >= a3 * c2
    PROVE  /\ a1 * c3 >= a3 * c1
           /\ a1 * c3 = a3 * c1 => a1 * c2 = a2 * c1 /\ a2 * c3 = a3 * c2
<1>1. \A x, y \in Int, c \in Nat \ {0} : x >= y => x * c >= y * c
  OBVIOUS
<1>2. \A x, y \in Int, c \in Nat \ {0} : x * c >= y * c => x >= y
  OBVIOUS
<1>3. \A x, y \in Int, c \in Nat \ {0} : x * c = y * c => x = y
  OBVIOUS
<1>4. (a1 * c2) * c3 >= (a2 * c1) * c3
  BY <1>1
<1>5. (a2 * c3) * c1 >= (a3 * c2) * c1
  BY <1>1
<1>6. /\ (a1 * c2) * c3 = (a1 * c3) * c2 /\ (a2 * c1) * c3 = (a2 * c3) * c1
      /\ (a3 * c2) * c1 = (a3 * c1) * c2
  OBVIOUS
<1>7. /\ a1 * c2 \in Int /\ a2 * c1 \in Int /\ a2 * c3 \in Int /\ a3 * c2 \in Int
      /\ a1 * c3 \in Int /\ a3 * c1 \in Int
      /\ (a1 * c3) * c2 \in Int /\ (a2 * c3) * c1 \in Int /\ (a3 * c1) * c2 \in Int
  OBVIOUS
<1>8. (a1 * c3) * c2 >= (a3 * c1) * c2
  BY <1>4, <1>5, <1>6, <1>7
<1>9. a1 * c3 >= a3 * c1
  BY <1>2, <1>7, <1>8
<1>10. ASSUME a1 * c3 = a3 * c1
       PROVE  a1 * c2 = a2 * c1 /\ a2 * c3 = a3 * c2
  <2>1. (a1 * c3) * c2 = (a3 * c1) * c2
    BY <1>10
  <2>2. (a1 * c2) * c3 = (a2 * c1) * c3 /\ (a2 * c3) * c1 = (a3 * c2) * c1
    BY <1>4, <1>5, <1>6, <1>7, <2>1
  <2> QED BY <1>3, <1>7, <2>2
<1> QED BY <1>9, <1>10

(* Better is a strict total order of the candidates.                       *)
LEMMA BetterIsTotal ==
    ASSUME NEW m \in Nat, NEW mean, Means(mean, m), NEW i \in 0..(m - 1), NEW j \in 0..(m - 1)
    PROVE  /\ ~Better(mean, i, i)
           /\ i # j => Better(mean, i, j) \/ Better(mean, j, i)
           /\ ~(Better(mean, i, j) /\ Better(mean, j, i))
<1>1. /\ mean[i][1] * mean[j][2] \in Int /\ mean[j][1] * mean[i][2] \in Int
      /\ mean[i][1] * mean[i][2] \in Int
  BY DEF Means
<1> QED BY <1>1 DEF Better

(* The order is transitive, although it is stated by cross multiplication. *)
LEMMA BetterIsTransitive ==
    ASSUME NEW m \in Nat, NEW mean, Means(mean, m),
           NEW i \in 0..(m - 1), NEW j \in 0..(m - 1), NEW l \in 0..(m - 1),
           Better(mean, i, j), Better(mean, j, l)
    PROVE  Better(mean, i, l)
<1> DEFINE a(x) == mean[x][1]
           c(x) == mean[x][2]
<1>1. /\ a(i) \in Int /\ a(j) \in Int /\ a(l) \in Int
      /\ c(i) \in Nat \ {0} /\ c(j) \in Nat \ {0} /\ c(l) \in Nat \ {0}
  BY DEF Means
<1>2. /\ a(i) * c(j) \in Int /\ a(j) * c(i) \in Int /\ a(j) * c(l) \in Int
      /\ a(l) * c(j) \in Int /\ a(i) * c(l) \in Int /\ a(l) * c(i) \in Int
  <2> HIDE DEF a, c
  <2> QED BY <1>1
<1>3. /\ a(i) * c(j) >= a(j) * c(i) /\ (a(i) * c(j) = a(j) * c(i) => i < j)
      /\ a(j) * c(l) >= a(l) * c(j) /\ (a(j) * c(l) = a(l) * c(j) => j < l)
  BY <1>2 DEF Better
<1>4. Better(mean, i, l) <=> a(i) * c(l) > a(l) * c(i) \/ (a(i) * c(l) = a(l) * c(i) /\ i < l)
  BY DEF Better
<1> HIDE DEF a, c
<1>5. /\ a(i) * c(l) >= a(l) * c(i)
      /\ a(i) * c(l) = a(l) * c(i) => /\ a(i) * c(j) = a(j) * c(i)
                                      /\ a(j) * c(l) = a(l) * c(j)
  BY <1>1, <1>3, CrossMultiplied
<1>6. a(i) * c(l) = a(l) * c(i) => i < l
  BY <1>3, <1>5
<1> QED BY <1>2, <1>4, <1>5, <1>6

(* The candidates that come before i.                                      *)
Ahead(mean, i) == {j \in DOMAIN mean : Better(mean, j, i)}

(* There is a ranking: the place of a candidate is given by how many come  *)
(* before it.                                                              *)
LEMMA RankingExists ==
    ASSUME NEW m \in Nat, NEW mean, Means(mean, m)
    PROVE  \E s \in SetToSeqs(DOMAIN mean) :
               \A a, b \in DOMAIN s : a < b => Better(mean, s[a], s[b])
<1> DEFINE S == 0..(m - 1)
           place == [i \in S |-> Cardinality(Ahead(mean, i)) + 1]
<1>0. DOMAIN mean = S /\ IsFiniteSet(S) /\ Cardinality(S) = m
  BY FS_Interval DEF Means
<1>1. /\ \A i \in S : ~Better(mean, i, i)
      /\ \A i, j \in S : i # j => Better(mean, i, j) \/ Better(mean, j, i)
      /\ \A i, j, l \in S : Better(mean, i, j) /\ Better(mean, j, l) => Better(mean, i, l)
  BY BetterIsTotal, BetterIsTransitive
<1>2. \A i \in S : /\ IsFiniteSet(Ahead(mean, i)) /\ Cardinality(Ahead(mean, i)) \in Nat
                   /\ Cardinality(Ahead(mean, i)) < m
  <2> SUFFICES ASSUME NEW i \in S
               PROVE  /\ IsFiniteSet(Ahead(mean, i)) /\ Cardinality(Ahead(mean, i)) \in Nat
                      /\ Cardinality(Ahead(mean, i)) < m
    OBVIOUS
  <2> HIDE DEF S
  <2>1. Ahead(mean, i) \in SUBSET S /\ Ahead(mean, i) # S
    BY <1>0, <1>1 DEF Ahead
  <2>2. IsFiniteSet(Ahead(mean, i)) /\ Cardinality(Ahead(mean, i)) \in Nat
    BY <1>0, <2>1, FS_Subset, FS_CardinalityType
  <2> QED BY <1>0, <2>1, <2>2, FS_Subset
<1>3. \A i, j \in S : Better(mean, i, j) => place[i] < place[j]
  <2> SUFFICES ASSUME NEW i \in S, NEW j \in S, Better(mean, i, j)
               PROVE  place[i] < place[j]
    OBVIOUS
  <2>1. Cardinality(Ahead(mean, i)) < Cardinality(Ahead(mean, j))
    <3> HIDE DEF S
    <3>1. Ahead(mean, i) \in SUBSET Ahead(mean, j)
      BY <1>0, <1>1 DEF Ahead
    <3>2. i \in Ahead(mean, j) /\ i \notin Ahead(mean, i)
      BY <1>0, <1>1 DEF Ahead
    <3>3. Cardinality(Ahead(mean, i)) <= Cardinality(Ahead(mean, j))
      BY <1>2, <3>1, FS_Subset
    <3>4. Cardinality(Ahead(mean, i)) # Cardinality(Ahead(mean, j))
      BY <1>2, <3>1, <3>2, FS_Subset
    <3> QED BY <1>2, <3>3, <3>4
  <2> QED BY <1>2, <2>1
<1>4. \A i \in S : place[i] \in 1..m
  BY <1>2
<1> HIDE DEF place
<1>5. \A i, j \in S : place[i] = place[j] => i = j
  <2> HIDE DEF S
  <2> QED BY <1>1, <1>3, <1>4
<1>6. \A r \in 1..m : \E i \in S : place[i] = r
  <2>0. place = [i \in S |-> place[i]]
    BY DEF place
  <2> DEFINE D == 1..m
  <2>1. IsFiniteSet(D) /\ Cardinality(D) = m
    BY FS_Interval
  <2> HIDE DEF S, D
  <2>2. place \in [S -> D]
    BY <1>4, <2>0 DEF D
  <2>3. place \in Injection(S, D)
    BY <1>5, <2>2 DEF Injection, IsInjective
  <2>4. place \in Surjection(S, D)
    BY <1>0, <2>1, <2>3, FS_Injection
  <2>5. \A r \in D : \E i \in S : place[i] = r
    BY <2>4 DEF Surjection
  <2> QED BY <2>5 DEF D
<1> DEFINE s == [r \in 1..m |-> CHOOSE i \in S : place[i] = r]
<1>7. \A r \in 1..m : s[r] \in S /\ place[s[r]] = r
  <2> HIDE DEF S
  <2> QED BY <1>6
<1>8. s \in [1..m -> S] /\ DOMAIN s = 1..m
  <2> HIDE DEF S
  <2> QED BY <1>7
<1> HIDE DEF s, S
<1>9. s \in SetToSeqs(S)
  BY <1>0, <1>7, <1>8 DEF SetToSeqs
<1>10. ASSUME NEW a \in 1..m, NEW b \in 1..m, a < b
       PROVE  Better(mean, s[a], s[b])
  <2>1. s[a] # s[b] /\ ~(place[s[b]] < place[s[a]])
    BY <1>7, <1>10
  <2> QED BY <1>1, <1>3, <1>7, <2>1
<1> QED BY <1>0, <1>8, <1>9, <1>10

(* What VerifierResult.ranking is: all candidates, best first.             *)
LEMMA Ranked ==
    ASSUME NEW m \in Nat, NEW mean, Means(mean, m)
    PROVE  /\ Sorted(mean) \in [1..m -> 0..(m - 1)]
           /\ \A a, b \in 1..m : a # b => Sorted(mean)[a] # Sorted(mean)[b]
           /\ \A a, b \in 1..m : a < b => Better(mean, Sorted(mean)[a], Sorted(mean)[b])
           /\ \A i \in 0..(m - 1) : \E a \in 1..m : Sorted(mean)[a] = i
<1> DEFINE S == 0..(m - 1)
           D == 1..m
           s == Sorted(mean)
<1>0. /\ DOMAIN mean = S /\ IsFiniteSet(S) /\ Cardinality(S) = m
      /\ IsFiniteSet(D) /\ Cardinality(D) = m
  BY FS_Interval DEF Means
<1>1. s \in SetToSeqs(DOMAIN mean) /\ \A a, b \in DOMAIN s : a < b => Better(mean, s[a], s[b])
  BY RankingExists DEF Sorted
<1> HIDE DEF s, S
<1>2. s \in [D -> S] /\ DOMAIN s = D /\ \A a, b \in D : a # b => s[a] # s[b]
  BY <1>0, <1>1 DEF SetToSeqs
<1> HIDE DEF D
<1>3. s \in Injection(D, S)
  BY <1>2 DEF Injection, IsInjective
<1>4. s \in Surjection(D, S)
  BY <1>0, <1>3, FS_Injection
<1>5. \A i \in S : \E a \in D : s[a] = i
  BY <1>4 DEF Surjection
<1>6. \A a, b \in D : a < b => Better(mean, s[a], s[b])
  BY <1>1, <1>2
<1> QED BY <1>2, <1>5, <1>6 DEF s, S, D

(* max() over the candidates and the head of sorted() agree.               *)
LEMMA WinnerIsFirst ==
    ASSUME NEW m \in Nat, m > 0, NEW mean, Means(mean, m)
    PROVE  /\ ArgMax(mean) = Sorted(mean)[1] /\ ArgMax(mean) \in 0..(m - 1)
           /\ \A j \in 0..(m - 1) : j # ArgMax(mean) => Better(mean, ArgMax(mean), j)
<1> DEFINE S == 0..(m - 1)
           w == Sorted(mean)[1]
           x == ArgMax(mean)
<1>1. DOMAIN mean = S
  BY DEF Means
<1>2. w \in S /\ \A j \in S : j # w => Better(mean, w, j)
  <2>1. 1 \in 1..m /\ \A a \in 1..m : a # 1 => 1 < a
    OBVIOUS
  <2>2. w \in S
    BY <2>1, Ranked
  <2>3. ASSUME NEW j \in S, j # w
        PROVE  Better(mean, w, j)
    <3>0. \A i \in 0..(m - 1) : \E a \in 1..m : Sorted(mean)[a] = i
      BY Ranked, Zenon
    <3>1. PICK a \in 1..m : Sorted(mean)[a] = j
      BY <3>0
    <3>2. a # 1
      BY <2>3, <3>1
    <3> QED BY <2>1, <3>1, <3>2, Ranked
  <2> QED BY <2>2, <2>3
<1> HIDE DEF w
<1>3. \A i, j \in S : ~(Better(mean, i, j) /\ Better(mean, j, i))
  BY BetterIsTotal
<1> HIDE DEF S
<1>4. x \in S /\ \A j \in S \ {x} : Better(mean, x, j)
  BY <1>1, <1>2 DEF ArgMax
<1> HIDE DEF x
<1>5. x = w
  BY <1>2, <1>3, <1>4
<1> QED BY <1>4, <1>5 DEF x, w, S

-----------------------------------------------------------------------------
(* How many comparisons there are.                                         *)

(* The pivots argument is clamped to the number of candidates.             *)
LEMMA MinOfTwo ==
    ASSUME NEW a \in Nat, NEW b \in Nat
    PROVE  Min({a, b}) = IF a <= b THEN a ELSE b
BY DEF Min

(* The ring has as many comparisons as candidates, at least one for each.  *)
LEMMA RingCount ==
    ASSUME NEW m \in Nat, m >= 2, NEW cycle \in ring_cycle(m)
    PROVE  /\ IsFiniteSet(cycle) /\ Cardinality(cycle) = m
           /\ cycle \subseteq (0..(m - 1)) \X (0..(m - 1))
           /\ \A i \in 0..(m - 1) : accumulate_c(cycle, i) \in Nat /\ accumulate_c(cycle, i) > 0
<1> DEFINE C == 0..(m - 1)
           slot == [p \in cycle |-> p[1]]
<1>1. IsFiniteSet(C) /\ Cardinality(C) = m
  BY FS_Interval
<1>2. cycle \subseteq C \X C
  <2>1. PICK perm \in SetToSeqs(C) : cycle = {<<perm[t], perm[(t % m) + 1]>> : t \in 1..m}
    BY DEF ring_cycle
  <2>2. perm \in [1..m -> C]
    BY <1>1, <2>1 DEF SetToSeqs
  <2>3. \A t \in 1..m : (t % m) + 1 \in 1..m
    BY Around DEF After
  <2> HIDE DEF C
  <2> QED BY <2>1, <2>2, <2>3
<1>3. /\ \A i \in C : Cardinality({p \in cycle : p[1] = i}) = 1
      /\ \A p \in cycle : p[1] # p[2]
  BY CycleBalanced
<1> HIDE DEF C
<1>4. \A i \in C : \E q \in cycle : {p \in cycle : p[1] = i} = {q}
  <2> SUFFICES ASSUME NEW i \in C
               PROVE  \E q \in cycle : {p \in cycle : p[1] = i} = {q}
    OBVIOUS
  <2> DEFINE A == {p \in cycle : p[1] = i}
  <2>1. IsFiniteSet(A)
    <3>1. A \subseteq {i} \X C
      BY <1>2
    <3>2. IsFiniteSet({i} \X C)
      BY <1>1, FS_Singleton, FS_Product
    <3> HIDE DEF A
    <3> QED BY <3>1, <3>2, FS_Subset
  <2>2. \E q : A = {q}
    <3>1. Cardinality(A) = 1
      BY <1>3
    <3> HIDE DEF A
    <3> QED BY <2>1, <3>1, FS_Singleton
  <2> QED BY <2>2
<1>5. slot \in [cycle -> C] /\ \A p \in cycle : slot[p] = p[1]
  BY <1>2
<1> HIDE DEF slot
<1>6. \A p, q \in cycle : slot[p] = slot[q] => p = q
  <2> SUFFICES ASSUME NEW p \in cycle, NEW q \in cycle, slot[p] = slot[q]
               PROVE  p = q
    OBVIOUS
  <2>1. PICK x \in cycle : {y \in cycle : y[1] = p[1]} = {x}
    BY <1>4, <1>5
  <2>2. p \in {y \in cycle : y[1] = p[1]} /\ q \in {y \in cycle : y[1] = p[1]}
    BY <1>5
  <2> QED BY <2>1, <2>2
<1>7. \A i \in C : \E p \in cycle : slot[p] = i
  <2> SUFFICES ASSUME NEW i \in C
               PROVE  \E p \in cycle : slot[p] = i
    OBVIOUS
  <2>1. PICK x \in cycle : {y \in cycle : y[1] = i} = {x}
    BY <1>4
  <2> QED BY <1>5, <2>1
<1>8. slot \in Injection(cycle, C) /\ slot \in Surjection(cycle, C)
  BY <1>5, <1>6, <1>7 DEF Injection, IsInjective, Surjection
<1>9. IsFiniteSet(cycle) /\ Cardinality(cycle) = m
  BY <1>1, <1>8, FS_Injection
<1>10. \A i \in C : accumulate_c(cycle, i) \in Nat /\ accumulate_c(cycle, i) > 0
  <2> SUFFICES ASSUME NEW i \in C
               PROVE  accumulate_c(cycle, i) \in Nat /\ accumulate_c(cycle, i) > 0
    OBVIOUS
  <2> DEFINE A == {p \in cycle : i \in {p[1], p[2]}}
  <2>1. A # {}
    BY <1>4
  <2>2. IsFiniteSet(A)
    BY <1>9, FS_Subset
  <2>3. accumulate_c(cycle, i) = Cardinality(A)
    BY DEF accumulate_c
  <2> HIDE DEF A
  <2>4. Cardinality(A) \in Nat /\ Cardinality(A) # 0
    BY <2>1, <2>2, FS_CardinalityType, FS_EmptySet
  <2> QED BY <2>3, <2>4
<1> QED BY <1>2, <1>9, <1>10 DEF C

(* The pivots meet each other once.                                        *)
Upper(P) == {pair \in P \X P : pair[1] < pair[2]}

(* Half of the c * (c - 1) pairs of two of c pivots.                       *)
LEMMA UpperCount ==
    ASSUME NEW P, IsFiniteSet(P), P \subseteq Nat
    PROVE  /\ IsFiniteSet(Upper(P)) /\ Cardinality(Upper(P)) \in Nat
           /\ 2 * Cardinality(Upper(P)) = Cardinality(P) * (Cardinality(P) - 1)
<1> DEFINE U == Upper(P)
           Lo == {pair \in P \X P : pair[2] < pair[1]}
           Di == {pair \in P \X P : pair[1] = pair[2]}
           swap == [p \in U |-> <<p[2], p[1]>>]
           twin == [x \in P |-> <<x, x>>]
           c == Cardinality(P)
<1>0. c \in Nat
  BY FS_CardinalityType
<1>1. IsFiniteSet(P \X P) /\ Cardinality(P \X P) = c * c
  BY FS_Product
<1>2. IsFiniteSet(U) /\ IsFiniteSet(Lo) /\ IsFiniteSet(Di)
  BY <1>1, FS_Subset DEF Upper
<1>3. Cardinality(Lo) = Cardinality(U)
  <2>1. swap \in Bijection(U, Lo)
    <3>1. swap \in [U -> Lo] /\ \A p \in U : swap[p] = <<p[2], p[1]>>
      BY DEF Upper
    <3>2. \A p, q \in U : swap[p] = swap[q] => p = q
      <4> HIDE DEF swap, Lo
      <4> QED BY <3>1 DEF Upper
    <3>3. \A q \in Lo : \E p \in U : swap[p] = q
      <4> TAKE q \in Lo
      <4>1. <<q[2], q[1]>> \in U /\ swap[<<q[2], q[1]>>] = q
        BY DEF Upper
      <4> QED BY <4>1
    <3> HIDE DEF swap, U, Lo
    <3> QED BY <3>1, <3>2, <3>3 DEF Bijection, Injection, Surjection, IsInjective
  <2>2. ExistsBijection(U, Lo)
    BY <2>1 DEF ExistsBijection
  <2> HIDE DEF U, Lo
  <2> QED BY <1>2, <2>2, FS_Bijection
<1>4. Cardinality(Di) = c
  <2>1. twin \in Bijection(P, Di)
    <3>1. twin \in [P -> Di] /\ \A x \in P : twin[x] = <<x, x>>
      OBVIOUS
    <3>2. \A x, y \in P : twin[x] = twin[y] => x = y
      BY <3>1
    <3>3. \A q \in Di : \E x \in P : twin[x] = q
      <4> TAKE q \in Di
      <4>1. q[1] \in P /\ twin[q[1]] = q
        OBVIOUS
      <4> QED BY <4>1
    <3> HIDE DEF twin, Di
    <3> QED BY <3>1, <3>2, <3>3 DEF Bijection, Injection, Surjection, IsInjective
  <2>2. ExistsBijection(P, Di)
    BY <2>1 DEF ExistsBijection
  <2> HIDE DEF Di
  <2> QED BY <2>2, FS_Bijection
<1>5. /\ U \cap Lo = {} /\ (U \cup Lo) \cap Di = {}
      /\ (U \cup Lo) \cup Di = P \X P
  <2> DEFINE Q == P \X P
  <2>1. \A p \in Q : p[1] \in Nat /\ p[2] \in Nat
    OBVIOUS
  <2>2. U = {p \in Q : p[1] < p[2]} /\ Lo = {p \in Q : p[2] < p[1]} /\ Di = {p \in Q : p[1] = p[2]}
    BY DEF Upper
  <2> HIDE DEF U, Lo, Di, Q
  <2>3. U \cap Lo = {} /\ (U \cup Lo) \cap Di = {}
    BY <2>1, <2>2
  <2>4. ASSUME NEW p \in Q PROVE p \in (U \cup Lo) \cup Di
    BY <2>1, <2>2
  <2>5. (U \cup Lo) \cup Di = Q
    BY <2>2, <2>4
  <2> QED BY <2>3, <2>5 DEF Q
<1>6. Cardinality(U) \in Nat /\ Cardinality(Lo) \in Nat /\ Cardinality(Di) \in Nat
  BY <1>2, FS_CardinalityType
<1> HIDE DEF U, Lo, Di, swap, twin
<1>7. IsFiniteSet(U \cup Lo) /\ Cardinality(U \cup Lo) = Cardinality(U) + Cardinality(Lo)
  <2>1. Cardinality(U \cap Lo) = 0
    BY <1>5, FS_EmptySet
  <2>2. /\ IsFiniteSet(U \cup Lo)
        /\ Cardinality(U \cup Lo) = Cardinality(U) + Cardinality(Lo) - Cardinality(U \cap Lo)
    BY <1>2, FS_Union
  <2> QED BY <1>6, <2>1, <2>2
<1>8. Cardinality(P \X P) = Cardinality(U \cup Lo) + Cardinality(Di)
  <2>1. Cardinality((U \cup Lo) \cap Di) = 0
    BY <1>5, FS_EmptySet
  <2>2. Cardinality((U \cup Lo) \cup Di) =
            Cardinality(U \cup Lo) + Cardinality(Di) - Cardinality((U \cup Lo) \cap Di)
    BY <1>2, <1>7, FS_Union
  <2>3. Cardinality((U \cup Lo) \cup Di) = Cardinality(U \cup Lo) + Cardinality(Di)
    BY <1>6, <1>7, <2>1, <2>2
  <2>4. (U \cup Lo) \cup Di = P \X P
    BY <1>5
  <2> QED BY <2>3, <2>4, Zenon
<1>9. c * c = 2 * Cardinality(U) + c
  BY <1>1, <1>3, <1>4, <1>6, <1>7, <1>8
<1>10. c * (c - 1) = c * c - c
  BY <1>0
<1> HIDE DEF c
<1>11. 2 * Cardinality(U) = c * (c - 1)
  BY <1>0, <1>6, <1>9, <1>10
<1> QED BY <1>2, <1>6, <1>11 DEF U, c

(* The rounds: everybody else meets every pivot, and the pivots meet each  *)
(* other once.                                                             *)
LEMMA RoundsCount ==
    ASSUME n \in Nat, NEW piv, ToSet(piv) \subseteq Candidates
    PROVE  LET c == Cardinality(ToSet(piv))
           IN  /\ IsFiniteSet(pivot_round_pairs(piv))
               /\ pivot_round_pairs(piv) \subseteq Candidates \X Candidates
               /\ Cardinality(pivot_round_pairs(piv)) = c * (n - c) + (c * (c - 1)) \div 2
               /\ \A p \in pivot_round_pairs(piv) : p[1] # p[2]
<1> DEFINE P == ToSet(piv)
           c == Cardinality(P)
           O == Candidates \ P
           X == O \X P
           u == Cardinality(Upper(P))
<1>1. IsFiniteSet(Candidates) /\ Cardinality(Candidates) = n /\ Candidates \subseteq Nat
  BY FS_Interval DEF Candidates
<1>2. pivot_round_pairs(piv) = X \cup Upper(P)
  BY DEF pivot_round_pairs, Upper
<1> HIDE DEF P
<1>3. P \subseteq Candidates
  BY DEF P
<1>4. IsFiniteSet(P) /\ c \in Nat
  BY <1>1, <1>3, FS_Subset, FS_CardinalityType
<1>5. IsFiniteSet(O) /\ Cardinality(O) = n - c
  <2>1. Candidates \cap P = P
    BY <1>3
  <2> QED BY <1>1, <2>1, FS_Difference
<1>6. IsFiniteSet(X) /\ Cardinality(X) = (n - c) * c
  BY <1>4, <1>5, FS_Product
<1>7. IsFiniteSet(Upper(P)) /\ u \in Nat /\ 2 * u = c * (c - 1)
  BY <1>1, <1>3, <1>4, UpperCount
<1>8. X \cap Upper(P) = {}
  BY DEF Upper
<1>9. /\ IsFiniteSet(X \cup Upper(P))
      /\ Cardinality(X \cup Upper(P)) = (n - c) * c + u
  <2>1. Cardinality(X \cap Upper(P)) = 0
    BY <1>8, FS_EmptySet
  <2>2. /\ IsFiniteSet(X \cup Upper(P))
        /\ Cardinality(X \cup Upper(P)) =
               Cardinality(X) + Cardinality(Upper(P)) - Cardinality(X \cap Upper(P))
    <3> HIDE DEF X
    <3> QED BY <1>6, <1>7, FS_Union
  <2>3. (n - c) * c \in Int
    BY <1>4
  <2> HIDE DEF X, c
  <2> QED BY <1>6, <1>7, <2>1, <2>2, <2>3
<1>10. X \cup Upper(P) \subseteq Candidates \X Candidates
  BY <1>3 DEF Upper
<1>11. \A p \in X \cup Upper(P) : p[1] # p[2]
  <2>1. \A p \in X : p[1] # p[2]
    OBVIOUS
  <2>2. \A p \in Upper(P) : p[1] # p[2]
    <3> SUFFICES ASSUME NEW p \in Upper(P) PROVE p[1] # p[2]
      OBVIOUS
    <3>1. p[1] \in Nat /\ p[2] \in Nat /\ p[1] < p[2]
      BY <1>1, <1>3 DEF Upper
    <3> QED BY <3>1
  <2> QED BY <2>1, <2>2
<1> HIDE DEF X, u, c, O
<1>12. /\ c * (n - c) = (n - c) * c /\ (c * (c - 1)) \div 2 = u
  <2>1. c * (n - c) = (n - c) * c
    BY <1>4
  <2> DEFINE y == c * (c - 1)
  <2>2. 2 * u = y /\ y \in Int
    BY <1>4, <1>7
  <2> HIDE DEF y
  <2>3. y \div 2 = u
    BY <1>7, <2>2
  <2> QED BY <2>1, <2>3 DEF y
<1> QED BY <1>2, <1>9, <1>10, <1>11, <1>12 DEF c, P

(* select_pivots takes the best k, or all there are.                       *)
LEMMA PivotsPicked ==
    ASSUME NEW m \in Nat, NEW mean, Means(mean, m), NEW kk \in Nat
    PROVE  /\ ToSet(select_pivots(mean, kk)) \subseteq 0..(m - 1)
           /\ Cardinality(ToSet(select_pivots(mean, kk))) = Min({kk, m})
<1> DEFINE t == Min({kk, m})
           s == Sorted(mean)
           D == 1..t
           T == {s[a] : a \in D}
<1>1. t \in Nat /\ t <= m
  BY MinOfTwo
<1>2. Cardinality(DOMAIN mean) = m
  BY FS_Interval DEF Means
<1>3. s \in [1..m -> 0..(m - 1)] /\ \A a, b \in 1..m : a # b => s[a] # s[b]
  BY Ranked
<1> HIDE DEF t, s
<1>4. select_pivots(mean, kk) = SubSeq(s, 1, t)
  BY <1>2 DEF select_pivots, t, s
<1>5. s \in Seq(0..(m - 1)) /\ Len(s) = m
  BY <1>3
<1>6. DOMAIN SubSeq(s, 1, t) = D /\ \A a \in D : SubSeq(s, 1, t)[a] = s[a]
  BY <1>1, <1>5
<1>7. ToSet(select_pivots(mean, kk)) = T
  BY <1>4, <1>6 DEF ToSet
<1>8. IsFiniteSet(D) /\ Cardinality(D) = t
  BY <1>1, FS_Interval
<1>9. D \subseteq 1..m
  BY <1>1
<1>10. T \subseteq 0..(m - 1)
  BY <1>3, <1>9
<1> DEFINE f == [a \in D |-> s[a]]
<1> HIDE DEF D
<1>11. f \in Bijection(D, T)
  <2>1. f \in [D -> T] /\ \A a \in D : f[a] = s[a]
    OBVIOUS
  <2>2. \A a, b \in D : f[a] = f[b] => a = b
    BY <1>3, <1>9, <2>1
  <2>3. \A x \in T : \E a \in D : f[a] = x
    BY <2>1
  <2> HIDE DEF f, T
  <2> QED BY <2>1, <2>2, <2>3 DEF Bijection, Injection, Surjection, IsInjective
<1>12. ExistsBijection(D, T)
  BY <1>11 DEF ExistsBijection
<1> HIDE DEF T, f
<1>13. Cardinality(T) = t
  BY <1>8, <1>12, FS_Bijection
<1> QED BY <1>7, <1>10, <1>13 DEF t

(* The means over the ring, and over ring and rounds.                      *)
LEMMA MeansTyped ==
    ASSUME n \in Nat, n >= 2, ring \in ring_cycle(n), NEW s, Rewards(s),
           NEW rounds, IsFiniteSet(rounds)
    PROVE  Means(RingMean(s), n) /\ Means(TotalMean(s, rounds), n)
<1>1. /\ IsFiniteSet(ring)
      /\ \A i \in Candidates : accumulate_c(ring, i) \in Nat /\ accumulate_c(ring, i) > 0
  BY RingCount DEF Candidates
<1>2. ASSUME NEW i \in Candidates
      PROVE  /\ accumulate_w(ring, s, i) \in Int /\ accumulate_w(rounds, s, i) \in Int
             /\ accumulate_c(ring, i) \in Nat \ {0} /\ accumulate_c(rounds, i) \in Nat
  BY <1>1, Accumulated
<1>3. Means(RingMean(s), n)
  BY <1>2 DEF Means, RingMean, Candidates
<1>4. Means(TotalMean(s, rounds), n)
  BY <1>2 DEF Means, TotalMean, Candidates
<1> QED BY <1>3, <1>4

(* One candidate won all, the other did not: the first has the better mean.*)
LEMMA AllWonIsBetter ==
    ASSUME NEW w1 \in Int, NEW c1 \in Nat \ {0}, NEW w2 \in Int, NEW c2 \in Nat \ {0},
           w1 = Full * c1, w2 < Full * c2
    PROVE  w1 * c2 > w2 * c1
<1>1. Full \in Nat
  BY DEF Full
<1> DEFINE z == Full * c2
<1>2. z \in Int /\ z > w2
  BY <1>1
<1>3. w1 * c2 = z * c1
  <2> HIDE DEF Full
  <2> QED BY <1>1
<1> HIDE DEF z
<1>4. z * c1 > w2 * c1
  BY <1>2
<1> QED BY <1>3, <1>4

(* A candidate's total is that of a full win in every comparison exactly   *)
(* if it won them all.                                                     *)
LEMMA TotalOf ==
    ASSUME n \in Nat, n >= 2, ring \in ring_cycle(n), NEW s, Rewards(s),
           NEW rounds, IsFiniteSet(rounds),
           \A p \in ring \cup rounds : p \in DOMAIN verdict /\ p[1] # p[2]
                                       /\ directed_reward(s, p) = verdict[p],
           NEW i \in Candidates
    PROVE  LET w == TotalMean(s, rounds)[i][1]
               c == TotalMean(s, rounds)[i][2]
           IN  /\ w \in Int /\ c \in Nat \ {0} /\ w <= Full * c
               /\ w = Full * c <=>
                    \A p \in ring \cup rounds :
                        (p[1] = i => verdict[p] = 2) /\ (p[2] = i => verdict[p] = -2)
<1> DEFINE wa == accumulate_w(ring, s, i)
           ca == accumulate_c(ring, i)
           wb == accumulate_w(rounds, s, i)
           cb == accumulate_c(rounds, i)
           Won(p) == (p[1] = i => verdict[p] = 2) /\ (p[2] = i => verdict[p] = -2)
           Fully(pairs) == \A p \in Of(pairs, i) : Gain(s, i, p) = Full
<1>1. TotalMean(s, rounds)[i][1] = wa + wb /\ TotalMean(s, rounds)[i][2] = ca + cb
  BY DEF TotalMean
<1>2. IsFiniteSet(ring) /\ ca \in Nat \ {0}
  BY RingCount DEF Candidates
<1>3. wa \in Int /\ wa <= Full * ca /\ (wa = Full * ca <=> Fully(ring))
  BY <1>2, Accumulated
<1>4. wb \in Int /\ cb \in Nat /\ wb <= Full * cb /\ (wb = Full * cb <=> Fully(rounds))
  BY Accumulated
<1>5. ASSUME NEW pairs, pairs \subseteq ring \cup rounds
      PROVE  Fully(pairs) <=> \A p \in pairs : Won(p)
  <2>1. ASSUME NEW p \in pairs
        PROVE  Won(p) <=> (p \in Of(pairs, i) => Gain(s, i, p) = Full)
    <3>1. /\ p \in Of(pairs, i) <=> p[1] = i \/ p[2] = i
          /\ p[1] # p[2] /\ directed_reward(s, p) = verdict[p]
      BY <1>5, <2>1 DEF Of
    <3>2. Gain(s, i, p) = Full <=>
              IF p[1] = i THEN directed_reward(s, p) = 2 ELSE directed_reward(s, p) = -2
      BY GainBounds DEF Full
    <3> QED BY <3>1, <3>2
  <2>2. \A p \in Of(pairs, i) : p \in pairs
    BY DEF Of
  <2> HIDE DEF Won
  <2> QED BY <2>1, <2>2
<1>6. Fully(ring) /\ Fully(rounds) <=> \A p \in ring \cup rounds : Won(p)
  <2>1. (Fully(ring) <=> \A p \in ring : Won(p)) /\ (Fully(rounds) <=> \A p \in rounds : Won(p))
    <3> HIDE DEF Fully, Won
    <3> QED BY <1>5
  <2> HIDE DEF Fully, Won
  <2> QED BY <2>1
<1> HIDE DEF wa, wb, ca, cb, Fully
<1>7. Full \in Nat
  BY DEF Full
<1>8. /\ wa + wb \in Int /\ ca + cb \in Nat \ {0} /\ wa + wb <= Full * (ca + cb)
      /\ wa + wb = Full * (ca + cb) <=> wa = Full * ca /\ wb = Full * cb
  <2>1. /\ Full * (ca + cb) = Full * ca + Full * cb
        /\ Full * ca \in Int /\ Full * cb \in Int
    <3> HIDE DEF Full
    <3> QED BY <1>2, <1>4, <1>7
  <2> HIDE DEF Full
  <2> QED BY <1>2, <1>3, <1>4, <2>1
<1>9. wa + wb = Full * (ca + cb) <=> \A p \in ring \cup rounds : Won(p)
  <2> HIDE DEF Won
  <2> QED BY <1>3, <1>4, <1>6, <1>8
<1> QED BY <1>1, <1>8, <1>9

-----------------------------------------------------------------------------
(* The cache.                                                              *)

(* The verdict of a pair can be had again: it is in the cache file, or it  *)
(* was an error's tie, which a missing entry is taken for as well.         *)
Told(p) == p \in DOMAIN file \/ (p \in DOMAIN verdict /\ verdict[p] = 0)

(* The ring is drawn once, and is a cycle of all candidates.               *)
RingDrawn ==
    /\ phase = "start" => ring = {}
    /\ ring # {} => n \in Nat /\ n >= 2 /\ ring \in ring_cycle(n)

(* Without a cache path nothing is kept; with one, the closure of phase B  *)
(* answers for the ring of phase A too.                                    *)
Remembered ==
    /\ ~UseCache => DOMAIN file = {}
    /\ UseCache /\ phase \in {"pivots", "rounds"} => \A p \in ring : Told(p)
    /\ UseCache /\ phase = "total" =>
           \A p \in ring \cup pivot_round_pairs(pivots) :
               directed_reward(score, p) = directed_reward(verdict, p)
    /\ UseCache => AllComparisonsAggregated

SelectInv == RingDrawn /\ ErrorTiesNeverPersisted /\ Remembered

(* What one scoring call does to the file, to the verdicts and to the      *)
(* failures, whether it raises or not.                                     *)
LEMMA ScoringCall ==
    ASSUME NEW pairs, NEW next, score_directed_pairs(pairs, next),
           ErrorTiesNeverPersisted, phase # "raised", next # "raised", Remembered
    PROVE  /\ \A p \in DOMAIN file : p \in DOMAIN file' /\ file'[p] = file[p]
           /\ \A p \in DOMAIN file' : p \in DOMAIN verdict' /\ file'[p] = verdict'[p]
           /\ phase' # "raised" => DOMAIN file' \cap failed' = {}
           /\ ~UseCache => DOMAIN file' = {}
           /\ phase' \in {next, "raised"}
           /\ UseCache /\ phase' = next =>
                  /\ \A p \in pairs : /\ p \in DOMAIN file' \/ (p \in DOMAIN verdict' /\ verdict'[p] = 0)
                                      /\ p \in DOMAIN score' /\ score'[p] = verdict'[p]
                  /\ \A p : Told(p) => directed_reward(score', p) = directed_reward(verdict', p)
<1>1. PICK answer \in [pairs \ DOMAIN file -> Verdicts \cup {Error}] :
          IF on_error = "raise" /\ Failures(answer) # {}
          THEN /\ \E saved \in SUBSET (DOMAIN answer \ Failures(answer)) :
                      file' = Persisted(file, Without(answer, DOMAIN answer \ saved))
               /\ phase' = "raised"
               /\ verdict' = Merge(verdict, file')
               /\ UNCHANGED <<score, failed>>
          ELSE /\ score' = Returned(file, answer)
               /\ file' = Persisted(file, answer)
               /\ verdict' = Merge(verdict, Returned(Empty, answer))
               /\ failed' = (failed \ DOMAIN answer) \cup Failures(answer)
               /\ phase' = next
  BY DEF score_directed_pairs
<1>2. DOMAIN answer = pairs \ DOMAIN file
  OBVIOUS
<1>3. DOMAIN Empty = {}
  BY DEF Empty
<1>4. ~UseCache => DOMAIN file = {}
  BY DEF Remembered
<1>5. \A p \in DOMAIN file : p \in DOMAIN verdict /\ file[p] = verdict[p] /\ p \notin failed
  BY DEF ErrorTiesNeverPersisted
<1>6. CASE on_error = "raise" /\ Failures(answer) # {}
  <2>1. PICK saved \in SUBSET (DOMAIN answer \ Failures(answer)) :
            file' = Persisted(file, Without(answer, DOMAIN answer \ saved))
    BY <1>1, <1>6
  <2>2. phase' = "raised" /\ verdict' = Merge(verdict, file')
    BY <1>1, <1>6
  <2> DEFINE done == Without(answer, DOMAIN answer \ saved)
             some == Without(done, Failures(done))
  <2>3. DOMAIN some \subseteq pairs \ DOMAIN file
    BY <1>2 DEF Without
  <2> HIDE DEF some
  <2>4. \A p \in DOMAIN file : p \in DOMAIN file' /\ file'[p] = file[p]
    <3>1. CASE UseCache
      <4>1. file' = Merge(file, some)
        BY <2>1, <3>1 DEF Persisted, some
      <4> QED BY <2>3, <4>1 DEF Merge
    <3>2. CASE ~UseCache
      BY <1>4, <3>2
    <3> QED BY <3>1, <3>2
  <2>5. \A p \in DOMAIN file' : p \in DOMAIN verdict' /\ file'[p] = verdict'[p]
    BY <2>2 DEF Merge
  <2>6. ~UseCache => DOMAIN file' = {}
    BY <1>3, <2>1 DEF Persisted
  <2> QED BY <2>2, <2>4, <2>5, <2>6
<1>7. CASE ~(on_error = "raise" /\ Failures(answer) # {})
  <2>1. /\ score' = Returned(file, answer)
        /\ file' = Persisted(file, answer)
        /\ verdict' = Merge(verdict, Returned(Empty, answer))
        /\ failed' = (failed \ DOMAIN answer) \cup Failures(answer)
        /\ phase' = next
    BY <1>1, <1>7
  <2> DEFINE tied == [p \in DOMAIN answer |-> IF answer[p] = Error THEN 0 ELSE answer[p]]
             said == Without(answer, Failures(answer))
  <2>2. /\ DOMAIN tied = DOMAIN answer
        /\ \A p \in DOMAIN answer : tied[p] = IF answer[p] = Error THEN 0 ELSE answer[p]
    OBVIOUS
  <2>3. /\ DOMAIN said = {p \in DOMAIN answer : answer[p] # Error}
        /\ \A p \in DOMAIN said : said[p] = answer[p] /\ p \in DOMAIN answer
    BY DEF Without, Failures
  <2> HIDE DEF tied, said
  <2>4. /\ DOMAIN score' = DOMAIN file \cup DOMAIN answer
        /\ \A p \in DOMAIN score' : score'[p] = IF p \in DOMAIN answer THEN tied[p] ELSE file[p]
    BY <2>1, <2>2 DEF Returned, Merge, tied
  <2>5. /\ DOMAIN verdict' = DOMAIN verdict \cup DOMAIN answer
        /\ \A p \in DOMAIN verdict' :
               verdict'[p] = IF p \in DOMAIN answer THEN tied[p] ELSE verdict[p]
    <3>1. Returned(Empty, answer) = Merge(Empty, tied)
      BY DEF Returned, tied
    <3>2. /\ DOMAIN Returned(Empty, answer) = DOMAIN answer
          /\ \A p \in DOMAIN answer : Returned(Empty, answer)[p] = tied[p]
      BY <1>3, <2>2, <3>1 DEF Merge
    <3> QED BY <2>1, <3>2 DEF Merge
  <2>6. /\ UseCache => /\ DOMAIN file' = DOMAIN file \cup DOMAIN said
                       /\ \A p \in DOMAIN file' : file'[p] = IF p \in DOMAIN said THEN said[p] ELSE file[p]
        /\ ~UseCache => DOMAIN file' = {}
    BY <1>3, <2>1 DEF Persisted, Merge, said
  <2>7. \A p \in DOMAIN file : p \in DOMAIN file' /\ file'[p] = file[p]
    BY <1>2, <1>4, <2>3, <2>6
  <2>8. \A p \in DOMAIN file' : p \in DOMAIN verdict' /\ file'[p] = verdict'[p]
    BY <1>2, <1>5, <2>2, <2>3, <2>5, <2>6
  <2>9. DOMAIN file' \cap failed' = {}
    BY <1>2, <1>5, <2>1, <2>3, <2>6 DEF Failures
  <2>10. ASSUME UseCache, NEW p \in pairs
         PROVE  /\ p \in DOMAIN file' \/ (p \in DOMAIN verdict' /\ verdict'[p] = 0)
                /\ p \in DOMAIN score' /\ score'[p] = verdict'[p]
    BY <1>2, <1>5, <2>2, <2>3, <2>4, <2>5, <2>6, <2>10
  <2>11. ASSUME UseCache, NEW p, Told(p)
         PROVE  directed_reward(score', p) = directed_reward(verdict', p)
    <3>1. CASE p \in DOMAIN answer
      BY <2>4, <2>5, <3>1 DEF directed_reward
    <3>2. CASE p \notin DOMAIN answer /\ p \in DOMAIN file
      BY <1>5, <2>4, <2>5, <3>2 DEF directed_reward
    <3>3. CASE p \notin DOMAIN answer /\ p \notin DOMAIN file
      BY <2>4, <2>5, <2>11, <3>3 DEF directed_reward, Told
    <3> QED BY <3>1, <3>2, <3>3
  <2> QED BY <2>1, <2>6, <2>7, <2>8, <2>9, <2>10, <2>11
<1> QED BY <1>6, <1>7

(* Every step keeps what is drawn and what is remembered, and no step      *)
(* takes a verdict from the file.                                          *)
LEMMA SelectStep ==
    ASSUME SelectInv, [Next]_vars
    PROVE  /\ SelectInv'
           /\ \A p \in DOMAIN file : p \in DOMAIN file' /\ file'[p] = file[p]
<1>1. RingDrawn /\ ErrorTiesNeverPersisted /\ Remembered
  BY DEF SelectInv
<1>2. CASE Call
  <2>1. /\ phase = "start" /\ ring = {} /\ n' \in 0..MaxCandidates
        /\ UNCHANGED <<pivots, score, file, verdict, failed, reruns>>
    BY <1>1, <1>2 DEF Call, RingDrawn
  <2>2. \/ n' = 0 /\ phase' = "raised" /\ ring' = {}
        \/ n' = 1 /\ phase' = "done" /\ ring' = {}
        \/ n' \notin {0, 1} /\ phase' = "ring" /\ ring' \in ring_cycle(n')
    BY <1>2, <2>1 DEF Call
  <2>3. RingDrawn'
    BY <2>1, <2>2, SelectAssumption DEF RingDrawn
  <2>4. ErrorTiesNeverPersisted'
    BY <1>1, <2>1 DEF ErrorTiesNeverPersisted
  <2>5. Remembered'
    <3>1. AllComparisonsAggregated'
      BY <2>2 DEF AllComparisonsAggregated
    <3> QED BY <1>1, <2>1, <2>2, <3>1 DEF Remembered
  <2> QED BY <2>1, <2>3, <2>4, <2>5 DEF SelectInv
<1>3. CASE ScoreRing
  <2>1. /\ phase = "ring" /\ score_directed_pairs(ring, "pivots")
        /\ UNCHANGED <<n, k, on_error, ring, pivots, result, reruns>>
    BY <1>3 DEF ScoreRing
  <2>2. /\ \A p \in DOMAIN file : p \in DOMAIN file' /\ file'[p] = file[p]
        /\ \A p \in DOMAIN file' : p \in DOMAIN verdict' /\ file'[p] = verdict'[p]
        /\ phase' # "raised" => DOMAIN file' \cap failed' = {}
        /\ ~UseCache => DOMAIN file' = {}
        /\ phase' \in {"pivots", "raised"}
        /\ UseCache /\ phase' = "pivots" =>
               \A p \in ring : p \in DOMAIN file' \/ (p \in DOMAIN verdict' /\ verdict'[p] = 0)
    BY <1>1, <2>1, ScoringCall
  <2>3. RingDrawn'
    BY <1>1, <2>1, <2>2 DEF RingDrawn
  <2>4. ErrorTiesNeverPersisted'
    BY <2>2 DEF ErrorTiesNeverPersisted
  <2>5. Remembered'
    <3>1. AllComparisonsAggregated'
      BY <2>2 DEF AllComparisonsAggregated
    <3> QED BY <2>1, <2>2, <3>1 DEF Remembered, Told
  <2> QED BY <2>2, <2>3, <2>4, <2>5 DEF SelectInv
<1>4. CASE PickPivots
  <2>1. /\ phase = "pivots" /\ phase' = "rounds"
        /\ UNCHANGED <<n, k, on_error, ring, score, file, verdict, failed, result, reruns>>
    BY <1>4 DEF PickPivots
  <2>2. RingDrawn' /\ ErrorTiesNeverPersisted'
    BY <1>1, <2>1 DEF RingDrawn, ErrorTiesNeverPersisted
  <2>3. Remembered'
    <3>1. AllComparisonsAggregated'
      BY <2>1 DEF AllComparisonsAggregated
    <3> QED BY <1>1, <2>1, <3>1 DEF Remembered, Told
  <2> QED BY <2>1, <2>2, <2>3 DEF SelectInv
<1>5. CASE ScoreRounds
  <2> DEFINE rounds == pivot_round_pairs(pivots)
  <2>1. /\ phase = "rounds" /\ score_directed_pairs(rounds, "total")
        /\ UNCHANGED <<n, k, on_error, ring, pivots, result, reruns>>
    BY <1>5 DEF ScoreRounds
  <2>2. rounds' = rounds
    BY <2>1 DEF pivot_round_pairs, Candidates
  <2> HIDE DEF rounds
  <2>3. /\ \A p \in DOMAIN file : p \in DOMAIN file' /\ file'[p] = file[p]
        /\ \A p \in DOMAIN file' : p \in DOMAIN verdict' /\ file'[p] = verdict'[p]
        /\ phase' # "raised" => DOMAIN file' \cap failed' = {}
        /\ ~UseCache => DOMAIN file' = {}
        /\ phase' \in {"total", "raised"}
        /\ UseCache /\ phase' = "total" =>
               /\ \A p \in rounds : p \in DOMAIN score' /\ score'[p] = verdict'[p]
               /\ \A p \in rounds : p \in DOMAIN file' \/ p \in DOMAIN verdict'
               /\ \A p : Told(p) => directed_reward(score', p) = directed_reward(verdict', p)
    BY <1>1, <2>1, ScoringCall
  <2>4. RingDrawn'
    BY <1>1, <2>1, <2>3 DEF RingDrawn
  <2>5. ErrorTiesNeverPersisted'
    BY <2>3 DEF ErrorTiesNeverPersisted
  <2>6. ASSUME UseCache, phase' = "total"
        PROVE  \A p \in ring \cup rounds :
                   directed_reward(score', p) = directed_reward(verdict', p)
    <3>1. \A p \in ring : Told(p)
      BY <1>1, <2>1, <2>6 DEF Remembered
    <3>2. \A p \in rounds : directed_reward(score', p) = directed_reward(verdict', p)
      BY <2>3, <2>6 DEF directed_reward
    <3> QED BY <2>3, <2>6, <3>1, <3>2
  <2>7. Remembered'
    <3>1. AllComparisonsAggregated'
      BY <2>3 DEF AllComparisonsAggregated
    <3>2. pivot_round_pairs(pivots)' = rounds
      BY <2>2 DEF rounds
    <3> QED BY <2>1, <2>3, <2>6, <3>1, <3>2 DEF Remembered
  <2> QED BY <2>3, <2>4, <2>5, <2>7 DEF SelectInv
<1>6. CASE Aggregate
  <2> DEFINE rounds == pivot_round_pairs(pivots)
  <2>1. /\ phase = "total" /\ phase' = "done"
        /\ result'.scores = TotalMean(score, rounds)
        /\ UNCHANGED <<n, k, on_error, ring, pivots, score, file, verdict, failed, reruns>>
    BY <1>6 DEF Aggregate
  <2>2. RingDrawn' /\ ErrorTiesNeverPersisted'
    BY <1>1, <2>1 DEF RingDrawn, ErrorTiesNeverPersisted
  <2>3. ASSUME UseCache
        PROVE  result'.scores = TotalMean(verdict, rounds)
    <3>1. \A p \in ring \cup rounds : directed_reward(score, p) = directed_reward(verdict, p)
      BY <1>1, <2>1, <2>3 DEF Remembered
    <3> HIDE DEF rounds
    <3>2. \A i \in Candidates :
              /\ accumulate_w(ring, score, i) = accumulate_w(ring, verdict, i)
              /\ accumulate_w(rounds, score, i) = accumulate_w(rounds, verdict, i)
      BY <3>1, SameRewardsSameSums
    <3>3. TotalMean(score, rounds) = TotalMean(verdict, rounds)
      BY <3>2 DEF TotalMean
    <3> QED BY <2>1, <3>3
  <2>4. Remembered'
    <3>1. (result.scores = TotalMean(verdict, pivot_round_pairs(pivots)))'
              <=> result'.scores = TotalMean(verdict, rounds)
      BY <2>1 DEF TotalMean, pivot_round_pairs, Candidates
    <3>2. UseCache => AllComparisonsAggregated'
      BY <2>3, <3>1 DEF AllComparisonsAggregated
    <3> QED BY <1>1, <2>1, <3>2 DEF Remembered
  <2> QED BY <2>1, <2>2, <2>4 DEF SelectInv
<1>7. CASE Rerun
  <2>1. /\ phase \in {"done", "raised"} /\ phase' = "ring" /\ failed' = {}
        /\ UNCHANGED <<n, k, on_error, ring, file, verdict>>
    BY <1>7 DEF Rerun
  <2>2. RingDrawn'
    BY <1>1, <2>1 DEF RingDrawn
  <2>3. ErrorTiesNeverPersisted'
    BY <1>1, <2>1 DEF ErrorTiesNeverPersisted
  <2>4. Remembered'
    <3>1. AllComparisonsAggregated'
      BY <2>1 DEF AllComparisonsAggregated
    <3> QED BY <1>1, <2>1, <3>1 DEF Remembered
  <2> QED BY <2>1, <2>2, <2>3, <2>4 DEF SelectInv
<1>8. CASE UNCHANGED vars
  <2>1. RingDrawn' /\ ErrorTiesNeverPersisted'
    BY <1>1, <1>8 DEF vars, RingDrawn, ErrorTiesNeverPersisted
  <2>2. /\ pivot_round_pairs(pivots)' = pivot_round_pairs(pivots)
        /\ TotalMean(verdict, pivot_round_pairs(pivots))' = TotalMean(verdict, pivot_round_pairs(pivots))
    BY <1>8 DEF vars, pivot_round_pairs, Candidates, TotalMean
  <2>3. AllComparisonsAggregated => AllComparisonsAggregated'
    BY <1>8, <2>2 DEF vars, AllComparisonsAggregated
  <2>4. Remembered'
    BY <1>1, <1>8, <2>2, <2>3 DEF vars, Remembered, Told
  <2> QED BY <1>8, <2>1, <2>4 DEF vars, SelectInv
<1> QED BY <1>2, <1>3, <1>4, <1>5, <1>6, <1>7, <1>8 DEF Next

(* The inductive invariant, which SelectStep says every step keeps.        *)
THEOREM SelectInvariance == Spec => []SelectInv
<1>1. Init => SelectInv
  <2> SUFFICES ASSUME Init PROVE SelectInv
    OBVIOUS
  <2>1. DOMAIN file = {} /\ phase = "start" /\ ring = {}
    BY DEF Init, Empty
  <2> QED BY <2>1 DEF SelectInv, RingDrawn, ErrorTiesNeverPersisted, Remembered,
                      AllComparisonsAggregated
<1>2. SelectInv /\ [Next]_vars => SelectInv'
  BY SelectStep
<1> QED BY <1>1, <1>2, PTL DEF Spec

(* ring_cycle cancels a preference of the verifier for a slot: whatever    *)
(* cycle is drawn, for any number of candidates, each of them stands once  *)
(* in slot A and once in slot B, and never against itself.                 *)
THEOREM RingIsBalanced == Spec => []RingCancelsSlotBias
<1>1. SelectInv => RingCancelsSlotBias
  <2> SUFFICES ASSUME SelectInv, ring # {}
               PROVE  /\ \A i \in Candidates : Cardinality({p \in ring : p[1] = i}) = 1
                      /\ \A i \in Candidates : Cardinality({p \in ring : p[2] = i}) = 1
                      /\ \A p \in ring : p[1] # p[2]
    BY DEF RingCancelsSlotBias
  <2>1. n \in Nat /\ n >= 2 /\ ring \in ring_cycle(n)
    BY DEF SelectInv, RingDrawn
  <2> QED BY <2>1, CycleBalanced DEF Candidates
<1> QED BY <1>1, SelectInvariance, PTL

(* score_directed_pairs never writes an error's tie into the cache, and    *)
(* what is in the file is what the verifier said.                          *)
THEOREM CacheHoldsVerdicts == Spec => []ErrorTiesNeverPersisted
<1>1. SelectInv => ErrorTiesNeverPersisted
  BY DEF SelectInv
<1> QED BY <1>1, SelectInvariance, PTL

(* No call loses or replaces a verdict that reached the file, not even one *)
(* that raises half way.                                                   *)
THEOREM CacheOnlyGrows == Spec => VerdictsOnFileStay
<1>1. SelectInv /\ [Next]_vars =>
          [\A p \in DOMAIN file : p \in DOMAIN file' /\ file'[p] = file[p]]_vars
  BY SelectStep
<1> QED BY <1>1, SelectInvariance, PTL DEF Spec, VerdictsOnFileStay

(* With a cache path, select() publishes scores that aggregate every       *)
(* comparison made, the ring's too, although phase B rebinds the closure   *)
(* they are read through.  The hypothesis is needed: without a path (the   *)
(* way select_best calls it) the ring's comparisons count as ties.         *)
THEOREM ScoresAggregateAll ==
    ASSUME UseCache
    PROVE  Spec => []AllComparisonsAggregated
<1>1. SelectInv => AllComparisonsAggregated
  BY DEF SelectInv, Remembered
<1> QED BY <1>1, SelectInvariance, PTL
-----------------------------------------------------------------------------
(* Types and outcome.                                                      *)

(* The only candidate that won all its comparisons is the winner.          *)
LEMMA UndefeatedIsFirst ==
    ASSUME n \in Nat, n >= 2, ring \in ring_cycle(n), NEW s, Rewards(s),
           IsFiniteSet(pivot_round_pairs(pivots)),
           \A p \in ring \cup pivot_round_pairs(pivots) :
               p \in DOMAIN verdict /\ p[1] # p[2] /\ directed_reward(s, p) = verdict[p],
           NEW i \in Candidates, WonAll(i), \A j \in Candidates \ {i} : ~WonAll(j)
    PROVE  ArgMax(TotalMean(s, pivot_round_pairs(pivots))) = i
<1> DEFINE rounds == pivot_round_pairs(pivots)
           mean == TotalMean(s, rounds)
           x == ArgMax(mean)
<1>1. Means(mean, n)
  BY MeansTyped
<1>2. x \in Candidates /\ (x # i => Better(mean, x, i))
  <2> HIDE DEF mean
  <2>1. /\ ArgMax(mean) \in 0..(n - 1)
        /\ \A j \in 0..(n - 1) : j # ArgMax(mean) => Better(mean, ArgMax(mean), j)
    <3>1. n > 0
      OBVIOUS
    <3> QED BY <1>1, <3>1, WinnerIsFirst
  <2> QED BY <2>1 DEF Candidates
<1>3. ASSUME NEW j \in Candidates, j # i
      PROVE  Better(mean, i, j)
  <2>1. \A q \in Candidates :
            /\ mean[q][1] \in Int /\ mean[q][2] \in Nat \ {0}
            /\ mean[q][1] <= Full * mean[q][2]
            /\ mean[q][1] = Full * mean[q][2] <=> WonAll(q)
    BY TotalOf DEF WonAll
  <2> HIDE DEF mean
  <2>2. mean[i][1] = Full * mean[i][2]
    BY <2>1
  <2>3. mean[j][1] < Full * mean[j][2]
    <3>1. mean[j][1] # Full * mean[j][2]
      BY <1>3, <2>1
    <3>2. Full * mean[j][2] \in Int
      BY <2>1 DEF Full
    <3> QED BY <2>1, <3>1, <3>2
  <2>4. mean[i][1] * mean[j][2] > mean[j][1] * mean[i][2]
    BY <2>1, <2>2, <2>3, AllWonIsBetter
  <2> QED BY <2>4 DEF Better
<1> HIDE DEF mean
<1>4. ~(Better(mean, i, x) /\ Better(mean, x, i))
  BY <1>1, <1>2, BetterIsTotal DEF Candidates
<1> HIDE DEF x
<1>5. x = i
  BY <1>2, <1>3, <1>4
<1> QED BY <1>5 DEF x, mean, rounds

(* What a scoring call leaves are dicts of verdicts and ties.              *)
LEMMA ScoringTypes ==
    ASSUME NEW pairs \in SUBSET Pairs, NEW next, score_directed_pairs(pairs, next),
           Dicts(score), Dicts(file), Dicts(verdict), failed \subseteq DOMAIN verdict
    PROVE  /\ Dicts(score') /\ Dicts(file') /\ Dicts(verdict')
           /\ failed' \subseteq DOMAIN verdict'
<1>1. PICK answer \in [pairs \ DOMAIN file -> Verdicts \cup {Error}] :
          IF on_error = "raise" /\ Failures(answer) # {}
          THEN /\ \E saved \in SUBSET (DOMAIN answer \ Failures(answer)) :
                      file' = Persisted(file, Without(answer, DOMAIN answer \ saved))
               /\ phase' = "raised"
               /\ verdict' = Merge(verdict, file')
               /\ UNCHANGED <<score, failed>>
          ELSE /\ score' = Returned(file, answer)
               /\ file' = Persisted(file, answer)
               /\ verdict' = Merge(verdict, Returned(Empty, answer))
               /\ failed' = (failed \ DOMAIN answer) \cup Failures(answer)
               /\ phase' = next
  BY DEF score_directed_pairs
<1>2. /\ DOMAIN answer \subseteq Pairs
      /\ \A p \in DOMAIN answer : answer[p] # Error => answer[p] \in Verdicts
  OBVIOUS
<1>3. Dicts(Empty) /\ DOMAIN Empty = {}
  BY DEF Dicts, Empty
<1>4. ASSUME NEW f, NEW g, Dicts(f), Dicts(g)
      PROVE  Dicts(Merge(f, g)) /\ DOMAIN Merge(f, g) = DOMAIN f \cup DOMAIN g
  BY <1>4 DEF Dicts, Merge
<1>5. ASSUME NEW f, DOMAIN f \subseteq Pairs, \A p \in DOMAIN f : f[p] # Error => f[p] \in Verdicts
      PROVE  Dicts(Without(f, Failures(f)))
  BY <1>5 DEF Dicts, Without, Failures
<1>6. CASE on_error = "raise" /\ Failures(answer) # {}
  <2>1. PICK saved \in SUBSET (DOMAIN answer \ Failures(answer)) :
            file' = Persisted(file, Without(answer, DOMAIN answer \ saved))
    BY <1>1, <1>6
  <2> DEFINE done == Without(answer, DOMAIN answer \ saved)
  <2>2. DOMAIN done \subseteq Pairs /\ \A p \in DOMAIN done : done[p] # Error => done[p] \in Verdicts
    BY <1>2 DEF Without
  <2> HIDE DEF done
  <2>3. Dicts(file')
    <3>1. Dicts(Without(done, Failures(done)))
      BY <1>5, <2>2
    <3> QED BY <1>3, <1>4, <2>1, <3>1 DEF Persisted, done
  <2>4. verdict' = Merge(verdict, file') /\ score' = score /\ failed' = failed
    BY <1>1, <1>6
  <2> QED BY <1>4, <2>3, <2>4
<1>7. CASE ~(on_error = "raise" /\ Failures(answer) # {})
  <2> DEFINE tied == [p \in DOMAIN answer |-> IF answer[p] = Error THEN 0 ELSE answer[p]]
  <2>1. Dicts(tied) /\ DOMAIN tied = DOMAIN answer
    BY <1>2 DEF Dicts
  <2>2. \A f : Returned(f, answer) = Merge(f, tied)
    BY DEF Returned
  <2> HIDE DEF tied
  <2>0. /\ score' = Merge(file, tied) /\ file' = Persisted(file, answer)
        /\ verdict' = Merge(verdict, Merge(Empty, tied))
        /\ failed' = (failed \ DOMAIN answer) \cup Failures(answer)
    BY <1>1, <1>7, <2>2
  <2>3. Dicts(score')
    BY <1>4, <2>0, <2>1
  <2>4. Dicts(verdict') /\ DOMAIN verdict' = DOMAIN verdict \cup DOMAIN answer
    <3>1. Dicts(Merge(Empty, tied)) /\ DOMAIN Merge(Empty, tied) = DOMAIN answer
      <4>1. /\ Dicts(Merge(Empty, tied))
            /\ DOMAIN Merge(Empty, tied) = DOMAIN Empty \cup DOMAIN tied
        BY <1>3, <1>4, <2>1, Zenon
      <4>2. DOMAIN Empty \cup DOMAIN tied = DOMAIN answer
        BY <1>3, <2>1
      <4> QED BY <4>1, <4>2
    <3>2. /\ Dicts(Merge(verdict, Merge(Empty, tied)))
          /\ DOMAIN Merge(verdict, Merge(Empty, tied)) = DOMAIN verdict \cup DOMAIN Merge(Empty, tied)
      BY <1>4, <3>1
    <3> QED BY <2>0, <3>1, <3>2
  <2>5. Dicts(file')
    <3>1. Dicts(Without(answer, Failures(answer)))
      BY <1>2, <1>5
    <3>2. Dicts(Merge(file, Without(answer, Failures(answer))))
      BY <1>4, <3>1
    <3> QED BY <1>3, <2>0, <3>2 DEF Persisted
  <2>6. failed' \subseteq DOMAIN verdict'
    BY <2>0, <2>4 DEF Failures
  <2> QED BY <2>3, <2>4, <2>5, <2>6
<1> QED BY <1>6, <1>7

(* Where select() stands, what it has: a ring once it was called with two  *)
(* candidates or more, and then the pivots.                                *)
Prepared ==
    /\ phase = "start" => n = 0 /\ result = NoResult /\ pivots = <<>>
    /\ phase \in {"ring", "pivots", "rounds", "total"} => n >= 2
    /\ phase # "start" /\ n >= 2 => ring \in ring_cycle(n)
    /\ phase \in {"rounds", "total", "done"} /\ n >= 2 =>
           Cardinality(ToSet(pivots)) = Min({k, n})
    /\ UseCache /\ phase = "total" => ring \cup pivot_round_pairs(pivots) \subseteq DOMAIN verdict

(* The inductive invariant of the types and the outcome.                   *)
OutcomeInv ==
    /\ TypeOK /\ Prepared
    /\ ComparisonCount /\ WinnerHeadsRanking /\ (UseCache => UndefeatedWins)

(* A typed dict holds reward differences.                                  *)
LEMMA RewardsTyped == ASSUME NEW s, Dicts(s) PROVE Rewards(s)
<1>1. \A v \in Verdicts \cup {0} : v \in -2..2
  <2>1. 0 \in -2..2 /\ Verdicts \subseteq -2..2
    BY SelectAssumption
  <2> QED BY <2>1
<1> QED BY <1>1 DEF Dicts, Rewards

(* A ring drawn for n candidates consists of pairs of the type.            *)
LEMMA RingTyped ==
    ASSUME NEW m \in 0..MaxCandidates, m >= 2, NEW cycle \in ring_cycle(m)
    PROVE  cycle \subseteq Pairs
<1>1. m \in Nat /\ 0..(m - 1) \subseteq 0..(MaxCandidates - 1)
  BY SelectAssumption
<1>2. cycle \subseteq (0..(m - 1)) \X (0..(m - 1))
  BY <1>1, RingCount
<1> QED BY <1>1, <1>2 DEF Pairs

(* select() is called.                                                     *)
LEMMA OutcomeCall ==
    ASSUME OutcomeInv, Call PROVE OutcomeInv'
<1>1. /\ phase = "start" /\ n' \in 0..MaxCandidates /\ k' \in 1..MaxPivots
      /\ on_error' \in {"tie", "raise"}
      /\ UNCHANGED <<pivots, score, file, verdict, failed, reruns>>
  BY DEF Call
<1>2. TypeOK /\ result = NoResult /\ pivots = <<>> /\ n' \in Nat
  BY <1>1, SelectAssumption DEF OutcomeInv, Prepared
<1>3. ToSet(pivots') \subseteq Candidates'
  BY <1>1, <1>2 DEF ToSet
<1>4. CASE n' = 0
  <2>1. phase' = "raised" /\ UNCHANGED <<ring, result>>
    BY <1>4 DEF Call
  <2>2. TypeOK'
    BY <1>1, <1>2, <1>3, <2>1 DEF TypeOK, Dicts
  <2>3. Prepared'
    BY <1>4, <2>1 DEF Prepared
  <2>4. ComparisonCount' /\ WinnerHeadsRanking' /\ UndefeatedWins'
    BY <2>1 DEF ComparisonCount, WinnerHeadsRanking, UndefeatedWins
  <2> QED BY <2>2, <2>3, <2>4 DEF OutcomeInv
<1>5. CASE n' = 1
  <2>1. /\ phase' = "done" /\ UNCHANGED ring
        /\ result' = [index |-> 0, scores |-> [i \in {0} |-> <<Scale, 1>>],
                      ranking |-> <<0>>, n_comparisons |-> 0]
    BY <1>5 DEF Call
  <2>2. Candidates' = {0}
    BY <1>5 DEF Candidates
  <2>3. /\ result'.index = 0 /\ result'.ranking = <<0>> /\ result'.n_comparisons = 0
    BY <2>1
  <2>4. TypeOK'
    BY <1>1, <1>2, <1>3, <2>1, <2>2, <2>3 DEF TypeOK, Dicts
  <2>5. Prepared'
    BY <1>5, <2>1 DEF Prepared
  <2>6. ComparisonCount' /\ UndefeatedWins'
    BY <1>5, <2>3 DEF ComparisonCount, UndefeatedWins
  <2>7. WinnerHeadsRanking'
    <3>1. ToSet(<<0>>) = {0} /\ Len(<<0>>) = 1
      BY DEF ToSet
    <3> QED BY <1>5, <2>2, <2>3, <3>1 DEF WinnerHeadsRanking
  <2> QED BY <2>4, <2>5, <2>6, <2>7 DEF OutcomeInv
<1>6. CASE n' \notin {0, 1}
  <2>1. phase' = "ring" /\ ring' \in ring_cycle(n') /\ UNCHANGED result
    BY <1>6 DEF Call
  <2>2. n' >= 2
    BY <1>2, <1>6
  <2>3. ring' \subseteq Pairs
    BY <1>1, <2>1, <2>2, RingTyped
  <2>4. TypeOK'
    BY <1>1, <1>2, <1>3, <2>1, <2>3 DEF TypeOK, Dicts, Pairs
  <2>5. Prepared'
    BY <2>1, <2>2 DEF Prepared
  <2>6. ComparisonCount' /\ WinnerHeadsRanking' /\ UndefeatedWins'
    BY <2>1 DEF ComparisonCount, WinnerHeadsRanking, UndefeatedWins
  <2> QED BY <2>4, <2>5, <2>6 DEF OutcomeInv
<1> QED BY <1>4, <1>5, <1>6

(* A scoring call of phase A or B.                                         *)
LEMMA OutcomeScore ==
    ASSUME OutcomeInv, SelectInv, ScoreRing \/ ScoreRounds PROVE OutcomeInv'
<1> DEFINE rounds == pivot_round_pairs(pivots)
<1>1. /\ UNCHANGED <<n, k, on_error, ring, pivots, result, reruns>>
      /\ \/ phase = "ring" /\ score_directed_pairs(ring, "pivots")
         \/ phase = "rounds" /\ score_directed_pairs(rounds, "total")
  BY DEF ScoreRing, ScoreRounds
<1>2. TypeOK /\ Prepared /\ n \in 0..MaxCandidates /\ n \in Nat /\ n >= 2
  BY <1>1, SelectAssumption DEF OutcomeInv, Prepared, TypeOK
<1>3. ring \subseteq Pairs /\ rounds \subseteq Pairs
  <2>1. rounds \subseteq Candidates \X Candidates
    BY <1>2, RoundsCount DEF TypeOK
  <2>2. Candidates \subseteq 0..(MaxCandidates - 1)
    BY <1>2, SelectAssumption DEF Candidates
  <2> QED BY <1>2, <2>1, <2>2 DEF TypeOK, Pairs
<1>4. /\ Dicts(score') /\ Dicts(file') /\ Dicts(verdict')
      /\ failed' \subseteq DOMAIN verdict'
  <2>1. Dicts(score) /\ Dicts(file) /\ Dicts(verdict) /\ failed \subseteq DOMAIN verdict
    BY <1>2 DEF TypeOK
  <2> HIDE DEF rounds
  <2> QED BY <1>1, <1>3, <2>1, ScoringTypes
<1>5. /\ phase = "ring" => phase' \in {"pivots", "raised"}
      /\ phase = "rounds" => phase' \in {"total", "raised"}
      /\ UseCache /\ phase' = "total" => ring \cup rounds \subseteq DOMAIN verdict'
  <2>1. ErrorTiesNeverPersisted /\ Remembered
    BY DEF SelectInv
  <2>2. CASE phase = "ring"
    <3>1. phase' \in {"pivots", "raised"}
      BY <1>1, <2>1, <2>2, ScoringCall
    <3> QED BY <2>2, <3>1
  <2>3. CASE phase = "rounds"
    <3>1. score_directed_pairs(rounds, "total")
      BY <1>1, <2>3
    <3> HIDE DEF rounds
    <3>2. /\ phase' \in {"total", "raised"}
          /\ \A p \in DOMAIN file : p \in DOMAIN file'
          /\ \A p \in DOMAIN file' : p \in DOMAIN verdict'
          /\ UseCache /\ phase' = "total" =>
                \A p \in rounds : p \in DOMAIN file' \/ p \in DOMAIN verdict'
      BY <2>1, <2>3, <3>1, ScoringCall
    <3>3. UseCache => \A p \in ring : p \in DOMAIN file \/ p \in DOMAIN verdict
      BY <2>1, <2>3 DEF Remembered, Told
    <3>4. DOMAIN verdict \subseteq DOMAIN verdict'
      BY <3>1 DEF score_directed_pairs, Merge
    <3> QED BY <2>3, <3>2, <3>3, <3>4
  <2> QED BY <1>1, <2>2, <2>3
<1>6. phase' # "done" /\ phase' # "start"
  BY <1>1, <1>5
<1>7. TypeOK'
  <2>1. phase' \in {"pivots", "total", "raised"}
    BY <1>1, <1>5
  <2>2. Candidates' = Candidates
    BY <1>1 DEF Candidates
  <2> QED BY <1>1, <1>2, <1>4, <2>1, <2>2 DEF TypeOK, Pairs
<1>8. Prepared'
  <2>1. rounds' = rounds
    BY <1>1 DEF pivot_round_pairs, Candidates
  <2>2. ring' \in ring_cycle(n')
    BY <1>1, <1>2 DEF Prepared
  <2>3. phase' = "total" => Cardinality(ToSet(pivots')) = Min({k', n'})
    BY <1>1, <1>2, <1>5 DEF Prepared
  <2>4. phase' # "rounds"
    BY <1>1, <1>5
  <2> QED BY <1>1, <1>2, <1>5, <1>6, <2>1, <2>2, <2>3, <2>4 DEF Prepared
<1>9. ComparisonCount' /\ WinnerHeadsRanking' /\ UndefeatedWins'
  BY <1>6 DEF ComparisonCount, WinnerHeadsRanking, UndefeatedWins
<1> QED BY <1>7, <1>8, <1>9 DEF OutcomeInv

(* The leaders of the ring become the pivots.                              *)
LEMMA OutcomePick ==
    ASSUME OutcomeInv, PickPivots PROVE OutcomeInv'
<1>1. /\ phase = "pivots" /\ phase' = "rounds"
      /\ pivots' = select_pivots(RingMean(score), k)
      /\ UNCHANGED <<n, k, on_error, ring, score, file, verdict, failed, result, reruns>>
  BY DEF PickPivots
<1>2. TypeOK /\ n \in Nat /\ n >= 2 /\ ring \in ring_cycle(n) /\ k \in Nat
  BY <1>1, SelectAssumption DEF OutcomeInv, Prepared, TypeOK
<1>3. Means(RingMean(score), n)
  <2>1. Rewards(score)
    BY <1>2, RewardsTyped DEF TypeOK
  <2> QED BY <1>2, <2>1, FS_EmptySet, MeansTyped
<1>4. ToSet(pivots') \subseteq Candidates /\ Cardinality(ToSet(pivots')) = Min({k, n})
  BY <1>1, <1>2, <1>3, PivotsPicked DEF Candidates
<1>5. Candidates' = Candidates
  BY <1>1 DEF Candidates
<1>6. TypeOK'
  BY <1>1, <1>2, <1>4, <1>5 DEF TypeOK, Dicts, Pairs
<1>7. Prepared'
  BY <1>1, <1>2, <1>4 DEF Prepared
<1>8. ComparisonCount' /\ WinnerHeadsRanking' /\ UndefeatedWins'
  BY <1>1 DEF ComparisonCount, WinnerHeadsRanking, UndefeatedWins
<1> QED BY <1>6, <1>7, <1>8 DEF OutcomeInv

(* Everything is added up: the one step that makes a result.               *)
LEMMA OutcomeAggregate ==
    ASSUME OutcomeInv, SelectInv, Aggregate PROVE OutcomeInv'
<1> DEFINE rounds == pivot_round_pairs(pivots)
           mean == TotalMean(score, rounds)
           c == Cardinality(ToSet(pivots))
<1>1. /\ phase = "total" /\ phase' = "done"
      /\ result' = [index |-> ArgMax(mean), scores |-> mean, ranking |-> Sorted(mean),
                    n_comparisons |-> Cardinality(ring) + Cardinality(rounds)]
      /\ UNCHANGED <<n, k, on_error, ring, pivots, score, file, verdict, failed, reruns>>
  BY DEF Aggregate
<1>2. /\ TypeOK /\ n \in Nat /\ n >= 2 /\ ring \in ring_cycle(n) /\ k \in Nat
      /\ c = Min({k, n})
  BY <1>1, SelectAssumption DEF OutcomeInv, Prepared, TypeOK
<1>3. /\ IsFiniteSet(rounds) /\ Cardinality(rounds) = c * (n - c) + (c * (c - 1)) \div 2
      /\ \A p \in rounds : p[1] # p[2]
  BY <1>2, RoundsCount DEF TypeOK
<1>4. Cardinality(ring) = n /\ \A p \in ring : p[1] # p[2]
  BY <1>2, RingCount, CycleBalanced
<1>5. Rewards(score)
  BY <1>2, RewardsTyped DEF TypeOK
<1>6. Means(mean, n)
  BY <1>2, <1>3, <1>5, MeansTyped
<1>7. /\ result'.index = ArgMax(mean) /\ result'.ranking = Sorted(mean)
      /\ result'.n_comparisons = Cardinality(ring) + Cardinality(rounds)
  <2> HIDE DEF mean, rounds
  <2> QED BY <1>1
<1>8. /\ Candidates' = Candidates /\ rounds' = rounds
  BY <1>1 DEF Candidates, pivot_round_pairs
<1>9. /\ ArgMax(mean) \in Candidates /\ ArgMax(mean) = Sorted(mean)[1]
      /\ ToSet(Sorted(mean)) = Candidates /\ Len(Sorted(mean)) = n
  <2> HIDE DEF mean
  <2>1. ArgMax(mean) \in Candidates /\ ArgMax(mean) = Sorted(mean)[1]
    <3>1. n > 0
      BY <1>2
    <3> QED BY <1>2, <1>6, <3>1, WinnerIsFirst DEF Candidates
  <2>2. Sorted(mean) \in [1..n -> Candidates] /\ \A i \in Candidates : \E a \in 1..n : Sorted(mean)[a] = i
    BY <1>2, <1>6, Ranked DEF Candidates
  <2>3. ToSet(Sorted(mean)) = Candidates
    BY <2>2 DEF ToSet
  <2>4. Len(Sorted(mean)) = n
    BY <1>2, <2>2
  <2> QED BY <2>1, <2>3, <2>4
<1>10. TypeOK'
  <2> HIDE DEF mean, rounds
  <2> QED BY <1>1, <1>2, <1>7, <1>8, <1>9 DEF TypeOK, Dicts, Pairs
<1>11. Prepared'
  BY <1>1, <1>2 DEF Prepared
<1>12. ComparisonCount'
  <2>1. n' # 1 /\ Min({k, n})' = c
    BY <1>1, <1>2
  <2>2. result'.n_comparisons = n + (c * (n - c) + (c * (c - 1)) \div 2)
    <3> HIDE DEF c, rounds, mean
    <3> QED BY <1>3, <1>4, <1>7
  <2>3. c \in Nat
    BY <1>2, MinOfTwo
  <2> HIDE DEF c
  <2>4. c * (n - c) \in Int /\ (c * (c - 1)) \div 2 \in Int
    BY <1>2, <2>3
  <2>5. result'.n_comparisons = n + c * (n - c) + (c * (c - 1)) \div 2
    BY <1>2, <2>2, <2>4
  <2> QED BY <1>1, <2>1, <2>5 DEF ComparisonCount
<1>13. WinnerHeadsRanking'
  <2> HIDE DEF mean
  <2> QED BY <1>1, <1>7, <1>8, <1>9 DEF WinnerHeadsRanking
<1>14. ASSUME UseCache PROVE UndefeatedWins'
  <2>1. /\ \A p \in ring \cup rounds : directed_reward(score, p) = directed_reward(verdict, p)
        /\ \A p \in ring \cup rounds : p \in DOMAIN verdict
    BY <1>1, <1>14 DEF SelectInv, Remembered, OutcomeInv, Prepared
  <2>2. \A p \in ring \cup rounds :
            p \in DOMAIN verdict /\ p[1] # p[2] /\ directed_reward(score, p) = verdict[p]
    <3> HIDE DEF rounds
    <3> QED BY <1>3, <1>4, <2>1 DEF directed_reward
  <2>3. \A i \in Candidates : WonAll(i)' <=> WonAll(i)
    <3>1. ring' = ring /\ verdict' = verdict
      BY <1>1
    <3> QED BY <1>8, <3>1 DEF WonAll
  <2>4. ASSUME NEW i \in Candidates, WonAll(i), \A j \in Candidates \ {i} : ~WonAll(j)
        PROVE  ArgMax(mean) = i
    BY <1>2, <1>3, <1>5, <2>2, <2>4, UndefeatedIsFirst
  <2> HIDE DEF mean
  <2> QED BY <1>7, <1>8, <2>3, <2>4 DEF UndefeatedWins
<1> QED BY <1>10, <1>11, <1>12, <1>13, <1>14 DEF OutcomeInv

(* A second call starts over with the ring it had.                         *)
LEMMA OutcomeRerun ==
    ASSUME OutcomeInv, Rerun PROVE OutcomeInv'
<1>1. /\ phase \in {"done", "raised"} /\ n \in 2..MaxRerun /\ reruns = 0
      /\ phase' = "ring" /\ reruns' = reruns + 1
      /\ pivots' = <<>> /\ score' = Empty /\ failed' = {} /\ result' = NoResult
      /\ UNCHANGED <<n, k, on_error, ring, file, verdict>>
  BY DEF Rerun
<1>2. TypeOK /\ Prepared
  BY DEF OutcomeInv
<1>3. ToSet(pivots') = {} /\ Dicts(score')
  BY <1>1 DEF ToSet, Dicts, Empty
<1>4. TypeOK'
  BY <1>1, <1>2, <1>3 DEF TypeOK, Dicts, Pairs
<1>5. Prepared'
  <2>1. n >= 2
    BY <1>1, SelectAssumption
  <2> QED BY <1>1, <1>2, <2>1 DEF Prepared
<1>6. ComparisonCount' /\ WinnerHeadsRanking' /\ UndefeatedWins'
  BY <1>1 DEF ComparisonCount, WinnerHeadsRanking, UndefeatedWins
<1> QED BY <1>4, <1>5, <1>6 DEF OutcomeInv

(* It holds in every reachable state.                                      *)
LEMMA OutcomeInvariance == Spec => []OutcomeInv
<1>1. Init => OutcomeInv
  <2> SUFFICES ASSUME Init PROVE OutcomeInv
    OBVIOUS
  <2>1. DOMAIN Empty = {} /\ Dicts(Empty) /\ ToSet(<<>>) = {}
    BY DEF Empty, Dicts, ToSet
  <2>2. TypeOK
    BY <2>1, SelectAssumption DEF Init, TypeOK
  <2>3. Prepared /\ ComparisonCount /\ WinnerHeadsRanking /\ UndefeatedWins
    BY DEF Init, Prepared, ComparisonCount, WinnerHeadsRanking, UndefeatedWins
  <2> QED BY <2>2, <2>3 DEF OutcomeInv
<1>2. SelectInv /\ OutcomeInv /\ [Next]_vars => OutcomeInv'
  <2> SUFFICES ASSUME SelectInv, OutcomeInv, [Next]_vars PROVE OutcomeInv'
    OBVIOUS
  <2>1. CASE UNCHANGED vars
    <3>1. /\ Candidates' = Candidates
          /\ pivot_round_pairs(pivots)' = pivot_round_pairs(pivots)
      BY <2>1 DEF vars, Candidates, pivot_round_pairs
    <3>2. TypeOK' /\ Prepared'
      BY <2>1, <3>1 DEF vars, OutcomeInv, TypeOK, Prepared, Dicts, Pairs
    <3>3. ComparisonCount' /\ WinnerHeadsRanking'
      BY <2>1, <3>1 DEF vars, OutcomeInv, ComparisonCount, WinnerHeadsRanking
    <3>4. UseCache => UndefeatedWins'
      <4>1. \A i : WonAll(i)' <=> WonAll(i)
        BY <2>1, <3>1 DEF vars, WonAll
      <4> QED BY <2>1, <3>1, <4>1 DEF vars, OutcomeInv, UndefeatedWins
    <3> QED BY <3>2, <3>3, <3>4 DEF OutcomeInv
  <2> QED BY <2>1, OutcomeCall, OutcomeScore, OutcomePick, OutcomeAggregate, OutcomeRerun
          DEF Next
<1> QED BY <1>1, <1>2, SelectInvariance, PTL DEF Spec

(* Type correctness: in particular pivots, winner and failures name        *)
(* candidates and pairs of this call, and the dicts hold verdicts or ties. *)
THEOREM Typing == Spec => []TypeOK
<1>1. OutcomeInv => TypeOK
  BY DEF OutcomeInv
<1> QED BY <1>1, OutcomeInvariance, PTL

(* The schedule: the ring cancels a preference for a slot, and select()    *)
(* reports N + k(N - k) + C(k, 2) comparisons for every number of          *)
(* candidates and pivots.                                                  *)
THEOREM ScheduleIsBalanced == Spec => []BalancedSchedule
<1>1. OutcomeInv /\ RingCancelsSlotBias => BalancedSchedule
  BY DEF OutcomeInv, BalancedSchedule
<1> QED BY <1>1, OutcomeInvariance, RingIsBalanced, PTL

(* max() and sorted() agree, ties included: the winner select() returns is *)
(* the head of the ranking of all candidates.                              *)
THEOREM WinnerIsShownFirst == Spec => []WinnerHeadsRanking
<1>1. OutcomeInv => WinnerHeadsRanking
  BY DEF OutcomeInv
<1> QED BY <1>1, OutcomeInvariance, PTL

(* With a cache path the winner is the right one, too: the only candidate  *)
(* that won all its comparisons by the full margin wins, whoever the       *)
(* pivots are.  Without a path the ring's comparisons count as ties (see   *)
(* ScoresAggregateAll) and this need not hold.                             *)
THEOREM BestCandidateWins ==
    ASSUME UseCache
    PROVE  Spec => []WinnerIsBest
<1>1. OutcomeInv => WinnerIsBest
  BY DEF OutcomeInv, WinnerIsBest
<1> QED BY <1>1, OutcomeInvariance, PTL
=============================================================================
