------------------------ MODULE RunnerTunnel_proofs ------------------------
(***************************************************************************)
(* Proofs about RunnerTunnel, for any connections, requests, waiters and   *)
(* bounds: what TunnelInv says of the registry, that a response taken for  *)
(* whole is whole, and that the newest tunnel wins.                        *)
(***************************************************************************)
EXTENDS RunnerTunnel, FiniteSetTheorems, SequenceTheorems, TLAPS

(* How many elements of a sequence are in K.                               *)
Places(s, K) == {i \in 1..Len(s) : s[i] \in K}
Count(s, K) == Cardinality(Places(s, K))

(* Body chunks in a queue, and body frames of a request on the wire.       *)
Chunks(r) == Count(queue[r], {"chunk"})
Bodies(r) == Count(up[sess[r]], {[req |-> r, kind |-> "body"]})

(* A request that was not opened yet has left no trace.                    *)
Fresh ==
    \A r \in Reqs :
        /\ pc[r] \in {"free", "reading"} =>
               /\ sess[r] = NoConn /\ got[r] = 0 /\ sent[r] = 0
               /\ queue[r] = <<>> /\ ~aborted[r]
        /\ pc[r] \in {"free", "reading", "opened"} => job[r] = "none"
        /\ pc[r] \in Active => sess[r] \in Conns

(* A request travels once, on the session it was opened on.                *)
RequestedOnce ==
    \A c \in Conns : \A i \in 1..Len(down[c]) :
        down[c][i].kind = "request" =>
            LET r == down[c][i].req IN
            /\ job[r] = "none" /\ sess[r] = c
            /\ pc[r] \notin {"free", "reading", "opened"}
            /\ \A j \in 1..Len(down[c]) :
                   down[c][j].req = r /\ down[c][j].kind = "request" => j = i

(* Its response comes back on the same session, the end last.              *)
AnswersInOrder ==
    \A c \in Conns : \A i \in 1..Len(up[c]) :
        /\ sess[up[c][i].req] = c
        /\ up[c][i].kind = "end" =>
               /\ job[up[c][i].req] = "ended"
               /\ \A j \in 1..Len(up[c]) : up[c][j].req = up[c][i].req => j <= i

(* Of a response that was not cut, the end is queued last and after all of *)
(* its frames, and no chunk is lost on the way to the consumer.            *)
EndsLast(r) ==
    \A i \in 1..Len(queue[r]) :
        queue[r][i] = "end" =>
            /\ i = Len(queue[r]) /\ job[r] = "ended"
            /\ \A j \in 1..Len(up[sess[r]]) : up[sess[r]][j].req # r

NothingLost(r) == got[r] + Chunks(r) + Bodies(r) = sent[r]

Intact ==
    \A r \in Reqs :
        pc[r] \in Active /\ ~aborted[r] => EndsLast(r) /\ NothingLost(r)

(* The parts, which are inductive together.                                *)
Wire == Fresh /\ RequestedOnce /\ AnswersInOrder
TInv == TunnelInv /\ IsFiniteSet(waiters) /\ Wire /\ Intact /\ NeverTruncated

-----------------------------------------------------------------------------
(* Counting in a sequence, as frames and chunks are appended and taken.    *)

(* The places of a sequence are finitely many.                             *)
LEMMA PlacesFinite ==
    ASSUME NEW S, NEW s \in Seq(S), NEW K
    PROVE  IsFiniteSet(Places(s, K)) /\ Count(s, K) \in Nat
<1>1. Len(s) \in Nat
  OBVIOUS
<1>2. IsFiniteSet(1..Len(s))
  BY <1>1, FS_Interval
<1>3. Places(s, K) \subseteq 1..Len(s)
  BY DEF Places
<1>4. IsFiniteSet(Places(s, K))
  BY <1>2, <1>3, FS_Subset
<1> QED BY <1>4, FS_CardinalityType DEF Count

(* An empty sequence has none, and only the element that is there counts.  *)
LEMMA CountZero ==
    ASSUME NEW S, NEW s \in Seq(S), NEW K, \A i \in 1..Len(s) : s[i] \notin K
    PROVE  Count(s, K) = 0
<1>1. Places(s, K) = {}
  BY DEF Places
<1> QED BY <1>1, FS_EmptySet DEF Count

(* A new last element counts by itself.                                    *)
LEMMA CountAppend ==
    ASSUME NEW S, NEW s \in Seq(S), NEW x \in S, NEW K
    PROVE  Count(Append(s, x), K) = Count(s, K) + (IF x \in K THEN 1 ELSE 0)
<1> DEFINE t == Append(s, x)
<1>1. /\ Len(t) = Len(s) + 1 /\ Len(s) \in Nat /\ t[Len(s) + 1] = x
      /\ \A i \in 1..Len(s) : t[i] = s[i]
  OBVIOUS
<1>2. IsFiniteSet(Places(s, K)) /\ Count(s, K) \in Nat
  BY PlacesFinite
<1>3. CASE x \in K
  <2>1. Places(t, K) = Places(s, K) \cup {Len(s) + 1}
    BY <1>1, <1>3 DEF Places
  <2>2. Len(s) + 1 \notin Places(s, K)
    BY <1>1 DEF Places
  <2> QED BY <1>2, <1>3, <2>1, <2>2, FS_AddElement DEF Count
<1>4. CASE x \notin K
  <2>1. Places(t, K) = Places(s, K)
    BY <1>1, <1>4 DEF Places
  <2> QED BY <1>2, <1>4, <2>1 DEF Count
<1> QED BY <1>3, <1>4

(* Taking the first element takes what it counted for.                     *)
LEMMA CountTail ==
    ASSUME NEW S, NEW s \in Seq(S), s # <<>>, NEW K
    PROVE  Count(s, K) = Count(Tail(s), K) + (IF Head(s) \in K THEN 1 ELSE 0)
<1> DEFINE t == Tail(s)
           P == Places(t, K)
           Q == Places(s, K) \ {1}
           f == [i \in P |-> i + 1]
<1>1. /\ Len(s) \in Nat /\ Len(s) >= 1 /\ Len(t) = Len(s) - 1 /\ s[1] = Head(s)
      /\ t \in Seq(S) /\ \A i \in 1..Len(t) : t[i] = s[i + 1]
  OBVIOUS
<1>2. IsFiniteSet(P) /\ Count(t, K) \in Nat /\ IsFiniteSet(Places(s, K))
  BY <1>1, PlacesFinite
<1>3. f \in Bijection(P, Q)
  <2>1. \A i \in P : i \in Nat /\ i + 1 \in Q
    BY <1>1 DEF Places
  <2>2. \A j \in Q : j \in Int /\ j - 1 \in P /\ j = (j - 1) + 1
    BY <1>1 DEF Places
  <2>3. \A i, j \in P : f[i] = f[j] => i = j
    BY <2>1
  <2>4. \A j \in Q : \E i \in P : f[i] = j
    BY <2>2
  <2>5. f \in [P -> Q]
    BY <2>1
  <2> HIDE DEF f, P, Q
  <2> QED BY <2>3, <2>4, <2>5 DEF Bijection, Injection, Surjection, IsInjective
<1>4. Cardinality(Q) = Count(t, K)
  <2>1. ExistsBijection(P, Q)
    BY <1>3 DEF ExistsBijection
  <2> HIDE DEF P, Q
  <2> QED BY <1>2, <2>1, FS_Bijection DEF Count, P
<1>5. CASE Head(s) \in K
  <2>1. 1 \in Places(s, K)
    BY <1>1, <1>5 DEF Places
  <2>2. Cardinality(Q) = Count(s, K) - 1
    BY <1>2, <2>1, FS_RemoveElement DEF Count
  <2>3. Count(s, K) \in Nat
    BY PlacesFinite
  <2> QED BY <1>2, <1>4, <1>5, <2>2, <2>3
<1>6. CASE Head(s) \notin K
  <2>1. 1 \notin Places(s, K)
    BY <1>1, <1>6 DEF Places
  <2>2. Q = Places(s, K)
    BY <2>1
  <2>3. Cardinality(Q) = Count(s, K)
    BY <2>2 DEF Count
  <2> HIDE DEF Q
  <2> QED BY <1>2, <1>4, <1>6, <2>3
<1> QED BY <1>5, <1>6

(* The places of a sequence after an append, and after the first is taken. *)
LEMMA AppendPlaces ==
    ASSUME NEW S, NEW s \in Seq(S), NEW x \in S
    PROVE  /\ Append(s, x) \in Seq(S)
           /\ \A i \in 1..Len(Append(s, x)) :
                  \/ i \in 1..Len(s) /\ Append(s, x)[i] = s[i]
                  \/ i = Len(Append(s, x)) /\ Append(s, x)[i] = x
           /\ \A i \in 1..Len(s) : i \in 1..Len(Append(s, x)) /\ i < Len(Append(s, x))
OBVIOUS

\* What Head and Tail leave in their places.
LEMMA TailPlaces ==
    ASSUME NEW S, NEW s \in Seq(S), s # <<>>
    PROVE  /\ Tail(s) \in Seq(S)
           /\ Head(s) \in S /\ 1 \in 1..Len(s) /\ s[1] = Head(s)
           /\ Len(Tail(s)) = Len(s) - 1
           /\ \A i \in 1..Len(Tail(s)) : i + 1 \in 1..Len(s) /\ Tail(s)[i] = s[i + 1]
OBVIOUS

(* What is on the wire of a connection.                                    *)
LEMMA FramesTyped ==
    ASSUME TypeOK, NEW c \in Conns
    PROVE  /\ down[c] \in Seq(Frame({"request", "cancel"}))
           /\ up[c] \in Seq(Frame({"head", "body", "end"}))
           /\ \A i \in 1..Len(down[c]) :
                  /\ down[c][i] \in Frame({"request", "cancel"})
                  /\ down[c][i].req \in Reqs
           /\ \A i \in 1..Len(up[c]) :
                  /\ up[c][i] \in Frame({"head", "body", "end"})
                  /\ up[c][i].req \in Reqs
<1>1. /\ down[c] \in Seq(Frame({"request", "cancel"}))
      /\ up[c] \in Seq(Frame({"head", "body", "end"}))
  BY DEF TypeOK
<1>2. /\ \A i \in 1..Len(down[c]) : down[c][i] \in Frame({"request", "cancel"})
      /\ \A i \in 1..Len(up[c]) : up[c][i] \in Frame({"head", "body", "end"})
  BY <1>1
<1>3. \A K : \A f \in Frame(K) : f.req \in Reqs
  BY DEF Frame
<1> QED BY <1>1, <1>2, <1>3

-----------------------------------------------------------------------------
(* The parts of the invariant, each by the state it is about.              *)

(* Nothing that the requests and the wire are about has changed.           *)
Undisturbed ==
    UNCHANGED <<pc, sess, aborted, down, up, job, sent, queue, got>>

\* A step that touches no queue, job or stage keeps what travels intact.
LEMMA WireKept ==
    ASSUME TInv, Undisturbed
    PROVE  Wire' /\ Intact' /\ NeverTruncated'
<1>1. Fresh'
  BY DEF TInv, Wire, Undisturbed, Fresh
<1>2. RequestedOnce'
  BY DEF TInv, Wire, Undisturbed, RequestedOnce
<1>3. AnswersInOrder'
  BY DEF TInv, Wire, Undisturbed, AnswersInOrder
<1>4. Intact'
  BY DEF TInv, Undisturbed, Intact, EndsLast, NothingLost, Chunks, Bodies
<1>5. NeverTruncated'
  BY DEF TInv, Undisturbed, NeverTruncated
<1> QED BY <1>1, <1>2, <1>3, <1>4, <1>5 DEF Wire

\* A step that touches neither the entry nor a request keeps them matched.
LEMMA RegistryKept ==
    ASSUME TInv, UNCHANGED <<current, pc, sess, aborted, inFlight>>
    PROVE  NoneForgotten' /\ NoSlotLeaks'
BY DEF TInv, TunnelInv, NoneForgotten, NoSlotLeaks

\* A step that wakes nobody keeps the waiters counted.
LEMMA WaitersKept ==
    ASSUME TInv, UNCHANGED waiting, current' = current \/ current' = NoConn
    PROVE  WaitersAccounted' /\ IsFiniteSet(waiters')
BY DEF TInv, TunnelInv, WaitersAccounted, waiting

-----------------------------------------------------------------------------
(* The route handler's steps that leave the registry alone, and the loss   *)
(* of a link.                                                              *)
LEMMA RouteStep ==
    ASSUME TInv, NEW c \in Conns, NEW how \in {"dead", "closed"},
           \/ Dial(c) \/ Refuse(c) \/ LostBeforeHello(c) \/ Connected(c)
           \/ HelperEnds(c) \/ Disconnected(c) \/ LinkBreaks(c, how)
    PROVE  TInv'
<1>1. UNCHANGED <<current, wire, requests, inFlight, waiting>>
  BY DEF Dial, Refuse, LostBeforeHello, Connected, HelperEnds, Disconnected, LinkBreaks
<1>2. /\ conn' \in [Conns -> {"free", "accepted", "over"} \cup Serving \cup Leaving]
      /\ link' \in [Conns -> {"up", "dead", "closed"}]
  <2>1. /\ conn \in [Conns -> {"free", "accepted", "over"} \cup Serving \cup Leaving]
        /\ link \in [Conns -> {"up", "dead", "closed"}]
    BY DEF TInv, TunnelInv, TypeOK
  <2>2. CASE Dial(c) \/ Refuse(c) \/ LostBeforeHello(c)
    BY <2>1, <2>2 DEF Dial, Refuse, LostBeforeHello, Leaving
  <2>3. CASE Connected(c)
    BY <2>1, <2>3 DEF Connected, Serving
  <2>4. CASE HelperEnds(c)
    BY <2>1, <2>4 DEF HelperEnds, Leaving
  <2>5. CASE Disconnected(c)
    BY <2>1, <2>5 DEF Disconnected, Leaving
  <2>6. CASE LinkBreaks(c, how)
    BY <2>1, <2>6 DEF LinkBreaks
  <2> QED BY <2>2, <2>3, <2>4, <2>5, <2>6
<1>3. TypeOK'
  BY <1>1, <1>2 DEF TInv, TunnelInv, TypeOK, wire, requests, waiting
<1>4. Wire' /\ Intact' /\ NeverTruncated'
  BY <1>1, WireKept DEF Undisturbed, wire, requests
<1>5. NoneForgotten' /\ NoSlotLeaks'
  BY <1>1, RegistryKept DEF requests
<1>6. WaitersAccounted' /\ IsFiniteSet(waiters')
  BY <1>1, WaitersKept
<1> QED BY <1>3, <1>4, <1>5, <1>6 DEF TInv, TunnelInv

-----------------------------------------------------------------------------
(* A session leaves the registry.                                          *)

(* Whoever waits on it is told, and it tracks nothing any more.            *)
LEMMA DiscardTellsAll ==
    ASSUME TInv, Discard(current), UNCHANGED <<job, sent, pc, sess, got>>
    PROVE  /\ \A r \in Reqs : pc[r] \in Active => aborted'[r]
           /\ \A c \in Conns : inFlight'[c] = {}
           /\ \A r \in Reqs : pc[r] \notin Active =>
                  queue'[r] = queue[r] /\ (aborted'[r] => aborted[r])
           /\ \A c \in Conns : down'[c] = down[c] \/ down'[c] = <<>>
           /\ \A c \in Conns : up'[c] = up[c] \/ up'[c] = <<>>
<1>0. /\ TypeOK /\ NoneForgotten /\ NoSlotLeaks
      /\ \A r \in Reqs : pc[r] \in Active => sess[r] \in Conns
  BY DEF TInv, TunnelInv, Wire, Fresh
<1>1. CASE current = NoConn
  <2>1. UNCHANGED <<inFlight, aborted, head, queue, link, down, up>>
    BY <1>1 DEF Discard
  <2>2. \A c \in Conns : inFlight[c] = {}
    BY <1>0, <1>1, ConnsAssumption DEF NoSlotLeaks
  <2>3. \A r \in Reqs : pc[r] \in Active => aborted[r]
    BY <1>0, <1>1, ConnsAssumption DEF NoneForgotten
  <2> QED BY <2>1, <2>2, <2>3
<1>2. CASE current # NoConn
  <2>1. /\ AbortAll(inFlight[current])
        /\ inFlight' = [inFlight EXCEPT ![current] = {}]
        /\ down' = [down EXCEPT ![current] = <<>>]
        /\ up' = [up EXCEPT ![current] = <<>>]
    BY <1>2 DEF Discard
  <2>2. current \in Conns
    BY <1>0, <1>2 DEF TypeOK
  <2>3. \A c \in Conns : c # current => inFlight[c] = {}
    BY <1>0 DEF NoSlotLeaks
  <2>4. \A c \in Conns : inFlight'[c] = {}
    BY <1>0, <2>1, <2>2, <2>3 DEF TypeOK
  <2>5. \A r \in Reqs : pc[r] \in Active => aborted'[r]
    BY <1>0, <2>1 DEF AbortAll, NoneForgotten
  <2>6. \A r \in Reqs : pc[r] \notin Active => r \notin inFlight[current]
    BY <1>0, <2>2 DEF NoSlotLeaks
  <2>7. \A r \in Reqs : pc[r] \notin Active =>
            queue'[r] = queue[r] /\ (aborted'[r] => aborted[r])
    <3> SUFFICES ASSUME NEW r \in Reqs, pc[r] \notin Active
                 PROVE  queue'[r] = queue[r] /\ (aborted'[r] => aborted[r])
      OBVIOUS
    <3>1. queue'[r] = queue[r]
      BY <2>1, <2>6 DEF AbortAll
    <3>2. aborted'[r] => aborted[r]
      BY <2>1, <2>6 DEF AbortAll
    <3> QED BY <3>1, <3>2
  <2>8. \A c \in Conns : /\ down'[c] = down[c] \/ down'[c] = <<>>
                         /\ up'[c] = up[c] \/ up'[c] = <<>>
    BY <1>0, <2>1 DEF TypeOK
  <2> QED BY <2>4, <2>5, <2>7, <2>8
<1> QED BY <1>1, <1>2

(* What a discarded session carried is still of its type.                  *)
LEMMA DiscardTyped ==
    ASSUME TypeOK, Discard(current)
    PROVE  /\ inFlight' \in [Conns -> SUBSET Reqs]
           /\ aborted' \in [Reqs -> BOOLEAN]
           /\ head' \in [Reqs -> {"pending", "set", "error"}]
           /\ queue' \in [Reqs -> Seq({"chunk", "end"})]
           /\ link' \in [Conns -> {"up", "dead", "closed"}]
           /\ down' \in [Conns -> Seq(Frame({"request", "cancel"}))]
           /\ up' \in [Conns -> Seq(Frame({"head", "body", "end"}))]
<1>1. CASE current = NoConn
  BY <1>1 DEF Discard, TypeOK
<1>2. CASE current # NoConn
  <2>1. /\ AbortAll(inFlight[current])
        /\ inFlight' = [inFlight EXCEPT ![current] = {}]
        /\ link' = [link EXCEPT ![current] = "closed"]
        /\ down' = [down EXCEPT ![current] = <<>>]
        /\ up' = [up EXCEPT ![current] = <<>>]
    BY <1>2 DEF Discard
  <2>2. aborted' \in [Reqs -> BOOLEAN]
    BY <2>1, Zenon DEF AbortAll
  <2>3. /\ head' \in [Reqs -> {"pending", "set", "error"}]
        /\ queue' \in [Reqs -> Seq({"chunk", "end"})]
    BY <2>1 DEF AbortAll, TypeOK
  <2>4. /\ inFlight' \in [Conns -> SUBSET Reqs]
        /\ link' \in [Conns -> {"up", "dead", "closed"}]
    BY <2>1 DEF TypeOK
  <2>5. /\ down' \in [Conns -> Seq(Frame({"request", "cancel"}))]
        /\ up' \in [Conns -> Seq(Frame({"head", "body", "end"}))]
    <3>1. <<>> \in Seq(Frame({"request", "cancel"})) /\ <<>> \in Seq(Frame({"head", "body", "end"}))
      OBVIOUS
    <3> QED BY <2>1, <3>1 DEF TypeOK
  <2> QED BY <2>2, <2>3, <2>4, <2>5
<1> QED BY <1>1, <1>2

\* Discarding a session aborts every request that was at work on it.
LEMMA DiscardKeeps ==
    ASSUME TInv, Discard(current), UNCHANGED <<job, sent, pc, sess, got>>
    PROVE  NoneForgotten' /\ NoSlotLeaks' /\ Wire' /\ Intact' /\ NeverTruncated'
<1>1. /\ \A r \in Reqs : pc[r] \in Active => aborted'[r]
      /\ \A c \in Conns : inFlight'[c] = {}
      /\ \A r \in Reqs : pc[r] \notin Active =>
             queue'[r] = queue[r] /\ (aborted'[r] => aborted[r])
      /\ \A c \in Conns : down'[c] = down[c] \/ down'[c] = <<>>
      /\ \A c \in Conns : up'[c] = up[c] \/ up'[c] = <<>>
  BY DiscardTellsAll
<1>2. NoneForgotten' /\ NoSlotLeaks' /\ Intact'
  BY <1>1 DEF NoneForgotten, NoSlotLeaks, Intact
<1>3. Fresh'
  BY <1>1 DEF TInv, Wire, Fresh, Active
<1>4. RequestedOnce'
  BY <1>1 DEF TInv, Wire, RequestedOnce
<1>5. AnswersInOrder'
  BY <1>1 DEF TInv, Wire, AnswersInOrder
<1>6. NeverTruncated'
  BY DEF TInv, NeverTruncated
<1> QED BY <1>2, <1>3, <1>4, <1>5, <1>6 DEF Wire

\* TunnelRegistry.register: the older session is discarded, waiters wake up.
LEMMA RegisterStep ==
    ASSUME TInv, NEW c \in Conns, Register(c)
    PROVE  TInv'
<1>1. Discard(current) /\ WakeAll /\ UNCHANGED <<job, sent, pc, sess, got>> /\ current' = c
  BY DEF Register
<1>2. TypeOK /\ WaitersAccounted /\ IsFiniteSet(waiters)
  BY DEF TInv, TunnelInv
<1>3. waiters' = {} /\ waiterTotal' = 0
  <2>1. waiterTotal = Cardinality(waiters) /\ waiterTotal \in Nat
    BY <1>2 DEF WaitersAccounted, TypeOK
  <2> QED BY <1>1, <2>1 DEF WakeAll
<1>4. WaitersAccounted' /\ IsFiniteSet(waiters')
  <2>1. \A w \in Waiters : wait'[w] # "waiting"
    BY <1>1, <1>2 DEF WakeAll, WaitersAccounted
  <2> QED BY <1>3, <2>1, FS_EmptySet DEF WaitersAccounted
<1>5. TypeOK'
  <2>1. conn' \in [Conns -> {"free", "accepted", "over"} \cup Serving \cup Leaving]
    BY <1>2 DEF Register, TypeOK, Serving
  <2>2. /\ wait' \in [Waiters -> {"free", "waiting", "waking", "sleeping", "over"}]
        /\ waiters' \in SUBSET Waiters /\ waiterTotal' \in 0..MaxWaiters
    BY <1>1, <1>2, <1>3, TunnelBoundsAssumption DEF WakeAll, TypeOK
  <2> QED BY <1>1, <1>2, <2>1, <2>2, DiscardTyped DEF TypeOK
<1> QED BY <1>1, <1>4, <1>5, DiscardKeeps DEF TInv, TunnelInv

\* TunnelRegistry.deregister, from the bad hello and from the teardown.
LEMMA RemovalStep ==
    ASSUME TInv, NEW c \in Conns, HelloFails(c) \/ Leave(c)
    PROVE  TInv'
<1>1. UNCHANGED <<job, sent, pc, sess, got, waiting>>
  BY DEF HelloFails, Leave
<1>2. conn' \in [Conns -> {"free", "accepted", "over"} \cup Serving \cup Leaving]
  <2>1. conn \in [Conns -> {"free", "accepted", "over"} \cup Serving \cup Leaving]
    BY DEF TInv, TunnelInv, TypeOK
  <2>2. \E at \in Leaving : conn' = [conn EXCEPT ![c] = at]
    BY DEF HelloFails, Leave, Leaving
  <2> QED BY <2>1, <2>2
<1>3. TypeOK
  BY DEF TInv, TunnelInv
<1>4. CASE Discard(current) /\ current' = NoConn
  <2>1. TypeOK'
    BY <1>1, <1>2, <1>3, <1>4, DiscardTyped DEF TypeOK, waiting
  <2>2. WaitersAccounted' /\ IsFiniteSet(waiters')
    BY <1>1, <1>4, WaitersKept
  <2> QED BY <1>1, <1>4, <2>1, <2>2, DiscardKeeps DEF TInv, TunnelInv
<1>5. CASE UNCHANGED <<current, inFlight, aborted, head, queue, link, down, up>>
  <2>1. TypeOK'
    BY <1>1, <1>2, <1>3, <1>5 DEF TypeOK, waiting
  <2>2. WaitersAccounted' /\ IsFiniteSet(waiters')
    BY <1>1, <1>5, WaitersKept
  <2>3. NoneForgotten' /\ NoSlotLeaks'
    BY <1>1, <1>5, RegistryKept
  <2>4. Wire' /\ Intact' /\ NeverTruncated'
    BY <1>1, <1>5, WireKept DEF Undisturbed
  <2> QED BY <2>1, <2>2, <2>3, <2>4 DEF TInv, TunnelInv
<1> QED BY <1>4, <1>5 DEF HelloFails, Leave, Deregister

-----------------------------------------------------------------------------
(* The waiters.                                                            *)
LEMMA WaiterStep ==
    ASSUME TInv, NEW w \in Waiters, StartWait(w) \/ EndWait(w) \/ WakeUp(w)
    PROVE  TInv'
<1>1. UNCHANGED <<current, routes, wire, requests, inFlight>>
  BY DEF StartWait, EndWait, WakeUp
<1>2. /\ wait \in [Waiters -> {"free", "waiting", "waking", "sleeping", "over"}]
      /\ waiters \in SUBSET Waiters /\ waiterTotal \in 0..MaxWaiters
      /\ WaitersAccounted /\ IsFiniteSet(waiters) /\ MaxWaiters \in Nat
  BY TunnelBoundsAssumption DEF TInv, TunnelInv, TypeOK
<1>3. waiterTotal = Cardinality(waiters) /\ Cardinality(waiters) \in Nat
  BY <1>2, FS_CardinalityType DEF WaitersAccounted
<1> DEFINE WaitersRight ==
        /\ wait' \in [Waiters -> {"free", "waiting", "waking", "sleeping", "over"}]
        /\ waiters' \in SUBSET Waiters /\ waiterTotal' \in 0..MaxWaiters
        /\ WaitersAccounted' /\ IsFiniteSet(waiters')
<1>4. ASSUME waiters' = waiters, waiterTotal' = waiterTotal, wait[w] # "waiting",
             \E at \in {"over", "sleeping"} : wait' = [wait EXCEPT ![w] = at]
      PROVE  WaitersRight
  BY <1>1, <1>2, <1>4 DEF WaitersAccounted
<1>5. ASSUME wait[w] = "free", current = NoConn, waiterTotal < MaxWaiters,
             wait' = [wait EXCEPT ![w] = "waiting"],
             waiters' = waiters \cup {w}, waiterTotal' = waiterTotal + 1
      PROVE  WaitersRight
  <2>1. w \notin waiters
    BY <1>2, <1>5 DEF WaitersAccounted
  <2>2. IsFiniteSet(waiters') /\ Cardinality(waiters') = Cardinality(waiters) + 1
    BY <1>2, <1>5, <2>1, FS_AddElement
  <2>3. waiters' = {v \in Waiters : wait'[v] = "waiting"}
    BY <1>2, <1>5 DEF WaitersAccounted
  <2>4. waiterTotal' \in 0..MaxWaiters /\ waiterTotal' = Cardinality(waiters')
    BY <1>2, <1>3, <1>5, <2>2
  <2> QED BY <1>1, <1>2, <1>5, <2>2, <2>3, <2>4 DEF WaitersAccounted
<1>6. ASSUME EndWait(w)
      PROVE  WaitersRight
  <2>1. waiters' = waiters \ {w} /\ IsFiniteSet(waiters')
    BY <1>2, <1>6, FS_RemoveElement DEF EndWait, Forget
  <2>2. waiterTotal' \in 0..MaxWaiters /\ waiterTotal' = Cardinality(waiters')
    <3>1. CASE w \in waiters
      <4>1. Cardinality(waiters') = Cardinality(waiters) - 1
        BY <1>2, <2>1, <3>1, FS_RemoveElement
      <4>2. Cardinality(waiters') \in Nat
        BY <2>1, FS_CardinalityType
      <4>3. waiterTotal' = waiterTotal - 1
        BY <1>6, <3>1 DEF EndWait, Forget
      <4> QED BY <1>2, <1>3, <4>1, <4>2, <4>3
    <3>2. CASE w \notin waiters
      <4>1. waiters' = waiters
        BY <2>1, <3>2
      <4> QED BY <1>2, <1>3, <1>6, <3>2, <4>1 DEF EndWait, Forget
    <3> QED BY <3>1, <3>2
  <2>3. /\ wait' \in [Waiters -> {"free", "waiting", "waking", "sleeping", "over"}]
        /\ waiters' = {v \in Waiters : wait'[v] = "waiting"}
    BY <1>2, <1>6, <2>1 DEF EndWait, WaitersAccounted
  <2> QED BY <1>1, <1>2, <2>1, <2>2, <2>3 DEF WaitersAccounted
<1>7. WaitersRight
  <2>1. CASE StartWait(w)
    BY <1>2, <1>3, <1>4, <1>5, <2>1 DEF StartWait
  <2>2. CASE WakeUp(w)
    BY <1>4, <2>2 DEF WakeUp
  <2> QED BY <1>6, <2>1, <2>2
<1>8. TypeOK'
  BY <1>1, <1>7 DEF TInv, TunnelInv, TypeOK, routes, wire, requests
<1>9. Wire' /\ Intact' /\ NeverTruncated'
  BY <1>1, WireKept DEF Undisturbed, wire, requests
<1>10. NoneForgotten' /\ NoSlotLeaks'
  BY <1>1, RegistryKept DEF requests
<1> QED BY <1>7, <1>8, <1>9, <1>10 DEF TInv, TunnelInv

-----------------------------------------------------------------------------
(* The requests.                                                           *)

(* A coroutine that leaves frees its slot; what it leaves behind is no     *)
(* longer of interest.                                                     *)
LEMMA SettleKeeps ==
    ASSUME TInv, NEW r \in Reqs, NEW how \in Settled, pc[r] \in Active,
           pc' = [pc EXCEPT ![r] = how], CloseRequest(r),
           UNCHANGED <<current, sess, aborted>>
    PROVE  /\ pc' \in [Reqs -> {"free", "reading"} \cup Active \cup Settled]
           /\ inFlight' \in [Conns -> SUBSET Reqs]
           /\ NoneForgotten' /\ NoSlotLeaks'
<1>1. /\ pc \in [Reqs -> {"free", "reading"} \cup Active \cup Settled]
      /\ inFlight \in [Conns -> SUBSET Reqs]
      /\ NoneForgotten /\ NoSlotLeaks /\ sess[r] \in Conns
      /\ \A q \in Reqs : pc[q] \in Active => sess[q] \in Conns
  BY DEF TInv, TunnelInv, TypeOK, Wire, Fresh
<1>2. how \notin Active
  BY DEF Settled, Active
<1>3. /\ \A q \in Reqs : pc'[q] = IF q = r THEN how ELSE pc[q]
      /\ \A c \in Conns : inFlight'[c] = IF c = sess[r] THEN inFlight[c] \ {r}
                                                        ELSE inFlight[c]
  BY <1>1 DEF CloseRequest
<1>4. NoneForgotten'
  <2> SUFFICES ASSUME NEW q \in Reqs, pc'[q] \in Active, ~aborted'[q]
               PROVE  current' = sess'[q] /\ q \in inFlight'[current']
    BY DEF NoneForgotten
  <2>1. q # r /\ pc[q] \in Active /\ ~aborted[q]
    BY <1>2, <1>3
  <2>2. current = sess[q] /\ q \in inFlight[current] /\ current \in Conns
    BY <1>1, <2>1 DEF NoneForgotten
  <2> QED BY <1>3, <2>1, <2>2
<1>5. NoSlotLeaks'
  <2> SUFFICES ASSUME NEW c \in Conns, NEW q \in inFlight'[c]
               PROVE  current' = c /\ sess'[q] = c /\ pc'[q] \in Active
    BY DEF NoSlotLeaks
  <2>1. q \in inFlight[c] /\ q \in Reqs /\ (q = r => c # sess[r])
    BY <1>1, <1>3
  <2>2. current = c /\ sess[q] = c /\ pc[q] \in Active
    BY <1>1, <2>1 DEF NoSlotLeaks
  <2> QED BY <1>3, <2>1, <2>2
<1>6. /\ pc' \in [Reqs -> {"free", "reading"} \cup Active \cup Settled]
      /\ inFlight' \in [Conns -> SUBSET Reqs]
  BY <1>1 DEF CloseRequest
<1> QED BY <1>4, <1>5, <1>6

(* A request's own progress past the opening leaves the wire in order.     *)
LEMMA ProgressKeeps ==
    ASSUME TInv, NEW r \in Reqs, NEW how \in {"waiting", "streaming"} \cup Settled,
           pc[r] \in Active, pc' = [pc EXCEPT ![r] = how],
           UNCHANGED <<sess, up, job, sent, aborted>>,
           \A c \in Conns : \A i \in 1..Len(down'[c]) :
               down'[c][i].kind = "request" => i \in 1..Len(down[c]) /\ down'[c][i] = down[c][i],
           \A q \in Reqs \ {r} : queue'[q] = queue[q] /\ got'[q] = got[q]
    PROVE  Wire'
<1>1. TypeOK /\ Wire
  BY DEF TInv, TunnelInv
<1>2. \A q \in Reqs : \/ q # r /\ pc'[q] = pc[q]
                      \/ q = r /\ pc'[q] = how /\ pc[q] \in Active
  BY <1>1 DEF TypeOK
<1>3. how \notin {"free", "reading", "opened"}
  BY DEF Settled
<1>4. Fresh'
  <2> SUFFICES ASSUME NEW q \in Reqs
               PROVE  /\ pc'[q] \in {"free", "reading"} =>
                             /\ sess'[q] = NoConn /\ got'[q] = 0 /\ sent'[q] = 0
                             /\ queue'[q] = <<>> /\ ~aborted'[q]
                      /\ pc'[q] \in {"free", "reading", "opened"} => job'[q] = "none"
                      /\ pc'[q] \in Active => sess'[q] \in Conns
    BY DEF Fresh
  <2>1. /\ pc[q] \in {"free", "reading"} =>
               /\ sess[q] = NoConn /\ got[q] = 0 /\ sent[q] = 0
               /\ queue[q] = <<>> /\ ~aborted[q]
        /\ pc[q] \in {"free", "reading", "opened"} => job[q] = "none"
        /\ pc[q] \in Active => sess[q] \in Conns
    BY <1>1 DEF Wire, Fresh
  <2>2. pc'[q] \in {"free", "reading"} => queue'[q] = queue[q] /\ got'[q] = got[q]
    BY <1>2, <1>3
  <2> QED BY <1>2, <1>3, <2>1, <2>2
<1>5. RequestedOnce'
  <2> SUFFICES ASSUME NEW c \in Conns, NEW i \in 1..Len(down'[c]), down'[c][i].kind = "request"
               PROVE  LET q == down'[c][i].req IN
                      /\ job'[q] = "none" /\ sess'[q] = c
                      /\ pc'[q] \notin {"free", "reading", "opened"}
                      /\ \A j \in 1..Len(down'[c]) :
                             down'[c][j].req = q /\ down'[c][j].kind = "request" => j = i
    BY DEF RequestedOnce
  <2> DEFINE q == down'[c][i].req
  <2>1. i \in 1..Len(down[c]) /\ down'[c][i] = down[c][i]
    OBVIOUS
  <2>2. /\ job[q] = "none" /\ sess[q] = c /\ pc[q] \notin {"free", "reading", "opened"}
        /\ \A j \in 1..Len(down[c]) :
               down[c][j].req = q /\ down[c][j].kind = "request" => j = i
    BY <1>1, <2>1 DEF Wire, RequestedOnce
  <2>3. q \in Reqs
    BY <1>1, <2>1, FramesTyped
  <2>4. pc'[q] \notin {"free", "reading", "opened"}
    BY <1>2, <1>3, <2>2, <2>3
  <2> QED BY <2>2, <2>4
<1>6. AnswersInOrder'
  BY <1>1 DEF Wire, AnswersInOrder
<1> QED BY <1>4, <1>5, <1>6 DEF Wire

(* A request whose own state and frames are as before is intact as before. *)
LEMMA SameIntact ==
    ASSUME TInv, NEW q \in Reqs, pc'[q] \in Active, ~aborted'[q],
           pc'[q] = pc[q], aborted'[q] => aborted[q], aborted[q] => aborted'[q],
           queue'[q] = queue[q], sess'[q] = sess[q], got'[q] = got[q],
           UNCHANGED <<up, sent>>, job[q] = "ended" => job'[q] = "ended"
    PROVE  EndsLast(q)' /\ NothingLost(q)'
<1>1. EndsLast(q) /\ NothingLost(q)
  BY DEF TInv, Intact
<1>2. EndsLast(q)'
  BY <1>1 DEF EndsLast
<1>3. NothingLost(q)'
  BY <1>1 DEF NothingLost, Chunks, Bodies
<1> QED BY <1>2, <1>3

(* For the other requests nothing has changed.                             *)
LEMMA OthersIntact ==
    ASSUME TInv, NEW r \in Reqs,
           \A q \in Reqs \ {r} :
               pc'[q] = pc[q] /\ queue'[q] = queue[q] /\ sess'[q] = sess[q] /\ got'[q] = got[q],
           UNCHANGED <<up, job, sent, aborted>>,
           pc'[r] \notin Active \/ aborted[r]
    PROVE  Intact'
<1> SUFFICES ASSUME NEW q \in Reqs, pc'[q] \in Active, ~aborted'[q]
             PROVE  EndsLast(q)' /\ NothingLost(q)'
  BY DEF Intact
<1>1. q # r
  OBVIOUS
<1> QED BY <1>1, SameIntact

\* A caller starts a request.
LEMMA AskStep ==
    ASSUME TInv, NEW r \in Reqs, Ask(r)
    PROVE  TInv'
<1>1. TypeOK /\ Wire
  BY DEF TInv, TunnelInv
<1>2. PICK how \in {"failed", "reading"} : pc' = [pc EXCEPT ![r] = how]
  BY DEF Ask, Settle
<1>3. /\ pc[r] = "free"
      /\ UNCHANGED <<current, routes, wire, sess, head, queue, aborted, got,
                     inFlight, waiting>>
  BY DEF Ask
<1>4. \A q \in Reqs : pc'[q] = IF q = r THEN how ELSE pc[q]
  BY <1>1, <1>2 DEF TypeOK
<1>5. how \notin Active /\ pc[r] \notin Active
  BY <1>3 DEF Active
<1>6. TypeOK'
  <2>1. pc' \in [Reqs -> {"free", "reading"} \cup Active \cup Settled]
    BY <1>1, <1>2 DEF TypeOK, Settled
  <2> QED BY <1>1, <1>3, <2>1 DEF TypeOK, routes, wire, waiting
<1>7. NoneForgotten' /\ NoSlotLeaks'
  <2>1. \A c \in Conns : \A q \in inFlight[c] : q \in Reqs /\ q # r
    BY <1>1, <1>5 DEF TInv, TunnelInv, NoSlotLeaks, TypeOK
  <2> QED BY <1>3, <1>4, <1>5, <2>1 DEF TInv, TunnelInv, NoneForgotten, NoSlotLeaks
<1>8. Fresh'
  BY <1>1, <1>2, <1>3, <1>4, <1>5 DEF Wire, Fresh, wire
<1>9. RequestedOnce'
  <2>1. \A c \in Conns : \A i \in 1..Len(down[c]) :
            down[c][i].kind = "request" => down[c][i].req \in Reqs /\ down[c][i].req # r
    BY <1>1, <1>3, FramesTyped DEF Wire, RequestedOnce
  <2> QED BY <1>1, <1>3, <1>4, <2>1 DEF Wire, RequestedOnce, wire
<1>10. AnswersInOrder'
  BY <1>1, <1>3 DEF Wire, AnswersInOrder, wire
<1>11. Intact'
  BY <1>3, <1>4, <1>5, OthersIntact DEF wire
<1>12. NeverTruncated'
  BY <1>2, <1>3, <1>4 DEF TInv, NeverTruncated, wire
<1>13. WaitersAccounted' /\ IsFiniteSet(waiters')
  BY <1>3, WaitersKept
<1> QED BY <1>6, <1>7, <1>8, <1>9, <1>10, <1>11, <1>12, <1>13 DEF TInv, TunnelInv, Wire

(* A request that cannot be opened is refused; one that can leaves no      *)
(* trace on the wire yet.                                                  *)
LEMMA OpenStep ==
    ASSUME TInv, NEW r \in Reqs, OpenRequest(r)
    PROVE  TInv'
<1>1. TypeOK /\ Wire
  BY DEF TInv, TunnelInv
<1>2. PICK how \in {"failed", "opened"} : pc' = [pc EXCEPT ![r] = how]
  BY DEF OpenRequest, Settle
<1>3. /\ pc[r] = "reading"
      /\ UNCHANGED <<current, routes, wire, head, queue, aborted, got, waiting>>
  BY DEF OpenRequest
<1>4. \A q \in Reqs : pc'[q] = IF q = r THEN how ELSE pc[q]
  BY <1>1, <1>2 DEF TypeOK
<1>5. /\ sess[r] = NoConn /\ got[r] = 0 /\ sent[r] = 0 /\ queue[r] = <<>>
      /\ ~aborted[r] /\ job[r] = "none"
  BY <1>1, <1>3 DEF Wire, Fresh
<1>6. \A q \in Reqs : q # r => sess'[q] = sess[q]
  BY <1>1 DEF OpenRequest, TypeOK
<1>7. \/ how = "failed" /\ UNCHANGED <<sess, inFlight>>
      \/ /\ how = "opened" /\ current \in Conns
         /\ sess' = [sess EXCEPT ![r] = current]
         /\ inFlight' = [inFlight EXCEPT ![current] = @ \cup {r}]
  <2>1. pc'[r] = how /\ current \in Conns \cup {NoConn}
    BY <1>1, <1>4 DEF TypeOK
  <2>2. CASE current = NoConn
    <3>1. pc' = [pc EXCEPT ![r] = "failed"] /\ UNCHANGED <<sess, inFlight>>
      BY <2>2 DEF OpenRequest, Settle
    <3>2. pc'[r] = "failed"
      BY <1>1, <3>1 DEF TypeOK
    <3> QED BY <2>1, <3>1, <3>2
  <2>3. CASE current # NoConn
    <3>1. /\ pc' = [pc EXCEPT ![r] = "opened"]
          /\ sess' = [sess EXCEPT ![r] = current]
          /\ inFlight' = [inFlight EXCEPT ![current] = @ \cup {r}]
      BY <2>3 DEF OpenRequest, Settle
    <3>2. pc'[r] = "opened"
      BY <1>1, <3>1 DEF TypeOK
    <3> QED BY <2>1, <2>3, <3>1, <3>2
  <2> QED BY <2>2, <2>3
<1>8. how = "opened" => sess'[r] = current /\ current \in Conns /\ r \in inFlight'[current]
  BY <1>1, <1>7 DEF TypeOK
<1>9. TypeOK'
  <2>1. pc' \in [Reqs -> {"free", "reading"} \cup Active \cup Settled]
    BY <1>1, <1>2 DEF TypeOK, Settled, Active
  <2>2. sess' \in [Reqs -> Conns \cup {NoConn}] /\ inFlight' \in [Conns -> SUBSET Reqs]
    <3>1. sess \in [Reqs -> Conns \cup {NoConn}] /\ inFlight \in [Conns -> SUBSET Reqs]
      BY <1>1 DEF TypeOK
    <3>2. CASE UNCHANGED <<sess, inFlight>>
      BY <3>1, <3>2
    <3>3. CASE /\ current \in Conns /\ sess' = [sess EXCEPT ![r] = current]
               /\ inFlight' = [inFlight EXCEPT ![current] = @ \cup {r}]
      <4>1. inFlight[current] \cup {r} \in SUBSET Reqs
        BY <3>1, <3>3
      <4> QED BY <3>1, <3>3, <4>1
    <3> QED BY <1>7, <3>2, <3>3
  <2> QED BY <1>1, <1>3, <2>1, <2>2 DEF TypeOK, routes, wire, waiting
<1>10. \A c \in Conns : \A i \in 1..Len(up[c]) : up[c][i].req \in Reqs /\ up[c][i].req # r
  BY <1>1, <1>5, FramesTyped, ConnsAssumption DEF Wire, AnswersInOrder
<1>11. \A c \in Conns : \A i \in 1..Len(down[c]) :
          down[c][i].kind = "request" => down[c][i].req \in Reqs /\ down[c][i].req # r
  BY <1>1, <1>3, FramesTyped DEF Wire, RequestedOnce
<1>12. NoneForgotten'
  <2> SUFFICES ASSUME NEW q \in Reqs, pc'[q] \in Active, ~aborted'[q]
               PROVE  current' = sess'[q] /\ q \in inFlight'[current']
    BY DEF NoneForgotten
  <2>1. CASE q = r
    BY <1>3, <1>4, <1>8, <2>1 DEF Active
  <2>2. CASE q # r
    <3>1. current = sess[q] /\ q \in inFlight[current] /\ current \in Conns
      BY <1>1, <1>3, <1>4, <2>2 DEF TInv, TunnelInv, NoneForgotten, Wire, Fresh
    <3>2. q \in inFlight'[current]
      BY <1>1, <1>7, <3>1 DEF TypeOK
    <3> QED BY <1>3, <1>6, <2>2, <3>1, <3>2
  <2> QED BY <2>1, <2>2
<1>13. NoSlotLeaks'
  <2> SUFFICES ASSUME NEW c \in Conns, NEW q \in inFlight'[c]
               PROVE  current' = c /\ sess'[q] = c /\ pc'[q] \in Active
    BY DEF NoSlotLeaks
  <2>1. q \in Reqs
    BY <1>9 DEF TypeOK
  <2>2. CASE q \in inFlight[c]
    <3>1. current = c /\ sess[q] = c /\ pc[q] \in Active
      BY <2>2 DEF TInv, TunnelInv, NoSlotLeaks
    <3>2. q # r
      BY <1>3, <3>1 DEF Active
    <3> QED BY <1>3, <1>4, <1>6, <2>1, <3>1, <3>2
  <2>3. CASE q \notin inFlight[c]
    <3>1. q = r /\ how = "opened" /\ c = current
      BY <1>1, <1>7, <2>3 DEF TypeOK
    <3> QED BY <1>3, <1>4, <1>8, <3>1 DEF Active
  <2> QED BY <2>2, <2>3
<1>14. Fresh'
  BY <1>1, <1>2, <1>3, <1>4, <1>5, <1>6, <1>8 DEF Wire, Fresh, wire, Active
<1>15. RequestedOnce'
  <2> SUFFICES ASSUME NEW c \in Conns, NEW i \in 1..Len(down[c]), down[c][i].kind = "request"
               PROVE  LET q == down[c][i].req IN
                      /\ job[q] = "none" /\ sess'[q] = c
                      /\ pc'[q] \notin {"free", "reading", "opened"}
                      /\ \A j \in 1..Len(down[c]) :
                             down[c][j].req = q /\ down[c][j].kind = "request" => j = i
    BY <1>3 DEF RequestedOnce, wire
  <2> DEFINE q == down[c][i].req
  <2>1. /\ job[q] = "none" /\ sess[q] = c /\ pc[q] \notin {"free", "reading", "opened"}
        /\ \A j \in 1..Len(down[c]) :
               down[c][j].req = q /\ down[c][j].kind = "request" => j = i
    BY <1>1 DEF Wire, RequestedOnce
  <2>2. q \in Reqs /\ q # r
    BY <1>11
  <2> QED BY <1>4, <1>6, <2>1, <2>2
<1>16. AnswersInOrder'
  BY <1>1, <1>3, <1>6, <1>10 DEF Wire, AnswersInOrder, wire
<1>17. Intact'
  <2>1. CASE how = "failed"
    BY <1>3, <1>4, <1>6, <2>1, OthersIntact DEF wire, Active
  <2>2. CASE how = "opened"
    <3>1. Count(queue[r], {"chunk"}) = 0
      BY <1>1, <1>5, CountZero DEF TypeOK
    <3>2. Count(up[current], {[req |-> r, kind |-> "body"]}) = 0
      <4>1. up[current] \in Seq(Frame({"head", "body", "end"}))
        BY <1>1, <1>8, <2>2, FramesTyped
      <4>2. \A i \in 1..Len(up[current]) : up[current][i] \notin {[req |-> r, kind |-> "body"]}
        BY <1>8, <1>10, <2>2
      <4> QED BY <4>1, <4>2, CountZero
    <3>3. EndsLast(r)' /\ NothingLost(r)'
      <4>1. NothingLost(r)'
        BY <1>3, <1>5, <1>8, <2>2, <3>1, <3>2 DEF NothingLost, Chunks, Bodies, wire
      <4>2. Len(queue'[r]) = 0
        BY <1>3, <1>5
      <4> QED BY <4>1, <4>2 DEF EndsLast
    <3>4. \A q \in Reqs : pc'[q] \in Active /\ ~aborted'[q] /\ q # r =>
              EndsLast(q)' /\ NothingLost(q)'
      BY <1>3, <1>4, <1>6, SameIntact DEF wire
    <3> QED BY <3>3, <3>4 DEF Intact
  <2> QED BY <2>1, <2>2
<1>18. NeverTruncated'
  BY <1>2, <1>3, <1>4 DEF TInv, NeverTruncated, wire
<1>19. WaitersAccounted' /\ IsFiniteSet(waiters')
  BY <1>3, WaitersKept
<1> QED BY <1>9, <1>12, <1>13, <1>14, <1>15, <1>16, <1>17, <1>18, <1>19
        DEF TInv, TunnelInv, Wire

(* A frame put on the wire, and one taken from it.                         *)
LEMMA FramePut ==
    ASSUME NEW S, NEW old \in [Conns -> Seq(S)], NEW c \in Conns, NEW f \in S,
           NEW new, new = [old EXCEPT ![c] = Append(old[c], f)]
    PROVE  /\ new \in [Conns -> Seq(S)]
           /\ \A d \in Conns : \A i \in 1..Len(new[d]) :
                  \/ i \in 1..Len(old[d]) /\ new[d][i] = old[d][i]
                  \/ d = c /\ i = Len(new[d]) /\ new[d][i] = f
           /\ \A i \in 1..Len(old[c]) : i < Len(new[c])
<1>1. old[c] \in Seq(S)
  OBVIOUS
<1> DEFINE s == Append(old[c], f)
<1>2. /\ s \in Seq(S)
      /\ \A i \in 1..Len(s) : \/ i \in 1..Len(old[c]) /\ s[i] = old[c][i]
                              \/ i = Len(s) /\ s[i] = f
      /\ \A i \in 1..Len(old[c]) : i < Len(s)
  BY <1>1, AppendPlaces
<1>3. new = [old EXCEPT ![c] = s]
  OBVIOUS
<1> HIDE DEF s
<1>4. new \in [Conns -> Seq(S)]
  BY <1>2, <1>3
<1>5. \A d \in Conns : new[d] = IF d = c THEN s ELSE old[d]
  BY <1>3
<1> QED BY <1>2, <1>4, <1>5

\* The first frame is taken off one queue.
LEMMA FrameTaken ==
    ASSUME NEW S, NEW old \in [Conns -> Seq(S)], NEW c \in Conns, old[c] # <<>>,
           NEW new, new = [old EXCEPT ![c] = Tail(old[c])]
    PROVE  /\ new \in [Conns -> Seq(S)]
           /\ Head(old[c]) \in S /\ 1 \in 1..Len(old[c]) /\ old[c][1] = Head(old[c])
           /\ \A d \in Conns : d # c => new[d] = old[d]
           /\ new[c] = Tail(old[c])
           /\ Len(new[c]) = Len(old[c]) - 1
           /\ \A i \in 1..Len(new[c]) : i + 1 \in 1..Len(old[c]) /\ new[c][i] = old[c][i + 1]
<1>1. old[c] \in Seq(S)
  OBVIOUS
<1>2. /\ Tail(old[c]) \in Seq(S)
      /\ Head(old[c]) \in S /\ 1 \in 1..Len(old[c]) /\ old[c][1] = Head(old[c])
      /\ Len(Tail(old[c])) = Len(old[c]) - 1
      /\ \A i \in 1..Len(Tail(old[c])) :
             i + 1 \in 1..Len(old[c]) /\ Tail(old[c])[i] = old[c][i + 1]
  BY <1>1, TailPlaces
<1>3. new \in [Conns -> Seq(S)]
  BY <1>2
<1>4. new[c] = Tail(old[c]) /\ \A d \in Conns : d # c => new[d] = old[d]
  OBVIOUS
<1> QED BY <1>2, <1>3, <1>4

(* A coroutine leaves.                                                     *)
LEMMA SettleStep ==
    ASSUME TInv, NEW r \in Reqs, NEW how \in Settled, pc[r] \in Active,
           pc' = [pc EXCEPT ![r] = how], CloseRequest(r),
           UNCHANGED <<current, routes, up, job, sent, sess, head, aborted, got, waiting>>,
           queue' \in [Reqs -> Seq({"chunk", "end"})],
           \A q \in Reqs \ {r} : queue'[q] = queue[q],
           how = "done" => job[r] = "ended" /\ got[r] = sent[r],
           \/ down' = down
           \/ \E c \in Conns :
                  down' = [down EXCEPT ![c] = Append(@, [req |-> r, kind |-> "cancel"])]
    PROVE  TInv'
<1>1. TypeOK
  BY DEF TInv, TunnelInv
<1>2. /\ down' \in [Conns -> Seq(Frame({"request", "cancel"}))]
      /\ \A c \in Conns : \A i \in 1..Len(down'[c]) :
             down'[c][i].kind = "request" => i \in 1..Len(down[c]) /\ down'[c][i] = down[c][i]
  <2>1. CASE down' = down
    BY <1>1, <2>1 DEF TypeOK
  <2>2. ASSUME NEW c \in Conns,
               down' = [down EXCEPT ![c] = Append(@, [req |-> r, kind |-> "cancel"])]
        PROVE  <1>2!1 /\ <1>2!2
    <3> DEFINE f == [req |-> r, kind |-> "cancel"]
    <3>1. f \in Frame({"request", "cancel"}) /\ f.kind # "request"
      BY DEF Frame
    <3>2. down' = [down EXCEPT ![c] = Append(@, f)]
      BY <2>2
    <3> HIDE DEF f
    <3>3. down \in [Conns -> Seq(Frame({"request", "cancel"}))]
      BY <1>1 DEF TypeOK
    <3>4. /\ down' \in [Conns -> Seq(Frame({"request", "cancel"}))]
          /\ \A d \in Conns : \A i \in 1..Len(down'[d]) :
                 \/ i \in 1..Len(down[d]) /\ down'[d][i] = down[d][i]
                 \/ d = c /\ i = Len(down'[d]) /\ down'[d][i] = f
      BY <3>1, <3>2, <3>3, FramePut
    <3> QED BY <3>1, <3>4
  <2> QED BY <2>1, <2>2
<1>3. /\ pc' \in [Reqs -> {"free", "reading"} \cup Active \cup Settled]
      /\ inFlight' \in [Conns -> SUBSET Reqs]
      /\ NoneForgotten' /\ NoSlotLeaks'
  BY SettleKeeps
<1>4. TypeOK'
  BY <1>1, <1>2, <1>3 DEF TypeOK, routes, waiting
<1>5. Wire'
  BY <1>2, ProgressKeeps
<1>6. \A q \in Reqs : pc'[q] = IF q = r THEN how ELSE pc[q]
  BY <1>1 DEF TypeOK
<1>7. Intact'
  BY <1>6, OthersIntact DEF Settled, Active
<1>8. NeverTruncated'
  BY <1>6 DEF TInv, NeverTruncated
<1>9. WaitersAccounted' /\ IsFiniteSet(waiters')
  BY WaitersKept
<1> QED BY <1>3, <1>4, <1>5, <1>7, <1>8, <1>9 DEF TInv, TunnelInv

\* The end of a request: the caller gives up, or closes the stream.
LEMMA LeaveStep ==
    ASSUME TInv, NEW r \in Reqs, GiveUp(r) \/ CloseStream(r)
    PROVE  TInv'
<1>1. TypeOK
  BY DEF TInv, TunnelInv
<1>2. queue \in [Reqs -> Seq({"chunk", "end"})]
  BY <1>1 DEF TypeOK
<1>3. CASE GiveUp(r)
  BY <1>2, <1>3, SettleStep DEF GiveUp, Settle, Settled, Active, wire
<1>4. CASE CloseStream(r)
  <2>1. \/ down' = down
        \/ \E c \in Conns :
               down' = [down EXCEPT ![c] = Append(@, [req |-> r, kind |-> "cancel"])]
    <3>1. CASE r \in inFlight[sess[r]] /\ current = sess[r]
      <4>1. pc[r] \in Active /\ sess[r] \in Conns
        BY <1>4 DEF CloseStream, Active, TInv, Wire, Fresh
      <4> QED BY <1>4, <3>1, <4>1 DEF CloseStream
    <3>2. CASE ~(r \in inFlight[sess[r]] /\ current = sess[r])
      BY <1>4, <3>2 DEF CloseStream
    <3> QED BY <3>1, <3>2
  <2> QED BY <1>2, <1>4, <2>1, SettleStep DEF CloseStream, Settle, Settled, Active
<1> QED BY <1>3, <1>4

(* The request goes out: the first and only time.                          *)
LEMMA SendStep ==
    ASSUME TInv, NEW r \in Reqs, SendRequest(r)
    PROVE  TInv'
<1>1. TypeOK /\ Wire
  BY DEF TInv, TunnelInv
<1>2. queue \in [Reqs -> Seq({"chunk", "end"})]
  BY <1>1 DEF TypeOK
<1>3. CASE current # sess[r]
  BY <1>2, <1>3, SettleStep DEF SendRequest, Settle, Settled, Active
<1>4. CASE current = sess[r]
  <2> DEFINE f == [req |-> r, kind |-> "request"]
  <2>1. f \in Frame({"request", "cancel"}) /\ f.req = r
    BY DEF Frame
  <2>2. /\ pc[r] = "opened" /\ pc' = [pc EXCEPT ![r] = "waiting"]
        /\ down' = [down EXCEPT ![current] = Append(@, f)]
        /\ UNCHANGED <<current, routes, up, job, sent, sess, head, queue, aborted,
                       got, inFlight, waiting>>
    BY <1>4 DEF SendRequest, Settle
  <2> HIDE DEF f
  <2>3. pc[r] \in Active /\ current \in Conns /\ job[r] = "none"
    BY <1>1, <1>4, <2>2 DEF Wire, Fresh, Active
  <2>4. \A q \in Reqs : pc'[q] = IF q = r THEN "waiting" ELSE pc[q]
    BY <1>1, <2>2 DEF TypeOK
  <2>5. /\ down' \in [Conns -> Seq(Frame({"request", "cancel"}))]
        /\ \A d \in Conns : \A i \in 1..Len(down'[d]) :
               \/ i \in 1..Len(down[d]) /\ down'[d][i] = down[d][i]
               \/ d = current /\ i = Len(down'[d]) /\ down'[d][i] = f
    <3>1. down \in [Conns -> Seq(Frame({"request", "cancel"}))]
      BY <1>1 DEF TypeOK
    <3>2. down' = [down EXCEPT ![current] = Append(down[current], f)]
      BY <2>2
    <3> QED BY <2>1, <2>3, <3>1, <3>2, FramePut
  <2>6. TypeOK'
    <3>1. pc' \in [Reqs -> {"free", "reading"} \cup Active \cup Settled]
      BY <1>1, <2>2 DEF TypeOK, Active
    <3> QED BY <1>1, <2>2, <2>5, <3>1 DEF TypeOK, routes, waiting
  <2>7. NoneForgotten' /\ NoSlotLeaks'
    <3>1. \A q \in Reqs : pc'[q] \in Active <=> pc[q] \in Active
      BY <2>3, <2>4 DEF Active
    <3>2. \A c \in Conns : \A q \in inFlight[c] : q \in Reqs
      BY <1>1 DEF TypeOK
    <3> QED BY <2>2, <3>1, <3>2 DEF TInv, TunnelInv, NoneForgotten, NoSlotLeaks
  <2>8. Fresh'
    BY <1>1, <2>2, <2>3, <2>4 DEF Wire, Fresh, Active
  <2>9. RequestedOnce'
    <3> SUFFICES ASSUME NEW c \in Conns, NEW i \in 1..Len(down'[c]), down'[c][i].kind = "request"
                 PROVE  LET q == down'[c][i].req IN
                        /\ job'[q] = "none" /\ sess'[q] = c
                        /\ pc'[q] \notin {"free", "reading", "opened"}
                        /\ \A j \in 1..Len(down'[c]) :
                               down'[c][j].req = q /\ down'[c][j].kind = "request" => j = i
      BY DEF RequestedOnce
    <3> DEFINE q == down'[c][i].req
    <3>1. \A d \in Conns : \A j \in 1..Len(down[d]) :
              down[d][j].kind = "request" => down[d][j].req # r
      BY <1>1, <2>2 DEF Wire, RequestedOnce
    <3>2. CASE i \in 1..Len(down[c]) /\ down'[c][i] = down[c][i]
      <4>1. /\ job[q] = "none" /\ sess[q] = c /\ pc[q] \notin {"free", "reading", "opened"}
            /\ \A j \in 1..Len(down[c]) :
                   down[c][j].req = q /\ down[c][j].kind = "request" => j = i
        BY <1>1, <3>2 DEF Wire, RequestedOnce
      <4>2. q \in Reqs /\ q # r
        BY <1>1, <3>1, <3>2, FramesTyped
      <4>3. \A j \in 1..Len(down'[c]) :
                down'[c][j].req = q /\ down'[c][j].kind = "request" => j = i
        BY <2>1, <2>5, <4>1, <4>2
      <4> QED BY <2>2, <2>4, <4>1, <4>2, <4>3
    <3>3. CASE c = current /\ i = Len(down'[c]) /\ down'[c][i] = f
      <4>1. \A j \in 1..Len(down'[c]) :
                down'[c][j].req = r /\ down'[c][j].kind = "request" => j = i
        BY <2>5, <3>1, <3>3
      <4> QED BY <1>4, <2>1, <2>2, <2>3, <2>4, <3>3, <4>1
    <3> QED BY <2>5, <3>2, <3>3
  <2>10. AnswersInOrder'
    BY <1>1, <2>2 DEF Wire, AnswersInOrder
  <2>11. Intact'
    <3> SUFFICES ASSUME NEW q \in Reqs, pc'[q] \in Active, ~aborted'[q]
                 PROVE  EndsLast(q)' /\ NothingLost(q)'
      BY DEF Intact
    <3>1. pc[q] \in Active /\ ~aborted[q]
      BY <2>2, <2>3, <2>4
    <3>2. EndsLast(q) /\ NothingLost(q)
      BY <3>1 DEF TInv, Intact
    <3> QED BY <2>2, <3>2 DEF EndsLast, NothingLost, Chunks, Bodies
  <2>12. NeverTruncated'
    BY <2>2, <2>4 DEF TInv, NeverTruncated
  <2>13. WaitersAccounted' /\ IsFiniteSet(waiters')
    BY <2>2, WaitersKept
  <2> QED BY <2>6, <2>7, <2>8, <2>9, <2>10, <2>11, <2>12, <2>13 DEF TInv, TunnelInv, Wire
<1> QED BY <1>3, <1>4

(* A request waits on, now for the body.                                   *)
LEMMA AwaitStep ==
    ASSUME TInv, NEW r \in Reqs, AwaitHead(r)
    PROVE  TInv'
<1>1. TypeOK /\ Wire
  BY DEF TInv, TunnelInv
<1>2. queue \in [Reqs -> Seq({"chunk", "end"})]
  BY <1>1 DEF TypeOK
<1>3. CASE Settle(r, "failed") /\ CloseRequest(r)
  BY <1>2, <1>3, SettleStep DEF AwaitHead, Settle, Settled, Active, wire
<1>4. CASE Settle(r, "streaming") /\ UNCHANGED inFlight
  <2>1. /\ pc[r] = "waiting" /\ pc' = [pc EXCEPT ![r] = "streaming"]
        /\ UNCHANGED <<current, routes, wire, sess, head, queue, aborted, got,
                       inFlight, waiting>>
    BY <1>4 DEF AwaitHead, Settle
  <2>2. \A q \in Reqs : pc'[q] = IF q = r THEN "streaming" ELSE pc[q]
    BY <1>1, <2>1 DEF TypeOK
  <2>3. \A q \in Reqs : pc'[q] \in Active <=> pc[q] \in Active
    BY <2>1, <2>2 DEF Active
  <2>4. TypeOK'
    <3>1. pc' \in [Reqs -> {"free", "reading"} \cup Active \cup Settled]
      BY <1>1, <2>1 DEF TypeOK, Active
    <3> QED BY <1>1, <2>1, <3>1 DEF TypeOK, routes, wire, waiting
  <2>5. NoneForgotten' /\ NoSlotLeaks'
    <3>1. \A c \in Conns : \A q \in inFlight[c] : q \in Reqs
      BY <1>1 DEF TypeOK
    <3> QED BY <2>1, <2>3, <3>1 DEF TInv, TunnelInv, NoneForgotten, NoSlotLeaks
  <2>6. Wire'
    BY <2>1, ProgressKeeps DEF wire, Active
  <2>7. Intact'
    <3> SUFFICES ASSUME NEW q \in Reqs, pc'[q] \in Active, ~aborted'[q]
                 PROVE  EndsLast(q)' /\ NothingLost(q)'
      BY DEF Intact
    <3>1. EndsLast(q) /\ NothingLost(q)
      BY <2>1, <2>3 DEF TInv, Intact
    <3> QED BY <2>1, <3>1 DEF EndsLast, NothingLost, Chunks, Bodies, wire
  <2>8. NeverTruncated'
    BY <2>1, <2>2 DEF TInv, NeverTruncated, wire
  <2>9. WaitersAccounted' /\ IsFiniteSet(waiters')
    BY <2>1, WaitersKept
  <2> QED BY <2>4, <2>5, <2>6, <2>7, <2>8, <2>9 DEF TInv, TunnelInv
<1> QED BY <1>3, <1>4 DEF AwaitHead

(* One item of the body: an abort cuts it, the end ends it when every      *)
(* chunk was read, and a chunk is handed on.                               *)
LEMMA ReadStep ==
    ASSUME TInv, NEW r \in Reqs, ReadBody(r)
    PROVE  TInv'
<1>1. TypeOK /\ Wire
  BY DEF TInv, TunnelInv
<1>2. /\ queue \in [Reqs -> Seq({"chunk", "end"})] /\ queue[r] \in Seq({"chunk", "end"})
      /\ queue[r] # <<>> /\ queue' = [queue EXCEPT ![r] = Tail(queue[r])]
      /\ pc[r] = "streaming" /\ pc[r] \in Active
  BY <1>1 DEF TypeOK, ReadBody, Active
<1>3. /\ Tail(queue[r]) \in Seq({"chunk", "end"})
      /\ Head(queue[r]) \in {"chunk", "end"}
      /\ 1 \in 1..Len(queue[r]) /\ queue[r][1] = Head(queue[r])
      /\ Len(Tail(queue[r])) = Len(queue[r]) - 1
      /\ \A i \in 1..Len(Tail(queue[r])) :
             i + 1 \in 1..Len(queue[r]) /\ Tail(queue[r])[i] = queue[r][i + 1]
  BY <1>2, TailPlaces
<1>4. /\ queue' \in [Reqs -> Seq({"chunk", "end"})]
      /\ queue'[r] = Tail(queue[r])
      /\ \A q \in Reqs \ {r} : queue'[q] = queue[q]
  BY <1>2, <1>3
<1>5. UNCHANGED <<current, routes, wire, sess, head, aborted, waiting>>
  BY DEF ReadBody
<1>6. CASE aborted[r]
  <2>1. pc' = [pc EXCEPT ![r] = "failed"] /\ CloseRequest(r) /\ UNCHANGED got
    BY <1>6 DEF ReadBody, Settle
  <2>2. "failed" \in Settled
    BY DEF Settled
  <2> QED BY <1>2, <1>4, <1>5, <2>1, <2>2, SettleStep DEF wire
<1>7. ASSUME ~aborted[r]
      PROVE  /\ EndsLast(r) /\ NothingLost(r)
             /\ Count(queue[r], {"chunk"}) \in Nat
             /\ Count(queue'[r], {"chunk"}) \in Nat
             /\ Count(up[sess[r]], {[req |-> r, kind |-> "body"]}) \in Nat
             /\ Count(queue[r], {"chunk"}) =
                    Count(queue'[r], {"chunk"}) + (IF Head(queue[r]) = "chunk" THEN 1 ELSE 0)
             /\ got[r] \in Nat /\ sent[r] \in 0..MaxChunks /\ MaxChunks \in Nat
  <2>1. EndsLast(r) /\ NothingLost(r)
    BY <1>2, <1>7 DEF TInv, Intact
  <2>2. sess[r] \in Conns
    BY <1>1, <1>2 DEF Wire, Fresh
  <2>3. Count(up[sess[r]], {[req |-> r, kind |-> "body"]}) \in Nat
    BY <1>1, <2>2, FramesTyped, PlacesFinite
  <2>4. Count(queue[r], {"chunk"}) \in Nat /\ Count(queue'[r], {"chunk"}) \in Nat
    BY <1>2, <1>3, <1>4, PlacesFinite
  <2>5. Count(queue[r], {"chunk"}) =
            Count(Tail(queue[r]), {"chunk"}) + (IF Head(queue[r]) \in {"chunk"} THEN 1 ELSE 0)
    BY <1>2, CountTail
  <2>6. got[r] \in Nat /\ sent[r] \in 0..MaxChunks /\ MaxChunks \in Nat
    BY <1>1, TunnelBoundsAssumption DEF TypeOK
  <2> QED BY <1>4, <2>1, <2>3, <2>4, <2>5, <2>6
<1>8. CASE ~aborted[r] /\ Head(queue[r]) = "end"
  <2>1. pc' = [pc EXCEPT ![r] = "done"] /\ CloseRequest(r) /\ UNCHANGED got
    BY <1>8 DEF ReadBody, Settle
  <2>2. /\ Len(queue[r]) = 1 /\ job[r] = "ended"
        /\ \A j \in 1..Len(up[sess[r]]) : up[sess[r]][j].req # r
    BY <1>3, <1>7, <1>8 DEF EndsLast
  <2>3. Count(queue[r], {"chunk"}) = 0
    <3>1. \A i \in 1..Len(queue[r]) : queue[r][i] \notin {"chunk"}
      BY <1>3, <1>8, <2>2
    <3> QED BY <1>2, <3>1, CountZero
  <2>4. Count(up[sess[r]], {[req |-> r, kind |-> "body"]}) = 0
    <3>1. sess[r] \in Conns
      BY <1>1, <1>2 DEF Wire, Fresh
    <3>2. up[sess[r]] \in Seq(Frame({"head", "body", "end"}))
      BY <1>1, <3>1, FramesTyped
    <3>3. \A i \in 1..Len(up[sess[r]]) : up[sess[r]][i] \notin {[req |-> r, kind |-> "body"]}
      BY <2>2
    <3> QED BY <3>2, <3>3, CountZero
  <2>5. got[r] = sent[r]
    BY <1>7, <1>8, <2>3, <2>4 DEF NothingLost, Chunks, Bodies
  <2>6. "done" \in Settled
    BY DEF Settled
  <2> QED BY <1>2, <1>4, <1>5, <2>1, <2>2, <2>5, <2>6, SettleStep DEF wire
<1>9. CASE ~aborted[r] /\ Head(queue[r]) # "end"
  <2>1. /\ got' = [got EXCEPT ![r] = got[r] + 1] /\ UNCHANGED <<pc, inFlight>>
        /\ Head(queue[r]) = "chunk"
    BY <1>3, <1>9 DEF ReadBody
  <2>2. /\ got[r] + 1 <= sent[r]
        /\ (got[r] + 1) + Count(queue'[r], {"chunk"})
              + Count(up[sess[r]], {[req |-> r, kind |-> "body"]}) = sent[r]
    BY <1>7, <1>9, <2>1 DEF NothingLost, Chunks, Bodies
  <2>3. \A q \in Reqs : got'[q] = IF q = r THEN got[r] + 1 ELSE got[q]
    BY <1>1, <2>1 DEF TypeOK
  <2>4. TypeOK'
    <3>1. got[r] + 1 \in 0..MaxChunks
      BY <1>7, <1>9, <2>2
    <3>2. got' \in [Reqs -> 0..MaxChunks]
      BY <1>1, <2>1, <3>1 DEF TypeOK
    <3> QED BY <1>1, <1>4, <1>5, <2>1, <3>2 DEF TypeOK, routes, wire, waiting
  <2>5. NoneForgotten' /\ NoSlotLeaks'
    BY <1>5, <2>1, RegistryKept
  <2>6. Wire'
    <3>1. Fresh'
      <4>1. \A q \in Reqs : pc'[q] \in {"free", "reading"} =>
                queue'[q] = queue[q] /\ got'[q] = got[q]
        BY <1>2, <1>4, <2>1, <2>3
      <4> QED BY <1>1, <1>5, <2>1, <4>1 DEF Wire, Fresh, wire
    <3>2. RequestedOnce' /\ AnswersInOrder'
      BY <1>1, <1>5, <2>1 DEF Wire, RequestedOnce, AnswersInOrder, wire
    <3> QED BY <3>1, <3>2 DEF Wire
  <2>7. Intact'
    <3> SUFFICES ASSUME NEW q \in Reqs, pc'[q] \in Active, ~aborted'[q]
                 PROVE  EndsLast(q)' /\ NothingLost(q)'
      BY DEF Intact
    <3>1. CASE q = r
      <4>1. NothingLost(r)'
        BY <1>5, <2>2, <2>3 DEF NothingLost, Chunks, Bodies, wire
      <4>2. EndsLast(r)'
        BY <1>3, <1>4, <1>5, <1>7, <1>9 DEF EndsLast, wire
      <4> QED BY <3>1, <4>1, <4>2
    <3>2. CASE q # r
      <4>1. EndsLast(q) /\ NothingLost(q)
        BY <1>5, <2>1 DEF TInv, Intact
      <4> QED BY <1>4, <1>5, <2>3, <3>2, <4>1 DEF EndsLast, NothingLost, Chunks, Bodies, wire
    <3> QED BY <3>1, <3>2
  <2>8. NeverTruncated'
    BY <1>2, <1>5, <2>1, <2>2, <2>3 DEF TInv, NeverTruncated, wire
  <2>9. WaitersAccounted' /\ IsFiniteSet(waiters')
    BY <1>5, WaitersKept
  <2> QED BY <2>4, <2>5, <2>6, <2>7, <2>8, <2>9 DEF TInv, TunnelInv
<1> QED BY <1>6, <1>8, <1>9

-----------------------------------------------------------------------------
(* The wire.                                                               *)

(* The runner starts a job once and cancels it at most; it never takes     *)
(* back that a job has ended.                                              *)
LEMMA RunnerReceivesStep ==
    ASSUME TInv, NEW c \in Conns, RunnerReceives(c)
    PROVE  TInv'
<1>1. TypeOK /\ Wire
  BY DEF TInv, TunnelInv
<1> DEFINE f == Head(down[c])
<1>2. /\ down \in [Conns -> Seq(Frame({"request", "cancel"}))] /\ down[c] # <<>>
      /\ down' = [down EXCEPT ![c] = Tail(down[c])]
      /\ job' = [job EXCEPT ![f.req] =
                    IF f.kind = "request" THEN "running"
                    ELSE IF job[f.req] \in {"running", "headed"} THEN "cancelled"
                    ELSE job[f.req]]
      /\ UNCHANGED <<current, routes, up, sent, requests, inFlight, waiting>>
  BY <1>1 DEF RunnerReceives, TypeOK
<1>3. /\ down' \in [Conns -> Seq(Frame({"request", "cancel"}))]
      /\ f \in Frame({"request", "cancel"}) /\ 1 \in 1..Len(down[c]) /\ down[c][1] = f
      /\ \A d \in Conns : d # c => down'[d] = down[d]
      /\ \A i \in 1..Len(down'[c]) : i + 1 \in 1..Len(down[c]) /\ down'[c][i] = down[c][i + 1]
      /\ Len(down'[c]) = Len(down[c]) - 1
  BY <1>2, FrameTaken
<1> HIDE DEF f
<1>4. f.req \in Reqs
  BY <1>3 DEF Frame
<1>5. \A q \in Reqs : q # f.req => job'[q] = job[q]
  BY <1>1, <1>2 DEF TypeOK
<1>6. f.kind = "request" =>
          /\ job[f.req] = "none" /\ sess[f.req] = c
          /\ pc[f.req] \notin {"free", "reading", "opened"}
          /\ \A j \in 1..Len(down[c]) :
                 down[c][j].req = f.req /\ down[c][j].kind = "request" => j = 1
  BY <1>1, <1>3 DEF Wire, RequestedOnce
<1>7. \A q \in Reqs : /\ job[q] = "ended" => job'[q] = "ended"
                      /\ job[q] = "none" /\ job'[q] # "none" =>
                             q = f.req /\ f.kind = "request"
  BY <1>1, <1>2, <1>4, <1>6 DEF TypeOK
<1>8. TypeOK'
  <2>1. job' \in [Reqs -> {"none", "running", "headed", "ended", "cancelled"}]
    BY <1>1, <1>2, <1>4 DEF TypeOK
  <2> QED BY <1>1, <1>2, <1>3, <2>1 DEF TypeOK, routes, requests, waiting
<1>9. NoneForgotten' /\ NoSlotLeaks'
  BY <1>2, RegistryKept DEF requests
<1>10. Fresh'
  BY <1>1, <1>2, <1>6, <1>7 DEF Wire, Fresh, requests
<1>11. RequestedOnce'
  <2> SUFFICES ASSUME NEW d \in Conns, NEW i \in 1..Len(down'[d]), down'[d][i].kind = "request"
               PROVE  LET q == down'[d][i].req IN
                      /\ job'[q] = "none" /\ sess'[q] = d
                      /\ pc'[q] \notin {"free", "reading", "opened"}
                      /\ \A j \in 1..Len(down'[d]) :
                             down'[d][j].req = q /\ down'[d][j].kind = "request" => j = i
    BY DEF RequestedOnce
  <2> DEFINE q == down'[d][i].req
             k == IF d = c THEN i + 1 ELSE i
  <2>1. k \in 1..Len(down[d]) /\ down[d][k] = down'[d][i] /\ (d = c => k # 1)
    BY <1>3
  <2>2. /\ job[q] = "none" /\ sess[q] = d /\ pc[q] \notin {"free", "reading", "opened"}
        /\ \A j \in 1..Len(down[d]) :
               down[d][j].req = q /\ down[d][j].kind = "request" => j = k
    BY <1>1, <2>1 DEF Wire, RequestedOnce
  <2>3. q \in Reqs
    BY <1>1, <2>1, FramesTyped
  <2>4. job'[q] = "none"
    BY <1>3, <1>6, <1>7, <2>1, <2>2, <2>3
  <2>5. \A j \in 1..Len(down'[d]) :
            down'[d][j].req = q /\ down'[d][j].kind = "request" => j = i
    <3> SUFFICES ASSUME NEW j \in 1..Len(down'[d]), down'[d][j].req = q,
                        down'[d][j].kind = "request"
                 PROVE  j = i
      OBVIOUS
    <3>1. CASE d = c
      <4>1. j + 1 \in 1..Len(down[d]) /\ down[d][j + 1] = down'[d][j]
        BY <1>3, <3>1
      <4>2. j + 1 = i + 1
        BY <2>2, <3>1, <4>1
      <4> QED BY <4>2
    <3>2. CASE d # c
      BY <1>3, <2>2, <3>2
    <3> QED BY <3>1, <3>2
  <2> QED BY <1>2, <2>2, <2>4, <2>5 DEF requests
<1>12. AnswersInOrder'
  <2>1. \A d \in Conns : \A i \in 1..Len(up[d]) : up[d][i].req \in Reqs
    BY <1>1, FramesTyped
  <2> QED BY <1>1, <1>2, <1>7, <2>1 DEF Wire, AnswersInOrder, requests
<1>13. Intact'
  <2> SUFFICES ASSUME NEW q \in Reqs, pc'[q] \in Active, ~aborted'[q]
               PROVE  EndsLast(q)' /\ NothingLost(q)'
    BY DEF Intact
  <2> QED BY <1>2, <1>7, SameIntact DEF requests
<1>14. NeverTruncated'
  BY <1>2, <1>7 DEF TInv, NeverTruncated, requests
<1>15. WaitersAccounted' /\ IsFiniteSet(waiters')
  BY <1>2, WaitersKept
<1> QED BY <1>8, <1>9, <1>10, <1>11, <1>12, <1>13, <1>14, <1>15 DEF TInv, TunnelInv, Wire

(* The runner puts one frame of a response on the wire; the end of it only *)
(* while the job runs, so nothing follows.                                 *)
LEMMA RunnerAnswersStep ==
    ASSUME TInv, NEW r \in Reqs, NEW kind \in {"head", "body", "end"}, RunnerAnswers(r, kind)
    PROVE  TInv'
<1>1. TypeOK /\ Wire
  BY DEF TInv, TunnelInv
<1> DEFINE c == sess[r]
           f == [req |-> r, kind |-> kind]
<1>2. /\ c \in Conns
      /\ up \in [Conns -> Seq(Frame({"head", "body", "end"}))]
      /\ f \in Frame({"head", "body", "end"}) /\ f.req = r /\ f.kind = kind
  BY <1>1 DEF RunnerAnswers, TypeOK, Frame
<1>3. /\ up' = [up EXCEPT ![c] = Append(up[c], f)]
      /\ UNCHANGED <<current, routes, down, requests, inFlight, waiting>>
      /\ job[r] \in {"running", "headed"}
  BY DEF RunnerAnswers, Send
<1>4. /\ \A q \in Reqs : q # r => job'[q] = job[q] /\ sent'[q] = sent[q]
      /\ job'[r] = IF kind = "head" THEN "headed" ELSE IF kind = "end" THEN "ended" ELSE job[r]
      /\ sent'[r] = IF kind = "body" THEN sent[r] + 1 ELSE sent[r]
      /\ job' \in [Reqs -> {"none", "running", "headed", "ended", "cancelled"}]
  BY <1>1 DEF RunnerAnswers, TypeOK
<1>5. sent' \in [Reqs -> 0..MaxChunks]
  <2>1. sent \in [Reqs -> 0..MaxChunks] /\ MaxChunks \in Nat
    BY <1>1, TunnelBoundsAssumption DEF TypeOK
  <2>2. \/ sent' = sent
        \/ sent[r] < MaxChunks /\ sent' = [sent EXCEPT ![r] = sent[r] + 1]
    BY DEF RunnerAnswers
  <2>3. sent[r] < MaxChunks => sent[r] + 1 \in 0..MaxChunks
    BY <2>1
  <2> QED BY <2>1, <2>2, <2>3
<1>6. c \in Conns /\ f \in Frame({"head", "body", "end"}) /\ f.req = r /\ f.kind = kind
  BY <1>2
<1> HIDE DEF f
<1>7. /\ up' \in [Conns -> Seq(Frame({"head", "body", "end"}))]
      /\ \A d \in Conns : \A i \in 1..Len(up'[d]) :
             \/ i \in 1..Len(up[d]) /\ up'[d][i] = up[d][i]
             \/ d = c /\ i = Len(up'[d]) /\ up'[d][i] = f
      /\ \A i \in 1..Len(up[c]) : i < Len(up'[c])
  BY <1>2, <1>3, FramePut
<1>8. \A d \in Conns : up'[d] = IF d = c THEN Append(up[d], f) ELSE up[d]
  BY <1>2, <1>3
<1>9. TypeOK'
  BY <1>1, <1>3, <1>4, <1>5, <1>7 DEF TypeOK, routes, requests, waiting
<1>10. NoneForgotten' /\ NoSlotLeaks'
  BY <1>3, RegistryKept DEF requests
<1>11. Fresh'
  <2>1. pc[r] \notin {"free", "reading", "opened"}
    BY <1>1, <1>3 DEF Wire, Fresh
  <2> QED BY <1>1, <1>3, <1>4, <2>1 DEF Wire, Fresh, requests
<1>12. RequestedOnce'
  <2>1. \A d \in Conns : \A i \in 1..Len(down[d]) :
            down[d][i].kind = "request" =>
                job'[down[d][i].req] = job[down[d][i].req]
    BY <1>1, <1>3, <1>4, FramesTyped DEF Wire, RequestedOnce
  <2> QED BY <1>1, <1>3, <2>1 DEF Wire, RequestedOnce, requests
<1>13. AnswersInOrder'
  <2> SUFFICES ASSUME NEW d \in Conns, NEW i \in 1..Len(up'[d])
               PROVE  /\ sess'[up'[d][i].req] = d
                      /\ up'[d][i].kind = "end" =>
                             /\ job'[up'[d][i].req] = "ended"
                             /\ \A j \in 1..Len(up'[d]) : up'[d][j].req = up'[d][i].req => j <= i
    BY DEF AnswersInOrder
  <2>1. CASE i \in 1..Len(up[d]) /\ up'[d][i] = up[d][i]
    <3>1. /\ sess[up[d][i].req] = d /\ up[d][i].req \in Reqs
          /\ up[d][i].kind = "end" =>
                 /\ job[up[d][i].req] = "ended"
                 /\ \A j \in 1..Len(up[d]) : up[d][j].req = up[d][i].req => j <= i
      BY <1>1, <2>1, FramesTyped DEF Wire, AnswersInOrder
    <3>2. up[d][i].kind = "end" => up[d][i].req # r
      BY <1>3, <3>1
    <3>3. up[d][i].kind = "end" => job'[up[d][i].req] = "ended"
      BY <1>4, <3>1, <3>2
    <3>4. ASSUME up[d][i].kind = "end", NEW j \in 1..Len(up'[d]),
                 up'[d][j].req = up[d][i].req
          PROVE  j <= i
      <4>1. up'[d][j] # f
        BY <1>6, <3>2, <3>4
      <4>2. j \in 1..Len(up[d]) /\ up'[d][j] = up[d][j]
        BY <1>7, <4>1
      <4> QED BY <3>1, <3>4, <4>2
    <3> QED BY <1>3, <2>1, <3>1, <3>3, <3>4 DEF requests
  <2>2. CASE d = c /\ i = Len(up'[d]) /\ up'[d][i] = f
    BY <1>3, <1>4, <1>6, <2>2 DEF requests
  <2> QED BY <1>7, <2>1, <2>2
<1>14. Intact'
  <2> SUFFICES ASSUME NEW q \in Reqs, pc'[q] \in Active, ~aborted'[q]
               PROVE  EndsLast(q)' /\ NothingLost(q)'
    BY DEF Intact
  <2> DEFINE K == {[req |-> q, kind |-> "body"]}
  <2>1. EndsLast(q) /\ NothingLost(q) /\ sess[q] \in Conns
    BY <1>1, <1>3 DEF TInv, Intact, Wire, Fresh, requests
  <2>2. EndsLast(q)'
    <3> SUFFICES ASSUME NEW i \in 1..Len(queue[q]), queue[q][i] = "end"
                 PROVE  /\ i = Len(queue[q]) /\ job'[q] = "ended"
                        /\ \A j \in 1..Len(up'[sess[q]]) : up'[sess[q]][j].req # q
      BY <1>3 DEF EndsLast, requests
    <3>1. /\ i = Len(queue[q]) /\ job[q] = "ended"
          /\ \A j \in 1..Len(up[sess[q]]) : up[sess[q]][j].req # q
      BY <2>1 DEF EndsLast
    <3>2. q # r
      BY <1>3, <3>1
    <3> QED BY <1>4, <1>6, <1>7, <2>1, <3>1, <3>2
  <2>3. NothingLost(q)'
    <3>1. f \in K <=> q = r /\ kind = "body"
      BY <1>6 DEF f
    <3>2. Count(up'[sess[q]], K) = Count(up[sess[q]], K) + (IF f \in K THEN 1 ELSE 0)
      <4>1. CASE sess[q] = c
        <5>1. up[sess[q]] \in Seq(Frame({"head", "body", "end"}))
          BY <1>2, <2>1
        <5>2. up'[sess[q]] = Append(up[sess[q]], f)
          BY <1>8, <2>1, <4>1
        <5> HIDE DEF K
        <5> QED BY <1>6, <5>1, <5>2, CountAppend
      <4>2. CASE sess[q] # c
        <5>1. up'[sess[q]] = up[sess[q]] /\ f \notin K
          BY <1>8, <2>1, <3>1, <4>2
        <5>2. Count(up[sess[q]], K) \in Nat
          BY <1>2, <2>1, PlacesFinite
        <5> HIDE DEF K
        <5> QED BY <5>1, <5>2
      <4> QED BY <4>1, <4>2
    <3>3. /\ Count(up[sess[q]], K) \in Nat /\ Count(queue[q], {"chunk"}) \in Nat
          /\ got[q] \in Nat /\ sent[q] \in Nat
      <4>1. Count(up[sess[q]], K) \in Nat
        BY <1>2, <2>1, PlacesFinite
      <4>2. queue[q] \in Seq({"chunk", "end"}) /\ got[q] \in Nat /\ sent[q] \in Nat
        BY <1>1, TunnelBoundsAssumption DEF TypeOK
      <4> QED BY <4>1, <4>2, PlacesFinite
    <3>4. got[q] + Count(queue[q], {"chunk"}) + Count(up[sess[q]], K) = sent[q]
      BY <2>1 DEF NothingLost, Chunks, Bodies
    <3>5. sent'[q] = sent[q] + (IF f \in K THEN 1 ELSE 0)
      BY <1>4, <3>1, <3>3
    <3>6. got[q] + Count(queue[q], {"chunk"}) + Count(up'[sess[q]], K) = sent'[q]
      <4> HIDE DEF K
      <4> QED BY <3>2, <3>3, <3>4, <3>5
    <3> QED BY <1>3, <3>6 DEF NothingLost, Chunks, Bodies, requests
  <2> QED BY <2>2, <2>3
<1>15. NeverTruncated'
  <2>1. \A q \in Reqs : /\ got[q] <= sent[q] /\ got[q] \in Nat /\ sent[q] \in Nat
                        /\ pc[q] = "done" => job[q] = "ended" /\ got[q] = sent[q]
    BY <1>1, TunnelBoundsAssumption DEF TInv, NeverTruncated, TypeOK
  <2>2. pc[r] # "done"
    BY <1>3, <2>1
  <2> QED BY <1>3, <1>4, <2>1, <2>2 DEF NeverTruncated, requests
<1>16. WaitersAccounted' /\ IsFiniteSet(waiters')
  BY <1>3, WaitersKept
<1> QED BY <1>9, <1>10, <1>11, <1>12, <1>13, <1>14, <1>15, <1>16 DEF TInv, TunnelInv, Wire

(* A frame of a request that still waits is routed to it, and the end is   *)
(* queued after every chunk.                                               *)
LEMMA ReceiveStep ==
    ASSUME TInv, NEW c \in Conns, Receive(c)
    PROVE  TInv'
<1>1. TypeOK /\ Wire
  BY DEF TInv, TunnelInv
<1> DEFINE f == Head(up[c])
           item == IF f.kind = "body" THEN "chunk" ELSE "end"
           keep == ~Routed(c, f.req) \/ f.kind = "head"
<1>2. /\ up \in [Conns -> Seq(Frame({"head", "body", "end"}))] /\ up[c] # <<>>
      /\ up' = [up EXCEPT ![c] = Tail(up[c])]
  BY <1>1 DEF Receive, TypeOK
<1>3. /\ UNCHANGED <<current, routes, down, job, sent, pc, sess, aborted, got,
                     inFlight, waiting>>
      /\ head' = [head EXCEPT ![f.req] =
                      IF Routed(c, f.req) /\ f.kind = "head" /\ head[f.req] = "pending"
                      THEN "set" ELSE head[f.req]]
      /\ queue' = [queue EXCEPT ![f.req] =
                       IF keep THEN queue[f.req] ELSE Append(queue[f.req], item)]
  BY DEF Receive
<1>4. /\ up' \in [Conns -> Seq(Frame({"head", "body", "end"}))]
      /\ f \in Frame({"head", "body", "end"}) /\ 1 \in 1..Len(up[c]) /\ up[c][1] = f
      /\ \A d \in Conns : d # c => up'[d] = up[d]
      /\ up'[c] = Tail(up[c])
      /\ \A i \in 1..Len(up'[c]) : i + 1 \in 1..Len(up[c]) /\ up'[c][i] = up[c][i + 1]
      /\ Len(up'[c]) = Len(up[c]) - 1
  BY <1>2, FrameTaken
<1>5. f.req \in Reqs /\ f.kind \in {"head", "body", "end"} /\ item \in {"chunk", "end"}
  BY <1>4 DEF Frame
<1>6. /\ sess[f.req] = c
      /\ f.kind = "end" =>
             /\ job[f.req] = "ended"
             /\ \A j \in 1..Len(up[c]) : up[c][j].req = f.req => j <= 1
  BY <1>1, <1>4 DEF Wire, AnswersInOrder
<1> HIDE DEF f, keep, item
<1>7. /\ \A q \in Reqs : q # f.req => queue'[q] = queue[q]
      /\ queue'[f.req] = IF keep THEN queue[f.req] ELSE Append(queue[f.req], item)
      /\ queue' \in [Reqs -> Seq({"chunk", "end"})]
      /\ head' \in [Reqs -> {"pending", "set", "error"}]
  <2>1. /\ queue \in [Reqs -> Seq({"chunk", "end"})]
        /\ head \in [Reqs -> {"pending", "set", "error"}]
    BY <1>1 DEF TypeOK
  <2>2. Append(queue[f.req], item) \in Seq({"chunk", "end"})
    BY <1>5, <2>1
  <2> QED BY <1>3, <1>5, <2>1, <2>2
<1>8. TypeOK'
  BY <1>1, <1>3, <1>4, <1>7 DEF TypeOK, routes, waiting
<1>9. NoneForgotten' /\ NoSlotLeaks'
  BY <1>3, RegistryKept
<1>10. Fresh'
  <2>1. pc[f.req] \notin {"free", "reading"}
    BY <1>1, <1>5, <1>6, ConnsAssumption DEF Wire, Fresh
  <2> QED BY <1>1, <1>3, <1>7, <2>1 DEF Wire, Fresh
<1>11. RequestedOnce'
  BY <1>1, <1>3 DEF Wire, RequestedOnce
<1>12. AnswersInOrder'
  <2> SUFFICES ASSUME NEW d \in Conns, NEW i \in 1..Len(up'[d])
               PROVE  /\ sess[up'[d][i].req] = d
                      /\ up'[d][i].kind = "end" =>
                             /\ job[up'[d][i].req] = "ended"
                             /\ \A j \in 1..Len(up'[d]) : up'[d][j].req = up'[d][i].req => j <= i
    BY <1>3 DEF AnswersInOrder
  <2>1. CASE d = c
    <3>1. i + 1 \in 1..Len(up[d]) /\ up'[d][i] = up[d][i + 1]
      BY <1>4, <2>1
    <3>2. /\ sess[up[d][i + 1].req] = d
          /\ up[d][i + 1].kind = "end" =>
                 /\ job[up[d][i + 1].req] = "ended"
                 /\ \A j \in 1..Len(up[d]) : up[d][j].req = up[d][i + 1].req => j <= i + 1
      BY <1>1, <3>1 DEF Wire, AnswersInOrder
    <3>3. ASSUME up'[d][i].kind = "end", NEW j \in 1..Len(up'[d]), up'[d][j].req = up'[d][i].req
          PROVE  j <= i
      <4>1. j + 1 \in 1..Len(up[d]) /\ up'[d][j] = up[d][j + 1]
        BY <1>4, <2>1
      <4>2. j + 1 <= i + 1
        BY <3>1, <3>2, <3>3, <4>1
      <4> QED BY <4>2
    <3> QED BY <3>1, <3>2, <3>3
  <2>2. CASE d # c
    BY <1>1, <1>4, <2>2 DEF Wire, AnswersInOrder
  <2> QED BY <2>1, <2>2
<1>13. Intact'
  <2> SUFFICES ASSUME NEW q \in Reqs, pc'[q] \in Active, ~aborted'[q]
               PROVE  EndsLast(q)' /\ NothingLost(q)'
    BY DEF Intact
  <2> DEFINE K == {[req |-> q, kind |-> "body"]}
  <2>1. /\ EndsLast(q) /\ NothingLost(q) /\ sess[q] \in Conns
        /\ current = sess[q] /\ q \in inFlight[current]
    BY <1>1, <1>3 DEF TInv, TunnelInv, NoneForgotten, Intact, Wire, Fresh
  <2>2. /\ Count(up[sess[q]], K) \in Nat /\ Count(queue[q], {"chunk"}) \in Nat
        /\ Count(up'[sess[q]], K) \in Nat /\ Count(queue'[q], {"chunk"}) \in Nat
        /\ got[q] \in Nat /\ sent[q] \in Nat
    <3>1. Count(up[sess[q]], K) \in Nat /\ Count(up'[sess[q]], K) \in Nat
      BY <1>2, <1>4, <2>1, PlacesFinite
    <3>2. /\ queue[q] \in Seq({"chunk", "end"}) /\ queue'[q] \in Seq({"chunk", "end"})
          /\ got[q] \in Nat /\ sent[q] \in Nat
      BY <1>1, <1>7, TunnelBoundsAssumption DEF TypeOK
    <3> QED BY <3>1, <3>2, PlacesFinite
  <2>3. /\ f \in K <=> q = f.req /\ f.kind = "body"
        /\ got[q] + Count(queue[q], {"chunk"}) + Count(up[sess[q]], K) = sent[q]
    <3>1. f \in K <=> q = f.req /\ f.kind = "body"
      BY <1>4 DEF Frame
    <3> QED BY <2>1, <3>1 DEF NothingLost, Chunks, Bodies
  <2>4. sess[q] = c => Count(up[c], K) = Count(up'[c], K) + (IF f \in K THEN 1 ELSE 0)
    <3>1. up[c] \in Seq(Frame({"head", "body", "end"}))
      BY <1>2
    <3> HIDE DEF K
    <3> QED BY <1>2, <1>4, <3>1, CountTail DEF f
  <2>5. CASE q # f.req
    <3>1. Count(up'[sess[q]], K) = Count(up[sess[q]], K)
      <4>1. f \notin K
        BY <2>3, <2>5
      <4> HIDE DEF K
      <4>2. CASE sess[q] = c
        BY <2>2, <2>4, <4>1, <4>2
      <4>3. CASE sess[q] # c
        BY <1>4, <2>1, <4>3
      <4> QED BY <4>2, <4>3
    <3>2. NothingLost(q)'
      BY <1>3, <1>7, <2>3, <2>5, <3>1 DEF NothingLost, Chunks, Bodies
    <3>3. (\A j \in 1..Len(up[sess[q]]) : up[sess[q]][j].req # q)
              => \A j \in 1..Len(up'[sess[q]]) : up'[sess[q]][j].req # q
      <4>1. CASE sess[q] = c
        BY <1>4, <4>1
      <4>2. CASE sess[q] # c
        BY <1>4, <2>1, <4>2
      <4> QED BY <4>1, <4>2
    <3>4. EndsLast(q)'
      BY <1>3, <1>7, <2>1, <2>5, <3>3 DEF EndsLast
    <3> QED BY <3>2, <3>4
  <2>6. CASE q = f.req
    <3>1. sess[q] = c /\ Routed(c, q) /\ queue[q] \in Seq({"chunk", "end"})
      BY <1>1, <1>6, <2>1, <2>6 DEF Routed, TypeOK
    <3>2. \A i \in 1..Len(queue[q]) : queue[q][i] # "end"
      BY <1>4, <2>1, <2>6, <3>1 DEF EndsLast
    <3>3. CASE f.kind = "head"
      <4>1. keep /\ f \notin K
        BY <2>3, <3>3 DEF keep
      <4>2. queue'[q] = queue[q] /\ Count(up'[c], K) = Count(up[c], K)
        <5> HIDE DEF K
        <5> QED BY <1>7, <2>2, <2>4, <2>6, <3>1, <4>1
      <4>3. NothingLost(q)'
        BY <1>3, <2>3, <3>1, <4>2 DEF NothingLost, Chunks, Bodies
      <4>4. EndsLast(q)'
        BY <3>2, <4>2 DEF EndsLast
      <4> QED BY <4>3, <4>4
    <3>4. CASE f.kind # "head"
      <4>1. ~keep /\ queue'[q] = Append(queue[q], item)
        BY <1>7, <2>6, <3>1, <3>4 DEF keep
      <4>2. Count(queue'[q], {"chunk"}) =
                Count(queue[q], {"chunk"}) + (IF item \in {"chunk"} THEN 1 ELSE 0)
        BY <1>5, <3>1, <4>1, CountAppend
      <4>3. item \in {"chunk"} <=> f \in K
        BY <2>3, <2>6 DEF item
      <4>4. NothingLost(q)'
        <5>1. got[q] + Count(queue'[q], {"chunk"}) + Count(up'[c], K) = sent[q]
          <6>1. /\ got[q] + Count(queue[q], {"chunk"}) + Count(up[c], K) = sent[q]
                /\ Count(up[c], K) \in Nat /\ Count(up'[c], K) \in Nat
                /\ Count(up[c], K) = Count(up'[c], K) + (IF f \in K THEN 1 ELSE 0)
            BY <2>2, <2>3, <2>4, <3>1
          <6> HIDE DEF K
          <6>2. CASE f \in K
            BY <2>2, <4>2, <4>3, <6>1, <6>2
          <6>3. CASE f \notin K
            BY <2>2, <4>2, <4>3, <6>1, <6>3
          <6> QED BY <6>2, <6>3
        <5> QED BY <1>3, <3>1, <5>1 DEF NothingLost, Chunks, Bodies
      <4>5. /\ \A i \in 1..Len(queue'[q]) :
                   \/ i \in 1..Len(queue[q]) /\ queue'[q][i] = queue[q][i]
                   \/ i = Len(queue'[q]) /\ queue'[q][i] = item
        BY <1>5, <3>1, <4>1, AppendPlaces
      <4>6. item = "end" =>
                /\ job[q] = "ended"
                /\ \A j \in 1..Len(up'[c]) : up'[c][j].req # q
        <5>1. item = "end" => f.kind = "end"
          BY <1>5, <3>4 DEF item
        <5>2. ASSUME item = "end", NEW j \in 1..Len(up'[c])
              PROVE  up'[c][j].req # q
          <6>1. j + 1 \in 1..Len(up[c]) /\ up'[c][j] = up[c][j + 1] /\ ~(j + 1 <= 1)
            BY <1>4
          <6> QED BY <1>6, <2>6, <5>1, <5>2, <6>1
        <5> QED BY <1>6, <2>6, <5>1, <5>2
      <4>7. EndsLast(q)'
        BY <1>3, <3>1, <3>2, <4>5, <4>6 DEF EndsLast
      <4> QED BY <4>4, <4>7
    <3> QED BY <3>3, <3>4
  <2> QED BY <2>5, <2>6
<1>14. NeverTruncated'
  BY <1>3 DEF TInv, NeverTruncated
<1>15. WaitersAccounted' /\ IsFiniteSet(waiters')
  BY <1>3, WaitersKept
<1> QED BY <1>8, <1>9, <1>10, <1>11, <1>12, <1>13, <1>14, <1>15 DEF TInv, TunnelInv, Wire

-----------------------------------------------------------------------------
\* Before the first connection nothing is registered and nothing travels.
LEMMA InitTInv == TunnelInit => TInv
<1> SUFFICES ASSUME TunnelInit PROVE TInv
  OBVIOUS
<1>1. <<>> \in Seq(Frame({"request", "cancel"})) /\ <<>> \in Seq(Frame({"head", "body", "end"}))
      /\ <<>> \in Seq({"chunk", "end"}) /\ 0 \in 0..MaxChunks /\ 0 \in 0..MaxWaiters
  BY TunnelBoundsAssumption
<1>2. TypeOK
  <2>1. aborted \in [Reqs -> BOOLEAN]
    BY Zenon DEF TunnelInit
  <2>2. /\ down \in [Conns -> Seq(Frame({"request", "cancel"}))]
        /\ up \in [Conns -> Seq(Frame({"head", "body", "end"}))]
        /\ queue \in [Reqs -> Seq({"chunk", "end"})]
    BY <1>1 DEF TunnelInit
  <2>3. /\ sent \in [Reqs -> 0..MaxChunks] /\ got \in [Reqs -> 0..MaxChunks]
        /\ waiterTotal \in 0..MaxWaiters
    BY <1>1 DEF TunnelInit
  <2> QED BY <2>1, <2>2, <2>3 DEF TunnelInit, TypeOK
<1>3. NoneForgotten /\ NoSlotLeaks
  BY DEF TunnelInit, NoneForgotten, NoSlotLeaks, Active
<1>4. WaitersAccounted /\ IsFiniteSet(waiters)
  BY FS_EmptySet DEF TunnelInit, WaitersAccounted
<1>5. Fresh
  BY DEF TunnelInit, Fresh, Active
<1>6. RequestedOnce /\ AnswersInOrder
  BY DEF TunnelInit, RequestedOnce, AnswersInOrder
<1>7. Intact
  BY DEF TunnelInit, Intact, Active
<1>8. NeverTruncated
  BY DEF TunnelInit, NeverTruncated
<1> QED BY <1>2, <1>3, <1>4, <1>5, <1>6, <1>7, <1>8 DEF TInv, TunnelInv, Wire

\* Every step of handlers, requests, waiters and runner keeps the invariant.
LEMMA TunnelStepKeeps == TInv /\ [TunnelNext]_tunnelVars => TInv'
<1> SUFFICES ASSUME TInv, [TunnelNext]_tunnelVars PROVE TInv'
  OBVIOUS
<1>1. CASE UNCHANGED tunnelVars
  <2>1. UNCHANGED <<current, routes, wire, requests, inFlight, waiting>>
    BY <1>1 DEF tunnelVars
  <2>2. TypeOK'
    BY <2>1 DEF TInv, TunnelInv, TypeOK, routes, wire, requests, waiting
  <2>3. Wire' /\ Intact' /\ NeverTruncated'
    BY <2>1, WireKept DEF Undisturbed, wire, requests
  <2>4. NoneForgotten' /\ NoSlotLeaks'
    BY <2>1, RegistryKept DEF requests
  <2>5. WaitersAccounted' /\ IsFiniteSet(waiters')
    BY <2>1, WaitersKept
  <2> QED BY <2>2, <2>3, <2>4, <2>5 DEF TInv, TunnelInv
<1>2. ASSUME NEW c \in Conns,
             \/ Dial(c) \/ Refuse(c) \/ LostBeforeHello(c) \/ Connected(c)
             \/ HelperEnds(c) \/ Disconnected(c)
      PROVE  TInv'
  <2>1. "dead" \in {"dead", "closed"}
    OBVIOUS
  <2> QED BY <1>2, <2>1, RouteStep
<1>3. ASSUME NEW c \in Conns, NEW how \in {"dead", "closed"}, LinkBreaks(c, how)
      PROVE  TInv'
  BY <1>3, RouteStep
<1> QED BY <1>1, <1>2, <1>3, RegisterStep, RemovalStep, AskStep, OpenStep, SendStep,
           AwaitStep, ReadStep, LeaveStep, WaiterStep, RunnerReceivesStep,
           RunnerAnswersStep, ReceiveStep
        DEF TunnelNext, Handler, Request, Waiter

(* What the registry, the routes, the transport and the runner's end keep  *)
(* together.                                                               *)
THEOREM TunnelInvariance == TunnelSpec => []TInv
<1>1. TunnelInit => TInv
  BY InitTInv
<1>2. TInv /\ [TunnelNext]_tunnelVars => TInv'
  BY TunnelStepKeeps
<1> QED BY <1>1, <1>2, PTL DEF TunnelSpec

(* The registry is sound for any number of connections, requests and       *)
(* waiters: no awaiter hangs on a tunnel that is gone, nothing is tracked  *)
(* for nobody, and waiters are counted exactly.                            *)
THEOREM RegistrySound == TunnelSpec => []TunnelInv
<1>1. TInv => TunnelInv
  BY DEF TInv
<1> QED BY <1>1, TunnelInvariance, PTL

(* A response taken for whole is whole, however many chunks it has and     *)
(* wherever the tunnel breaks or is replaced.                              *)
THEOREM ResponsesWhole == TunnelSpec => []NeverTruncated
<1>1. TInv => NeverTruncated
  BY DEF TInv
<1> QED BY <1>1, TunnelInvariance, PTL

(* Newest wins: a step that leaves the registry empty is the teardown of   *)
(* the registered tunnel's own handler, or of a connection whose hello     *)
(* could not be decoded.                                                   *)
LEMMA NewestWinsStep ==
    ASSUME TypeOK, [TunnelNext]_tunnelVars, NEW c \in Conns, current = c, current' = NoConn
    PROVE  \/ conn[c] = "closing"
           \/ \E d \in Conns : conn[d] = "accepted" /\ conn'[d] = "again"
<1>1. current' # current
  BY ConnsAssumption
<1>2. ASSUME NEW d \in Conns, Register(d)
      PROVE  FALSE
  BY <1>2, ConnsAssumption DEF Register
<1>3. ASSUME NEW d \in Conns, HelloFails(d)
      PROVE  conn[d] = "accepted" /\ conn'[d] = "again"
  BY <1>3 DEF HelloFails, TypeOK
<1>4. ASSUME NEW d \in Conns, Leave(d)
      PROVE  conn[c] = "closing"
  BY <1>1, <1>4 DEF Leave, Deregister
<1>5. ~UNCHANGED tunnelVars
  BY <1>1 DEF tunnelVars
<1> QED BY <1>1, <1>2, <1>3, <1>4, <1>5
        DEF TunnelNext, Dial, Refuse, LostBeforeHello, Connected, Handler, HelperEnds,
            Disconnected, LinkBreaks, RunnerReceives, Receive, Ask, Request, OpenRequest,
            SendRequest, AwaitHead, ReadBody, GiveUp, CloseStream, RunnerAnswers,
            StartWait, Waiter, EndWait, WakeUp

\* A registered tunnel is replaced by a newer one, or leaves by its own handler's
\* teardown, or by a hello that cannot be decoded; an older handler's teardown
\* never takes it away, for any number of connections.
THEOREM NewestTunnelWins == TunnelSpec => NewestWins
<1>1. TInv /\ [TunnelNext]_tunnelVars =>
          [\A c \in Conns :
              current = c /\ current' = NoConn =>
                  \/ conn[c] = "closing"
                  \/ \E d \in Conns : conn[d] = "accepted" /\ conn'[d] = "again"]_tunnelVars
  BY NewestWinsStep DEF TInv, TunnelInv
<1> QED BY <1>1, TunnelInvariance, PTL DEF TunnelSpec, NewestWins
=============================================================================
