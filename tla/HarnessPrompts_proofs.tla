----------------------- MODULE HarnessPrompts_proofs -----------------------
(***************************************************************************)
(* Proofs about HarnessPrompts, for any number of attempts and answers.    *)
(* PromptInv is inductive: a wait takes out only its own registration, so  *)
(* the wait registered last stays registered while it lives, and a verdict *)
(* that finds nothing registered is found by the next attempt.             *)
(***************************************************************************)
EXTENDS HarnessPrompts, TLAPS

(* What the response does keeps the hook well typed.                       *)
LEMMA Responds ==
    ASSUME TypeOK, NEW a \in Attempts, NEW w \in {"none", "ask"} \cup Verdicts,
           Respond(a, w)
    PROVE  /\ sent' = sent /\ line' = line
           /\ hook' \in {"asking", "pausing", "over"}
           /\ told' \in {"none", "ask"} \cup Verdicts
BY DEF Respond, TypeOK, asker

(* An event is set for the parked wait or for none.                        *)
LEMMA Wakes ==
    ASSUME TypeOK, Wake PROVE elsewhere' \in [Attempts -> BOOLEAN]
BY DEF Wake, TypeOK

\* The number 0, which stands for no wait, is no attempt.
LEMMA Positive == \A a \in Attempts : a \in 0..MaxAttempts /\ a # 0
BY AttemptsAssumption DEF Attempts

\* Before the first post nothing is parked and no card is shown.
LEMMA InitInv == Init => PromptInv
<1> SUFFICES ASSUME Init PROVE PromptInv
  OBVIOUS
<1>1. TypeOK
  BY AttemptsAssumption DEF Init, TypeOK
<1>2. ServesThePosted /\ LatestIsRegistered /\ TombIsNext /\ CardsAreBacked
  BY DEF Init, ServesThePosted, LatestIsRegistered, TombIsNext, CardsAreBacked
<1> QED BY <1>1, <1>2 DEF PromptInv

(* The hook posts, is cut off or ends: on the server nothing changes but   *)
(* the arrival of a request.                                               *)
LEMMA HookKeeps ==
    ASSUME PromptInv, PostPrompt \/ Sever \/ HookEnds PROVE PromptInv'
<1>0. sent \in 0..MaxAttempts /\ MaxAttempts \in Nat
  BY AttemptsAssumption DEF PromptInv, TypeOK
<1>1. CASE PostPrompt
  <2>0. sent + 1 \in Attempts /\ sent + 1 \in 0..MaxAttempts
    BY <1>0, <1>1 DEF PostPrompt, Attempts
  <2>1. TypeOK'
    BY <1>1, <2>0 DEF PostPrompt, PromptInv, TypeOK, registry
  <2>2. UNCHANGED <<parked, last, tomb, card, clear>>
    BY <1>1 DEF PostPrompt, registry
  <2>3. wait[sent + 1] = "none"
    BY <1>0, <2>0 DEF PromptInv, ServesThePosted
  <2>4. \A a \in Attempts : wait'[a] = IF a = sent + 1 THEN "sent" ELSE wait[a]
    BY <1>1 DEF PostPrompt, PromptInv, TypeOK
  <2>5. ServesThePosted'
    BY <1>0, <1>1, <2>4 DEF PostPrompt, PromptInv, ServesThePosted, Attempts
  <2>6. last # 0 => last \in Attempts
    BY AttemptsAssumption DEF PromptInv, TypeOK, Attempts
  <2>7. LatestIsRegistered'
    BY <2>2, <2>3, <2>4, <2>6 DEF PromptInv, LatestIsRegistered, Live
  <2> QED BY <2>1, <2>2, <2>5, <2>7 DEF PromptInv, TombIsNext, CardsAreBacked
<1>2. CASE Sever \/ HookEnds
  <2>1. TypeOK'
    BY <1>2 DEF Sever, HookEnds, PromptInv, TypeOK, waits, registry
  <2>2. UNCHANGED <<sent, wait, parked, last, tomb, card, clear>>
    BY <1>2 DEF Sever, HookEnds, waits, registry
  <2> QED BY <2>1, <2>2
        DEF PromptInv, ServesThePosted, LatestIsRegistered, TombIsNext, CardsAreBacked
<1> QED BY <1>1, <1>2

(* A wait registers itself, or finds a verdict that was left for it.       *)
LEMMA ParkKeeps ==
    ASSUME PromptInv, NEW a \in Attempts, Park(a) PROVE PromptInv'
<1>0. last # 0 => last \in Attempts
  BY AttemptsAssumption DEF PromptInv, TypeOK, Attempts
<1>1. CASE tomb # "none"
  <2>1. /\ tomb' = "none" /\ parked' = 0
        /\ wait' = [wait EXCEPT ![a] = "over"]
        /\ Respond(a, IF tomb = "terminal" THEN "ask" ELSE tomb)
        /\ UNCHANGED <<last, card, future, elsewhere, result, clear, answer>>
    BY <1>1 DEF Park
  <2>2. (IF tomb = "terminal" THEN "ask" ELSE tomb) \in {"none", "ask"} \cup Verdicts
    BY DEF PromptInv, TypeOK
  <2>3. /\ sent' = sent /\ line' = line
        /\ hook' \in {"asking", "pausing", "over"}
        /\ told' \in {"none", "ask"} \cup Verdicts
    BY <2>1, <2>2, Responds DEF PromptInv
  <2>4. TypeOK'
    BY <2>1, <2>3, AttemptsAssumption DEF PromptInv, TypeOK
  <2>5. \A b \in Attempts : wait'[b] = IF b = a THEN "over" ELSE wait[b]
    BY <2>1 DEF PromptInv, TypeOK
  <2>6. parked = 0
    BY <1>1 DEF PromptInv, TombIsNext
  <2>7. ServesThePosted'
    <3>1. ~(a > sent)
      BY DEF Park, PromptInv, ServesThePosted
    <3> QED BY <2>3, <2>5, <3>1 DEF PromptInv, ServesThePosted
  <2>8. LatestIsRegistered'
    BY <1>0, <2>1, <2>5, <2>6 DEF PromptInv, LatestIsRegistered, Live
  <2> QED BY <2>1, <2>4, <2>6, <2>7, <2>8 DEF PromptInv, TombIsNext, CardsAreBacked
<1>2. CASE tomb = "none"
  <2>1. /\ parked' = a /\ last' = a
        /\ wait' = [wait EXCEPT ![a] = "mirroring"]
        /\ card' = card \cup {"own"}
        /\ UNCHANGED <<asker, tomb, future, elsewhere, result, clear, answer>>
    BY <1>2 DEF Park
  <2>2. TypeOK'
    BY <2>1, Positive DEF PromptInv, TypeOK, asker, Live, Surfaces
  <2>3. \A b \in Attempts : wait'[b] = IF b = a THEN "mirroring" ELSE wait[b]
    BY <2>1 DEF PromptInv, TypeOK
  <2>4. ServesThePosted'
    <3>1. ~(a > sent)
      BY DEF Park, PromptInv, ServesThePosted
    <3> QED BY <2>1, <2>3, <3>1 DEF PromptInv, ServesThePosted, asker
  <2>5. LatestIsRegistered'
    BY <2>1, <2>3, Positive DEF LatestIsRegistered, Live
  <2> QED BY <1>2, <2>1, <2>2, <2>4, <2>5, Positive DEF PromptInv, TombIsNext, CardsAreBacked
<1> QED BY <1>1, <1>2

(* The stages of a wait while it is registered.                            *)
LEMMA RaceKeeps ==
    ASSUME PromptInv, NEW a \in Attempts, Mirror(a) \/ RaceEnds(a) PROVE PromptInv'
<1>0. last # 0 => last \in Attempts
  BY AttemptsAssumption DEF PromptInv, TypeOK, Attempts
<1>1. /\ wait[a] \in Live
      /\ \E w \in Live : wait' = [wait EXCEPT ![a] = w]
      /\ UNCHANGED <<sent, parked, last, tomb, clear>>
      /\ "own" \in card' <=> "own" \in card
  BY DEF Mirror, RaceEnds, Live, registry, asker
<1>2. TypeOK'
  <2>1. CASE Mirror(a)
    BY <2>1 DEF Mirror, PromptInv, TypeOK, asker, registry, Live, Surfaces
  <2>2. CASE RaceEnds(a)
    BY <2>2 DEF RaceEnds, PromptInv, TypeOK, asker, registry, Live
  <2> QED BY <2>1, <2>2
<1>3. \A b \in Attempts : IF b = a THEN wait'[b] \in Live ELSE wait'[b] = wait[b]
  BY <1>1 DEF PromptInv, TypeOK
<1>4. ServesThePosted'
  <2>1. ~(a > sent)
    BY <1>1 DEF PromptInv, ServesThePosted, Live
  <2> QED BY <1>1, <1>3, <2>1 DEF PromptInv, ServesThePosted
<1>5. LatestIsRegistered'
  BY <1>0, <1>1, <1>3 DEF PromptInv, LatestIsRegistered
<1> QED BY <1>1, <1>2, <1>4, <1>5 DEF PromptInv, TombIsNext, CardsAreBacked

(* A wait ends: it takes out its own registration, and either its card or  *)
(* the promise of a clear.                                                 *)
LEMMA LeaveKeeps ==
    ASSUME PromptInv, NEW a \in Attempts, Leave(a) \/ ClearMirrors(a) PROVE PromptInv'
<1>0. last # 0 => last \in Attempts
  BY AttemptsAssumption DEF PromptInv, TypeOK, Attempts
<1>1. CASE Leave(a)
  <2>1. /\ wait[a] = "reaping"
        /\ parked' = (IF parked = a THEN 0 ELSE parked)
        /\ \/ /\ wait' = [wait EXCEPT ![a] = "clearing"]
              /\ card' = card \ {"own"} /\ UNCHANGED <<asker, clear>>
           \/ /\ wait' = [wait EXCEPT ![a] = "over"]
              /\ clear' = [clear EXCEPT ![a] = "sleeping"]
              /\ Respond(a, "ask") /\ card' = card
        /\ UNCHANGED <<future, elsewhere, result, last, tomb, answer>>
    BY <1>1 DEF Leave, Unpark
  <2>2. /\ sent' = sent /\ line' = line
        /\ hook' \in {"asking", "pausing", "over"}
        /\ told' \in {"none", "ask"} \cup Verdicts
    BY <2>1, Responds DEF PromptInv, TypeOK, asker
  <2>3. TypeOK'
    BY <2>1, <2>2, AttemptsAssumption DEF PromptInv, TypeOK
  <2>4. \A b \in Attempts : IF b = a THEN wait'[b] \in {"clearing", "over"} ELSE wait'[b] = wait[b]
    BY <2>1 DEF PromptInv, TypeOK
  <2>5. ServesThePosted'
    <3>1. ~(a > sent)
      BY <2>1 DEF PromptInv, ServesThePosted
    <3> QED BY <2>2, <2>4, <3>1 DEF PromptInv, ServesThePosted
  <2>6. LatestIsRegistered'
    BY <1>0, <2>1, <2>4, Positive DEF PromptInv, LatestIsRegistered, Live
  <2>7. CardsAreBacked'
    <3>1. CASE card' = card \ {"own"}
      BY <3>1 DEF CardsAreBacked
    <3>2. CASE clear' = [clear EXCEPT ![a] = "sleeping"]
      BY <3>2 DEF PromptInv, TypeOK, CardsAreBacked
    <3> QED BY <2>1, <3>1, <3>2
  <2>8. TombIsNext'
    BY <2>1 DEF PromptInv, TombIsNext
  <2> QED BY <2>3, <2>5, <2>6, <2>7, <2>8 DEF PromptInv
<1>2. CASE ClearMirrors(a)
  <2>1. /\ wait[a] = "clearing"
        /\ wait' = [wait EXCEPT ![a] = "over"]
        /\ card' = card \ {"ancestors"}
        /\ Respond(a, IF result[a] = "none" THEN "ask" ELSE result[a])
        /\ UNCHANGED <<future, elsewhere, result, parked, last, tomb, clear, answer>>
    BY <1>2 DEF ClearMirrors, registry
  <2>2. (IF result[a] = "none" THEN "ask" ELSE result[a]) \in {"none", "ask"} \cup Verdicts
    BY DEF PromptInv, TypeOK
  <2>3. /\ sent' = sent /\ line' = line
        /\ hook' \in {"asking", "pausing", "over"}
        /\ told' \in {"none", "ask"} \cup Verdicts
    BY <2>1, <2>2, Responds DEF PromptInv
  <2>4. TypeOK'
    BY <2>1, <2>3 DEF PromptInv, TypeOK
  <2>5. \A b \in Attempts : wait'[b] = IF b = a THEN "over" ELSE wait[b]
    BY <2>1 DEF PromptInv, TypeOK
  <2>6. ServesThePosted'
    <3>1. ~(a > sent)
      BY <2>1 DEF PromptInv, ServesThePosted
    <3> QED BY <2>3, <2>5, <3>1 DEF PromptInv, ServesThePosted
  <2>7. LatestIsRegistered'
    BY <1>0, <2>1, <2>5 DEF PromptInv, LatestIsRegistered, Live
  <2> QED BY <2>1, <2>4, <2>6, <2>7 DEF PromptInv, TombIsNext, CardsAreBacked
<1> QED BY <1>1, <1>2

(* The deferred clear takes the card only while nothing is parked.         *)
LEMMA DeferredKeeps ==
    ASSUME PromptInv, NEW a \in Attempts, Deferred(a) PROVE PromptInv'
<1>1. /\ UNCHANGED <<asker, waits, registry, answer>>
      /\ \E w \in {"mirroring", "over"} : clear' = [clear EXCEPT ![a] = w]
      /\ card' \in {card, card \ {"own"}, card \ {"ancestors"}}
      /\ clear[a] = "sleeping" => parked # 0 \/ "own" \notin card'
  BY DEF Deferred, DeferredClear, DeferredMirrors
<1>2. TypeOK'
  BY <1>1 DEF PromptInv, TypeOK, asker, waits, registry
<1>3. CardsAreBacked'
  <2>1. CASE clear[a] = "sleeping"
    BY <1>1, <2>1 DEF CardsAreBacked, registry
  <2>2. CASE clear[a] # "sleeping"
    BY <1>1, <2>2 DEF PromptInv, TypeOK, CardsAreBacked, registry
  <2> QED BY <2>1, <2>2
<1> QED BY <1>1, <1>2, <1>3
      DEF PromptInv, ServesThePosted, LatestIsRegistered, TombIsNext, asker, waits, registry

(* Verdicts, signals of the harness and the pruning of tombstones.         *)
LEMMA ResolveKeeps ==
    ASSUME PromptInv,
           \/ \E n \in Answers, v \in Verdicts : ResolveElicitation(n, v)
           \/ \E n \in Answers : ResolveMirrors(n)
           \/ ResolvedById \/ ToolResult \/ Prune
    PROVE  PromptInv'
<1>1. /\ UNCHANGED <<asker, wait, result, parked, last, clear>>
      /\ card' \in {card, card \ {"own"}, card \ {"ancestors"}}
      /\ tomb' # "none" => tomb' = tomb \/ parked = 0
  BY DEF ResolveElicitation, ResolveMirrors, ResolvedById, ToolResult, Prune, waits, registry
<1>2. /\ elsewhere' \in [Attempts -> BOOLEAN]
      /\ tomb' \in {"none", "terminal"} \cup Verdicts
  BY Wakes DEF ResolveElicitation, ResolveMirrors, ResolvedById, ToolResult, Prune, waits,
               registry, PromptInv, TypeOK
<1>3. /\ future' \in [Attempts -> {"pending"} \cup Verdicts]
      /\ answer' \in [Answers -> {"none", "mirroring", "over"}]
  BY DEF ResolveElicitation, ResolveMirrors, ResolvedById, ToolResult, Prune, waits,
         PromptInv, TypeOK
<1>4. TypeOK'
  BY <1>1, <1>2, <1>3 DEF PromptInv, TypeOK, asker
<1> QED BY <1>1, <1>4
      DEF PromptInv, ServesThePosted, LatestIsRegistered, TombIsNext, CardsAreBacked, asker

\* Every step of hook, server and users keeps the invariant.
LEMMA NextKeeps == PromptInv /\ [Next]_vars => PromptInv'
<1> SUFFICES ASSUME PromptInv, [Next]_vars PROVE PromptInv'
  OBVIOUS
<1>1. CASE UNCHANGED vars
  BY <1>1 DEF vars, asker, waits, registry, PromptInv, TypeOK, ServesThePosted,
              LatestIsRegistered, TombIsNext, CardsAreBacked
<1>2. CASE Next
  BY <1>2, HookKeeps, ParkKeeps, RaceKeeps, LeaveKeeps, DeferredKeeps, ResolveKeeps
     DEF Next, Serve
<1> QED BY <1>1, <1>2

(* The registration of the newest wait, the verdict left for the next one  *)
(* and the backing of the card hold in every reachable state.              *)
THEOREM Registered == Spec => []PromptInv
<1> QED BY InitInv, NextKeeps, PTL DEF Spec

-----------------------------------------------------------------------------
(* Until somebody answers, no wait has anything to settle for, so every    *)
(* wait that ends leaves the card to the deferred clear, and that one      *)
(* leaves it to the wait parked in the meantime.                           *)
NothingToSettle ==
    Unanswered => /\ \A a \in Attempts : future[a] = "pending" /\ result[a] = "none"
                  /\ parked # 0 => "own" \in card

(* Answers are not taken back.                                             *)
LEMMA AnswersStay ==
    ASSUME PromptInv, [Next]_vars, Unanswered' PROVE Unanswered
<1>1. \A n \in Answers : answer'[n] = "none" => answer[n] = "none"
  <2>1. \/ answer' = answer
        \/ \E n \in Answers, w \in {"mirroring", "over"} : answer' = [answer EXCEPT ![n] = w]
    BY DEF Next, vars, PostPrompt, Sever, HookEnds, Serve, Park, Mirror, RaceEnds, Leave,
           ClearMirrors, Deferred, DeferredClear, DeferredMirrors, ResolveElicitation,
           ResolveMirrors, ResolvedById, ToolResult, Prune
  <2> QED BY <2>1 DEF PromptInv, TypeOK
<1>2. \A a \in Attempts : elsewhere[a] => elsewhere'[a]
  <2>1. elsewhere' = elsewhere \/ Wake
    BY DEF Next, vars, waits, PostPrompt, Sever, HookEnds, Serve, Park, Mirror, RaceEnds, Leave,
           ClearMirrors, Deferred, DeferredClear, DeferredMirrors, ResolveElicitation,
           ResolveMirrors, ResolvedById, ToolResult, Prune
  <2> QED BY <2>1 DEF Wake, PromptInv, TypeOK
<1> QED BY <1>1, <1>2 DEF Unanswered

\* As long as nobody answers, no wait has a result that could clear the card.
LEMMA CardStays ==
    ASSUME PromptInv, NothingToSettle, [Next]_vars PROVE NothingToSettle'
<1> SUFFICES ASSUME Unanswered'
             PROVE  /\ \A a \in Attempts : future'[a] = "pending" /\ result'[a] = "none"
                    /\ parked' # 0 => "own" \in card'
  BY DEF NothingToSettle
<1>0. Unanswered
  BY AnswersStay
<1>1. /\ \A a \in Attempts : future[a] = "pending" /\ result[a] = "none"
      /\ parked # 0 => "own" \in card
  BY <1>0 DEF NothingToSettle
<1>2. CASE UNCHANGED vars \/ PostPrompt \/ Sever \/ HookEnds
  BY <1>1, <1>2 DEF vars, waits, registry, PostPrompt, Sever, HookEnds
<1>3. ASSUME NEW a \in Attempts, Park(a) \/ Mirror(a) \/ ClearMirrors(a)
      PROVE  /\ \A b \in Attempts : future'[b] = "pending" /\ result'[b] = "none"
             /\ parked' # 0 => "own" \in card'
  BY <1>1, <1>3 DEF Park, Mirror, ClearMirrors, registry
<1>4. ASSUME NEW a \in Attempts, RaceEnds(a)
      PROVE  /\ \A b \in Attempts : future'[b] = "pending" /\ result'[b] = "none"
             /\ parked' # 0 => "own" \in card'
  BY <1>1, <1>4 DEF RaceEnds, registry, PromptInv, TypeOK
<1>5. ASSUME NEW a \in Attempts, Leave(a)
      PROVE  /\ \A b \in Attempts : future'[b] = "pending" /\ result'[b] = "none"
             /\ parked' # 0 => "own" \in card'
  <2>1. ~Settled(a)
    BY <1>0, <1>1 DEF Settled, Unanswered
  <2> QED BY <1>1, <1>5, <2>1 DEF Leave, Unpark
<1>6. ASSUME NEW a \in Attempts, Deferred(a)
      PROVE  /\ \A b \in Attempts : future'[b] = "pending" /\ result'[b] = "none"
             /\ parked' # 0 => "own" \in card'
  BY <1>1, <1>6 DEF Deferred, DeferredClear, DeferredMirrors, waits, registry
<1>7. ASSUME NEW n \in Answers, NEW v \in Verdicts, ResolveElicitation(n, v)
      PROVE  FALSE
  BY <1>7 DEF ResolveElicitation, PromptInv, TypeOK, Unanswered
<1>8. CASE (\E n \in Answers : ResolveMirrors(n)) \/ ResolvedById \/ ToolResult \/ Prune
  BY <1>1, <1>8 DEF ResolveMirrors, ResolvedById, ToolResult, Prune, waits, registry
<1> QED BY <1>2, <1>3, <1>4, <1>5, <1>6, <1>7, <1>8 DEF Next, Serve

(* The card of an unanswered prompt is there for as long as a wait of it   *)
(* is parked, for any number of severed and repeated posts.                *)
THEOREM CardSurvives == Spec => []UnansweredCardSurvives
<1>1. Init => NothingToSettle
  BY DEF Init, NothingToSettle
<1>2. NothingToSettle => UnansweredCardSurvives
  BY DEF NothingToSettle, UnansweredCardSurvives
<1> QED BY InitInv, NextKeeps, CardStays, <1>1, <1>2, PTL DEF Spec
=============================================================================
