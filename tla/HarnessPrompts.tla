--------------------------- MODULE HarnessPrompts ---------------------------
(***************************************************************************)
(* A permission prompt a native harness asks of the user.  A hook process  *)
(* posts it to the server and holds the request open; the server parks the *)
(* request, shows a card in the session and in its ancestors, and answers  *)
(* with the user's verdict, or with nothing ("ask in the terminal").  A    *)
(* severed request is posted again under the same elicitation id.          *)
(*                                                                         *)
(* One prompt: prompts share nothing but the cap on tombstones, which,     *)
(* like their age, may drop one at any time.  The server is one event      *)
(* loop; a coroutine gives way at an await, and mirroring into the         *)
(* ancestors runs in a thread it awaits.                                   *)
(***************************************************************************)
EXTENDS Naturals

CONSTANTS
    MaxAttempts,    \* bound: times the hook posts the prompt
    Answers,        \* answers users may send, from any tab, late or twice
    Verdicts        \* what an answer may say

ASSUME AttemptsAssumption == MaxAttempts \in Nat \ {0}
ASSUME VerdictsAssumption == Verdicts \cap {"none", "pending", "terminal", "ask"} = {}

VARIABLES
    sent,       \* attempts posted so far
    hook,       \* "asking" while the last of them is open, "pausing", "over"
    told,       \* what the hook was answered
    line,       \* line[a]: the connection under attempt a
    wait,       \* wait[a]: the coroutine that serves it
    future,     \* future[a]: its Future
    elsewhere,  \* elsewhere[a]: its resolved_elsewhere Event is set
    result,     \* result[a]: the verdict among what its race returned
    parked,     \* the attempt in the registries, 0 when there is none
    last,       \* the attempt that was put there last (a history variable)
    tomb,       \* the tombstone: "none", "terminal" or a verdict
    card,       \* where the card is shown
    clear,      \* clear[a]: the deferred clear scheduled by attempt a
    answer      \* answer[n]: the request that carries an answer

asker == <<sent, hook, told, line>>
waits == <<wait, future, elsewhere, result>>
registry == <<parked, last, tomb>>
vars == <<asker, waits, registry, card, clear, answer>>

Attempts == 1..MaxAttempts
Surfaces == {"own", "ancestors"}
Live == {"mirroring", "racing", "reaping"}

(* One type invariant.                                                     *)
TypeOK ==
    /\ sent \in 0..MaxAttempts
    /\ hook \in {"asking", "pausing", "over"}
    /\ told \in {"none", "ask"} \cup Verdicts
    /\ line \in [Attempts -> {"up", "cut"}]
    /\ wait \in [Attempts -> {"none", "sent", "clearing", "over"} \cup Live]
    /\ future \in [Attempts -> {"pending"} \cup Verdicts]
    /\ elsewhere \in [Attempts -> BOOLEAN]
    /\ result \in [Attempts -> {"none"} \cup Verdicts]
    /\ parked \in 0..MaxAttempts
    /\ last \in 0..MaxAttempts
    /\ tomb \in {"none", "terminal"} \cup Verdicts
    /\ card \subseteq Surfaces
    /\ clear \in [Attempts -> {"none", "sleeping", "mirroring", "over"}]
    /\ answer \in [Answers -> {"none", "mirroring", "over"}]

Init ==
    /\ sent = 0 /\ hook = "pausing" /\ told = "none"
    /\ line = [a \in Attempts |-> "up"]
    /\ wait = [a \in Attempts |-> "none"]
    /\ future = [a \in Attempts |-> "pending"]
    /\ elsewhere = [a \in Attempts |-> FALSE]
    /\ result = [a \in Attempts |-> "none"]
    /\ parked = 0 /\ last = 0 /\ tomb = "none"
    /\ card = {}
    /\ clear = [a \in Attempts |-> "none"]
    /\ answer = [n \in Answers |-> "none"]

-----------------------------------------------------------------------------
(* The hook process: _post_hook_with_reattach.                             *)

(* It posts the prompt, the first time or again.                           *)
PostPrompt ==
    /\ hook = "pausing" /\ sent < MaxAttempts
    /\ sent' = sent + 1
    /\ hook' = "asking"
    /\ wait' = [wait EXCEPT ![sent + 1] = "sent"]
    /\ UNCHANGED <<told, line, future, elsewhere, result, registry, card, clear, answer>>

(* The connection is severed: the hook will post again.  The server may be *)
(* the last to notice.                                                     *)
Sever ==
    /\ hook = "asking"
    /\ hook' = "pausing"
    /\ line' = [line EXCEPT ![sent] = "cut"]
    /\ UNCHANGED <<sent, told, waits, registry, card, clear, answer>>

(* It has failed too often or for too long, or the harness ends it because *)
(* the terminal was answered.                                              *)
HookEnds ==
    /\ hook # "over" /\ sent > 0
    /\ hook' = "over"
    /\ line' = [line EXCEPT ![sent] = "cut"]
    /\ UNCHANGED <<sent, told, waits, registry, card, clear, answer>>

(* The response reaches the hook if the connection is still there.         *)
Respond(a, what) ==
    IF line[a] = "up" THEN /\ told' = what /\ hook' = "over"
                           /\ UNCHANGED <<sent, line>>
                      ELSE UNCHANGED asker

-----------------------------------------------------------------------------
(* _publish_and_wait_for_harness_elicitation.                              *)

(* The wait registers itself, over an older one of the same prompt.  With  *)
(* a tombstone it returns at once and takes its entries out again;         *)
(* otherwise the card is shown.                                            *)
Park(a) ==
    /\ wait[a] = "sent"
    /\ IF tomb # "none"
       THEN /\ tomb' = "none" /\ parked' = 0
            /\ wait' = [wait EXCEPT ![a] = "over"]
            /\ Respond(a, IF tomb = "terminal" THEN "ask" ELSE tomb)
            /\ UNCHANGED <<last, card>>
       ELSE /\ parked' = a /\ last' = a
            /\ wait' = [wait EXCEPT ![a] = "mirroring"]
            /\ card' = card \cup {"own"}
            /\ UNCHANGED <<asker, tomb>>
    /\ UNCHANGED <<future, elsewhere, result, clear, answer>>

Mirror(a) ==
    /\ wait[a] = "mirroring"
    /\ wait' = [wait EXCEPT ![a] = "racing"]
    /\ card' = card \cup {"ancestors"}
    /\ UNCHANGED <<asker, future, elsewhere, result, registry, clear, answer>>

(* The race ends: a verdict, the event, a disconnect that is noticed, or   *)
(* the timeout.  Only a verdict that is there by now counts; the race      *)
(* tasks are cancelled and awaited.                                        *)
RaceEnds(a) ==
    /\ wait[a] = "racing"
    /\ wait' = [wait EXCEPT ![a] = "reaping"]
    /\ result' = [result EXCEPT ![a] = IF future[a] = "pending" THEN "none" ELSE future[a]]
    /\ UNCHANGED <<asker, future, elsewhere, registry, card, clear, answer>>

(* Mutant: takes out whatever is registered.                               *)
mutant_Unpark(a) == parked' = IF a \in Attempts THEN 0 ELSE parked

(* A wait takes its own entries out of the registries and nobody else's.   *)
Unpark(a) == parked' = IF parked = a THEN 0 ELSE parked

Settled(a) == result[a] # "none" \/ elsewhere[a]

(* Mutant: a severed wait schedules nothing.                               *)
mutant_Leave(a) ==
    /\ wait[a] = "reaping"
    /\ Unpark(a)
    /\ wait' = [wait EXCEPT ![a] = IF Settled(a) THEN "clearing" ELSE "over"]
    /\ card' = IF Settled(a) THEN card \ {"own"} ELSE card
    /\ IF Settled(a) THEN UNCHANGED asker ELSE Respond(a, "ask")
    /\ UNCHANGED <<future, elsewhere, result, last, tomb, clear, answer>>

(* The finally clause: its own entries are taken out; a settled wait       *)
(* clears the card, a severed one schedules the deferred clear.            *)
Leave(a) ==
    /\ wait[a] = "reaping"
    /\ Unpark(a)
    /\ IF Settled(a)
       THEN /\ wait' = [wait EXCEPT ![a] = "clearing"]
            /\ card' = card \ {"own"}
            /\ UNCHANGED <<asker, clear>>
       ELSE /\ wait' = [wait EXCEPT ![a] = "over"]
            /\ clear' = [clear EXCEPT ![a] = "sleeping"]
            /\ Respond(a, "ask")
            /\ UNCHANGED card
    /\ UNCHANGED <<future, elsewhere, result, last, tomb, answer>>

ClearMirrors(a) ==
    /\ wait[a] = "clearing"
    /\ wait' = [wait EXCEPT ![a] = "over"]
    /\ card' = card \ {"ancestors"}
    /\ Respond(a, IF result[a] = "none" THEN "ask" ELSE result[a])
    /\ UNCHANGED <<future, elsewhere, result, registry, clear, answer>>

(* Mutant: clears whether or not the prompt is parked again.               *)
mutant_DeferredClear(a) ==
    /\ clear[a] = "sleeping"
    /\ clear' = [clear EXCEPT ![a] = "mirroring"]
    /\ card' = card \ {"own"}
    /\ UNCHANGED <<asker, waits, registry, answer>>

(* _clear_after_grace: nothing to do when the prompt is parked again.      *)
DeferredClear(a) ==
    /\ clear[a] = "sleeping"
    /\ IF parked # 0
       THEN clear' = [clear EXCEPT ![a] = "over"] /\ UNCHANGED card
       ELSE clear' = [clear EXCEPT ![a] = "mirroring"] /\ card' = card \ {"own"}
    /\ UNCHANGED <<asker, waits, registry, answer>>

DeferredMirrors(a) ==
    /\ clear[a] = "mirroring"
    /\ clear' = [clear EXCEPT ![a] = "over"]
    /\ card' = card \ {"ancestors"}
    /\ UNCHANGED <<asker, waits, registry, answer>>

-----------------------------------------------------------------------------
(* Resolutions.                                                            *)

(* Somebody has seen the card.                                             *)
Shown == last # 0

Wake == elsewhere' = IF parked = 0 THEN elsewhere ELSE [elsewhere EXCEPT ![parked] = TRUE]

(* _resolve_elicitation: a user's verdict sets the Future of the parked    *)
(* wait, or is left as a tombstone when nothing is parked; the card goes.  *)
ResolveElicitation(n, v) ==
    /\ answer[n] = "none" /\ Shown
    /\ answer' = [answer EXCEPT ![n] = "mirroring"]
    /\ IF parked = 0 THEN tomb' = v /\ UNCHANGED future
       ELSE /\ future' = [future EXCEPT ![parked] = IF @ = "pending" THEN v ELSE @]
            /\ UNCHANGED tomb
    /\ Wake
    /\ card' = card \ {"own"}
    /\ UNCHANGED <<asker, wait, result, parked, last, clear>>

ResolveMirrors(n) ==
    /\ answer[n] = "mirroring"
    /\ answer' = [answer EXCEPT ![n] = "over"]
    /\ card' = card \ {"ancestors"}
    /\ UNCHANGED <<asker, waits, registry, clear>>

(* _signal_harness_elicitation_resolved_by_id: the harness says that its   *)
(* terminal was answered.                                                  *)
ResolvedById ==
    /\ sent > 0
    /\ tomb' = IF parked = 0 THEN "terminal" ELSE tomb
    /\ Wake
    /\ UNCHANGED <<asker, wait, future, result, parked, last, card, clear, answer>>

(* _signal_terminal_resolved_harness_elicitation: the result of the gated  *)
(* tool was mirrored.                                                      *)
ToolResult ==
    /\ parked # 0 /\ ~elsewhere[parked]
    /\ Wake
    /\ UNCHANGED <<asker, wait, future, result, registry, card, clear, answer>>

(* _prune_pre_resolved_harness_elicitations: too old, or one too many.     *)
Prune ==
    /\ tomb # "none"
    /\ tomb' = "none"
    /\ UNCHANGED <<asker, waits, parked, last, card, clear, answer>>

-----------------------------------------------------------------------------
Serve(a) == Park(a) \/ Mirror(a) \/ RaceEnds(a) \/ Leave(a) \/ ClearMirrors(a)

Deferred(a) == DeferredClear(a) \/ DeferredMirrors(a)

Next ==
    \/ PostPrompt
    \/ Sever
    \/ HookEnds
    \/ \E a \in Attempts : Serve(a)
    \/ \E a \in Attempts : Deferred(a)
    \/ \E n \in Answers, v \in Verdicts : ResolveElicitation(n, v)
    \/ \E n \in Answers : ResolveMirrors(n)
    \/ ResolvedById
    \/ ToolResult
    \/ Prune

Spec == Init /\ [][Next]_vars

(* Ready coroutines run, threads end, and a race has a timeout.  Nothing   *)
(* is assumed of users, connections or the hook.                           *)
FairSpec ==
    /\ Spec
    /\ \A a \in Attempts : WF_vars(Serve(a)) /\ WF_vars(Deferred(a))
    /\ \A n \in Answers : WF_vars(ResolveMirrors(n))

-----------------------------------------------------------------------------
(* Properties.                                                             *)

(* A re-posted prompt keeps its registration: the wait registered last is  *)
(* in the registries for as long as it lives, though older waits of the    *)
(* same prompt end around it, and no wait is there that has ended, which   *)
(* would swallow verdicts and hold back every deferred clear.              *)
LatestIsRegistered ==
    parked = IF last # 0 /\ wait[last] \in Live THEN last ELSE 0

(* A verdict left for the next attempt is not passed by: nothing is parked *)
(* while there is a tombstone.                                             *)
TombIsNext == tomb # "none" => parked = 0

(* No card is left behind: while one is shown there is a wait that a       *)
(* verdict would reach, or a clear is scheduled.                           *)
CardsAreBacked ==
    "own" \in card => parked # 0 \/ \E a \in Attempts : clear[a] = "sleeping"

(* No coroutine serves an attempt that was not posted.                     *)
ServesThePosted == \A a \in Attempts : a > sent => wait[a] = "none"

(* They are inductive together.                                            *)
PromptInv ==
    TypeOK /\ ServesThePosted /\ LatestIsRegistered /\ TombIsNext /\ CardsAreBacked

(* No verdict was given and no wait was told of one given elsewhere.       *)
Unanswered ==
    (\A n \in Answers : answer[n] = "none") /\ (\A a \in Attempts : ~elsewhere[a])

(* A prompt that nobody has answered yet can be answered: while its wait   *)
(* is parked its card is there, through every severed connection, repeated *)
(* post and deferred clear.                                                *)
UnansweredCardSurvives == Unanswered /\ parked # 0 => "own" \in card

(* Every card goes in the end, in the session and in its ancestors,        *)
(* whichever of wait, deferred clear and answer came last.                 *)
CardsGo == (card # {}) ~> (card = {})
=============================================================================
