----------------------- MODULE RunnerRecovery_proofs -----------------------
(***************************************************************************)
(* Proofs about RunnerRecovery, for any connections and relays: the        *)
(* session layer drives the tunnel only as the tunnel's own specification  *)
(* allows, so what holds of the tunnel holds under it; one relay at a time *)
(* feeds the session; and a session does not stay running without a runner.*)
(***************************************************************************)
EXTENDS RunnerRecovery, RunnerTunnel_proofs

(* The registered session's handler is at work.                            *)
CurrentServed == current # NoConn => conn[current] \in Serving \cup {"closing"}

(* A relay that lost its transport has already said so.                    *)
LossPublished ==
    \A r \in Reqs : task[r] \in {"disconnected", "stopped", "written"} => status # "running"

(* As long as the session is shown as running, somebody is left who will   *)
(* correct it: the relay, the registered tunnel's handler, or a handler    *)
(* that is about to look at the registry.                                  *)
Relayed == \E r \in Reqs : task[r] \in Live
Watched == current # NoConn \/ \E c \in Conns : conn[c] \in {"offline", "again"}
SomebodyLeft == status = "running" => Relayed \/ Watched

RInv == RelayInv /\ CurrentServed /\ LossPublished /\ SomebodyLeft

-----------------------------------------------------------------------------
(* The tunnel under the session.                                           *)

(* Every step of the session layer is a step of the tunnel or leaves it    *)
(* alone.                                                                  *)
LEMMA StepsOfTheTunnel == [Next]_recoveryVars => [TunnelNext]_tunnelVars
<1> SUFFICES ASSUME [Next]_recoveryVars PROVE [TunnelNext]_tunnelVars
  OBVIOUS
<1>1. CASE TunnelStep
  BY <1>1 DEF TunnelStep, TunnelNext, Handler
<1>2. ASSUME NEW c \in Conns, RunnerConnects(c)
      PROVE  TunnelNext
  BY <1>2 DEF RunnerConnects, TunnelNext
<1>3. ASSUME NEW c \in Conns, ConnectHook(c)
      PROVE  TunnelNext \/ UNCHANGED tunnelVars
  <2>1. Connected(c) \/ UNCHANGED tunnelVars
    BY <1>3 DEF ConnectHook, HookListed, HookInitialized, HookReads, HookRecovers,
                HookClears, HookEnds
  <2> QED BY <2>1 DEF TunnelNext
<1>4. ASSUME NEW c \in Conns, DisconnectHook(c)
      PROVE  TunnelNext \/ UNCHANGED tunnelVars
  <2>1. Disconnected(c) \/ UNCHANGED tunnelVars
    BY <1>4 DEF DisconnectHook, DisconnectChecks, DisconnectMarks
  <2> QED BY <2>1 DEF TunnelNext, Handler
<1>5. ASSUME NEW r \in Reqs, Relay(r)
      PROVE  TunnelNext \/ UNCHANGED tunnelVars
  <2>1. Ask(r) \/ Request(r) \/ UNCHANGED tunnelVars
    BY <1>5 DEF Relay, RelayTransport, RelayWrites, RelayLabels, RelayExits, Request
  <2> QED BY <2>1 DEF TunnelNext
<1>6. ASSUME NEW r \in Reqs, RelayLeaves(r)
      PROVE  TunnelNext
  BY <1>6 DEF RelayLeaves, TunnelNext
<1>7. ASSUME NEW r \in Reqs, NEW edge, RelayReads(r, edge)
      PROVE  TunnelNext
  BY <1>7 DEF RelayReads, TunnelNext, Request
<1>8. CASE UserMessage \/ UserStops
  BY <1>8 DEF UserMessage, UserStops
<1>9. ASSUME NEW c \in Conns, HostAnswersStop(c)
      PROVE  TunnelNext \/ UNCHANGED tunnelVars
  <2>1. LinkBreaks(c, "closed") \/ UNCHANGED tunnelVars
    BY <1>9 DEF HostAnswersStop
  <2> QED BY <2>1 DEF TunnelNext
<1>10. CASE UNCHANGED recoveryVars
  BY <1>10 DEF recoveryVars
<1> QED BY <1>1, <1>2, <1>3, <1>4, <1>5, <1>6, <1>7, <1>8, <1>9, <1>10 DEF Next

(* The hooks, the relay and the user drive the tunnel only as the tunnel's *)
(* own specification allows: each of its guarantees holds under them.      *)
THEOREM ImplementsTunnel == Spec => TunnelSpec
<1>1. Init => TunnelInit
  BY DEF Init
<1> QED BY <1>1, StepsOfTheTunnel, PTL DEF Spec, TunnelSpec

(* So the registry stays sound and responses stay whole under the session  *)
(* layer, and the newest tunnel wins.                                      *)
THEOREM TunnelKeptUnderRecovery ==
    Spec => [](TunnelInv /\ NeverTruncated) /\ NewestWins
<1>1. TInv => TunnelInv /\ NeverTruncated
  BY DEF TInv
<1> QED BY <1>1, ImplementsTunnel, TunnelInvariance, NewestTunnelWins, PTL

-----------------------------------------------------------------------------
(* One relay.                                                              *)

(* A new relay takes the slot when nothing holds it.                       *)
LEMMA EnsureRelayKeeps ==
    ASSUME RelayInv, EnsureRelay
    PROVE  /\ task' \in [Reqs -> {"none", "over"} \cup Live]
           /\ slot' \in Reqs \cup {NoReq}
           /\ OneRelay'
           /\ \A r \in Reqs : task'[r] = task[r] \/ task'[r] = "streaming"
           /\ (\E r \in Reqs : task[r] \in Live) => \E r \in Reqs : task'[r] \in Live
<1>1. /\ task \in [Reqs -> {"none", "over"} \cup Live] /\ slot \in Reqs \cup {NoReq}
      /\ OneRelay
  BY DEF RelayInv, RecoveryTypeOK
<1>2. CASE UNCHANGED <<task, slot>>
  BY <1>1, <1>2 DEF OneRelay
<1>3. CASE slot = NoReq /\ ~UNCHANGED <<task, slot>>
  <2>1. PICK r \in Reqs : /\ task[r] = "none" /\ slot' = r
                          /\ task' = [task EXCEPT ![r] = "streaming"]
    BY <1>3 DEF EnsureRelay
  <2>2. "streaming" \in Live
    BY DEF Live
  <2>3. \A q \in Reqs : task[q] \notin Live
    BY <1>1, <1>3, NoReqAssumption DEF OneRelay
  <2> QED BY <1>1, <2>1, <2>2, <2>3 DEF OneRelay
<1> QED BY <1>2, <1>3 DEF EnsureRelay

(* The relay that ends gives its slot back.                                *)
LEMMA RelayOverKeeps ==
    ASSUME RelayInv, NEW r \in Reqs, task[r] \in Live, RelayOver(r)
    PROVE  /\ task' \in [Reqs -> {"none", "over"} \cup Live]
           /\ slot' \in Reqs \cup {NoReq}
           /\ OneRelay'
           /\ \A q \in Reqs : task'[q] = IF q = r THEN "over" ELSE task[q]
<1>1. /\ task \in [Reqs -> {"none", "over"} \cup Live] /\ slot \in Reqs \cup {NoReq}
      /\ OneRelay
  BY DEF RelayInv, RecoveryTypeOK
<1>2. slot = r
  BY <1>1 DEF OneRelay
<1>3. "over" \notin Live
  BY DEF Live, RelayAwaits
<1>4. slot' = NoReq /\ task' = [task EXCEPT ![r] = "over"]
  BY <1>2 DEF RelayOver
<1> QED BY <1>1, <1>2, <1>3, <1>4, NoReqAssumption DEF OneRelay

(* A live relay that goes on keeps it.                                     *)
LEMMA RelayGoesOn ==
    ASSUME RelayInv, NEW r \in Reqs, NEW at \in Live, task[r] \in Live,
           task' = [task EXCEPT ![r] = at], slot' = slot
    PROVE  /\ task' \in [Reqs -> {"none", "over"} \cup Live]
           /\ slot' \in Reqs \cup {NoReq}
           /\ OneRelay'
           /\ \A q \in Reqs : task'[q] = IF q = r THEN at ELSE task[q]
BY DEF RelayInv, RecoveryTypeOK, OneRelay

-----------------------------------------------------------------------------
(* The handlers of the connections.                                        *)

(* A session is registered by its handler, which is past the hello frame   *)
(* and has not left yet.                                                   *)
LEMMA CurrentServedStep ==
    ASSUME TypeOK, CurrentServed, [TunnelNext]_tunnelVars
    PROVE  CurrentServed'
<1>1. current \in Conns \cup {NoConn} /\ conn \in [Conns -> {"free", "accepted", "over"} \cup Serving \cup Leaving]
  BY DEF TypeOK
<1>2. CASE UNCHANGED <<current, conn>>
  BY <1>2 DEF CurrentServed
<1>3. ASSUME NEW c \in Conns, NEW at, conn' = [conn EXCEPT ![c] = at], current' = current,
             c # current \/ at \in Serving \cup {"closing"}
      PROVE  CurrentServed'
  BY <1>1, <1>3 DEF CurrentServed
<1>4. ASSUME NEW c \in Conns, Dial(c) \/ Refuse(c) \/ LostBeforeHello(c)
      PROVE  CurrentServed'
  <2>1. c # current
    BY <1>4, ConnsAssumption DEF Dial, Refuse, LostBeforeHello, CurrentServed, Serving
  <2> QED BY <1>3, <1>4, <2>1 DEF Dial, Refuse, LostBeforeHello
<1>5. ASSUME NEW c \in Conns, Register(c)
      PROVE  CurrentServed'
  BY <1>1, <1>5 DEF Register, CurrentServed, Serving
<1>6. ASSUME NEW c \in Conns, HelloFails(c)
      PROVE  CurrentServed'
  BY <1>6 DEF HelloFails, CurrentServed
<1>7. ASSUME NEW c \in Conns, Connected(c) \/ HelperEnds(c)
      PROVE  CurrentServed'
  BY <1>3, <1>7 DEF Connected, HelperEnds, Serving
<1>8. ASSUME NEW c \in Conns, Leave(c)
      PROVE  CurrentServed'
  <2>1. CASE current = c
    BY <1>8, <2>1 DEF Leave, Deregister, CurrentServed
  <2>2. CASE current # c
    BY <1>3, <1>8, <2>2 DEF Leave, Deregister
  <2> QED BY <2>1, <2>2
<1>9. ASSUME NEW c \in Conns, Disconnected(c)
      PROVE  CurrentServed'
  <2>1. c # current
    BY <1>9, ConnsAssumption DEF Disconnected, CurrentServed, Serving
  <2> QED BY <1>3, <1>9, <2>1 DEF Disconnected
<1>10. CASE \/ \E c \in Conns, how \in {"dead", "closed"} : LinkBreaks(c, how)
            \/ \E c \in Conns : RunnerReceives(c) \/ Receive(c)
            \/ \E r \in Reqs : Ask(r) \/ Request(r) \/ GiveUp(r) \/ CloseStream(r)
            \/ \E r \in Reqs, kind \in {"head", "body", "end"} : RunnerAnswers(r, kind)
            \/ \E w \in Waiters : StartWait(w) \/ Waiter(w)
            \/ UNCHANGED tunnelVars
  BY <1>2, <1>10 DEF LinkBreaks, RunnerReceives, Receive, Ask, Request, OpenRequest,
      SendRequest, AwaitHead, ReadBody, GiveUp, CloseStream, RunnerAnswers, StartWait,
      Waiter, EndWait, WakeUp, tunnelVars, routes
<1> QED BY <1>4, <1>5, <1>6, <1>7, <1>8, <1>9, <1>10 DEF TunnelNext, Handler

(* Whoever watches over the session leaves only after marking it, or when  *)
(* another does.                                                           *)
LEMMA WatchedStep ==
    ASSUME TypeOK, [Next]_recoveryVars, Watched, status' # "failed"
    PROVE  Watched'
<1>1. current \in Conns \cup {NoConn} /\ conn \in [Conns -> {"free", "accepted", "over"} \cup Serving \cup Leaving]
  BY DEF TypeOK
<1>2. ASSUME current' = current,
             \A c \in Conns : conn[c] \in {"offline", "again"} => conn'[c] = conn[c]
      PROVE  Watched'
  BY <1>2 DEF Watched
<1>3. ASSUME NEW c \in Conns, conn'[c] \in {"offline", "again"}
      PROVE  Watched'
  BY <1>3 DEF Watched
<1>4. CASE TunnelStep
  <2>1. ASSUME NEW c \in Conns, HelloFails(c) \/ Leave(c)
        PROVE  conn'[c] \in {"offline", "again"}
    BY <1>1, <2>1 DEF HelloFails, Leave
  <2>2. ASSUME NEW c \in Conns, Dial(c) \/ Refuse(c) \/ LostBeforeHello(c) \/ HelperEnds(c)
        PROVE  Watched'
    BY <1>1, <1>2, <2>2 DEF Dial, Refuse, LostBeforeHello, HelperEnds
  <2>3. CASE \/ \E c \in Conns, how \in {"dead", "closed"} : LinkBreaks(c, how)
             \/ \E c \in Conns : RunnerReceives(c) \/ Receive(c)
             \/ \E r \in Reqs, kind \in {"head", "body", "end"} : RunnerAnswers(r, kind)
    BY <1>2, <2>3 DEF LinkBreaks, RunnerReceives, Receive, RunnerAnswers, routes
  <2> QED BY <1>3, <1>4, <2>1, <2>2, <2>3 DEF TunnelStep
<1>5. ASSUME NEW c \in Conns, RunnerConnects(c)
      PROVE  Watched'
  BY <1>5, ConnsAssumption DEF RunnerConnects, Register, Watched
<1>6. ASSUME NEW c \in Conns, ConnectHook(c)
      PROVE  Watched'
  <2>1. Connected(c) \/ UNCHANGED tunnelVars
    BY <1>6 DEF ConnectHook, HookListed, HookInitialized, HookReads, HookRecovers,
                HookClears, HookEnds
  <2> QED BY <1>1, <1>2, <2>1 DEF Connected, tunnelVars, routes
<1>7. ASSUME NEW c \in Conns, DisconnectHook(c)
      PROVE  Watched'
  <2>1. CASE DisconnectChecks(c)
    <3>1. CASE current # NoConn
      BY <2>1, <3>1 DEF DisconnectChecks, Disconnected, Watched
    <3>2. CASE current = NoConn
      BY <1>2, <2>1, <3>2 DEF DisconnectChecks, tunnelVars, routes
    <3> QED BY <3>1, <3>2
  <2>2. CASE DisconnectMarks(c)
    BY <2>2 DEF DisconnectMarks, Publish
  <2> QED BY <1>7, <2>1, <2>2 DEF DisconnectHook
<1>8. CASE \/ \E r \in Reqs : Relay(r) \/ RelayLeaves(r)
           \/ \E r \in Reqs, edge \in {"idle", "failed", "running", "failing"} : RelayReads(r, edge)
  <2>1. UNCHANGED <<current, conn>>
    BY <1>8 DEF Relay, RelayTransport, RelayWrites, RelayLabels, RelayExits, RelayLeaves,
        RelayReads, Ask, OpenRequest, SendRequest, AwaitHead, ReadBody, CloseStream,
        tunnelVars, routes
  <2> QED BY <1>2, <2>1
<1>9. CASE UserMessage \/ UserStops \/ UNCHANGED recoveryVars
  BY <1>2, <1>9 DEF UserMessage, UserStops, recoveryVars, tunnelVars, routes
<1>10. ASSUME NEW c \in Conns, HostAnswersStop(c)
       PROVE  Watched'
  BY <1>2, <1>10 DEF HostAnswersStop, LinkBreaks, tunnelVars, routes
<1> QED BY <1>4, <1>5, <1>6, <1>7, <1>8, <1>9, <1>10 DEF Next

-----------------------------------------------------------------------------
(* The session.                                                            *)

(* What is left to show of a step, the tunnel and the handlers aside.      *)
SessionTyped ==
    /\ status \in {"idle", "running", "failed"}
    /\ label \in Labels
    /\ hook \in [Conns -> {"none", "listing", "initializing", "reading",
                           "recovering", "clearing", "marking"}]
    /\ stop \in BOOLEAN
    /\ failure \in BOOLEAN

RelayRight ==
    /\ task \in [Reqs -> {"none", "over"} \cup Live]
    /\ slot \in Reqs \cup {NoReq}
    /\ OneRelay

(* Every step keeps the session's own variables well typed.                *)
LEMMA SessionTypedStep ==
    ASSUME SessionTyped, [Next]_recoveryVars
    PROVE  SessionTyped'
<1>1. ASSUME NEW new \in {"idle", "running", "failed"}, Publish(new)
      PROVE  status' \in {"idle", "running", "failed"}
  BY <1>1 DEF SessionTyped, Publish
<1>2. ASSUME NEW c \in Conns,
             NEW next \in {"none", "listing", "initializing", "reading",
                           "recovering", "clearing", "marking"}, SetHook(c, next)
      PROVE  hook' \in [Conns -> {"none", "listing", "initializing", "reading",
                                  "recovering", "clearing", "marking"}]
  BY <1>2 DEF SessionTyped, SetHook
<1>3. CASE UNCHANGED sessionVars
  BY <1>3 DEF SessionTyped, sessionVars
<1>4. ASSUME NEW c \in Conns, RunnerConnects(c) \/ ConnectHook(c) \/ DisconnectHook(c)
      PROVE  SessionTyped'
  <2>1. UNCHANGED sessionVars \/ UNCHANGED <<stop, failure>>
    BY <1>4 DEF RunnerConnects, ConnectHook, DisconnectHook, HookListed, HookInitialized,
        HookReads, HookRecovers, HookClears, HookEnds, DisconnectChecks, DisconnectMarks
  <2>2. CASE UNCHANGED <<stop, failure>> /\ ~UNCHANGED sessionVars
    <3>1. \E next \in {"none", "listing", "initializing", "reading",
                       "recovering", "clearing", "marking"} : SetHook(c, next)
      BY <1>4, <2>2 DEF RunnerConnects, ConnectHook, DisconnectHook, HookListed,
          HookInitialized, HookReads, HookRecovers, HookClears, HookEnds,
          DisconnectChecks, DisconnectMarks
    <3>2. status' = status \/ status' = "idle" \/ Publish("failed")
      BY <1>4, <2>2 DEF RunnerConnects, ConnectHook, DisconnectHook, HookListed,
          HookInitialized, HookReads, HookRecovers, HookClears, HookEnds,
          DisconnectChecks, DisconnectMarks
    <3>3. label' = label \/ label' = "none"
      BY <1>4, <2>2 DEF RunnerConnects, ConnectHook, DisconnectHook, HookListed,
          HookInitialized, HookReads, HookRecovers, HookClears, HookEnds,
          DisconnectChecks, DisconnectMarks
    <3> QED BY <1>1, <1>2, <2>2, <3>1, <3>2, <3>3 DEF SessionTyped, Labels
  <2> QED BY <1>3, <2>1, <2>2
<1>5. ASSUME NEW r \in Reqs, RelayTransport(r)
      PROVE  SessionTyped'
  <2>1. TransportLost(r) \/ StreamEnded(r) \/ UNCHANGED sessionVars
    BY <1>5 DEF RelayTransport
  <2>2. CASE TransportLost(r)
    <3>1. /\ Publish("idle") \/ Publish("failed")
          /\ stop' = FALSE \/ stop' = stop
          /\ UNCHANGED <<label, hook, failure>>
      BY <2>2 DEF TransportLost
    <3> QED BY <1>1, <3>1 DEF SessionTyped
  <2>3. CASE StreamEnded(r)
    BY <2>3 DEF StreamEnded, SessionTyped
  <2> QED BY <1>3, <2>1, <2>2, <2>3
<1>6. ASSUME NEW r \in Reqs, RelayWrites(r)
      PROVE  SessionTyped'
  <2>1. /\ Publish("failed") \/ Publish("running")
        /\ label' \in {"task", "none"}
        /\ stop' = FALSE \/ stop' = stop
        /\ UNCHANGED <<hook, failure>>
    BY <1>6 DEF RelayWrites
  <2> QED BY <1>1, <2>1 DEF SessionTyped, Labels
<1>7. ASSUME NEW r \in Reqs, RelayLabels(r) \/ RelayExits(r) \/ RelayLeaves(r)
      PROVE  SessionTyped'
  BY <1>7 DEF RelayLabels, RelayExits, RelayLeaves, StreamEnded, SessionTyped, Labels
<1>8. ASSUME NEW r \in Reqs, NEW edge \in {"idle", "failed", "running", "failing"},
             RelayReads(r, edge)
      PROVE  SessionTyped'
  <2>1. CASE edge \in {"idle", "failed"} /\ Publish(edge) /\ UNCHANGED <<label, hook, stop, failure>>
    BY <1>1, <2>1 DEF SessionTyped
  <2>2. CASE failure' = (edge = "failing") /\ UNCHANGED <<status, label, hook, stop>>
    <3>1. failure' \in BOOLEAN
      BY <2>2, Zenon
    <3> QED BY <2>2, <3>1 DEF SessionTyped
  <2> QED BY <1>8, <2>1, <2>2 DEF RelayReads
<1>9. CASE UserMessage \/ UserStops
  BY <1>9 DEF UserMessage, UserStops, SessionTyped, Labels
<1>10. ASSUME NEW c \in Conns, HostAnswersStop(c)
       PROVE  SessionTyped'
  BY <1>10 DEF HostAnswersStop, SessionTyped
<1>11. CASE TunnelStep \/ UNCHANGED recoveryVars
  BY <1>3, <1>11 DEF TunnelStep, recoveryVars
<1> QED BY <1>4, <1>5, <1>6, <1>7, <1>8, <1>9, <1>10, <1>11 DEF Next, Relay

(* Nothing but the runner's own word of a new turn makes it running.       *)
LEMMA RelayStep ==
    ASSUME TInv, TInv', RInv, [Next]_recoveryVars
    PROVE  RelayRight' /\ LossPublished' /\ SomebodyLeft'
<1>1. /\ RelayInv /\ RelayRight /\ LossPublished /\ SomebodyLeft
      /\ status \in {"idle", "running", "failed"}
  BY DEF RInv, RelayInv, RecoveryTypeOK, RelayRight
<1>2. Watched => Watched' \/ status' = "failed"
  BY WatchedStep DEF TInv, TunnelInv
<1>3. ASSUME UNCHANGED <<task, slot>>, status' = status \/ status' \in {"idle", "failed"}
      PROVE  RelayRight' /\ LossPublished' /\ SomebodyLeft'
  BY <1>1, <1>2, <1>3 DEF RelayRight, OneRelay, LossPublished, SomebodyLeft, Relayed
<1>4. ASSUME EnsureRelay, status' = status \/ status' = "idle"
      PROVE  RelayRight' /\ LossPublished' /\ SomebodyLeft'
  <2>1. /\ RelayRight'
        /\ \A r \in Reqs : task'[r] = task[r] \/ task'[r] = "streaming"
        /\ Relayed => Relayed'
    BY <1>1, <1>4, EnsureRelayKeeps DEF RelayRight, Relayed
  <2> QED BY <1>1, <1>2, <1>4, <2>1 DEF LossPublished, SomebodyLeft
<1>5. ASSUME NEW r \in Reqs, NEW at \in Live, task[r] \in Live,
             task' = [task EXCEPT ![r] = at], slot' = slot,
             at \in {"disconnected", "stopped", "written"} => status' # "running",
             \/ status' = status
             \/ \A q \in Reqs \ {r} : task[q] \notin Live
      PROVE  RelayRight' /\ LossPublished' /\ SomebodyLeft'
  <2>1. RelayRight' /\ \A q \in Reqs : task'[q] = IF q = r THEN at ELSE task[q]
    BY <1>1, <1>5, RelayGoesOn DEF RelayRight
  <2>2. {"disconnected", "stopped", "written"} \subseteq Live
    BY DEF Live, RelayAwaits
  <2>3. LossPublished'
    BY <1>1, <1>5, <2>1, <2>2 DEF LossPublished
  <2>4. Relayed'
    BY <1>5, <2>1 DEF Relayed
  <2> QED BY <2>1, <2>3, <2>4 DEF SomebodyLeft
<1>6. ASSUME NEW r \in Reqs, task[r] \in Live, RelayOver(r), status' = status,
             Watched \/ status # "running"
      PROVE  RelayRight' /\ LossPublished' /\ SomebodyLeft'
  <2>1. RelayRight' /\ \A q \in Reqs : task'[q] = IF q = r THEN "over" ELSE task[q]
    BY <1>1, <1>6, RelayOverKeeps DEF RelayRight
  <2> QED BY <1>1, <1>2, <1>6, <2>1 DEF LossPublished, SomebodyLeft
<1>7. ASSUME NEW r \in Reqs, task[r] \in Live
      PROVE  \A q \in Reqs \ {r} : task[q] \notin Live
  BY <1>1, <1>7 DEF RelayRight, OneRelay
<1>8. ASSUME NEW r \in Reqs, pc[r] = "streaming", ~aborted[r]
      PROVE  Watched
  BY <1>8, ConnsAssumption DEF TInv, TunnelInv, NoneForgotten, Wire, Fresh, Active, Watched
<1>9. {"streaming", "failing", "running", "disconnected", "stopped", "written"} = Live
  BY DEF Live, RelayAwaits
<1>10. ASSUME NEW c \in Conns, RunnerConnects(c) \/ ConnectHook(c) \/ DisconnectHook(c)
       PROVE  RelayRight' /\ LossPublished' /\ SomebodyLeft'
  <2>1. CASE HookInitialized(c)
    BY <1>4, <2>1 DEF HookInitialized
  <2>2. CASE ~HookInitialized(c)
    <3>1. UNCHANGED <<task, slot>> /\ (status' = status \/ status' \in {"idle", "failed"})
      BY <1>10, <2>2 DEF RunnerConnects, ConnectHook, DisconnectHook, HookListed,
          HookReads, HookRecovers, HookClears, HookEnds, DisconnectChecks,
          DisconnectMarks, Publish, sessionVars
    <3> QED BY <1>3, <3>1
  <2> QED BY <2>1, <2>2
<1>11. ASSUME NEW r \in Reqs, RelayTransport(r)
       PROVE  RelayRight' /\ LossPublished' /\ SomebodyLeft'
  <2>1. task[r] \in Live
    BY <1>9, <1>11 DEF RelayTransport
  <2>2. CASE pc'[r] = "failed"
    <3>1. TransportLost(r)
      BY <1>11, <2>2 DEF RelayTransport
    <3>2. status' # "running" /\ slot' = slot
      BY <1>1, <3>1 DEF TransportLost, Publish
    <3>3. PICK at \in {"stopped", "disconnected"} : task' = [task EXCEPT ![r] = at]
      BY <3>1 DEF TransportLost
    <3> QED BY <1>5, <1>7, <1>9, <2>1, <3>2, <3>3
  <2>3. CASE pc'[r] = "done"
    <3>1. StreamEnded(r)
      BY <1>11, <2>3 DEF RelayTransport
    <3>2. pc[r] = "streaming" /\ ~aborted[r]
      BY <1>11, <2>3 DEF RelayTransport, Ask, OpenRequest, SendRequest, AwaitHead,
          ReadBody, Settle, TInv, TunnelInv, TypeOK
    <3> QED BY <1>6, <1>8, <2>1, <3>1, <3>2 DEF StreamEnded
  <2>4. CASE pc'[r] \notin {"failed", "done"}
    BY <1>3, <1>11, <2>4 DEF RelayTransport, sessionVars
  <2> QED BY <2>2, <2>3, <2>4
<1>12. ASSUME NEW r \in Reqs, RelayWrites(r)
       PROVE  RelayRight' /\ LossPublished' /\ SomebodyLeft'
  <2>1. /\ task[r] \in Live /\ "streaming" \in Live
        /\ task' = [task EXCEPT ![r] = "streaming"] /\ slot' = slot
    BY <1>9, <1>12 DEF RelayWrites
  <2> QED BY <1>5, <1>7, <2>1
<1>13. ASSUME NEW r \in Reqs, RelayLabels(r)
       PROVE  RelayRight' /\ LossPublished' /\ SomebodyLeft'
  <2>1. /\ task[r] \in Live /\ "written" \in Live /\ status # "running" /\ status' = status
        /\ task' = [task EXCEPT ![r] = "written"] /\ slot' = slot
    BY <1>1, <1>9, <1>13 DEF RelayLabels, LossPublished
  <2> QED BY <1>5, <2>1
<1>14. ASSUME NEW r \in Reqs, RelayExits(r)
       PROVE  RelayRight' /\ LossPublished' /\ SomebodyLeft'
  <2>1. task[r] \in Live /\ status # "running" /\ status' = status /\ RelayOver(r)
    BY <1>1, <1>9, <1>14 DEF RelayExits, LossPublished
  <2> QED BY <1>6, <2>1
<1>15. ASSUME NEW r \in Reqs, RelayLeaves(r)
       PROVE  RelayRight' /\ LossPublished' /\ SomebodyLeft'
  <2>1. task[r] \in Live /\ pc[r] = "streaming" /\ ~aborted[r] /\ StreamEnded(r)
    BY <1>9, <1>15 DEF RelayLeaves, CloseStream
  <2> QED BY <1>6, <1>8, <2>1 DEF StreamEnded
<1>16. ASSUME NEW r \in Reqs, NEW edge \in {"idle", "failed", "running", "failing"},
              RelayReads(r, edge)
       PROVE  RelayRight' /\ LossPublished' /\ SomebodyLeft'
  <2>1. CASE edge \in {"idle", "failed"} /\ Publish(edge) /\ UNCHANGED <<task, slot>>
    BY <1>3, <2>1 DEF Publish
  <2>2. CASE /\ edge \in {"running", "failing"} /\ task' = [task EXCEPT ![r] = edge]
             /\ UNCHANGED <<status, slot>>
    <3>1. task[r] \in Live /\ edge \in Live /\ edge \notin {"disconnected", "stopped", "written"}
      BY <1>9, <1>16, <2>2 DEF RelayReads
    <3> QED BY <1>5, <2>2, <3>1
  <2> QED BY <1>16, <2>1, <2>2 DEF RelayReads
<1>17. CASE UserMessage
  BY <1>4, <1>17 DEF UserMessage
<1>18. CASE UserStops \/ TunnelStep \/ UNCHANGED recoveryVars
  BY <1>3, <1>18 DEF UserStops, TunnelStep, recoveryVars, sessionVars
<1>19. ASSUME NEW c \in Conns, HostAnswersStop(c)
       PROVE  RelayRight' /\ LossPublished' /\ SomebodyLeft'
  BY <1>3, <1>19 DEF HostAnswersStop
<1> QED BY <1>10, <1>11, <1>12, <1>13, <1>14, <1>15, <1>16, <1>17, <1>18, <1>19
        DEF Next, Relay

(* All of it together.                                                     *)
LEMMA InitRInv == Init => RInv
<1> SUFFICES ASSUME Init PROVE RInv
  OBVIOUS
<1>1. TypeOK
  BY InitTInv DEF Init, TInv, TunnelInv
<1>2. RecoveryTypeOK
  <2>1. stop \in BOOLEAN /\ failure \in BOOLEAN
    BY DEF Init
  <2> QED BY <1>1, <2>1 DEF Init, RecoveryTypeOK, Labels
<1>3. OneRelay
  BY NoReqAssumption DEF Init, OneRelay, Live, RelayAwaits
<1>4. CurrentServed
  BY DEF Init, TunnelInit, CurrentServed
<1>5. LossPublished /\ SomebodyLeft
  BY DEF Init, LossPublished, SomebodyLeft
<1> QED BY <1>2, <1>3, <1>4, <1>5 DEF RInv, RelayInv

\* Every step of the hooks, the relay, the session and the tunnel keeps the
\* session's invariant.
LEMMA RInvStep == TInv /\ TInv' /\ RInv /\ [Next]_recoveryVars => RInv'
<1> SUFFICES ASSUME TInv, TInv', RInv, [Next]_recoveryVars PROVE RInv'
  OBVIOUS
<1>1. SessionTyped'
  BY SessionTypedStep DEF RInv, RelayInv, RecoveryTypeOK, SessionTyped
<1>2. RelayRight' /\ LossPublished' /\ SomebodyLeft'
  BY RelayStep
<1>3. CurrentServed'
  BY StepsOfTheTunnel, CurrentServedStep DEF RInv, TInv, TunnelInv
<1>4. RelayInv'
  BY <1>1, <1>2 DEF TInv, TunnelInv, SessionTyped, RelayRight, RelayInv, RecoveryTypeOK
<1> QED BY <1>2, <1>3, <1>4 DEF RInv

(* The session layer's invariant, on top of the tunnel's.                  *)
THEOREM RecoveryInvariance == Spec => [](TInv /\ RInv)
<1>1. Init => RInv
  BY InitRInv
<1>2. TInv /\ TInv' /\ RInv /\ [Next]_recoveryVars => RInv'
  BY RInvStep
<1> QED BY <1>1, <1>2, ImplementsTunnel, TunnelInvariance, PTL DEF Spec

(* One relay at a time, for any number of relays and reconnects.           *)
THEOREM OneRelayAtATime == Spec => []RelayInv
<1>1. RInv => RelayInv
  BY DEF RInv
<1> QED BY <1>1, RecoveryInvariance, PTL

(* A session is not shown as running once everything about its lost runner *)
(* is over.                                                                *)
THEOREM LostRunnerSettles == Spec => []LostRunnerIsNotRunning
<1>1. TInv /\ RInv => LostRunnerIsNotRunning
  <2> SUFFICES ASSUME TInv, RInv, Quiet, status = "running" PROVE FALSE
    BY DEF LostRunnerIsNotRunning
  <2>1. ~Relayed
    BY DEF Quiet, Relayed
  <2>2. current = NoConn
    BY DEF Quiet, RInv, CurrentServed, Serving, TInv, TunnelInv, TypeOK
  <2>3. ~Watched
    BY <2>2 DEF Quiet, Watched
  <2> QED BY <2>1, <2>3 DEF RInv, SomebodyLeft
<1> QED BY <1>1, RecoveryInvariance, PTL
=============================================================================
