---------------------------- MODULE RunnerTunnel ----------------------------
(***************************************************************************)
(* The WebSocket tunnel between the server and one runner: the registry of *)
(* live tunnels (ws_tunnel/registry.py), the route that serves a tunnel    *)
(* (server/routes/runner_tunnel.py), the HTTP transport that sends a       *)
(* request through it (ws_tunnel/transport.py) and the runner's end        *)
(* (ws_tunnel/serve.py).                                                   *)
(*                                                                         *)
(* The registry's methods run under its lock, so each is one step.  Route  *)
(* handlers, requests and waiters are coroutines, possibly of several      *)
(* event loops; they interleave at every await.  A callback the registry   *)
(* schedules on a request's loop is taken to have run at once: what the    *)
(* coroutine does before it runs, it could have done before the registry's *)
(* step.  Registry entries of different runner ids share nothing but the   *)
(* total number of waiters, so one runner id is modelled.                  *)
(***************************************************************************)
EXTENDS Naturals, Sequences, FiniteSets

CONSTANTS
    Conns,          \* the WebSocket connections of the runner
    NoConn,         \* not a connection: nothing registered
    Reqs,           \* requests sent through the tunnel
    Waiters,        \* calls of wait_for_runner
    MaxWaiters,     \* _max_connect_waiters_per_runner (and _total)
    MaxChunks       \* bound: body chunks of a response

ASSUME ConnsAssumption == NoConn \notin Conns
ASSUME TunnelBoundsAssumption == MaxWaiters \in Nat \ {0} /\ MaxChunks \in Nat

VARIABLES
    current,    \* _sessions: the connection whose session is registered
    conn,       \* conn[c]: how far the route handler of c has come
    link,       \* link[c]: "up", "dead" (the runner is gone, unnoticed) or
                \* "closed"
    down,       \* down[c]: frames to the runner, oldest first
    up,         \* up[c]: frames to the server, oldest first
    job,        \* job[r]: the runner's dispatch task for r
    sent,       \* sent[r]: the body chunks the runner has sent for r
    pc,         \* pc[r]: how far the request's coroutine has come
    sess,       \* sess[r]: the session open_request found
    inFlight,   \* inFlight[c]: the requests tracked on c's session
    head,       \* head[r]: head_future
    queue,      \* queue[r]: body_queue
    aborted,    \* aborted[r]: aborted_with is set
    got,        \* got[r]: the chunks the consumer was given
    wait,       \* wait[w]: how far wait_for_runner has come
    waiters,    \* the futures in _connect_waits
    waiterTotal \* _connect_waiter_total

routes == <<conn, link>>
wire == <<down, up, job, sent>>
requests == <<pc, sess, head, queue, aborted, got>>
waiting == <<wait, waiters, waiterTotal>>
tunnelVars == <<current, routes, wire, requests, inFlight, waiting>>

Serving == {"connecting", "serving"}
Leaving == {"closing", "offline", "again"}
Active == {"opened", "waiting", "streaming"}
Settled == {"done", "failed", "closed"}
Frame(kinds) == [req : Reqs, kind : kinds]

(* One type invariant.                                                     *)
TypeOK ==
    /\ current \in Conns \cup {NoConn}
    /\ conn \in [Conns -> {"free", "accepted", "over"} \cup Serving \cup Leaving]
    /\ link \in [Conns -> {"up", "dead", "closed"}]
    /\ down \in [Conns -> Seq(Frame({"request", "cancel"}))]
    /\ up \in [Conns -> Seq(Frame({"head", "body", "end"}))]
    /\ job \in [Reqs -> {"none", "running", "headed", "ended", "cancelled"}]
    /\ sent \in [Reqs -> 0..MaxChunks]
    /\ pc \in [Reqs -> {"free", "reading"} \cup Active \cup Settled]
    /\ sess \in [Reqs -> Conns \cup {NoConn}]
    /\ inFlight \in [Conns -> SUBSET Reqs]
    /\ head \in [Reqs -> {"pending", "set", "error"}]
    /\ queue \in [Reqs -> Seq({"chunk", "end"})]
    /\ aborted \in [Reqs -> BOOLEAN]
    /\ got \in [Reqs -> 0..MaxChunks]
    /\ wait \in [Waiters -> {"free", "waiting", "waking", "sleeping", "over"}]
    /\ waiters \in SUBSET Waiters
    /\ waiterTotal \in 0..MaxWaiters

TunnelInit ==
    /\ current = NoConn
    /\ conn = [c \in Conns |-> "free"]
    /\ link = [c \in Conns |-> "closed"]
    /\ down = [c \in Conns |-> <<>>]
    /\ up = [c \in Conns |-> <<>>]
    /\ job = [r \in Reqs |-> "none"]
    /\ sent = [r \in Reqs |-> 0]
    /\ pc = [r \in Reqs |-> "free"]
    /\ sess = [r \in Reqs |-> NoConn]
    /\ inFlight = [c \in Conns |-> {}]
    /\ head = [r \in Reqs |-> "pending"]
    /\ queue = [r \in Reqs |-> <<>>]
    /\ aborted = [r \in Reqs |-> FALSE]
    /\ got = [r \in Reqs |-> 0]
    /\ wait = [w \in Waiters |-> "free"]
    /\ waiters = {}
    /\ waiterTotal = 0

-----------------------------------------------------------------------------
(* The registry.                                                           *)

(* Mutant: the waiter of the response head is forgotten.                   *)
mutant_AbortAll(rs) ==
    /\ aborted' = [r \in Reqs |-> aborted[r] \/ r \in rs]
    /\ queue' = [r \in Reqs |-> IF r \in rs THEN Append(queue[r], "end")
                                            ELSE queue[r]]
    /\ UNCHANGED head

(* Mutant: the body ends, but the iterator is not told that it was cut.    *)
mutant_AbortAll2(rs) ==
    /\ head' = [r \in Reqs |-> IF r \in rs /\ head[r] = "pending" THEN "error"
                                                                ELSE head[r]]
    /\ queue' = [r \in Reqs |-> IF r \in rs THEN Append(queue[r], "end")
                                            ELSE queue[r]]
    /\ UNCHANGED aborted

(* _abort_request_state, for every request in flight.                      *)
AbortAll(rs) ==
    /\ aborted' = [r \in Reqs |-> aborted[r] \/ r \in rs]
    /\ head' = [r \in Reqs |-> IF r \in rs /\ head[r] = "pending" THEN "error"
                                                                ELSE head[r]]
    /\ queue' = [r \in Reqs |-> IF r \in rs THEN Append(queue[r], "end")
                                            ELSE queue[r]]

(* A session leaves the registry: its requests are aborted and forgotten,  *)
(* and its writer retired, which closes the socket.  Frames on their way   *)
(* are of no use any more: none would be routed.                           *)
Discard(c) ==
    IF c = NoConn
    THEN UNCHANGED <<inFlight, aborted, head, queue, link, down, up>>
    ELSE /\ AbortAll(inFlight[c])
         /\ inFlight' = [inFlight EXCEPT ![c] = {}]
         /\ link' = [link EXCEPT ![c] = "closed"]
         /\ down' = [down EXCEPT ![c] = <<>>]
         /\ up' = [up EXCEPT ![c] = <<>>]

(* register resolves every waiter of the runner and drops their state.     *)
WakeAll ==
    /\ wait' = [w \in Waiters |-> IF w \in waiters THEN "waking" ELSE wait[w]]
    /\ waiters' = {}
    /\ waiterTotal' = waiterTotal - Cardinality(waiters)

(* register: newest wins.                                                  *)
Register(c) ==
    /\ conn[c] = "accepted"
    /\ conn' = [conn EXCEPT ![c] = "connecting"]
    /\ current' = c
    /\ Discard(current)
    /\ WakeAll
    /\ UNCHANGED <<job, sent, pc, sess, got>>

(* Mutant: the handler removes whatever session is registered.             *)
mutant_Deregister(c) ==
    /\ Discard(current)
    /\ current' = NoConn

(* deregister with the generation guard.                                   *)
Deregister(c) ==
    IF current = c
    THEN Discard(c) /\ current' = NoConn
    ELSE UNCHANGED <<current, inFlight, aborted, head, queue, link, down, up>>

-----------------------------------------------------------------------------
(* The route handler of a connection.                                      *)

(* The runner dials and the upgrade is accepted.  It may have lost an      *)
(* earlier connection that the server still believes in, and two processes *)
(* may use one runner id.                                                  *)
Dial(c) ==
    /\ conn[c] = "free"
    /\ conn' = [conn EXCEPT ![c] = "accepted"]
    /\ link' = [link EXCEPT ![c] = "up"]
    /\ UNCHANGED <<current, wire, requests, inFlight, waiting>>

(* Another kind of frame than hello, or another protocol version: closed.  *)
Refuse(c) ==
    /\ conn[c] = "accepted"
    /\ conn' = [conn EXCEPT ![c] = "over"]
    /\ link' = [link EXCEPT ![c] = "closed"]
    /\ UNCHANGED <<current, wire, requests, inFlight, waiting>>

(* The socket closes before the hello frame: no session, but the           *)
(* disconnect hook runs.                                                   *)
LostBeforeHello(c) ==
    /\ conn[c] = "accepted" /\ link[c] = "closed"
    /\ conn' = [conn EXCEPT ![c] = "again"]
    /\ UNCHANGED <<current, link, wire, requests, inFlight, waiting>>

(* The hello frame cannot be decoded: the outer except clause deregisters  *)
(* the runner without a generation guard.  The socket stays open until the *)
(* handler returns.                                                        *)
HelloFails(c) ==
    /\ conn[c] = "accepted"
    /\ conn' = [conn EXCEPT ![c] = "again"]
    /\ Discard(current)
    /\ current' = NoConn
    /\ UNCHANGED <<job, sent, pc, sess, got, waiting>>

(* on_runner_connect returned, raised or ran into its timeout.             *)
Connected(c) ==
    /\ conn[c] = "connecting"
    /\ conn' = [conn EXCEPT ![c] = "serving"]
    /\ UNCHANGED <<current, link, wire, requests, inFlight, waiting>>

(* One of the helper tasks ends: the socket is closed (receive, sender),   *)
(* the session is no longer current (ping, receive), or the runner missed  *)
(* PING_MISS_THRESHOLD intervals (ping, which closes the socket).          *)
HelperEnds(c) ==
    /\ conn[c] = "serving"
    /\ current # c \/ link[c] # "up"
    /\ conn' = [conn EXCEPT ![c] = "closing"]
    /\ link' = [link EXCEPT ![c] = IF @ = "dead" THEN "closed" ELSE @]
    /\ UNCHANGED <<current, wire, requests, inFlight, waiting>>

(* The finally clause, once the helpers are cancelled.                     *)
Leave(c) ==
    /\ conn[c] = "closing"
    /\ conn' = [conn EXCEPT ![c] = "offline"]
    /\ Deregister(c)
    /\ UNCHANGED <<job, sent, pc, sess, got, waiting>>

(* on_runner_disconnect returned.  A helper's exception re-raised runs it  *)
(* once more in the outer except clause.                                   *)
Disconnected(c) ==
    /\ \/ conn[c] = "offline" /\ \E next \in {"again", "over"} :
             conn' = [conn EXCEPT ![c] = next]
       \/ conn[c] = "again" /\ conn' = [conn EXCEPT ![c] = "over"]
    /\ link' = [link EXCEPT ![c] = IF conn'[c] = "over" THEN "closed" ELSE @]
    /\ UNCHANGED <<current, wire, requests, inFlight, waiting>>

-----------------------------------------------------------------------------
(* A request: WSTunnelTransport.handle_async_request and its byte stream.  *)

(* close_request: on the session the request was opened on.                *)
CloseRequest(r) ==
    inFlight' = [inFlight EXCEPT ![sess[r]] = @ \ {r}]

Settle(r, how) == pc' = [pc EXCEPT ![r] = how]

(* A caller asks: refused when no runner is registered.                    *)
Ask(r) ==
    /\ pc[r] = "free"
    /\ Settle(r, IF current = NoConn THEN "failed" ELSE "reading")
    /\ UNCHANGED <<current, routes, wire, sess, head, queue, aborted, got,
                   inFlight, waiting>>

(* open_request, after the body was read: on whatever session is           *)
(* registered by now, or refused.                                          *)
OpenRequest(r) ==
    /\ pc[r] = "reading"
    /\ IF current = NoConn
       THEN Settle(r, "failed") /\ UNCHANGED <<sess, inFlight>>
       ELSE /\ Settle(r, "opened")
            /\ sess' = [sess EXCEPT ![r] = current]
            /\ inFlight' = [inFlight EXCEPT ![current] = @ \cup {r}]
    /\ UNCHANGED <<current, routes, wire, head, queue, aborted, got, waiting>>

(* send_text: the frame is queued if the session is still the current one; *)
(* otherwise the slot is freed and the ConnectionError raised.             *)
SendRequest(r) ==
    /\ pc[r] = "opened"
    /\ IF current = sess[r]
       THEN /\ Settle(r, "waiting")
            /\ down' = [down EXCEPT ![current] =
                            Append(@, [req |-> r, kind |-> "request"])]
            /\ UNCHANGED inFlight
       ELSE Settle(r, "failed") /\ CloseRequest(r) /\ UNCHANGED down
    /\ UNCHANGED <<current, routes, up, job, sent, sess, head, queue, aborted,
                   got, waiting>>

(* The response head arrives, or the abort.                                *)
AwaitHead(r) ==
    /\ pc[r] = "waiting"
    /\ \/ head[r] = "set" /\ Settle(r, "streaming") /\ UNCHANGED inFlight
       \/ head[r] = "error" /\ Settle(r, "failed") /\ CloseRequest(r)
    /\ UNCHANGED <<current, routes, wire, sess, head, queue, aborted, got,
                   waiting>>

(* Mutant: a cancelled head wait leaves its slot behind.                   *)
mutant_GiveUp(r) ==
    /\ pc[r] = "waiting"
    /\ Settle(r, "failed")
    /\ UNCHANGED <<current, routes, wire, sess, head, queue, aborted, got,
                   inFlight, waiting>>

(* The caller gives up; the runner is not told.                            *)
GiveUp(r) ==
    /\ pc[r] = "waiting"
    /\ Settle(r, "failed") /\ CloseRequest(r)
    /\ UNCHANGED <<current, routes, wire, sess, head, queue, aborted, got,
                   waiting>>

(* The byte stream's iterator takes one item: the abort is looked at       *)
(* first, so chunks that were queued before it are dropped with it.        *)
ReadBody(r) ==
    /\ pc[r] = "streaming"
    /\ queue[r] # <<>>
    /\ queue' = [queue EXCEPT ![r] = Tail(@)]
    /\ IF aborted[r] THEN Settle(r, "failed") /\ CloseRequest(r) /\ UNCHANGED got
       ELSE IF Head(queue[r]) = "end"
       THEN Settle(r, "done") /\ CloseRequest(r) /\ UNCHANGED got
       ELSE got' = [got EXCEPT ![r] = @ + 1] /\ UNCHANGED <<pc, inFlight>>
    /\ UNCHANGED <<current, routes, wire, sess, head, aborted, waiting>>

(* aclose: the consumer leaves early; the runner is told if the request is *)
(* open and its session current.                                           *)
CloseStream(r) ==
    /\ pc[r] = "streaming"
    /\ Settle(r, "closed") /\ CloseRequest(r)
    /\ IF r \in inFlight[sess[r]] /\ current = sess[r]
       THEN down' = [down EXCEPT ![current] =
                         Append(@, [req |-> r, kind |-> "cancel"])]
       ELSE UNCHANGED down
    /\ UNCHANGED <<current, routes, up, job, sent, sess, head, queue, aborted,
                   got, waiting>>

-----------------------------------------------------------------------------
(* wait_for_runner.                                                        *)

StartWait(w) ==
    /\ wait[w] = "free"
    /\ IF current # NoConn
       THEN wait' = [wait EXCEPT ![w] = "over"] /\ UNCHANGED <<waiters, waiterTotal>>
       ELSE IF Cardinality(waiters) >= MaxWaiters \/ waiterTotal >= MaxWaiters
       THEN wait' = [wait EXCEPT ![w] = "sleeping"] /\ UNCHANGED <<waiters, waiterTotal>>
       ELSE /\ wait' = [wait EXCEPT ![w] = "waiting"]
            /\ waiters' = waiters \cup {w}
            /\ waiterTotal' = waiterTotal + 1
    /\ UNCHANGED <<current, routes, wire, requests, inFlight>>

(* The finally clause.                                                     *)
Forget(w) ==
    /\ waiters' = waiters \ {w}
    /\ waiterTotal' = IF w \in waiters THEN waiterTotal - 1 ELSE waiterTotal

(* Woken with the session, or past the deadline: also when register has    *)
(* already dropped the future but its loop has not resolved it yet.        *)
EndWait(w) ==
    /\ wait[w] \in {"waiting", "waking"}
    /\ wait' = [wait EXCEPT ![w] = "over"]
    /\ Forget(w)
    /\ UNCHANGED <<current, routes, wire, requests, inFlight>>

(* Over the cap: sleeps for the whole timeout and then looks.              *)
WakeUp(w) ==
    /\ wait[w] = "sleeping"
    /\ wait' = [wait EXCEPT ![w] = "over"]
    /\ UNCHANGED <<current, routes, wire, requests, inFlight, waiters, waiterTotal>>

-----------------------------------------------------------------------------
(* The wire and the runner's end.                                          *)

(* The runner's process or network vanishes, or it closes its end.         *)
LinkBreaks(c, how) ==
    /\ link[c] = "up"
    /\ link' = [link EXCEPT ![c] = how]
    /\ UNCHANGED <<current, conn, wire, requests, inFlight, waiting>>

(* _handle_tunnel_frame: a request starts a dispatch task, a cancel        *)
(* cancels it.                                                             *)
RunnerReceives(c) ==
    /\ link[c] = "up"
    /\ down[c] # <<>>
    /\ down' = [down EXCEPT ![c] = Tail(@)]
    /\ LET r == Head(down[c]).req IN
       job' = [job EXCEPT ![r] =
                   IF Head(down[c]).kind = "request" THEN "running"
                   ELSE IF @ \in {"running", "headed"} THEN "cancelled" ELSE @]
    /\ UNCHANGED <<current, routes, up, sent, requests, inFlight, waiting>>

Send(r, kind) ==
    up' = [up EXCEPT ![sess[r]] = Append(@, [req |-> r, kind |-> kind])]

(* dispatch_via_asgi: the head, the chunks and the end of the response.  A *)
(* handler that raises after the head ends the response all the same.      *)
RunnerAnswers(r, kind) ==
    /\ sess[r] # NoConn /\ link[sess[r]] = "up"
    /\ \/ /\ kind = "head" /\ job[r] = "running"
          /\ job' = [job EXCEPT ![r] = "headed"]
          /\ UNCHANGED sent
       \/ /\ kind = "body" /\ job[r] = "headed" /\ sent[r] < MaxChunks
          /\ sent' = [sent EXCEPT ![r] = @ + 1]
          /\ UNCHANGED job
       \/ /\ kind = "end" /\ job[r] = "headed"
          /\ job' = [job EXCEPT ![r] = "ended"]
          /\ UNCHANGED sent
    /\ Send(r, kind)
    /\ UNCHANGED <<current, routes, down, requests, inFlight, waiting>>

(* route_response_frame: the session must be the current one and the       *)
(* request in flight on it.                                                *)
Routed(c, r) == current = c /\ r \in inFlight[c]

(* The receive loop takes one frame; an orphan is dropped.  Frames sent    *)
(* before the link broke may still arrive.                                 *)
Receive(c) ==
    /\ conn[c] \in Serving
    /\ up[c] # <<>>
    /\ up' = [up EXCEPT ![c] = Tail(@)]
    /\ LET r == Head(up[c]).req
           kind == Head(up[c]).kind
       IN  /\ head' = [head EXCEPT ![r] = IF Routed(c, r) /\ kind = "head" /\ @ = "pending"
                                          THEN "set" ELSE @]
           /\ queue' = [queue EXCEPT ![r] =
                  IF ~Routed(c, r) \/ kind = "head" THEN @
                  ELSE Append(@, IF kind = "body" THEN "chunk" ELSE "end")]
    /\ UNCHANGED <<current, routes, down, job, sent, pc, sess, aborted, got,
                   inFlight, waiting>>

-----------------------------------------------------------------------------
Handler(c) == HelperEnds(c) \/ Leave(c) \/ Disconnected(c)

Request(r) == OpenRequest(r) \/ SendRequest(r) \/ AwaitHead(r) \/ ReadBody(r)

Waiter(w) == EndWait(w) \/ WakeUp(w)

TunnelNext ==
    \/ \E c \in Conns : Dial(c) \/ Register(c) \/ Refuse(c)
    \/ \E c \in Conns : LostBeforeHello(c) \/ HelloFails(c)
    \/ \E c \in Conns : Connected(c)
    \/ \E c \in Conns : Handler(c)
    \/ \E c \in Conns, how \in {"dead", "closed"} : LinkBreaks(c, how)
    \/ \E c \in Conns : RunnerReceives(c)
    \/ \E c \in Conns : Receive(c)
    \/ \E r \in Reqs : Ask(r)
    \/ \E r \in Reqs : Request(r)
    \/ \E r \in Reqs : GiveUp(r) \/ CloseStream(r)
    \/ \E r \in Reqs, kind \in {"head", "body", "end"} : RunnerAnswers(r, kind)
    \/ \E w \in Waiters : StartWait(w)
    \/ \E w \in Waiters : Waiter(w)

TunnelSpec == TunnelInit /\ [][TunnelNext]_tunnelVars

(* The loops keep running ready coroutines, the connect hook is cut off by *)
(* its timeout, and the ping loop looks at the link again and again.       *)
(* Nothing is assumed of the runner, the network or the callers.           *)
TunnelFairSpec ==
    /\ TunnelSpec
    /\ \A c \in Conns : WF_tunnelVars(Connected(c)) /\ WF_tunnelVars(Handler(c))
    /\ \A r \in Reqs : WF_tunnelVars(Request(r))
    /\ \A w \in Waiters : WF_tunnelVars(Waiter(w))

-----------------------------------------------------------------------------
(* Properties.                                                             *)

(* No awaiter hangs on a tunnel that is gone: a request that waits for     *)
(* frames either is tracked on the registered session, where they will be  *)
(* routed to it, or has been told of the abort.                            *)
NoneForgotten ==
    \A r \in Reqs :
        pc[r] \in Active =>
            \/ aborted[r]
            \/ current = sess[r] /\ r \in inFlight[current]

(* Nothing is tracked for nobody: only the registered session has requests *)
(* in flight, and each of them still has a coroutine, so a long-lived      *)
(* tunnel does not collect the slots of abandoned requests.                *)
NoSlotLeaks ==
    \A c \in Conns : \A r \in inFlight[c] :
        current = c /\ sess[r] = c /\ pc[r] \in Active

(* A response that ends is the whole response: the consumer was given      *)
(* every chunk the runner sent before it ended the response, and a tunnel  *)
(* that breaks in between is never taken for the end of the body.          *)
NeverTruncated ==
    \A r \in Reqs :
        /\ got[r] <= sent[r]
        /\ pc[r] = "done" => job[r] = "ended" /\ got[r] = sent[r]

(* A waiter sleeps only while no runner is registered, and exactly the     *)
(* sleeping waiters are counted: a wake-up cannot be lost between the      *)
(* look-up and the wait, and a count that leaked would use up the cap.     *)
WaitersAccounted ==
    /\ waiters = {w \in Waiters : wait[w] = "waiting"}
    /\ waiters # {} => current = NoConn
    /\ waiterTotal = Cardinality(waiters)

(* What holds of the registry in every state.                              *)
TunnelInv == TypeOK /\ NoneForgotten /\ NoSlotLeaks /\ WaitersAccounted

(* Newest wins: a registered tunnel is replaced by a newer one or removed  *)
(* by its own handler, never by the late teardown of another.  The one     *)
(* exception is a connection whose hello frame cannot be decoded: its      *)
(* handler deregisters the runner without naming a session.                *)
NewestWins ==
    [][\A c \in Conns :
          current = c /\ current' = NoConn =>
              \/ conn[c] = "closing"
              \/ \E d \in Conns : conn[d] = "accepted" /\ conn'[d] = "again"
      ]_tunnelVars

(* A request whose tunnel is lost or replaced comes to an end.             *)
LostRequestsSettle ==
    \A r \in Reqs :
        (pc[r] \in Active /\ current # sess[r]) ~> (pc[r] \in Settled)

(* A tunnel whose runner is gone does not stay registered.                 *)
DeadTunnelsLeave ==
    \A c \in Conns : (current = c /\ link[c] # "up") ~> (current # c)

(* The loss of a tunnel is settled on both sides: its requests end and its *)
(* entry goes.                                                             *)
LossSettles == LostRequestsSettle /\ DeadTunnelsLeave
=============================================================================
