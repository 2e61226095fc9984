--------------------------- MODULE RunnerRecovery ---------------------------
(***************************************************************************)
(* What the server tells of a session when its runner's tunnel comes and   *)
(* goes: the tunnel's connect and disconnect hooks (server/app.py), the    *)
(* relay that streams the runner's events to the session                   *)
(* (_relay_runner_stream, one request through the tunnel), the recovery of *)
(* a session marked failed, and a user's Stop.  One session, bound to the  *)
(* runner of RunnerTunnel, whose requests are the relay tasks started one  *)
(* after another.                                                          *)
(*                                                                         *)
(* All of it runs on one event loop.  A coroutine gives way at an await;   *)
(* a store call runs in a thread meanwhile, and its effect and the         *)
(* coroutine's next step are two steps.                                    *)
(***************************************************************************)
EXTENDS RunnerTunnel

CONSTANTS NoReq     \* not a relay

ASSUME NoReqAssumption == NoReq \notin Reqs

VARIABLES
    status,     \* _session_status_cache, as published
    label,      \* the persisted last_task_error code of the session
    task,       \* task[r]: the relay task whose stream is request r
    slot,       \* _runner_relay_tasks: the relay task of the session
    hook,       \* hook[c]: how far the hook the handler of c awaits has come
    stop,       \* _intentional_stop_sessions holds the session
    failure     \* the runner reported a failure of the last turn with its
                \* detail (a history variable): it stands until the next turn

sessionVars == <<status, label, task, slot, hook, stop, failure>>
recoveryVars == <<tunnelVars, sessionVars>>

Labels == {"none", "task", "disconnected"}
RelayAwaits == {"failing", "running", "disconnected", "stopped", "written"}
Live == {"streaming"} \cup RelayAwaits

(* One type invariant.                                                     *)
RecoveryTypeOK ==
    /\ TypeOK
    /\ status \in {"idle", "running", "failed"}
    /\ label \in Labels
    /\ task \in [Reqs -> {"none", "over"} \cup Live]
    /\ slot \in Reqs \cup {NoReq}
    /\ hook \in [Conns -> {"none", "listing", "initializing", "reading",
                           "recovering", "clearing", "marking"}]
    /\ stop \in BOOLEAN
    /\ failure \in BOOLEAN

Init ==
    /\ TunnelInit
    /\ status = "idle"
    /\ label = "none"
    /\ task = [r \in Reqs |-> "none"]
    /\ slot = NoReq
    /\ hook = [c \in Conns |-> "none"]
    /\ stop = FALSE
    /\ failure = FALSE

(* _publish_status: failed is sticky against a trailing idle.              *)
Publish(new) ==
    status' = IF new = "idle" /\ status = "failed" THEN status ELSE new

-----------------------------------------------------------------------------
(* The relay task.                                                         *)

(* Mutant: a relay is started whatever the slot holds.                     *)
mutant_EnsureRelay ==
    IF \A r \in Reqs : task[r] # "none"
    THEN UNCHANGED <<task, slot>>
    ELSE \E r \in Reqs :
           /\ task[r] = "none"
           /\ task' = [task EXCEPT ![r] = "streaming"]
           /\ slot' = r

(* _ensure_runner_relay: nothing to do while the task in the slot is not   *)
(* done.                                                                   *)
EnsureRelay ==
    IF slot # NoReq \/ \A r \in Reqs : task[r] # "none"
    THEN UNCHANGED <<task, slot>>
    ELSE \E r \in Reqs :
           /\ task[r] = "none"
           /\ task' = [task EXCEPT ![r] = "streaming"]
           /\ slot' = r

(* The task is done: its callback clears the slot it holds.                *)
RelayOver(r) ==
    /\ task' = [task EXCEPT ![r] = "over"]
    /\ slot' = IF slot = r THEN NoReq ELSE slot

(* The transport failed.  After a Stop the session settles quietly, else   *)
(* it is published as failed; the label follows.                           *)
TransportLost(r) ==
    IF stop
    THEN /\ stop' = FALSE
         /\ Publish("idle")
         /\ task' = [task EXCEPT ![r] = "stopped"]
         /\ UNCHANGED <<label, slot, hook, failure>>
    ELSE /\ Publish("failed")
         /\ task' = [task EXCEPT ![r] = "disconnected"]
         /\ UNCHANGED <<label, slot, hook, stop, failure>>

(* The stream ended: the task is done, and drops a Stop's marker.          *)
StreamEnded(r) ==
    /\ RelayOver(r)
    /\ stop' = FALSE
    /\ UNCHANGED <<status, label, hook, failure>>

(* One step of the request under the relay; an exception or the end of the *)
(* stream is handled in the same step, as no await lies between.           *)
RelayTransport(r) ==
    /\ task[r] = "streaming"
    /\ Ask(r) \/ OpenRequest(r) \/ SendRequest(r) \/ AwaitHead(r)
       \/ (ReadBody(r) /\ got' = got)
    /\ IF pc'[r] = "failed" THEN TransportLost(r)
       ELSE IF pc'[r] = "done" THEN StreamEnded(r)
       ELSE UNCHANGED sessionVars

(* A chunk is the runner's [DONE]: the relay leaves the stream.            *)
RelayLeaves(r) ==
    /\ task[r] = "streaming"
    /\ queue[r] # <<>> /\ Head(queue[r]) = "chunk" /\ ~aborted[r]
    /\ CloseStream(r)
    /\ StreamEnded(r)

(* A chunk carries a session.status event of the runner: a turn starts,    *)
(* fails or goes idle.  The first, and a failure that comes with its       *)
(* detail, write the label before they are published.                      *)
RelayReads(r, edge) ==
    /\ task[r] = "streaming"
    /\ ReadBody(r) /\ got' # got
    /\ \/ /\ edge \in {"idle", "failed"}
          /\ Publish(edge)
          /\ UNCHANGED <<label, task, slot, hook, stop, failure>>
       \/ /\ edge \in {"running", "failing"}
          /\ failure' = (edge = "failing")
          /\ task' = [task EXCEPT ![r] = edge]
          /\ UNCHANGED <<status, label, slot, hook, stop>>

(* The thread writes the label the relay awaits, and the relay goes on: it *)
(* publishes the edge and reads on, or it is done.                         *)
RelayWrites(r) ==
    /\ task[r] \in {"failing", "running"}
    /\ label' = IF task[r] = "failing" THEN "task" ELSE "none"
    /\ stop' = IF task[r] = "running" THEN FALSE ELSE stop
    /\ Publish(IF task[r] = "failing" THEN "failed" ELSE "running")
    /\ task' = [task EXCEPT ![r] = "streaming"]
    /\ UNCHANGED <<tunnelVars, slot, hook, failure>>

RelayLabels(r) ==
    /\ task[r] \in {"disconnected", "stopped"}
    /\ label' = IF task[r] = "disconnected" THEN "disconnected" ELSE "none"
    /\ task' = [task EXCEPT ![r] = "written"]
    /\ UNCHANGED <<tunnelVars, status, slot, hook, stop, failure>>

RelayExits(r) ==
    /\ task[r] = "written"
    /\ RelayOver(r)
    /\ stop' = FALSE
    /\ UNCHANGED <<tunnelVars, status, label, hook, failure>>

-----------------------------------------------------------------------------
(* on_runner_connect.                                                      *)

SetHook(c, next) == hook' = [hook EXCEPT ![c] = next]

(* The tunnel registers and its handler awaits the hook, which lists the   *)
(* sessions of the runner.                                                 *)
RunnerConnects(c) ==
    /\ Register(c)
    /\ SetHook(c, "listing")
    /\ UNCHANGED <<status, label, task, slot, stop, failure>>

(* The session is routed, unless the runner is offline again, and          *)
(* initialised by a request to the runner.                                 *)
HookListed(c) ==
    /\ hook[c] = "listing" /\ conn[c] = "connecting"
    /\ current # NoConn
    /\ SetHook(c, "initializing")
    /\ UNCHANGED <<tunnelVars, status, label, task, slot, stop, failure>>

(* The relay is ensured, and a session that is marked failed is looked at. *)
HookInitialized(c) ==
    /\ hook[c] = "initializing"
    /\ EnsureRelay
    /\ IF status = "failed"
       THEN SetHook(c, "reading") /\ UNCHANGED tunnelVars
       ELSE SetHook(c, "none") /\ Connected(c)
    /\ UNCHANGED <<status, label, stop, failure>>

(* The label is read: only a disconnect is recovered from.                 *)
HookReads(c) ==
    /\ hook[c] = "reading"
    /\ IF label = "disconnected"
       THEN SetHook(c, "recovering") /\ UNCHANGED tunnelVars
       ELSE SetHook(c, "none") /\ Connected(c)
    /\ UNCHANGED <<status, label, task, slot, stop, failure>>

(* _publish_runner_recovered_status_impl goes on: idle, past the sticky    *)
(* guard, and then the label.                                              *)
HookRecovers(c) ==
    /\ hook[c] = "recovering"
    /\ status' = "idle"
    /\ SetHook(c, "clearing")
    /\ UNCHANGED <<tunnelVars, label, task, slot, stop, failure>>

HookClears(c) ==
    /\ hook[c] = "clearing"
    /\ label' = "none"
    /\ SetHook(c, "none")
    /\ Connected(c)
    /\ UNCHANGED <<status, task, slot, stop, failure>>

(* The runner is offline, the list raises, or the hook's timeout cuts it   *)
(* off at an await.                                                        *)
HookEnds(c) ==
    /\ hook[c] \in {"listing", "initializing", "reading", "recovering"}
    /\ conn[c] = "connecting"
    /\ SetHook(c, "none")
    /\ Connected(c)
    /\ UNCHANGED <<status, label, task, slot, stop, failure>>

-----------------------------------------------------------------------------
(* on_runner_disconnect.                                                   *)

(* Mutant: the sessions are left to the relay.                             *)
mutant_DisconnectChecks(c) ==
    /\ hook[c] = "none"
    /\ conn[c] \in {"offline", "again"}
    /\ Disconnected(c)
    /\ UNCHANGED sessionVars

(* A newer tunnel is registered: nothing to do.  Otherwise the sessions of *)
(* the runner are listed.                                                  *)
DisconnectChecks(c) ==
    /\ hook[c] = "none"
    /\ conn[c] \in {"offline", "again"}
    /\ IF current # NoConn
       THEN Disconnected(c) /\ UNCHANGED sessionVars
       ELSE /\ SetHook(c, "marking")
            /\ UNCHANGED <<tunnelVars, status, label, task, slot, stop, failure>>

(* They are marked failed, without another look at the registry.           *)
DisconnectMarks(c) ==
    /\ hook[c] = "marking"
    /\ Publish("failed")
    /\ SetHook(c, "none")
    /\ Disconnected(c)
    /\ UNCHANGED <<label, task, slot, stop, failure>>

-----------------------------------------------------------------------------
(* A user's message ensures the relay and initialises the session; success *)
(* clears any failure, a genuine one too.                                  *)
UserMessage ==
    /\ current # NoConn
    /\ slot = NoReq
    /\ EnsureRelay
    /\ failure' = FALSE
    /\ IF status = "failed" THEN status' = "idle" /\ label' = "none"
                            ELSE UNCHANGED <<status, label>>
    /\ UNCHANGED <<tunnelVars, hook, stop>>

(* Stop on a session whose runner a host launched: the marker, then the    *)
(* host brings the runner down, or cannot and the marker is dropped.       *)
UserStops ==
    /\ current # NoConn /\ ~stop
    /\ stop' = TRUE
    /\ UNCHANGED <<tunnelVars, status, label, task, slot, hook, failure>>

HostAnswersStop(c) ==
    /\ stop
    /\ \/ LinkBreaks(c, "closed") /\ UNCHANGED stop
       \/ stop' = FALSE /\ UNCHANGED tunnelVars
    /\ UNCHANGED <<status, label, task, slot, hook, failure>>

(* Steps of the tunnel that the session does not see.                      *)
TunnelStep ==
    /\ \/ \E c \in Conns : Dial(c) \/ Refuse(c) \/ LostBeforeHello(c) \/ HelloFails(c)
       \/ \E c \in Conns : HelperEnds(c) \/ Leave(c)
       \/ \E c \in Conns, how \in {"dead", "closed"} : LinkBreaks(c, how)
       \/ \E c \in Conns : RunnerReceives(c) \/ Receive(c)
       \/ \E r \in Reqs, kind \in {"head", "body", "end"} : RunnerAnswers(r, kind)
    /\ UNCHANGED sessionVars

ConnectHook(c) == \/ HookListed(c) \/ HookInitialized(c) \/ HookReads(c)
                  \/ HookRecovers(c) \/ HookClears(c) \/ HookEnds(c)

DisconnectHook(c) == DisconnectChecks(c) \/ DisconnectMarks(c)

Relay(r) == RelayTransport(r) \/ RelayWrites(r) \/ RelayLabels(r) \/ RelayExits(r)

Next ==
    \/ TunnelStep
    \/ \E c \in Conns : RunnerConnects(c)
    \/ \E c \in Conns : ConnectHook(c)
    \/ \E c \in Conns : DisconnectHook(c)
    \/ \E r \in Reqs : Relay(r)
    \/ \E r \in Reqs : RelayLeaves(r)
    \/ \E r \in Reqs, edge \in {"idle", "failed", "running", "failing"} : RelayReads(r, edge)
    \/ UserMessage
    \/ UserStops
    \/ \E c \in Conns : HostAnswersStop(c)

Spec == Init /\ [][Next]_recoveryVars

-----------------------------------------------------------------------------
(* Properties.                                                             *)

(* The session's events are relayed once: two relay tasks never live side  *)
(* by side (each would persist every item of the transcript), and the slot *)
(* names the one that lives.                                               *)
OneRelay == \A r \in Reqs : task[r] \in Live <=> slot = r

RelayInv == RecoveryTypeOK /\ OneRelay

(* Nobody is left to change the status.                                    *)
Quiet ==
    /\ \A c \in Conns : conn[c] \in {"free", "over"}
    /\ \A r \in Reqs : task[r] \notin Live

(* Once everything about a lost runner is over, its session is not shown   *)
(* as running: whichever of relay, connect hook and disconnect hook had    *)
(* the last word, over one tunnel or several.                              *)
LostRunnerIsNotRunning == Quiet => status # "running"

(* The helper behind the connect hook is documented to clear a disconnect  *)
(* only: a failure the runner reported of a turn is shown until the user   *)
(* or the runner starts another.                                           *)
FailureSurvivesReconnect ==
    failure /\ (\A r \in Reqs : task[r] # "failing") => status = "failed"
=============================================================================
