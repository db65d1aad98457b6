----------------------------- MODULE ProxyServer -----------------------------
(***************************************************************************)
(* The model listener of a session and its shutdown (proxy/server.ts), the *)
(* handler of a supported request (proxy/supported-route.ts), the callbacks*)
(* of its dispatch (proxy/stream.ts), the receipt in attempts.jsonl and    *)
(* the guarantee shown to the user (runtime/attempt-ledger.ts,             *)
(* guarantee.ts).                                                          *)
(*                                                                         *)
(* An action is one callback of the event loop with the microtasks it      *)
(* resolves.  A request has a connection of its own, and its identity is   *)
(* that of its attempt.                                                    *)
(***************************************************************************)
EXTENDS Integers, FiniteSets

CONSTANTS
  Request       \* requests, and the connections they come on

ASSUME RequestAssumption == IsFiniteSet(Request)

VARIABLES
  phase,        \* where close() is
  report,       \* what it reported of the drain
  active,       \* activeRequests
  guarantee,    \* what the user is shown
  kind,         \* how each request was classified, once it arrived
  handler,      \* where its handler is
  reply,        \* the response to the client
  attempt,      \* the state of its attempt
  settled,      \* the flag of that name in dispatchArtifact
  connected,    \* whether the upstream socket was seen to connect
  upstream,     \* the events the upstream request may still raise
  evidence      \* whether attempts.jsonl holds a receipt of the attempt

server == <<phase, report, active, guarantee>>
dispatch == <<attempt, settled, connected, upstream, evidence>>
vars == <<server, kind, handler, reply, dispatch>>

Terminal == {"rejected-before-handoff", "response-completed", "response-aborted",
             "failed-no-connection", "failed-after-connection-delivery-unknown"}
Handed == {"handed-to-http", "request-stream-finished-locally", "response-started"}
AttemptStates == Terminal \cup Handed \cup {"none", "compiled"}

TypeOK ==
  /\ phase \in {"open", "releasing", "draining", "waiting", "closed"}
  /\ report \in {"none", "drained", "forced"}
  /\ active \in 0 .. Cardinality(Request)
  /\ guarantee \in {"unverified", "active", "rejected"}
  /\ kind \in [Request -> {"none", "supported", "refused", "opaque", "upgraded"}]
  /\ handler \in [Request -> {"idle", "reading", "dispatching", "forwarding", "done"}]
  /\ reply \in [Request -> {"none", "open", "ended", "finished", "closed"}]
  /\ attempt \in [Request -> AttemptStates]
  /\ settled \in [Request -> BOOLEAN]
  /\ connected \in [Request -> BOOLEAN]
  /\ upstream \in [Request -> SUBSET {"finish", "response", "error"}]
  /\ evidence \in [Request -> BOOLEAN]

Init ==
  /\ phase = "open" /\ report = "none" /\ active = 0 /\ guarantee = "unverified"
  /\ kind = [r \in Request |-> "none"]
  /\ handler = [r \in Request |-> "idle"]
  /\ reply = [r \in Request |-> "none"]
  /\ attempt = [r \in Request |-> "none"]
  /\ settled = [r \in Request |-> FALSE]
  /\ connected = [r \in Request |-> FALSE]
  /\ upstream = [r \in Request |-> {}]
  /\ evidence = [r \in Request |-> FALSE]

(***************************************************************************)
(* Arrival.                                                                *)
(***************************************************************************)
(* The integrations refuse once their close() began. *)
SessionOpen == phase = "open"

(* A connection accepted before close() may carry its request after it,    *)
(* until it is destroyed.                                                  *)
Accepting == phase # "closed" /\ report # "forced"

Arrive(r) ==
  /\ Accepting
  /\ kind[r] = "none"
  /\ active' = active + 1
  /\ \/ /\ kind' = [kind EXCEPT ![r] = "supported"]
        /\ SessionOpen
        /\ handler' = [handler EXCEPT ![r] = "reading"]
        /\ reply' = [reply EXCEPT ![r] = "open"]
        /\ UNCHANGED guarantee
     \/ /\ kind' = [kind EXCEPT ![r] = "supported"]
        /\ ~SessionOpen
        /\ handler' = [handler EXCEPT ![r] = "done"]
        /\ reply' = [reply EXCEPT ![r] = "ended"]
        /\ UNCHANGED guarantee
     \/ /\ kind' = [kind EXCEPT ![r] = "refused"]
        /\ guarantee' = "rejected"
        /\ handler' = [handler EXCEPT ![r] = "done"]
        /\ reply' = [reply EXCEPT ![r] = "ended"]
     \/ /\ kind' = [kind EXCEPT ![r] = "opaque"]
        /\ handler' = [handler EXCEPT ![r] = "forwarding"]
        /\ reply' = [reply EXCEPT ![r] = "open"]
        /\ UNCHANGED guarantee
  /\ UNCHANGED <<phase, report, dispatch>>

(* A WebSocket of a route without surgery is piped through and not counted.*)
Upgrade(r) ==
  /\ Accepting
  /\ kind[r] = "none"
  /\ kind' = [kind EXCEPT ![r] = "upgraded"]
  /\ reply' = [reply EXCEPT ![r] = "open"]
  /\ UNCHANGED <<server, handler, dispatch>>

(***************************************************************************)
(* Compilation and handoff, when the body is read.                         *)
(***************************************************************************)
EndReply(r) ==
  reply' = [reply EXCEPT ![r] = IF @ = "open" THEN "ended" ELSE @]

(* Mutant: a receipt that cannot be written is only reported. *)
RecordedOrNot(r) ==
  \/ evidence' = [evidence EXCEPT ![r] = TRUE]
  \/ UNCHANGED evidence

(* emit("compiled"), which throws when the ledger cannot record it. *)
Recorded(r) == evidence' = [evidence EXCEPT ![r] = TRUE]

Refuse(r, state) ==
  /\ attempt' = [attempt EXCEPT ![r] = state]
  /\ handler' = [handler EXCEPT ![r] = "done"]
  /\ EndReply(r)
  /\ UNCHANGED <<connected, upstream>>

BodyRead(r) ==
  /\ handler[r] = "reading"
  /\ \/ \* compileSupportedRequest throws
        /\ Refuse(r, "none")
        /\ UNCHANGED <<evidence, settled>>
     \/ \* the ledger cannot record the compiled receipt
        /\ Refuse(r, "compiled")
        /\ UNCHANGED <<evidence, settled>>
     \/ \* the artifact or its URL is refused
        /\ Refuse(r, "rejected-before-handoff")
        /\ Recorded(r)
        /\ settled' = [settled EXCEPT ![r] = TRUE]
     \/ \* upstreamReq.end(bytes)
        /\ Recorded(r)
        /\ attempt' = [attempt EXCEPT ![r] = "handed-to-http"]
        /\ upstream' = [upstream EXCEPT ![r] = {"finish", "response", "error"}]
        /\ handler' = [handler EXCEPT ![r] = "dispatching"]
        /\ UNCHANGED <<connected, settled, reply>>
  /\ UNCHANGED <<server, kind>>

(***************************************************************************)
(* Callbacks of the upstream request and response.                         *)
(***************************************************************************)
(* Mutant: a rejected session is shown as active again. *)
MarkActiveAnyway == guarantee' = "active"

MarkActive == guarantee' = IF guarantee = "rejected" THEN guarantee ELSE "active"

(* finish(): the promise resolves and the handler marks the session. *)
Finish(r, state) ==
  /\ settled' = [settled EXCEPT ![r] = TRUE]
  /\ attempt' = [attempt EXCEPT ![r] = state]
  /\ handler' = [handler EXCEPT ![r] = "done"]
  /\ MarkActive

Failed(r) ==
  IF connected[r] THEN "failed-after-connection-delivery-unknown"
  ELSE "failed-no-connection"

Aborted(r) ==
  IF "response" \in upstream[r] THEN Failed(r) ELSE "response-aborted"

Connect(r) ==
  /\ upstream[r] # {} /\ ~connected[r] /\ ~settled[r]
  /\ connected' = [connected EXCEPT ![r] = TRUE]
  /\ UNCHANGED <<server, kind, handler, reply, attempt, settled, upstream, evidence>>

(* Mutant: the event is reported after the attempt has settled. *)
StreamFinishedAlways(r) ==
  /\ "finish" \in upstream[r] /\ connected[r]
  /\ upstream' = [upstream EXCEPT ![r] = @ \ {"finish"}]
  /\ attempt' = [attempt EXCEPT ![r] = "request-stream-finished-locally"]
  /\ UNCHANGED <<server, kind, handler, reply, settled, connected, evidence>>

(* The last byte went to the socket.  An upstream that answers early may   *)
(* have started its response by then, or ended it.                         *)
StreamFinished(r) ==
  /\ "finish" \in upstream[r] /\ connected[r]
  /\ upstream' = [upstream EXCEPT ![r] = @ \ {"finish"}]
  /\ attempt' = [attempt EXCEPT ![r] =
                   IF settled[r] THEN @ ELSE "request-stream-finished-locally"]
  /\ UNCHANGED <<server, kind, handler, reply, settled, connected, evidence>>

ResponseStarted(r) ==
  /\ "response" \in upstream[r] /\ connected[r]
  /\ upstream' = [upstream EXCEPT ![r] = @ \ {"response"}]
  /\ attempt' = [attempt EXCEPT ![r] = "response-started"]
  /\ UNCHANGED <<server, kind, handler, reply, settled, connected, evidence>>

ResponseEnded(r) ==
  /\ upstream[r] # {} /\ "response" \notin upstream[r] /\ ~settled[r]
  /\ Finish(r, "response-completed")
  /\ EndReply(r)
  /\ UNCHANGED <<phase, report, active, kind, connected, upstream, evidence>>

(* error of the request, or aborted, error or close of the response *)
UpstreamFails(r) ==
  /\ "error" \in upstream[r]
  /\ upstream' = [upstream EXCEPT ![r] = {}]
  /\ \/ /\ ~settled[r]
        /\ Finish(r, Aborted(r))
        /\ EndReply(r)
     \/ /\ settled[r]
        /\ UNCHANGED <<attempt, settled, handler, reply, guarantee>>
  /\ UNCHANGED <<phase, report, active, kind, connected, evidence>>

(* forwardToUpstream() answers, or fails. *)
Forwarded(r) ==
  /\ handler[r] = "forwarding"
  /\ handler' = [handler EXCEPT ![r] = "done"]
  /\ EndReply(r)
  /\ UNCHANGED <<server, kind, dispatch>>

(***************************************************************************)
(* The client's side of the response.                                      *)
(***************************************************************************)
(* Mutant: finish and close both count. *)
CompleteTwice(r) ==
  active' = IF kind[r] = "upgraded" \/ active = 0 THEN active ELSE active - 1

(* complete(): finish and close of a response, of which the first counts.  *)
Complete(r) ==
  active' = IF kind[r] # "upgraded" /\ reply[r] \in {"open", "ended"}
            THEN active - 1 ELSE active

ReplyFinished(r) ==
  /\ reply[r] = "ended"
  /\ reply' = [reply EXCEPT ![r] = "finished"]
  /\ Complete(r)
  /\ UNCHANGED <<phase, report, guarantee, kind, handler, dispatch>>

(* Mutant: the dispatch does not notice that the client is gone. *)
AbandonNever(r) == UNCHANGED <<handler, attempt, settled, upstream, guarantee>>

(* The reader of the body rejects; the dispatch settles, unless the        *)
(* response was ended, and destroys the upstream request.                  *)
Abandon(r) ==
  \/ /\ handler[r] = "reading"
     /\ handler' = [handler EXCEPT ![r] = "done"]
     /\ UNCHANGED <<attempt, settled, upstream, guarantee>>
  \/ /\ handler[r] = "dispatching"
     /\ Finish(r, Aborted(r))
     /\ upstream' = [upstream EXCEPT ![r] = {}]
  \/ /\ handler[r] \notin {"reading", "dispatching"}
     /\ UNCHANGED <<handler, attempt, settled, upstream, guarantee>>

(* The connection ends: the client leaves, the proxy destroys it, or it    *)
(* was idle for too long.                                                  *)
ConnectionCloses(r) ==
  /\ reply[r] \in {"open", "ended", "finished"}
  /\ reply' = [reply EXCEPT ![r] = "closed"]
  /\ Complete(r)
  /\ Abandon(r)
  /\ UNCHANGED <<phase, report, kind, connected, evidence>>

(***************************************************************************)
(* close().                                                                *)
(***************************************************************************)
Close ==
  /\ phase = "open"
  /\ phase' = "releasing"
  /\ UNCHANGED <<report, active, guarantee, kind, handler, reply, dispatch>>

(* The control socket is closed and the ownership lock released. *)
Release ==
  /\ phase = "releasing"
  /\ phase' = "draining"
  /\ UNCHANGED <<report, active, guarantee, kind, handler, reply, dispatch>>

Drained ==
  /\ phase = "draining"
  /\ active = 0
  /\ phase' = "waiting" /\ report' = "drained"
  /\ UNCHANGED <<active, guarantee, kind, handler, reply, dispatch>>

(* The deadline: every connection is destroyed, see Destroyed. *)
ForceClose ==
  /\ phase = "draining"
  /\ active > 0
  /\ phase' = "waiting" /\ report' = "forced"
  /\ UNCHANGED <<active, guarantee, kind, handler, reply, dispatch>>

ConnectionOpen(r) == reply[r] \in {"open", "ended", "finished"}

(* serverClosed *)
Closed ==
  /\ phase = "waiting"
  /\ \A r \in Request : ~ConnectionOpen(r)
  /\ phase' = "closed"
  /\ UNCHANGED <<report, active, guarantee, kind, handler, reply, dispatch>>

RequestNext(r) ==
  \/ Arrive(r) \/ Upgrade(r) \/ BodyRead(r)
  \/ Connect(r) \/ StreamFinished(r) \/ ResponseStarted(r) \/ ResponseEnded(r)
  \/ UpstreamFails(r) \/ Forwarded(r)
  \/ ReplyFinished(r) \/ ConnectionCloses(r)

CloseNext == Close \/ Release \/ Drained \/ ForceClose \/ Closed

Next == (\E r \in Request : RequestNext(r)) \/ CloseNext

Spec == Init /\ [][Next]_vars

(* Mutants: only requests in flight lose their connection, or none does. *)
DestroyedCounted(r) ==
  /\ (report = "forced" /\ kind[r] # "upgraded") \/ reply[r] = "finished"
  /\ ConnectionCloses(r)
DestroyedNever(r) ==
  /\ reply[r] = "finished"
  /\ ConnectionCloses(r)

(* The connections the proxy ends by itself: destroyed ones, and idle ones *)
(* after the keep-alive timeout.                                           *)
Destroyed(r) ==
  /\ report = "forced" \/ reply[r] = "finished"
  /\ ConnectionCloses(r)

(* close() goes on by itself.  Nothing is assumed of clients and providers.*)
FairSpec ==
  /\ Spec
  /\ WF_vars(Release) /\ WF_vars(Drained \/ ForceClose) /\ WF_vars(Closed)
  /\ \A r \in Request : WF_vars(Destroyed(r))

(***************************************************************************)
(* Properties.                                                             *)
(***************************************************************************)
(* activeRequests counts the requests whose response is not finished and   *)
(* not closed, in whichever order finish, close and a disconnect come.     *)
ActiveCounted ==
  active = Cardinality({r \in Request :
             kind[r] # "upgraded" /\ reply[r] \in {"open", "ended"}})

(* A drain that is reported complete leaves nothing behind: no body is     *)
(* being read and every attempt that was handed to HTTP has settled.       *)
DrainedIsDone ==
  report = "drained" =>
    \A r \in Request : /\ handler[r] \notin {"reading", "dispatching"}
                       /\ attempt[r] \in Handed => settled[r]

(* No request is handed to the provider without a receipt in the ledger    *)
(* (the throw of onAttemptReceipt before the handoff).                     *)
EvidenceFirst ==
  \A r \in Request : attempt[r] \notin {"none", "compiled"} => evidence[r]

(* The guarantee is rejected exactly when a request was, whatever attempts *)
(* end later, and active only after one was handed over and settled.       *)
GuaranteeTruth ==
  /\ guarantee = "rejected" <=> \E r \in Request : kind[r] = "refused"
  /\ guarantee = "active" =>
       \E r \in Request : settled[r] /\ attempt[r] # "rejected-before-handoff"

(* An attempt settles once: no late event of the request, its response or  *)
(* its client changes the outcome, and a settled attempt has one.          *)
SettledIsFinal ==
  [][\A r \in Request : settled[r] =>
       settled'[r] /\ attempt[r] \in Terminal /\ attempt'[r] = attempt[r]]_vars

(* When the proxy closes, every attempt in flight settles, also when its   *)
(* provider never answers.                                                 *)
AttemptsSettle ==
  \A r \in Request :
    (phase = "draining" /\ handler[r] = "dispatching") ~> settled[r]

(* close() returns, unless a piped WebSocket stays open or a request that  *)
(* came after the drain is not answered: neither is ever forced.           *)
Lingers ==
  /\ report # "forced"
  /\ \/ \E r \in Request : kind[r] = "upgraded" /\ reply[r] = "open"
     \/ phase = "waiting" /\ active > 0
ShutdownEnds == []<>Lingers \/ ((phase = "releasing") ~> (phase = "closed"))
=============================================================================
