------------------------- MODULE ProxyServer_proofs -------------------------
(***************************************************************************)
(* The count of requests, the drain, the evidence and the outcome of       *)
(* attempts: proofs about ProxyServer for any number of requests.          *)
(***************************************************************************)
EXTENDS ProxyServer, FiniteSetTheorems, TLAPS

Counted == {r \in Request : kind[r] # "upgraded" /\ reply[r] \in {"open", "ended"}}

(* The types of the variables, but for the bound of the counter. *)
Typed ==
  /\ phase \in {"open", "releasing", "draining", "waiting", "closed"}
  /\ report \in {"none", "drained", "forced"}
  /\ active \in Int
  /\ guarantee \in {"unverified", "active", "rejected"}
  /\ kind \in [Request -> {"none", "supported", "refused", "opaque", "upgraded"}]
  /\ handler \in [Request -> {"idle", "reading", "dispatching", "forwarding", "done"}]
  /\ reply \in [Request -> {"none", "open", "ended", "finished", "closed"}]
  /\ attempt \in [Request -> AttemptStates]
  /\ settled \in [Request -> BOOLEAN]
  /\ connected \in [Request -> BOOLEAN]
  /\ upstream \in [Request -> SUBSET {"finish", "response", "error"}]
  /\ evidence \in [Request -> BOOLEAN]

(* Where a request, its handler and its attempt stand together. *)
Progress(r) ==
  /\ kind[r] = "none" => reply[r] = "none"
  /\ kind[r] \in {"none", "upgraded"} => handler[r] = "idle"
  /\ handler[r] \in {"idle", "reading"} => attempt[r] = "none" /\ ~settled[r]
  /\ handler[r] \in {"reading", "dispatching"} =>
       reply[r] = "open" /\ kind[r] = "supported"
  /\ handler[r] = "dispatching" <=> attempt[r] \in Handed
  /\ settled[r] <=> attempt[r] \in Terminal
  /\ upstream[r] # {} =>
       attempt[r] \in Handed \cup (Terminal \ {"rejected-before-handoff"})
  /\ settled[r] => "response" \notin upstream[r]
  /\ attempt[r] \notin {"none", "compiled"} => evidence[r]

(* What close() has found so far. *)
Closing ==
  /\ report # "none" => phase \in {"waiting", "closed"}
  /\ report = "drained" =>
       \A r \in Request : handler[r] \notin {"reading", "dispatching"}

IInv ==
  /\ Typed
  /\ \A r \in Request : Progress(r)
  /\ ActiveCounted
  /\ Closing
  /\ GuaranteeTruth

LEMMA CountedIsFinite ==
  /\ IsFiniteSet(Counted)
  /\ Cardinality(Counted) \in 0 .. Cardinality(Request)
  /\ IsFiniteSet(Counted')
  /\ Cardinality(Counted') \in Nat
<1>1. Counted \subseteq Request /\ Counted' \subseteq Request
  BY DEF Counted
<1> QED
  BY <1>1, RequestAssumption, FS_Subset, FS_CardinalityType

(* One request enters the count, leaves it, or the count stays. *)
LEMMA CountGrows ==
  ASSUME NEW r \in Request, ActiveCounted,
         r \notin Counted, Counted' = Counted \cup {r}, active' = active + 1
  PROVE  ActiveCounted'
BY CountedIsFinite, FS_AddElement DEF ActiveCounted, Counted

LEMMA CountShrinks ==
  ASSUME NEW r \in Request, ActiveCounted,
         r \in Counted, Counted' = Counted \ {r}, active' = active - 1
  PROVE  ActiveCounted'
BY CountedIsFinite, FS_RemoveElement DEF ActiveCounted, Counted

LEMMA CountStays ==
  ASSUME ActiveCounted, Counted' = Counted, active' = active
  PROVE  ActiveCounted'
BY DEF ActiveCounted, Counted

LEMMA InitEstablishes == Init => IInv
<1> SUFFICES ASSUME Init PROVE IInv
  OBVIOUS
<1>1. Typed
  BY DEF Init, Typed, AttemptStates
<1>2. \A r \in Request : Progress(r)
  BY DEF Init, Progress, Handed, Terminal
<1>3. Counted = {}
  BY DEF Init, Counted
<1>4. ActiveCounted
  BY <1>3, FS_EmptySet DEF Init, ActiveCounted, Counted
<1> QED
  BY <1>1, <1>2, <1>4 DEF Init, IInv, Closing, GuaranteeTruth

(***************************************************************************)
(* Every step.                                                             *)
(***************************************************************************)
Untouched(q) ==
  /\ kind'[q] = kind[q] /\ handler'[q] = handler[q] /\ reply'[q] = reply[q]
  /\ attempt'[q] = attempt[q] /\ settled'[q] = settled[q]
  /\ upstream'[q] = upstream[q] /\ evidence'[q] = evidence[q]

(* A step of one request leaves the others where they are. *)
LEMMA OneProgresses ==
  ASSUME \A q \in Request : Progress(q), NEW r \in Request, Progress(r)',
         \A q \in Request \ {r} : Untouched(q)
  PROVE  \A q \in Request : Progress(q)'
<1> SUFFICES ASSUME NEW q \in Request, q # r PROVE Progress(q)'
  OBVIOUS
<1>1. Untouched(q) /\ Progress(q)
  OBVIOUS
<1> QED
  BY <1>1 DEF Untouched, Progress

(* A request arrives, or a WebSocket does. *)
LEMMA ArrivalSteps ==
  ASSUME IInv, NEW r \in Request, Arrive(r) \/ Upgrade(r)
  PROVE  IInv'
<1>1. /\ kind[r] = "none" /\ reply[r] = "none" /\ handler[r] = "idle"
      /\ attempt[r] = "none" /\ ~settled[r] /\ r \notin Counted
      /\ upstream[r] = {}
  BY DEF IInv, Progress, Arrive, Upgrade, Counted, Handed, Terminal
<1>2. /\ UNCHANGED <<phase, report, attempt, settled, connected, upstream, evidence>>
      /\ \A q \in Request \ {r} : Untouched(q)
  BY DEF IInv, Typed, Arrive, Upgrade, Untouched, server, dispatch
<1>3. CASE Arrive(r)
  <2>1. Typed'
    BY <1>3 DEF IInv, Typed, Arrive, dispatch
  <2>2. Progress(r)'
    BY <1>1, <1>2, <1>3 DEF IInv, Typed, Arrive, Progress, Handed, Terminal
  <2>3. \A q \in Request : Progress(q)'
    BY <1>2, <2>2, OneProgresses DEF IInv
  <2>4. Counted' = Counted \cup {r}
    BY <1>1, <1>2, <1>3 DEF IInv, Typed, Arrive, Untouched, Counted
  <2>5. ActiveCounted'
    BY <1>1, <1>3, <2>4, CountGrows DEF IInv, Arrive
  <2>6. Closing'
    BY <1>2, <1>3 DEF IInv, Typed, Closing, Arrive, SessionOpen
  <2>7. GuaranteeTruth'
    <3>1. kind'[r] \in {"supported", "opaque", "refused"}
      BY <1>3 DEF IInv, Typed, Arrive
    <3>2. guarantee' = IF kind'[r] = "refused" THEN "rejected" ELSE guarantee
      BY <1>3 DEF IInv, Typed, Arrive
    <3>3. \A q \in Request \ {r} : kind'[q] = kind[q]
      BY <1>2 DEF Untouched
    <3> QED
      BY <1>1, <1>2, <3>1, <3>2, <3>3 DEF IInv, GuaranteeTruth
  <2> QED
    BY <2>1, <2>3, <2>5, <2>6, <2>7 DEF IInv
<1>4. CASE Upgrade(r)
  <2>1. Typed'
    BY <1>4 DEF IInv, Typed, Upgrade, server, dispatch
  <2>2. Progress(r)'
    BY <1>1, <1>2, <1>4 DEF IInv, Typed, Upgrade, Progress, Handed, Terminal
  <2>3. \A q \in Request : Progress(q)'
    BY <1>2, <2>2, OneProgresses DEF IInv
  <2>4. Counted' = Counted
    BY <1>1, <1>2, <1>4 DEF IInv, Typed, Upgrade, Untouched, Counted
  <2>5. ActiveCounted'
    BY <1>4, <2>4, CountStays DEF IInv, Upgrade, server
  <2>6. Closing'
    BY <1>2, <1>4 DEF IInv, Closing, Upgrade
  <2>7. GuaranteeTruth'
    BY <1>1, <1>2, <1>4 DEF IInv, Typed, GuaranteeTruth, Upgrade, server
  <2> QED
    BY <2>1, <2>3, <2>5, <2>6, <2>7 DEF IInv
<1> QED
  BY <1>3, <1>4

(* Steps after which the response counts as before, whose handler starts   *)
(* no reading, and which change no kind.                                   *)
LEMMA CallbackKeeps ==
  ASSUME IInv, NEW r \in Request, Typed', Progress(r)',
         \A q \in Request \ {r} : Untouched(q),
         UNCHANGED <<phase, report, active, kind>>,
         reply'[r] \in {"open", "ended"} <=> reply[r] \in {"open", "ended"},
         handler'[r] \in {"reading", "dispatching"}
           => handler[r] \in {"reading", "dispatching"},
         \/ guarantee' = guarantee
         \/ guarantee # "rejected" /\ guarantee' = "active" /\ settled'[r]
            /\ attempt'[r] # "rejected-before-handoff",
         settled[r] /\ attempt[r] # "rejected-before-handoff"
           => settled'[r] /\ attempt'[r] # "rejected-before-handoff"
  PROVE  IInv'
<1>1. \A q \in Request : Progress(q)'
  BY OneProgresses DEF IInv
<1>2. Counted' = Counted
  BY DEF Counted, Untouched
<1>3. ActiveCounted'
  BY <1>2, CountStays DEF IInv
<1>4. Closing'
  BY DEF IInv, Closing, Untouched
<1>5. GuaranteeTruth'
  BY DEF IInv, GuaranteeTruth, Untouched
<1> QED
  BY <1>1, <1>3, <1>4, <1>5 DEF IInv

LEMMA BodyReadSteps ==
  ASSUME IInv, NEW r \in Request, BodyRead(r)
  PROVE  IInv'
<1>1. /\ handler[r] = "reading" /\ reply[r] = "open" /\ kind[r] = "supported"
      /\ attempt[r] = "none" /\ ~settled[r] /\ upstream[r] = {}
  BY DEF IInv, BodyRead, Progress, Handed, Terminal
<1>2. /\ UNCHANGED <<server, kind, connected>>
      /\ \A q \in Request \ {r} : Untouched(q)
  BY DEF IInv, Typed, BodyRead, Refuse, EndReply, Recorded, Untouched
<1>3. Typed'
  <2>1. attempt' \in [Request -> AttemptStates]
    BY DEF IInv, Typed, BodyRead, Refuse, AttemptStates, Terminal, Handed
  <2>2. /\ handler' \in [Request ->
                 {"idle", "reading", "dispatching", "forwarding", "done"}]
        /\ reply' \in [Request -> {"none", "open", "ended", "finished", "closed"}]
    BY DEF IInv, Typed, BodyRead, Refuse, EndReply
  <2>3. upstream' \in [Request -> SUBSET {"finish", "response", "error"}]
    BY DEF IInv, Typed, BodyRead, Refuse
  <2>4. settled' \in [Request -> BOOLEAN]
    BY DEF IInv, Typed, BodyRead
  <2>5. evidence' \in [Request -> BOOLEAN]
    BY DEF IInv, Typed, BodyRead, Recorded
  <2> QED
    BY <1>2, <2>1, <2>2, <2>3, <2>4, <2>5 DEF IInv, Typed, server
<1>4. Progress(r)'
  BY <1>1 DEF IInv, Typed, BodyRead, Refuse, EndReply, Recorded, Progress, Terminal,
              Handed
<1>5. reply'[r] \in {"open", "ended"}
  BY <1>1 DEF IInv, Typed, BodyRead, Refuse, EndReply
<1> QED
  BY <1>1, <1>2, <1>3, <1>4, <1>5, CallbackKeeps DEF server

LEMMA UpstreamSteps ==
  ASSUME IInv, NEW r \in Request,
         \/ Connect(r) \/ StreamFinished(r) \/ ResponseStarted(r)
         \/ ResponseEnded(r) \/ UpstreamFails(r) \/ Forwarded(r)
  PROVE  IInv'
<1>1. Progress(r) /\ Typed
  BY DEF IInv
<1>2. CASE Connect(r)
  BY <1>1, <1>2, CallbackKeeps
     DEF Typed, Connect, Untouched, Progress, server
<1>3. CASE StreamFinished(r)
  <2>1. Typed'
    BY <1>1, <1>3 DEF Typed, StreamFinished, AttemptStates, Handed, server
  <2>2. Progress(r)'
    BY <1>1, <1>3 DEF Typed, StreamFinished, Progress, Handed, Terminal
  <2>3. settled[r] => attempt'[r] = attempt[r]
    BY <1>1, <1>3 DEF Typed, StreamFinished
  <2> QED
    BY <1>1, <1>3, <2>1, <2>2, <2>3, CallbackKeeps
       DEF Typed, StreamFinished, Untouched, server
<1>4. CASE ResponseStarted(r)
  <2>1. Typed'
    BY <1>1, <1>4 DEF Typed, ResponseStarted, AttemptStates, Handed, server
  <2>2. Progress(r)'
    BY <1>1, <1>4 DEF Typed, ResponseStarted, Progress, Handed, Terminal
  <2>3. ~settled[r]
    BY <1>1, <1>4 DEF ResponseStarted, Progress
  <2> QED
    BY <1>1, <1>4, <2>1, <2>2, <2>3, CallbackKeeps
       DEF Typed, ResponseStarted, Untouched, server
<1>5. CASE ResponseEnded(r)
  <2>0. settled' \in [Request -> BOOLEAN]
    BY <1>1, <1>5 DEF Typed, ResponseEnded, Finish
  <2>1. Typed'
    BY <1>1, <1>5, <2>0 DEF Typed, ResponseEnded, Finish, MarkActive, EndReply,
                            AttemptStates, Terminal
  <2>2. Progress(r)'
    BY <1>1, <1>5 DEF Typed, ResponseEnded, Finish, EndReply, Progress, Handed, Terminal
  <2>3. reply'[r] \in {"open", "ended"} <=> reply[r] \in {"open", "ended"}
    BY <1>1, <1>5 DEF Typed, ResponseEnded, EndReply
  <2>4. settled'[r] /\ attempt'[r] = "response-completed" /\ handler'[r] = "done"
    BY <1>1, <1>5 DEF Typed, ResponseEnded, Finish
  <2>5. \A q \in Request \ {r} : Untouched(q)
    BY <1>1, <1>5 DEF Typed, ResponseEnded, Finish, EndReply, Untouched
  <2>6. /\ UNCHANGED <<phase, report, active, kind>>
        /\ guarantee' = guarantee \/ (guarantee # "rejected" /\ guarantee' = "active")
    BY <1>5 DEF ResponseEnded, Finish, MarkActive
  <2> QED
    BY <2>1, <2>2, <2>3, <2>4, <2>5, <2>6, CallbackKeeps
<1>6. CASE UpstreamFails(r)
  <2>1. Aborted(r) \in Terminal \ {"rejected-before-handoff"}
    BY DEF Aborted, Failed, Terminal
  <2>0. settled' \in [Request -> BOOLEAN]
    BY <1>1, <1>6 DEF Typed, UpstreamFails, Finish
  <2>9. attempt' \in [Request -> AttemptStates]
    BY <1>1, <1>6, <2>1 DEF Typed, UpstreamFails, Finish, AttemptStates
  <2>2. Typed'
    BY <1>1, <1>6, <2>0, <2>9 DEF Typed, UpstreamFails, Finish, MarkActive, EndReply
  <2>3. Progress(r)'
    BY <1>1, <1>6, <2>1
       DEF Typed, UpstreamFails, Finish, EndReply, Progress, Handed, Terminal
  <2>4. reply'[r] \in {"open", "ended"} <=> reply[r] \in {"open", "ended"}
    BY <1>1, <1>6 DEF Typed, UpstreamFails, EndReply
  <2>5. \A q \in Request \ {r} : Untouched(q)
    BY <1>1, <1>6 DEF Typed, UpstreamFails, Finish, EndReply, Untouched
  <2>6. CASE settled[r]
    BY <1>1, <1>6, <2>2, <2>3, <2>4, <2>5, <2>6, CallbackKeeps DEF UpstreamFails
  <2>7. CASE ~settled[r]
    <3>1. /\ settled'[r] /\ attempt'[r] = Aborted(r) /\ handler'[r] = "done"
          /\ UNCHANGED <<phase, report, active, kind>>
          /\ guarantee' = guarantee
             \/ (guarantee # "rejected" /\ guarantee' = "active")
      BY <1>1, <1>6, <2>7 DEF Typed, UpstreamFails, Finish, MarkActive
    <3>2. attempt'[r] # "rejected-before-handoff"
      BY <2>1, <3>1
    <3> QED
      BY <2>2, <2>3, <2>4, <2>5, <3>1, <3>2, CallbackKeeps
  <2> QED
    BY <2>6, <2>7
<1>7. CASE Forwarded(r)
  <2>1. Typed'
    BY <1>1, <1>7 DEF Typed, Forwarded, EndReply, server, dispatch
  <2>2. Progress(r)'
    BY <1>1, <1>7 DEF Typed, Forwarded, EndReply, Progress, dispatch, Handed, Terminal
  <2>3. reply'[r] \in {"open", "ended"} <=> reply[r] \in {"open", "ended"}
    BY <1>1, <1>7 DEF Typed, Forwarded, EndReply
  <2> QED
    BY <1>1, <1>7, <2>1, <2>2, <2>3, CallbackKeeps
       DEF Typed, Forwarded, EndReply, Untouched, server, dispatch
<1> QED
  BY <1>2, <1>3, <1>4, <1>5, <1>6, <1>7

(* The response is flushed, or its connection ends. *)
LEMMA CompleteCounts ==
  ASSUME IInv, NEW r \in Request, Complete(r),
         \A q \in Request \ {r} : Untouched(q), UNCHANGED kind,
         reply'[r] \notin {"open", "ended"}
  PROVE  ActiveCounted'
<1>1. CASE r \in Counted
  <2>1. Counted' = Counted \ {r}
    BY DEF Counted, Untouched
  <2> QED
    BY <1>1, <2>1, CountShrinks DEF IInv, Complete, Counted
<1>2. CASE r \notin Counted
  <2>1. Counted' = Counted
    BY <1>2 DEF Counted, Untouched
  <2> QED
    BY <1>2, <2>1, CountStays DEF IInv, Complete, Counted
<1> QED
  BY <1>1, <1>2

LEMMA ReplySteps ==
  ASSUME IInv, NEW r \in Request, ReplyFinished(r) \/ ConnectionCloses(r)
  PROVE  IInv'
<1>1. Progress(r) /\ Typed
  BY DEF IInv
<1>2. Aborted(r) \in Terminal \ {"rejected-before-handoff"}
  BY DEF Aborted, Failed, Terminal
<1>3. /\ \A q \in Request \ {r} : Untouched(q)
      /\ UNCHANGED <<phase, report, kind, connected, evidence>>
      /\ Complete(r)
      /\ reply'[r] \in {"finished", "closed"}
  BY <1>1 DEF Typed, ReplyFinished, ConnectionCloses, Abandon, Finish, Untouched, dispatch
<1>4. ActiveCounted'
  BY <1>3, CompleteCounts
<1>5. active' \in Int
  BY <1>1, <1>3 DEF Typed, Complete
<1>6. CASE ReplyFinished(r)
  <2>1. Typed'
    BY <1>1, <1>5, <1>6 DEF Typed, ReplyFinished, dispatch
  <2>2. Progress(r)'
    BY <1>1, <1>6 DEF Typed, ReplyFinished, Progress, dispatch
  <2>3. \A q \in Request : Progress(q)'
    BY <1>3, <2>2, OneProgresses DEF IInv
  <2>4. Closing' /\ GuaranteeTruth'
    BY <1>6 DEF IInv, ReplyFinished, Closing, GuaranteeTruth, dispatch
  <2> QED
    BY <1>4, <2>1, <2>3, <2>4 DEF IInv
<1>7. CASE ConnectionCloses(r)
  <2>1. settled' \in [Request -> BOOLEAN]
    BY <1>1, <1>7 DEF Typed, ConnectionCloses, Abandon, Finish
  <2>2. attempt' \in [Request -> AttemptStates]
    BY <1>1, <1>2, <1>7 DEF Typed, ConnectionCloses, Abandon, Finish, AttemptStates
  <2>3. Typed'
    BY <1>1, <1>5, <1>7, <2>1, <2>2
       DEF Typed, ConnectionCloses, Abandon, Finish, MarkActive
  <2>4. Progress(r)'
    BY <1>1, <1>2, <1>7
       DEF Typed, ConnectionCloses, Abandon, Finish, Progress, Handed, Terminal
  <2>5. \A q \in Request : Progress(q)'
    BY <1>3, <2>4, OneProgresses DEF IInv
  <2>6. handler'[r] \notin {"reading", "dispatching"}
    BY <1>1, <1>7 DEF Typed, ConnectionCloses, Abandon, Finish
  <2>7. Closing'
    BY <1>3, <2>6 DEF IInv, Closing, Untouched
  <2>8. \/ guarantee' = guarantee /\ settled' = settled /\ attempt' = attempt
        \/ /\ \/ guarantee' = guarantee
              \/ guarantee # "rejected" /\ guarantee' = "active"
           /\ settled'[r] /\ attempt'[r] # "rejected-before-handoff"
    BY <1>1, <1>2, <1>7 DEF Typed, ConnectionCloses, Abandon, Finish, MarkActive
  <2>9. GuaranteeTruth'
    BY <1>3, <2>8 DEF IInv, GuaranteeTruth, Untouched
  <2> QED
    BY <1>4, <2>3, <2>5, <2>7, <2>9 DEF IInv
<1> QED
  BY <1>6, <1>7

(* close() touches no request.                                             *)
LEMMA CloseChanges ==
  CloseNext =>
    /\ UNCHANGED <<active, guarantee, kind, handler, reply>>
    /\ UNCHANGED <<attempt, settled, connected, upstream, evidence>>
<1>1. Close => UNCHANGED <<active, guarantee, kind, handler, reply>> /\ UNCHANGED dispatch
  BY DEF Close
<1>2. Release => UNCHANGED <<active, guarantee, kind, handler, reply>> /\ UNCHANGED dispatch
  BY DEF Release
<1>3. Drained => UNCHANGED <<active, guarantee, kind, handler, reply>> /\ UNCHANGED dispatch
  BY DEF Drained
<1>4. ForceClose => UNCHANGED <<active, guarantee, kind, handler, reply>> /\ UNCHANGED dispatch
  BY DEF ForceClose
<1>5. Closed => UNCHANGED <<active, guarantee, kind, handler, reply>> /\ UNCHANGED dispatch
  BY DEF Closed
<1> QED
  BY <1>1, <1>2, <1>3, <1>4, <1>5 DEF CloseNext, dispatch

LEMMA CloseSteps == IInv /\ CloseNext => IInv'
<1> SUFFICES ASSUME IInv, CloseNext PROVE IInv'
  OBVIOUS
<1>1. /\ UNCHANGED <<active, guarantee, kind, handler, reply>>
      /\ UNCHANGED <<attempt, settled, connected, upstream, evidence>>
  BY CloseChanges
<1>2. Typed'
  <2>1. /\ phase' \in {"open", "releasing", "draining", "waiting", "closed"}
        /\ report' \in {"none", "drained", "forced"}
    BY DEF IInv, Typed, CloseNext, Close, Release, Drained, ForceClose, Closed
  <2> QED
    BY <1>1, <2>1 DEF IInv, Typed
<1>3. \A r \in Request : Progress(r)'
  BY <1>1 DEF IInv, Progress
<1>4. ActiveCounted' /\ GuaranteeTruth'
  BY <1>1 DEF IInv, ActiveCounted, GuaranteeTruth
<1>5. CASE Drained
  <2>1. Counted = {}
    BY <1>5, CountedIsFinite, FS_EmptySet DEF IInv, ActiveCounted, Counted, Drained
  <2>2. \A r \in Request : handler[r] \notin {"reading", "dispatching"}
    BY <2>1 DEF IInv, Progress, Counted
  <2> QED
    BY <1>1, <1>2, <1>3, <1>4, <1>5, <2>2 DEF IInv, Closing, Drained
<1>6. CASE ~Drained
  <2>1. Close \/ Release \/ ForceClose \/ Closed
    BY <1>6 DEF CloseNext
  <2>2. Closing'
    BY <1>1, <2>1 DEF IInv, Closing, Close, Release, ForceClose, Closed
  <2> QED
    BY <1>2, <1>3, <1>4, <2>2 DEF IInv
<1> QED
  BY <1>5, <1>6

LEMMA StutterKeeps == IInv /\ UNCHANGED vars => IInv'
BY DEF IInv, Typed, Progress, ActiveCounted, Closing, GuaranteeTruth, vars, server,
       dispatch

LEMMA StepKeeps == IInv /\ [Next]_vars => IInv'
BY ArrivalSteps, BodyReadSteps, UpstreamSteps, ReplySteps, CloseSteps, StutterKeeps
   DEF Next, RequestNext

LEMMA IInvHolds == Spec => []IInv
BY InitEstablishes, StepKeeps, PTL DEF Spec

(***************************************************************************)
(* Theorems.                                                               *)
(***************************************************************************)
(* Every variable stays in its type; the counter never runs below zero,    *)
(* so the Math.max of complete() is never needed.                          *)
THEOREM TypeCorrect == Spec => []TypeOK
<1>1. IInv => TypeOK
  BY CountedIsFinite DEF IInv, Typed, TypeOK, ActiveCounted, Counted
<1> QED
  BY <1>1, IInvHolds, PTL

(* activeRequests is the number of responses in flight, for any number of  *)
(* requests and any order of finish, close and disconnects.                *)
THEOREM ActiveCountedAlways == Spec => []ActiveCounted
<1>1. IInv => ActiveCounted
  BY DEF IInv
<1> QED
  BY <1>1, IInvHolds, PTL

(* A complete drain leaves no body being read and no attempt in flight.    *)
THEOREM DrainedIsDoneAlways == Spec => []DrainedIsDone
<1>1. IInv => DrainedIsDone
  BY DEF IInv, Closing, Progress, DrainedIsDone
<1> QED
  BY <1>1, IInvHolds, PTL

(* What is handed to the provider has a receipt in the ledger.             *)
THEOREM EvidenceFirstAlways == Spec => []EvidenceFirst
<1>1. IInv => EvidenceFirst
  BY DEF IInv, Progress, EvidenceFirst
<1> QED
  BY <1>1, IInvHolds, PTL

(* The guarantee shown is rejected exactly when a request was refused.     *)
THEOREM GuaranteeTruthAlways == Spec => []GuaranteeTruth
<1>1. IInv => GuaranteeTruth
  BY DEF IInv
<1> QED
  BY <1>1, IInvHolds, PTL

(* The outcome of an attempt is never changed by a late callback: of those *)
(* that do not ask whether it has settled none is left by then.            *)
THEOREM SettledIsFinalAlways == Spec => SettledIsFinal
<1> DEFINE Final == \A r \in Request : settled[r] =>
      settled'[r] /\ attempt[r] \in Terminal /\ attempt'[r] = attempt[r]
<1>1. ASSUME IInv, NEW q \in Request, RequestNext(q) PROVE Final
  <2> SUFFICES ASSUME NEW r \in Request, settled[r]
               PROVE  settled'[r] /\ attempt[r] \in Terminal /\ attempt'[r] = attempt[r]
    OBVIOUS
  <2>1. Typed /\ Progress(r) /\ attempt[r] \in Terminal
    BY <1>1 DEF IInv, Progress
  <2>2. handler[r] \notin {"idle", "reading", "dispatching"} \/ kind[r] = "upgraded"
    BY <2>1 DEF Progress, Handed, Terminal
  <2>3. handler[r] \notin {"reading", "dispatching"} /\ "response" \notin upstream[r]
    BY <2>1 DEF Progress, Handed, Terminal
  <2>4. CASE r = q
    BY <1>1, <2>1, <2>3, <2>4
       DEF RequestNext, Arrive, Upgrade, BodyRead, Connect, StreamFinished,
           ResponseStarted, ResponseEnded, UpstreamFails, Forwarded, ReplyFinished,
           ConnectionCloses, Abandon, Typed, dispatch
  <2>5. CASE r # q
    BY <1>1, <2>1, <2>5
       DEF RequestNext, Arrive, Upgrade, BodyRead, Refuse, Connect, StreamFinished,
           ResponseStarted, ResponseEnded, UpstreamFails, Forwarded, ReplyFinished,
           ConnectionCloses, Abandon, Finish, Typed, dispatch
  <2> QED
    BY <2>4, <2>5
<1>2. ASSUME IInv, CloseNext \/ UNCHANGED vars PROVE Final
  <2>1. UNCHANGED <<attempt, settled>>
    BY <1>2, CloseChanges DEF vars, dispatch
  <2> QED
    BY <1>2, <2>1 DEF IInv, Progress
<1>3. IInv /\ [Next]_vars => [Final]_vars
  BY <1>1, <1>2 DEF Next
<1> HIDE DEF Final
<1>4. Spec => [][Final]_vars
  BY <1>3, IInvHolds, PTL DEF Spec
<1> QED
  BY <1>4 DEF Final, SettledIsFinal
=============================================================================
