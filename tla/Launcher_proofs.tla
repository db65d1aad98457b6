--------------------------- MODULE Launcher_proofs ---------------------------
(***************************************************************************)
(* Type correctness and the safety properties of Launcher, for every set   *)
(* of launches.                                                            *)
(***************************************************************************)
EXTENDS Launcher, TLAPS

(* Before the set-up there is nothing. *)
Untouched ==
  main = "starting" =>
    /\ handlers = {} /\ leader = "none" /\ exited = "pending" /\ termination = "none"
    /\ start = "none" /\ shutdown = "none" /\ runtime = "none" /\ record = FALSE

(* Where a launch is while its child runs. *)
Minded ==
  leader = "running" =>
    /\ mode # "local"
    /\ mode \in Wrapped => main = "serving"
    /\ mode = "tunnel" =>
         \/ main \in {"tunnel", "terminating", "serving"} /\ shutdown = "none"
         \/ main = "closing" /\ shutdown = "tunnel"
         \/ main = "killed" /\ shutdown \in {"none", "tunnel"}

(* The shutdown of a tunnel, and what a promise that was resolved implies. *)
Ordered ==
  /\ exited = "exit" => leader = "gone"
  /\ termination = "killed" => "running" \notin {leader, descendant}
  /\ leader = "none" => descendant = "none"
  /\ shutdown = "tunnel" => mode = "tunnel" /\ start = "url"
  /\ mode = "tunnel" /\ shutdown \in {"runtime", "done", "failed"} => leader # "running"
  /\ mode # "tunnel" => start = "none"
  /\ main \in {"tunnel", "terminating"} => mode = "tunnel" /\ shutdown = "none"
  /\ main = "tunnel" => start = "pending"
  /\ start = "pending" => main \in {"tunnel", "killed"}
  /\ main = "terminating" => start = "timeout"

(* A launch that serves handles both signals, a wrapped one to its end.    *)
Serving ==
  /\ main = "serving" => handlers = Signals
  /\ main = "serving" /\ mode \in Cursor => shutdown = "none"
  /\ main = "serving" /\ mode = "tunnel" => start = "url"
  /\ main = "killed" /\ mode = "tunnel" /\ leader = "running" =>
       start # "url" \/ shutdown = "tunnel"

(* How far a shutdown is. *)
Progress ==
  /\ shutdown \in {"none", "tunnel"} => runtime \in {"none", "open"}
  /\ shutdown = "none" /\ runtime = "open" /\ main = "ended" =>
       mode \in Cursor \/ SpawnThrew
  /\ shutdown = "runtime" => runtime = "closing"
  /\ shutdown = "done" => runtime = "closed" /\ record = FALSE
  /\ shutdown = "failed" => runtime = "failed"
  /\ main = "closing" => shutdown # "none"
  /\ main = "ended" =>
       \/ shutdown \in {"done", "failed"}
       \/ shutdown = "none" /\ leader = "none" /\ (record => SpawnThrew)

IInv == TypeOK /\ Untouched /\ Minded /\ Ordered /\ Serving /\ Progress

LEMMA IInvInit == Init => IInv
  BY ModesAssumption DEF Init, IInv, TypeOK, Untouched, Minded, Ordered, Serving, Progress,
     Wrapped, Cursor, Signals

LEMMA IInvNext == ASSUME IInv, [Next]_vars PROVE IInv'
<1> USE ModesAssumption DEF IInv, TypeOK, Untouched, Minded, Ordered, Serving, Progress,
        SpawnThrew, Wrapped, Cursor, Signals, Alive, processes, child, closing
<1>1. CASE ProxyFails
  BY <1>1 DEF ProxyFails
<1>2. CASE RecordFails
  BY <1>2 DEF RecordFails
<1>3. CASE PlanRejected
  BY <1>3 DEF PlanRejected
<1>4. CASE Spawn
  BY <1>4 DEF Spawn, SetUp
<1>5. CASE SpawnFails
  BY <1>5 DEF SpawnFails, SetUp
<1>5a. CASE SpawnThrows
  BY <1>5a DEF SpawnThrows, SetUp
<1>6. CASE NoTunnel
  BY <1>6 DEF NoTunnel, SetUp
<1>7. CASE Fork
  BY <1>7 DEF Fork
<1>8. CASE LeaderExits
  BY <1>8 DEF LeaderExits
<1>9. CASE DescendantExits
  BY <1>9 DEF DescendantExits
<1>10. CASE GraceEnds
  BY <1>10 DEF GraceEnds, Killed
<1>11. CASE ExitSeen
  BY <1>11 DEF ExitSeen, Begin
<1>12. CASE StartTimeout
  BY <1>12 DEF StartTimeout, Terminate
<1>13. CASE UrlSeen
  BY <1>13 DEF UrlSeen
<1>14. CASE TunnelClosed
  BY <1>14 DEF TunnelClosed
<1>15. CASE RuntimeClosed
  <2>1. TypeOK' /\ Untouched'
    BY <1>15 DEF RuntimeClosed
  <2>2. Minded' /\ Ordered'
    BY <1>15 DEF RuntimeClosed
  <2>3. Serving'
    BY <1>15 DEF RuntimeClosed
  <2>4. shutdown' = "done" /\ runtime' = "closed" /\ record' = FALSE
    BY <1>15 DEF RuntimeClosed
  <2>5. Progress'
    BY <1>15, <2>4 DEF RuntimeClosed
  <2>. QED
    BY <2>1, <2>2, <2>3, <2>5
<1>16. CASE CloseFails
  BY <1>16 DEF CloseFails
<1>17. CASE End
  BY <1>17 DEF End
<1>18. ASSUME NEW s \in Signals, Handle(s) PROVE IInv'
  BY <1>18 DEF Handle, Terminate, Begin
<1>19. ASSUME NEW s \in Signals, Stop(s) PROVE IInv'
  BY <1>19 DEF Stop, Terminate, Begin
<1>20. ASSUME NEW s \in Signals, Struck(s) PROVE IInv'
  BY <1>20 DEF Struck
<1>21. CASE UNCHANGED vars
  BY <1>21 DEF vars
<1>. HIDE DEF IInv
<1>. QED
  BY <1>1, <1>2, <1>3, <1>4, <1>5, <1>5a, <1>6, <1>7, <1>8, <1>9, <1>10, <1>11, <1>12, <1>13, <1>14,
     <1>15, <1>16, <1>17, <1>18, <1>19, <1>20, <1>21 DEF Next, ProcessNext, LauncherNext

(* The invariant holds in every reachable state. *)
THEOREM Invariant == Spec => []IInv
  BY IInvInit, IInvNext, PTL DEF Spec

(* The state keeps its types. *)
THEOREM TypeCorrect == Spec => []TypeOK
<1>1. IInv => TypeOK
  BY DEF IInv
<1>. QED
  BY <1>1, Invariant, PTL

(* No launch leaves its child running, but a Cursor launch that a signal   *)
(* without a handler ends; a child killed takes its descendants along.     *)
THEOREM NoOrphanAlways == Spec => []NoOrphan
<1>1. IInv => NoOrphan
  BY ModesAssumption
     DEF IInv, TypeOK, Minded, Ordered, Serving, Progress, NoOrphan, Alive, Wrapped, Cursor
<1>. QED
  BY <1>1, Invariant, PTL

(* A launch that ends by itself has closed its runtime and removed its     *)
(* record, with the exceptions the property names.                         *)
THEOREM EndsCleanAlways == Spec => []EndsClean
<1>1. IInv => EndsClean
  BY DEF IInv, TypeOK, Progress, EndsClean, SpawnThrew
<1>. QED
  BY <1>1, Invariant, PTL

(* The tunnel is dead before the proxy it leads to closes. *)
THEOREM TunnelIsolatedAlways == Spec => []TunnelIsolated
<1>1. IInv => TunnelIsolated
  BY DEF IInv, TypeOK, Ordered, Serving, Progress, TunnelIsolated
<1>. QED
  BY <1>1, Invariant, PTL

(* Of the timer, the URL and the exit, the first settles the start. *)
THEOREM StartSettlesOnceAlways == Spec => StartSettlesOnce
<1>1. IInv /\ [Next]_vars => [start \notin {"none", "pending"} => start' = start]_vars
  <2>. SUFFICES ASSUME IInv, Next, start \notin {"none", "pending"}
                PROVE start' = start
    OBVIOUS
  <2>1. main # "starting"
    BY DEF IInv, Untouched
  <2>2. CASE ProcessNext
    BY <2>2 DEF ProcessNext, Fork, LeaderExits, DescendantExits, child
  <2>3. CASE LauncherNext
    BY <2>1, <2>3 DEF LauncherNext, ProxyFails, RecordFails, PlanRejected, Spawn, SpawnFails,
       SpawnThrows, NoTunnel, SetUp, GraceEnds, ExitSeen, StartTimeout, UrlSeen, TunnelClosed,
       RuntimeClosed, CloseFails, End, Handle, Stop, Struck, child
  <2>. QED
    BY <2>2, <2>3 DEF Next
<1>. QED
  BY <1>1, Invariant, PTL DEF Spec, StartSettlesOnce
=============================================================================
