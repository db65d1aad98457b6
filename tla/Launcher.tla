------------------------------ MODULE Launcher ------------------------------
(***************************************************************************)
(* One run of the launcher: the child it spawns in a process group of its  *)
(* own and how it is terminated (runtime/process-lifecycle.ts), the start  *)
(* of the Cursor tunnel (runtime/tunnel.ts), and the set-up and shutdown   *)
(* around them (cli/launch.ts).                                            *)
(*                                                                         *)
(* An action is one callback of the launcher's event loop with the         *)
(* microtasks it resolves, or a step of a process outside it.  A process   *)
(* that was asked to terminate may obey at any time or never, so a SIGTERM *)
(* has no action of its own; SIGKILL has.                                  *)
(***************************************************************************)
CONSTANTS
  Modes         \* the launches considered

Wrapped == {"wrapped", "bypass"}    \* launch(), with and without surgery
Cursor == {"tunnel", "local"}       \* launchCursor(), also with --no-tunnel

ASSUME ModesAssumption == Modes \subseteq Wrapped \cup Cursor

Signals == {"SIGINT", "SIGTERM"}

VARIABLES
  mode,         \* what is launched
  main,         \* where launch() or launchCursor() is
  handlers,     \* the signals that have a handler
  leader,       \* the child
  descendant,   \* a process the child left in its group
  exited,       \* the promise of that name
  termination,  \* the promise of that name
  start,        \* how the start of the tunnel was settled
  shutdown,     \* where the shutdown is
  runtime,      \* the proxy, see ProxyServer and SessionOwnership
  record        \* whether the runtime record is on disk

processes == <<leader, descendant>>
child == <<exited, termination, start>>
closing == <<shutdown, runtime, record>>
vars == <<mode, main, handlers, processes, child, closing>>

TypeOK ==
  /\ mode \in Modes
  /\ main \in {"starting", "tunnel", "serving", "terminating", "closing", "ended", "killed"}
  /\ handlers \subseteq Signals
  /\ leader \in {"none", "running", "gone"}
  /\ descendant \in {"none", "running", "gone"}
  /\ exited \in {"pending", "exit", "error"}
  /\ termination \in {"none", "grace", "killed", "settled"}
  /\ start \in {"none", "pending", "url", "timeout", "exit", "error"}
  /\ shutdown \in {"none", "tunnel", "runtime", "done", "failed"}
  /\ runtime \in {"none", "open", "closing", "closed", "failed"}
  /\ record \in BOOLEAN

Init ==
  /\ mode \in Modes
  /\ main = "starting" /\ handlers = {}
  /\ leader = "none" /\ descendant = "none"
  /\ exited = "pending" /\ termination = "none" /\ start = "none"
  /\ shutdown = "none" /\ runtime = "none" /\ record = FALSE

Alive == main \notin {"ended", "killed"}

(***************************************************************************)
(* Set-up.  A launch that fails throws, and index.ts exits.                *)
(***************************************************************************)
ProxyFails ==
  /\ main = "starting" /\ mode # "bypass"
  /\ main' = "ended"
  /\ UNCHANGED <<mode, handlers, processes, child, closing>>

(* launch() closes the proxy, launchCursor() does not. *)
RecordFails ==
  /\ main = "starting" /\ mode # "bypass"
  /\ IF mode \in Wrapped
     THEN main' = "closing" /\ shutdown' = "runtime" /\ runtime' = "closing"
     ELSE main' = "ended" /\ runtime' = "open" /\ UNCHANGED shutdown
  /\ UNCHANGED <<mode, handlers, processes, child, record>>

(* The classification of a Codex launch changed. *)
PlanRejected ==
  /\ main = "starting" /\ mode = "wrapped"
  /\ main' = "closing" /\ shutdown' = "runtime" /\ runtime' = "closing"
  /\ record' = TRUE
  /\ UNCHANGED <<mode, handlers, processes, child>>

SetUp ==
  /\ main = "starting"
  /\ record' = (mode # "bypass")

Spawn ==
  /\ SetUp /\ mode # "local"
  /\ leader' = "running"
  /\ IF mode = "tunnel"
     THEN main' = "tunnel" /\ start' = "pending" /\ UNCHANGED handlers
     ELSE main' = "serving" /\ handlers' = Signals /\ UNCHANGED start
  /\ runtime' = "open"
  /\ UNCHANGED <<mode, descendant, exited, termination, shutdown>>

(* The error event: exited rejects, and terminate() with it. *)
SpawnFails ==
  /\ SetUp /\ mode # "local"
  /\ exited' = "error" /\ termination' = "settled"
  /\ IF mode = "tunnel"
     THEN start' = "error" /\ UNCHANGED handlers
     ELSE handlers' = Signals /\ UNCHANGED start
  /\ main' = "closing" /\ shutdown' = "runtime" /\ runtime' = "closing"
  /\ UNCHANGED <<mode, processes>>

(* spawn() itself throws, as it does for an argument list that is too      *)
(* long: launchCursor shuts down, but nothing in launch() or around        *)
(* runWrappedChild closes the proxy or removes the record.                 *)
SpawnThrows ==
  /\ SetUp /\ mode # "local"
  /\ IF mode = "tunnel"
     THEN main' = "closing" /\ shutdown' = "runtime" /\ runtime' = "closing"
     ELSE main' = "ended" /\ runtime' = "open" /\ UNCHANGED shutdown
  /\ UNCHANGED <<mode, handlers, processes, child>>

NoTunnel ==
  /\ SetUp /\ mode = "local"
  /\ main' = "serving" /\ handlers' = Signals /\ runtime' = "open"
  /\ UNCHANGED <<mode, processes, child, shutdown>>

(***************************************************************************)
(* The child and its group.                                                *)
(***************************************************************************)
Fork ==
  /\ leader = "running" /\ descendant = "none"
  /\ descendant' = "running"
  /\ UNCHANGED <<mode, main, handlers, leader, child, closing>>

LeaderExits ==
  /\ leader = "running"
  /\ leader' = "gone"
  /\ UNCHANGED <<mode, main, handlers, descendant, child, closing>>

DescendantExits ==
  /\ descendant = "running"
  /\ descendant' = "gone"
  /\ UNCHANGED <<mode, main, handlers, leader, child, closing>>

(***************************************************************************)
(* Termination and shutdown.                                               *)
(***************************************************************************)
Terminate ==
  termination' = IF exited = "pending" /\ termination = "none" THEN "grace" ELSE termination

(* Mutant: the proxy is closed while the tunnel is up. *)
BeginAtOnce ==
  IF shutdown = "none"
  THEN shutdown' = "runtime" /\ runtime' = "closing"
  ELSE UNCHANGED <<shutdown, runtime>>

(* shutdown(), memoised: the tunnel, if it was started, then the proxy. *)
Begin ==
  IF shutdown # "none" THEN UNCHANGED <<shutdown, runtime>>
  ELSE IF start = "url" THEN shutdown' = "tunnel" /\ UNCHANGED runtime
  ELSE shutdown' = "runtime" /\ runtime' = "closing"

(* Mutant: no second signal. *)
GraceForgotten ==
  /\ Alive /\ termination = "grace"
  /\ termination' = "settled"
  /\ UNCHANGED <<mode, main, handlers, processes, exited, start, closing>>

Killed(process) == IF process = "running" THEN "gone" ELSE process

(* The grace is over: SIGKILL to the group. *)
GraceEnds ==
  /\ Alive /\ termination = "grace"
  /\ termination' = "killed"
  /\ leader' = Killed(leader) /\ descendant' = Killed(descendant)
  /\ UNCHANGED <<mode, main, handlers, exited, start, closing>>

(* The exit event of the child: runWrappedChild and launchCursor shut down,*)
(* a tunnel that has no URL yet failed to start, a failed one is gone.     *)
ExitSeen ==
  /\ Alive /\ leader = "gone" /\ exited = "pending"
  /\ exited' = "exit"
  /\ termination' = IF termination = "grace" THEN "settled" ELSE termination
  /\ start' = IF start = "pending" THEN "exit" ELSE start
  /\ main' = "closing"
  /\ Begin
  /\ UNCHANGED <<mode, handlers, processes, record>>

TunnelClosed ==
  /\ Alive /\ shutdown = "tunnel"
  /\ exited = "exit"
  /\ shutdown' = "runtime" /\ runtime' = "closing"
  /\ UNCHANGED <<mode, main, handlers, processes, child, record>>

(* close() of the runtime returned, and the record is removed. *)
RuntimeClosed ==
  /\ Alive /\ shutdown = "runtime"
  /\ shutdown' = "done" /\ runtime' = "closed" /\ record' = FALSE
  /\ UNCHANGED <<mode, main, handlers, processes, child>>

(* It rejects when the ownership lock cannot be removed. *)
CloseFails ==
  /\ Alive /\ shutdown = "runtime" /\ mode # "bypass"
  /\ shutdown' = "failed" /\ runtime' = "failed"
  /\ UNCHANGED <<mode, main, handlers, processes, child, record>>

(* A descendant of the tunnel holds its pipes, and they the event loop; a  *)
(* launch that throws exits all the same.                                  *)
Held ==
  /\ mode = "tunnel" /\ start = "url" /\ shutdown = "done"
  /\ descendant = "running"

(* Mutant: the launcher does not wait for the shutdown. *)
EndEarly ==
  /\ main = "closing" /\ shutdown # "none"
  /\ main' = "ended"
  /\ UNCHANGED <<mode, handlers, processes, child, closing>>

End ==
  /\ main = "closing" /\ shutdown \in {"done", "failed"}
  /\ ~Held
  /\ main' = "ended"
  /\ UNCHANGED <<mode, handlers, processes, child, closing>>

(***************************************************************************)
(* The start of the tunnel: the first of the timer, the URL and the exit   *)
(* settles it.                                                             *)
(***************************************************************************)
(* Mutant: the timer is not stopped by the URL. *)
TimeoutAnyway ==
  /\ Alive /\ start \in {"pending", "url"} /\ main \in {"tunnel", "serving"}
  /\ start' = "timeout" /\ main' = "terminating"
  /\ Terminate
  /\ UNCHANGED <<mode, handlers, processes, exited, closing>>

StartTimeout ==
  /\ Alive /\ start = "pending"
  /\ start' = "timeout" /\ main' = "terminating"
  /\ Terminate
  /\ UNCHANGED <<mode, handlers, processes, exited, closing>>

UrlSeen ==
  /\ Alive /\ start = "pending"
  /\ start' = "url" /\ main' = "serving" /\ handlers' = Signals
  /\ UNCHANGED <<mode, processes, exited, termination, closing>>

(***************************************************************************)
(* Signals to the launcher.                                                *)
(***************************************************************************)
(* Mutant: runWrappedChild with process.once. *)
HandleOnce(s) ==
  /\ Alive /\ s \in handlers /\ mode \in Wrapped
  /\ Terminate /\ Begin
  /\ handlers' = handlers \ {s}
  /\ UNCHANGED <<mode, main, processes, exited, start, record>>

(* The handler of runWrappedChild: the child and the runtime together. *)
Handle(s) ==
  /\ Alive /\ s \in handlers /\ mode \in Wrapped
  /\ Terminate /\ Begin
  /\ UNCHANGED <<mode, main, handlers, processes, exited, start, record>>

(* The handlers of launchCursor are for one signal each. *)
Stop(s) ==
  /\ Alive /\ s \in handlers /\ mode \in Cursor
  /\ handlers' = handlers \ {s}
  /\ IF main = "serving"
     THEN /\ main' = "closing" /\ Begin
          /\ IF start = "url" THEN Terminate ELSE UNCHANGED termination
     ELSE UNCHANGED <<main, shutdown, runtime, termination>>
  /\ UNCHANGED <<mode, processes, exited, start, record>>

(* A signal without a handler ends the launcher; the child, which is in    *)
(* another process group, does not get it.                                 *)
Struck(s) ==
  /\ Alive /\ s \notin handlers
  /\ main' = "killed"
  /\ UNCHANGED <<mode, handlers, processes, child, closing>>

ProcessNext == Fork \/ LeaderExits \/ DescendantExits

LauncherNext ==
  \/ ProxyFails \/ RecordFails \/ PlanRejected \/ Spawn \/ SpawnFails \/ SpawnThrows
  \/ NoTunnel
  \/ GraceEnds \/ ExitSeen \/ StartTimeout \/ UrlSeen
  \/ TunnelClosed \/ RuntimeClosed \/ CloseFails \/ End
  \/ \E s \in Signals : Handle(s) \/ Stop(s) \/ Struck(s)

Next == ProcessNext \/ LauncherNext

Spec == Init /\ [][Next]_vars

(* Timers fire and events are delivered.  No process is assumed to exit on *)
(* its own or on SIGTERM, and no signal to come; that close() returns is   *)
(* what ProxyServer!ShutdownEnds says.                                     *)
FairSpec ==
  /\ Spec
  /\ WF_vars(GraceEnds) /\ WF_vars(ExitSeen) /\ WF_vars(StartTimeout)
  /\ WF_vars(TunnelClosed) /\ WF_vars(RuntimeClosed \/ CloseFails) /\ WF_vars(End)

(***************************************************************************)
(* Properties.                                                             *)
(***************************************************************************)
(* No launch ends by itself, or by a signal while it wraps a child, and    *)
(* leaves the child running.  Only a Cursor launch that is struck during   *)
(* the start of its tunnel, or by a second signal of one kind, does.  And  *)
(* a child that had to be killed takes its descendants along; those of one *)
(* that obeys in time are another matter, see StubbornDie.                 *)
NoOrphan ==
  /\ ~Alive /\ leader = "running" =>
       main = "killed" /\ mode = "tunnel" /\ (start # "url" \/ shutdown = "tunnel")
  /\ termination = "killed" => "running" \notin {leader, descendant}

(* "On POSIX systems the wrapped client and tunnel each own a process      *)
(* group.  Shutdown ... terminates the child group, and escalates stubborn *)
(* descendants to SIGKILL" (src/README.md:78): when a launcher that        *)
(* terminated its child has ended, no descendant is left.  The code        *)
(* returns from terminate() as soon as the child itself is gone.           *)
StubbornDie ==
  main = "ended" /\ termination # "none" => descendant # "running"

(* A wrapped launch whose spawn() threw. *)
SpawnThrew == mode \in Wrapped /\ leader = "none" /\ exited = "pending"

(* A launch that ends by itself has closed its runtime and removed its     *)
(* record, unless close() failed, spawn() threw, or the runtime record of  *)
(* a Cursor launch could not be written: its proxy is never closed.        *)
EndsClean ==
  main = "ended" =>
    /\ record => shutdown = "failed" \/ SpawnThrew
    /\ runtime \in {"open", "closing"} =>
         shutdown = "none" /\ (mode \in Cursor \/ SpawnThrew)

(* The public URL never leads to a proxy that closes: the tunnel, also one *)
(* that failed to start, is dead before.  And no launch serves without the *)
(* tunnel it was asked for.                                                *)
TunnelIsolated ==
  mode = "tunnel" =>
    /\ runtime \in {"closing", "closed", "failed"} => leader # "running"
    /\ main = "serving" => start = "url"

(* The first of timer, URL and exit settles the start of the tunnel.       *)
StartSettlesOnce ==
  [][start \notin {"none", "pending"} => start' = start]_vars

(* The start of a tunnel settles, and when the child is gone, the start    *)
(* failed or a shutdown began, the launcher ends; unless a descendant of   *)
(* the tunnel holds it.                                                    *)
LauncherEnds ==
  \/ []<>Held
  \/ /\ (start = "pending") ~> (start # "pending" \/ ~Alive)
     /\ (leader = "gone" \/ start = "timeout" \/ shutdown # "none") ~> ~Alive
=============================================================================
