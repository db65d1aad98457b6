# A verification of context-surgeon

context-surgeon sits between a coding agent and its model provider. It parses
every request of the agent, applies the surgeries a user ordered (replacing or
removing an occurrence of the conversation), adds its own bootstrap text at a
stable place, and hands the compiled bytes to the provider. It fails closed: a
request whose conversation, branch or surgery is in doubt is rejected and never
forwarded as it was. The modules in this directory describe how it keeps that
promise, TLC checks them on small instances, and TLAPS proves the central
results for every instance. Paths below are relative to the repository root.

## The system

| part | code | state it keeps | operations |
|---|---|---|---|
| Session ownership | `src/store/session-ownership.ts`, `session-state.ts` | `owner.lock/owner.json`, `owner.lock.reclaim` | acquire, release, reclaim |
| Control plane | `src/runtime/production-integrations.ts`, `src/api/control-socket.ts`, `control-auth.ts` | the socket `c.sock`, `control.json` | probe, open, close |
| State store | `src/store/state-snapshot-store.ts` | `state.json`, the published snapshot, the quarantine marker | commit, load, migrate |
| Branch identity | `src/state/identity.ts`, `src/proxy/conversations.ts` | branches with a window of eight observed histories, the catalog of projections | observe, restore, publish, exact |
| Bootstrap placement | `src/compiler/bootstrap-state.ts` | persisted branches: window, decision, anchor, receipts | reconcile |
| Request handler | `src/proxy/handler.ts`, `supported-route.ts` | the session's turn: identity, catalog, commit, compile, dispatch | one handler per request |
| Compiler | `src/compiler/compiler.ts` | none | compile |
| Codecs and adapters | `src/providers/*`, `src/adapters/*`, `src/context/fingerprint.ts` | none | parse, patch, validate; parse, serialize |
| Surgery commands | `src/api/state-control.ts`, `control.ts` | active surgeries and receipts, in the snapshot | surgery, reverse, skeleton, status |
| Control client | `src/cli/control-client.ts` | none | request with retries |
| Dispatch | `src/proxy/stream.ts`, `src/runtime/attempt-ledger.ts`, `guarantee.ts` | one attempt per request, `attempts.jsonl`, the session guarantee | dispatch, record, mark, reject |
| Proxy server | `src/proxy/server.ts` | listener, sockets, requests in flight | accept, route, close |
| Children and tunnel | `src/runtime/process-lifecycle.ts`, `tunnel.ts` | child process group, tunnel URL | spawn, terminate, start, close |
| Launchers | `src/cli/launch.ts` | the launch under way, the runtime record | launch, launchCursor, shutdown |
| CLI, migration, policy, legacy transformer, usage | the rest | files and requests | see "Not modelled" |

How they meet. A launcher starts the proxy server, which opens the model
listener and then boots the control plane: the lock is acquired, the state
loaded, the old socket removed, the control socket bound and `control.json`
written. A model request runs through the handler in one turn of the event
loop up to the dispatch: identity, catalog, commit of the bootstrap branch,
compilation. The commands of the control socket go through the same store.
All of this is one Node process, so commits never interleave with one another;
what interleaves is processes (several starts of one session), crashes with
every file-system call, and the callbacks of requests, responses and sockets.

What makes each part correct:

* ownership: one live writer; a dead owner can be replaced; a refusal has a cause;
* store: success means durable, a revision is published only when durable, a
  retry is answered and not applied again, damaged state is never taken for
  empty state;
* identity: a request belongs to one branch or is rejected, before and after a
  restart; a branch's decision and anchor never change under it;
* surgery: exactly once, whole batches, one active surgery for an occurrence;
  what a client was told is hidden is sent by no request;
* compilation: what is sent is what was received with exactly the ordered edits
  and the bootstrap text, each result says so truly, and a request is refused
  for a reason a user can name;
* dispatch: evidence before the handoff, an attempt settles once, and the
  guarantee shown never forgets a rejection;
* shutdown: a drain that is reported complete is complete, every attempt in
  flight settles, and close() ends; a launcher leaves neither a child nor an
  open tunnel behind, and ends.

## The modules

| module | models | status |
|---|---|---|
| `SessionOwnership` | ownership, start and stop of the control plane | checked, proved |
| `OperationLog` | what the store promises (abstract) | refined by `SnapshotStore` |
| `SnapshotStore` | commit, load, migration, quarantine | checked, proved |
| `Branches` | identity tracker, catalog, bootstrap placement | checked, safety proved |
| `SurgeryControl` | clients, commands, commits, the compiler's surgeries | checked, safety proved |
| `Providers` | requests of the three dialects as trees; codecs and adapters as operators | used by `RequestCompiler` |
| `RequestCompiler` | projection, surgeries, bootstrap injection and reconciliation of a request | checked, safety proved |
| `ProxyServer` | model listener, dispatch of a request, shutdown | checked, safety proved |
| `Launcher` | a launch, its child and tunnel, signals, teardown | checked, safety proved |
| `MC...` | the model values of a module for TLC | |
| `..._proofs` | the theorems about a module | |

The modules meet in the store: `SnapshotStore` shows that a commit is atomic
and durable, or fails leaving the file either as it was or one snapshot ahead of
memory. `Branches` and `SurgeryControl` take exactly that as one step, the
failing commit included. A restart of theirs begins with what the file holds, and
`SessionOwnership` is about who may do so. `RequestCompiler` opens the step
"compile" of `Branches` and `SurgeryControl`: there an occurrence is a prefix or
a member of a set, here it is a place of a request with the identity the codecs
compute. `Launcher` takes the runtime as one thing that is open or closed:
`ProxyServer` and `SessionOwnership` say what its close does.

### SessionOwnership

A process of the model is one incarnation of the program: every start draws a
fresh nonce, so a restart is another incarnation. An action is one file-system
call of `acquire`, `createOwnedLock`, `release`, `controlPlaneBootstrap` or
`close`, and `pc` says which one is next. Paths are what the calls see:
`lockDir` is what `owner.lock` names at the moment, `sockFile` who bound
`c.sock`, `record` whose capability `control.json` holds. Another incarnation,
a crash or the passing of the five-second grace may come between any two calls.

`environment` says what a behaviour allows, one of the constant `Environments`:
`MayClose` may shut down in order, `MaySlow` may pause beyond the grace during
their start (or between the probe and the clock), `MayFault` may meet I/O
errors. Crashes are always possible. `Prompt` is an environment in which nobody
closes and nobody is slow.

Left out: the `lock.stale.<uuid>` directories (nothing reads them), the fsync
after the displacing rename, a torn `owner.json` (it counts as absent: both are
refused as unreadable). The probe is two steps, `ProbeIncumbent` and
`AwaitAnswer`: between the accepted connection and the answer, up to 750 ms
later, the owner may close or crash. Its reading of `control.json` and its
connection are one step, so is `removeOwnedRecord`. The listener is the one
production starts, `src/api/control-socket.ts`; nothing in production starts
`src/runtime/control-listener.ts`.

### SnapshotStore and OperationLog

The store of one process and its files: `disk` is what `state.json` names,
`durable` what the directory certainly names after a power cut, `unsynced` what
it may name instead. A snapshot is its schema version, its revision and the
receipts; `regime` says what goes wrong in a behaviour: processes end, or the
machine loses power. An operation is a client's `Command` or a commit of the
compiler's, a `Bootstrap`. Commands keep their receipts for ever; of the
bootstrap receipts the code keeps the newest of each branch and the newest of
all up to 64 (`boundedReceipts`, `src/compiler/bootstrap-state.ts:141-170`),
which are `Kept`, `Bounded` and `MaxBootstrapReceipts`. Their operation ids are
fresh UUIDs that nobody retries, so they are answered to nobody, and no retry
depends on a dropped one. `commit` goes through the stages of the code's own `PersistenceStep`,
one action each, and may fail or be cut at each. `load` reads the marker, the
file, quarantines damage, or upgrades a version 3 file. `OperationLog` is the
promise to the clients: commands are attempted, appended once, answered with
their one revision, and an unanswered one surfaces alone or never; revisions
of the compiler's come between them (`Anonymous`). `LogSpec` is that
module under the mapping "the published snapshot, or the file when no snapshot
is published", and `SnapshotStore` implements it.

`acked` is what the clients were told; the code keeps no such variable.

Left out: orphaned temporary files, a marker that is itself lost in a power cut,
several stores on one directory (that is what SessionOwnership is about).

### Branches

A history is a sequence of item hashes. An occurrence id hashes the branch and
the whole prefix, so an occurrence, and an anchor, is the prefix that ends at
it; a branch's present history is always the last of its window, so only the
window is kept. `Request` is the turn of `compileSupportedRequest` from
the tracker to the compiler's anchor lookup. That code has no `await` between
the tracker and the commit, so it is one action, with a failing commit as an
alternative: the file may then be ahead of the memory. `Restart` builds the
tracker from the file; the catalog starts empty.

`world` says what a behaviour allows: which items clients send and how many
requests, whether a client sends a history that one of its earlier requests
extended (`replays`), whether a commit may fail (`faults`). Left out: conversation ids, the record
of fork points, the bound of 64 bootstrap receipts (`SnapshotStore` has it),
configurations without a skill text (they make no decision). An ambiguous request changes nothing and is
no action.

### SurgeryControl

Clients of the control socket prepare evict, replace and restore commands from
the skeleton they see, send them, send them again when the answer is lost, and
give up; a copy of a command can be handled at any time until the process
ends. `Handle` is the whole of `mutate`: the retry lookup, the capability, the
revision check, the surgeries in order, and the commit. `ModelRequest`
extends, trims or forks a branch and compiles it from the snapshot in memory.
A restore reverses all the surgeries its selectors resolve to as one batch;
only a replacement needs exactly one occurrence. `answer` is what a client
printed at last; the service keeps no such variable.

An occurrence id hashes everything the compiler checks again (its content, path
and protection), so those refusals cannot arise in a state of the program and
are left out; so are the bootstrap receipts of the same snapshot, and malformed
commands. `failed` (a 500) leaves a client as unsure as no answer does. A
restart makes a new capability, so a retry across it is refused and the client
has no answer.

### Providers and RequestCompiler

A request is a tree: places (message, part of its content, block in a tool
result, entry of `tool_calls`) with nodes. A node keeps what the code looks at:
its type, role and call id, whether its content is a string or an array, a
text, whether it has `cache_control` and whether it has fields the proxy does
not know. A text is a word behind any number of bootstrap texts. A hash is the
value it is taken of, so equal identifiers mean equal inputs; `stableStringify`
leaves `cache_control` out, and so does the value. `Occurrences`, `Identity`, `Protected`
and `Valid` are the codecs, with one operator per dialect where they differ;
`Rewritten` is an adapter's `parse` followed by its `serialize`, with what each
dialect loses on the way; `Edited` is a replacement.

An action of `RequestCompiler` is a stage of a request: `Receive` (or `Reject`)
is the projection, the tracker and the reconciliation of the anchor, `Operate`
one surgery of the list, `Bootstrap` the injection or preservation at the
anchor with the shared places and the blanks, `Check` the final reconciliation
and the validation. `OrderSurgery` and `Restore` come between requests, from
what the last published one showed.

`Signed` is the set of words that contain the signature of the bootstrap text
without beginning with it, which `initialDecision` takes for a preserved
bootstrap too. A Chat message of a role that cannot be edited has an occurrence
for its content and one for the whole message, its envelope: `Envelopes` and
`Whole` put the latter into the identities of what follows.

Left out: windows, forks, failed commits and restarts, which `Branches` has;
one branch only. System messages of the Messages API have string content, and
the place of a content and of its text are one. `ShapeAssumption` says which trees are bodies
of a dialect at all, before anything is validated. The canonical items of the fingerprint are
compared message by message. The branches `hash changed` and `unsupported` of
the compiler cannot be reached, because an occurrence id hashes the kind, the
source, the path and everything before it, and have no action.

### ProxyServer

An action is one callback of the event loop with the microtasks it resolves:
a request arrives, its body is complete, its upstream socket connects, the
request stream finishes, the response starts, ends or fails, the client's
response finishes or closes. `upstream` holds the events that Node may still
raise for a request, `attempt` and `settled` are the variables of
`dispatchArtifact`, `evidence` says that `attempts.jsonl` has a receipt.
`close()` is the actions `Close`, `Release` (control plane and lock),
`Drained` or `ForceClose`, and `Closed`.

How a request is classified is a free choice, since the traffic policy is a
stateless table; the answers 404 leave the same state as a supported request
that meets a closed session. Each request has a connection of its own, and the
phase `open` begins when the control plane is up. A ledger that fails after
the handoff changes nothing of the attempt, as in the code.

An append to the ledger is whole or it throws: a short write, which
`src/runtime/attempt-ledger.ts:119` does not notice, is not modelled.

### Launcher

`mode` is the launch: `wrapped` (`launch` with surgery), `bypass` (without),
`tunnel` and `local` (`launchCursor`, also with `--no-tunnel`). `main` is where
that function waits. `leader` is the child, `descendant` a process it left in
its group, `exited`, `termination` and `start` the promises of that name (the
last one is the start of the tunnel), `shutdown` and `runtime` how far the
teardown is, `handlers` the signals that do not kill the launcher.

The event loop gives the atomicity: between the URL of the tunnel and the
`exit` handler of its child there are only microtasks, likewise between the
spawn and the signal handlers of `runWrappedChild`. A child that cannot be
executed is reported before any other event (`SpawnFails`), or `spawn` itself
throws (`SpawnThrows`). SIGTERM and SIGINT need no action
of their own, since a process may exit at any time or never; SIGKILL to the
group is the step `GraceEnds`. Left out: Windows, a child that leaves its
process group, a `kill` that is not permitted, and the death of the launcher by
anything but SIGINT and SIGTERM.

## What the runs check

| run | bounds | shows |
|---|---|---|
| `ownership` | 3 incarnations with crashes anywhere: prompt starts, no orderly shutdown and I/O errors of all, or 2 that may close, one of them slow, and I/O errors of 2 | `OneWriter` and the invariant of its proof in the first, `ReclaimMutex`, `StartRefusedForCause` and, under fairness, `AttemptEnds` in both |
| `ownership_close` | 3 incarnations that may close | the violation of `OneServing` described below |
| `store` | 2 commands and 3 bootstrap commits of 2 branches, 2 bootstrap receipts kept, I/O errors, and any number of restarts or any number of power cuts | every property of `SnapshotStore`, the refinement, the invariant of the proof |
| `branches` | 2 branches, histories up to 3 items, window of 2, a restart; 3 kinds of items and 3 requests with replays and failing commits, or 2 kinds and 5 requests without | every property of `Branches` |
| `branches_restart` | 2 kinds, 4 requests, a restart, replays | the violation of `RestartKeepsIdentity` described below |
| `surgery_all` | 2 clients, 2 branches, 5 occurrences (two ordered and restored at once, one of them a picture; one protected), 2 attempts of a command (the client makes 3), 2 requests, a restart, a failed commit | every property of `SurgeryControl` |
| `surgery_restore` | as `surgery_all` | the violation of `AllRestorable` described below |
| `compile` | 17 requests of three dialects and the Cursor form, 3 of them in a row, 2 surgeries at a time with 2 replacement texts | every property of `RequestCompiler` |
| `compile_fields` | as `compile` | the violation of `UnknownFieldsKept` described below |
| `proxy` | 2 requests of any kind, every order of callbacks | every property of `ProxyServer` |
| `launcher` | the four launches, one child with one descendant, any number of signals | every property of `Launcher` |
| `launcher_group` | as `launcher` | the violation of `StubbornDie` described below |

Three incarnations are an owner, the contender that replaces it and one that
interferes; every race we know needs no more. Five operations are one
committed, one unanswered and one that reuses its revision number, of either
kind, and with three bootstrap commits and two kept one is dropped that is
neither the first nor the last. There the state spaces are finite as they are,
since an incarnation runs once and an operation commits once while its receipt
is kept. `Branches` and `SurgeryControl` bound the steps:
`MaxLength`, `MaxRequests` (`requests` in a world), `MaxRestarts`,
`MaxFailures`, `Attempts`. A trim and
a fork need histories of two and three items, the window of two (eight in the
code) overflows with three requests of a branch, and one restart separates what
memory and file remember. Two clients are an order and the one that interferes;
a second request compiles what the first one and the commands left. A request
of `ProxyServer` meets another one only in the counter and the guarantee, where
two are enough to disagree. The requests of `compile` are chosen, not
enumerated: each dialect has one with every kind of node (thinking, calls,
results with blocks, media, unknown fields), one that extends it, one that trims
or re-encodes it and one that echoes the bootstrap text or the anchor; three in a row are the
one a surgery was ordered on, the one that disturbs it and one after that, and
two surgeries meet in one place or one block. `Launcher` has no bound: its
state is finite. Deadlock is not checked where a system may stop for
good: every incarnation ended, a store quarantined, the bounds used up, the
proxy closed.

Fairness (`FairSpec` of `SessionOwnership`): an incarnation that was started
takes its next step unless it crashed. The code between two calls is synchronous and the probe has
its own timeout, so nothing but a crash or a stopped process keeps it. Crashes,
starts, shutdowns and the clock are not fair.

Fairness (`FairSpec` of `ProxyServer`): the steps of `close()` once it began
(the drain loop has a deadline), and the end of connections that the proxy
destroyed or that idle beyond Node's keep-alive timeout. Nothing is assumed of
clients and providers: `AttemptsSettle` holds although none of them ever
answers or leaves.

Fairness (`FairSpec` of `Launcher`): timers fire, the exit of a child is
delivered, and close() of the runtime returns or rejects, which is what
`ShutdownEnds` says of it, with its exceptions. No process is assumed to obey a
signal and no signal to come.

### What the runs found

`ownership_close`: the nonce of the incumbent is compared under the reclaim
directory, and then `renameSync(lockPath)` displaces whatever the path names
(`src/store/session-ownership.ts:146-159`). When the incumbent's listener was
already closed but its lock not yet released, a contender passes the probe and the recheck; the
incumbent then releases, a third incarnation creates its own lock and starts,
and the contender renames that lock away and starts too. Two incarnations serve
one `state.json`. The plan (`docs/CONTEXT-SURGEON-V2-PLAN.md:117`) promises one
live writer. `OneWriter` also fails when a start takes longer than the grace;
the code documents that grace as its assumption, so this is a bound of the
result and no finding.

`branches_restart`: a client that replays an older request of a branch makes
`reconcileBootstrapState` persist the older history
(`src/compiler/bootstrap-state.ts:287`), while the tracker keeps the longer
one. After a restart, a request that extends the longer history is resolved
against the older one: it may extend the branch where the same process would
have forked. `test/bootstrap-cache-truth.test.ts:202` expects the identity to
survive a restart. Also seen in the model: when the anchor is absent from the
replayed history, the branch's decision is made final as stopped; with failing
commits a branch can be in the catalog and not in the file; and `OneOwner`
fails after a restart with replays, since the two windows differ.

`surgery_restore`: `restore` looks its argument up in the occurrences of the
current skeleton (`src/cli/commands.ts:721`). Once the client trims the
conversation, a surgery on a trimmed occurrence stays active, the compiler
refuses every request of the branch because of it (`src/compiler/compiler.ts:228`),
and no command line can name it. `guide.md:28` describes restoring a
surgery whose source is absent.

`compile_fields`: the Responses adapter makes every text block anew from its
type and text (`src/adapters/openai-responses.ts:83`), so `annotations`,
`cache_control` and unknown fields of a received block are not sent. The
reconciliation compares texts and does not notice. The plan
(`docs/CONTEXT-SURGEON-V2-PLAN.md:200`) asks for "preserving all unknown
fields".

Seen while `ExactEdit` and `RefusedForCause` were brought to hold, and named in
them:

* the Responses adapter adds `instructions: ""` to a request without them
  (`src/adapters/openai-responses.ts:236-240`), of which `ExactEdit` says
  nothing, and the compiler refuses (422) every request of that dialect that
  holds a message whose content is the empty string;
* a client that trims its history, or sends string content as an array of one
  text, gives the messages other identities: their surgeries are absent, and
  every request of the branch is refused (409) until they are restored;
* a blank replacement of a text of the Messages API compiles to a request the
  validation refuses, until it is restored;
* the anchor is looked up in the edited request
  (`src/compiler/compiler.ts:305-330`) and was chosen in the received one
  (`src/compiler/bootstrap-state.ts:35-58`): a surgery on a message that
  already carries the bootstrap text stops the branch. A fork looks for the
  inherited anchor without that exception, so an echo in a fork gets the text a
  second time;
* after a trim the anchor of a Chat conversation can be found again in a message
  of another role that has the same text in an array at the same place: the
  compiler then puts the bootstrap text into, say, a developer message, and its
  own reconciliation refuses the request (422), since such a message is
  protected. Every request of the branch meets the same (`Misplaced`).

`launcher_group`: `terminate` sends SIGTERM to the whole group and returns when
the child exits (`src/runtime/process-lifecycle.ts:61-79`), so a descendant that
ignores SIGTERM gets SIGKILL only if its parent ignores SIGTERM too.
`README.md:78` promises to escalate "stubborn descendants to `SIGKILL`", and the
test has a stubborn parent. A surviving descendant of the tunnel holds its pipes
and with them the launcher, the exception `Held` of `LauncherEnds`.

The other properties of `Launcher` name what the code leaves behind:

* a Cursor launch handles no signal while its tunnel starts (up to 15 s), and
  each signal once after that: struck then, it dies and its `cloudflared`, which
  has a process group of its own, stays (`NoOrphan`);
* when the runtime record of a Cursor launch cannot be written, the proxy is not
  closed (`src/cli/launch.ts:302`, compare 219-225), and the lock stays; when
  close() rejects, the record stays; when `spawn` throws in a wrapped launch
  (`src/runtime/process-lifecycle.ts:98`, outside the `try`), proxy and record
  both stay (`EndsClean`).

Three observations about shutdown come from `ProxyServer`; no run states them as
a property:

* a request whose body is still being read when `close()` releases the ownership
  lock (`src/proxy/server.ts:363`) is compiled, committed to `state.json` and
  dispatched afterwards, during the drain, when another incarnation may own the
  session;
* `request-stream-finished-locally` may follow `response-started`
  (`src/proxy/stream.ts:349`) when an upstream answers before it has read the
  request; the plan (`docs/CONTEXT-SURGEON-V2-PLAN.md:213`) lists them in the
  other order;
* `close()` waits for ever for a piped WebSocket when no counted request is in
  flight at the deadline, and for a request that arrives on an open connection
  after the drain: both are the exceptions `Lingers` of `ShutdownEnds`.

`CommittedAsSeen`, and the part of `AnswersAreTrue` about refusals, hold as long
as no commit failed: a bootstrap commit that fails changes the catalog and not
the revision, so a command can be accepted for a skeleton its author did not see.

A crash between the creation and the removal of `owner.lock.reclaim` leaves a
session every later start refuses; that is the documented recovery-required
result, and `StartRefusedForCause` lists it as one of the known causes. An owner that
accepts the ping of a starter and dies before it answers makes that starter's
refusal final, as it should: it was seen alive. A later start is not affected.

With process restarts and power cuts together, a process may load a renamed
snapshot whose directory entry was never synced, answer a retry from it, and
lose both in a power cut. `docs/CONTEXT-SURGEON-V2-PLAN.md:262` claims
process-crash consistency and no power-loss durability, so the model
takes the two apart (`regime`).

## What is proved

All proofs are checked by TLAPS, for every value of the constants unless stated.

`SessionOwnership_proofs`
: `TypeCorrect` and `ReclaimMutexHolds` hold in every environment.
  `OwnershipInv` and `OneWriter` speak of `Prompt` environments, without orderly
  shutdowns and slow starts. By `ownership_close` the first is needed, and so is
  the second: an incarnation that pauses for longer than the grace between its `owner.json`
  and its socket is displaced, and then opens the store. `OneWriter` is not
  inductive. `OwnershipInv` adds that the lock path names the holder's own
  directory at every stage (`LockIsHolders`), that there is one holder
  (`OneHolder`), that who has served can be reached by a probe
  (`ServingAnswers`), and that a contender past the grace check follows a dead
  incumbent (`IncumbentIsDead`), whose directory therefore nobody but the
  reclaimer can move. `StartRefusedForCauseAlways` needs no assumption about the
  environment. Its invariant `TracesExplained` says whose a lock without an
  owner, a reclaim directory and an open listener are: an incarnation's that is
  at the step where it has one, or that crashed there.

`SnapshotStore_proofs`
: `TypeCorrect`, and in either `regime` the rest. `StoreInv` says that each
  snapshot a start could find is the published one or one unanswered operation
  ahead of it, and how far a commit or migration has brought the files at each
  stage.
  `AckedDurableHolds`, `PublishedDurableHolds` and `ReceiptsAreFinalHolds`
  follow from it, and `ImplementsOperationLog` maps every step to a step of
  `OperationLog` or a stutter. `RevisionsAreHistoryHolds` says that no two
  operations committed one revision, and that a revision without a receipt was
  pruned: `MaxBootstrapReceipts` bootstrap receipts are still there, a later one
  among them. It is inductive once it speaks of every snapshot a power cut could
  bring back, not only of the memory and the file (`HistoryInv`), and rests on
  what `boundedReceipts` keeps. `QuarantineFreezesHolds`
  needs that a process with a marker is in recovery (`MarkedInv`).

`Branches_proofs`
: `OneOwnerAlways`, `ForwardKeepsIdentityAlways` and
  `CataloguedIsDurableAlways`, for every set of worlds. The properties name
  what they need: no restart, or neither replays nor failing commits, and
  `branches_restart` shows that to be needed. `TrackerInv` says that no two
  windows share a history and holds in one process whatever happens;
  `RestoredInv` says, for a world that only goes forward, that memory and file
  hold the same branches and that the tracker is what a restart would build
  from them. The invariant is the two, each under its condition.
  `TypeCorrect`, `AnchorReconciledAlways` and `DecisionIsFinalAlways` hold in
  every world, with replays, failing commits and restarts. `PlacedInv` says of
  the memory and of the file that each branch is placed where its last request
  shows it (`CommittedWell`), and that the file comes after the memory
  (`Succeeds`): a restart, which goes from one to the other, then takes no
  decision back.

`SurgeryControl_proofs`
: `TypeCorrect`, `OneActiveAlways`, `ReceiptsExplainAlways` and
  `HiddenStaysHiddenAlways`, for any clients, branches, failures and restarts.
  They are inductive together: `IInv` states for the memory and for the file,
  which may be one commit ahead, that the receipts explain the surgeries
  (`Explained`), that both hold every receipt a client was told of (`Known`), and
  that what was sent was compiled from such a snapshot (`Sent`).
  `AnswersAreTrueAlways` and `CommittedAsSeenAlways` rest on `TInv`, which adds
  for as long as no commit failed (`Told`): the catalog is the committed one, a
  command of the current revision saw the catalog that is there now
  (`SeenIsCurrent`), a file ahead of the memory is ahead by a command that is
  permitted (`AheadIsPermitted`), and a copy still under way of a refused
  command will be refused again (`RefusedStaysRefused`). The assumption
  `ContentsAssumption` says that branches have no occurrence in common, which
  the code gets from hashing the branch into the id.

`RequestCompiler_proofs`
: `TypeCorrect`, `SurgeriesKeepToTheirHistory` (`SameHistory`), `SentIsEdited`
  (`ExactEdit`) and `ResultsAreTruthful`, for any requests, words and bounds.
  `IInv` has six parts: an order is of a text its author saw (`OrdersKnown`),
  the anchor is a text of a user (`AnchorKnown`), the types (`Typed`), the
  request at hand and its candidate (`AtHand`), what every place holds while
  the surgeries are applied (`Editing`), and what it holds when the request is
  checked and sent (`Finished`). The steps rest on four facts about the
  dialects: equal identities mean equal history (`IdentityIsHistory`), a
  replacement leaves the other places and says what it put (`EditedCarries`), a
  message that echoes the bootstrap text is not the anchor's own place
  (`NoEchoOfItself`), and the reconciliation finds the one change an adapter
  makes to a text, the empty string of the Responses dialect (`EmptiedIsFound`).

`RequestRefusals_proofs`
: `RefusedForCauseAlways`, that nothing but the named causes makes a request
  fail. It is about what surgeries and bootstrap leave of a tree nobody looks at
  again until it is validated. A node of the candidate is the parsed one, or a
  replaced, bootstrapped or blanked one (`Kin`), and keeps what the validation
  compares (`KinForm`); each dialect accepts a tree of such nodes if it accepted
  the original (`AnthropicStaysSound`, `AnthropicStaysInOrder`, `ChatStaysValid`,
  `ResponsesStayValid`, together `DerivedIsValid`). `RInv` adds to the invariant
  of `RequestCompiler_proofs` that the orders are told (`OrdersTold`), that the
  tree in work is such a tree (`Compiling`) and that the anchor is found where
  the final reconciliation looks for it (`AnchorFound`). `ShapeAssumption` says
  that the requests are trees a parser can produce: parts belong to items,
  messages are items, only the content of a message or a result is a string.
  It says nothing about what a dialect accepts, so the malformed requests
  remain, and TLC evaluates it on the requests of `compile`.

`ProxyServer_proofs`
: `TypeCorrect`, `ActiveCountedAlways`, `DrainedIsDoneAlways`,
  `EvidenceFirstAlways`, `GuaranteeTruthAlways` and `SettledIsFinalAlways`, for
  any finite set of requests. `Progress(r)` ties the handler, the attempt, the
  flag, the response and the pending events of a request to one another, and
  `ActiveCounted` to the cardinality of the responses in flight; the drain
  then sees a counter of zero only when that set is empty.

`Launcher_proofs`
: `TypeCorrect`, `NoOrphanAlways`, `EndsCleanAlways`, `TunnelIsolatedAlways` and
  `StartSettlesOnceAlways`, for any set of launches. `IInv` says where a launch
  may be while its child runs (`Minded`), what a settled promise implies
  (`Ordered`), that a serving launch handles both signals (`Serving`), and how
  far a shutdown is (`Progress`).

Every invariant and action property of the passing runs is stated by a theorem.
Only model-checked are the four liveness properties, `AttemptEnds`,
`AttemptsSettle`, `ShutdownEnds` and `LauncherEnds`: they rest on fairness, and
so on ENABLED, which is out of the prover's reach.

## The plan

Done: ownership, store, branches, surgery, compilation with the three dialects,
proxy and dispatch, the launcher with its child and tunnel. What is left, the
most important first:

1. Proofs: `SurgeryControl`'s commits as steps of an operation log, which has
   to number the model requests too.
2. `SessionShutdown`: the steps of `ProxyServer`'s close composed with the
   releases and starts of `SessionOwnership`, for the request that commits after
   the lock was given up.
3. `AttemptLedger`: short writes, crashes and the reader of `attempts.jsonl`.
4. The rest of the handler: records of the turn, sent map, the retry of a
   branch's configuration, the bounds of `receive.ts`.
5. `LegacyMigration`: the one pass with its probe, its marker and a crash
   between any two writes.

## Not modelled, and why

* The legacy context transformer and the translation of Responses to Chat:
  they serve sessions without v2 state, one request at a time.
* Headers and content encodings: stateless conversions.
* Cache observation and usage: reporting, from which nothing is decided.
* Command line, diagnostics, classification of Codex arguments: sequential text
  processing and set-up of files and environment. `launch` draws a new session
  identifier for each run, so restarts of one session arise only when an
  integrator passes one.
* Legacy migration: one pass behind a liveness probe; what it writes is evidence
  no request reads. Planned.
* Torn lines of `attempts.jsonl`: planned. A short write is not noticed
  (`src/runtime/attempt-ledger.ts:119`), so on a full disk a request can be
  handed over without its receipt, which `EvidenceFirst` does not see.
* Traffic policy: a stateless table.
