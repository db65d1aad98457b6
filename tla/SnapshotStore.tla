---------------------------- MODULE SnapshotStore ----------------------------
(***************************************************************************)
(* AtomicStateSnapshotStore of store/state-snapshot-store.ts: one process  *)
(* publishes whole snapshots through a temporary file, fsync, rename and   *)
(* directory fsync, and loads, migrates or quarantines them at its start.  *)
(*                                                                         *)
(* A snapshot is its schema version, its revision and the revision each    *)
(* operation committed (receiptsByOperationId); what an operation did to   *)
(* the surgeries is the business of other modules.  There are two kinds of *)
(* operations: the commands of clients, who get the receipt, and the       *)
(* compiler's commits of its bootstrap decisions, which nobody waits for   *)
(* and whose older receipts a later one drops (boundedReceipts of          *)
(* compiler/bootstrap-state.ts).  An absent state.json is the empty        *)
(* snapshot load() makes of it.  The process is one event loop and         *)
(* commit() is synchronous, so only crashes, power cuts and I/O errors     *)
(* come between its steps.                                                 *)
(***************************************************************************)
EXTENDS Naturals, FiniteSets

CONSTANTS
  Command,     \* operation identifiers of client commands
  Bootstrap,   \* operation identifiers of the compiler's bootstrap commits
  BranchOf,    \* the branch each bootstrap commit is about
  MaxBootstrapReceipts,
  NoOp,        \* no operation is being committed
  Torn         \* the content of a file whose data never reached the disk

Op == Command \cup Bootstrap

ASSUME StoreAssumption ==
  /\ NoOp \notin Op
  /\ Command \cap Bootstrap = {}
  /\ IsFiniteSet(Bootstrap)
  /\ MaxBootstrapReceipts \in Nat \ {0}

VARIABLES
  regime,      \* what goes wrong: processes end, or the machine loses power
  disk,        \* the snapshot state.json names now, or Torn
  durable,     \* what it named at the last directory fsync
  unsynced,    \* what it was renamed to since then
  readable,    \* whether its mode is 0600
  marker,      \* whether state.json.recovery-required exists
  running,     \* whether a process has the store open
  recovery,    \* the process's recovery error is set
  mem,         \* the published snapshot: this.snapshot
  stage,       \* how far commit() or the schema migration got
  op,          \* the operation commit() is about, or NoOp
  synced,      \* whether the temporary file was fsynced
  attempted,   \* history: the operations whose write was begun
  acked        \* history: the revision in the receipt its client got, or 0

files == <<disk, durable, unsynced, readable, marker>>
process == <<running, recovery, mem, stage, op, synced>>
vars == <<files, process, attempted, acked, regime>>

(* A process may end while its machine stays up, or the machine may lose   *)
(* power: the durability bar the store is built for is one of the two.     *)
Restarts == regime = "restarts"
PowerCuts == regime = "power"

Snapshot == [version : {3, 4}, revision : Nat, receipts : [Op -> Nat]]
EmptySnapshot ==
  [version |-> 4, revision |-> 0, receipts |-> [o \in Op |-> 0]]
LegacySnapshots ==
  {[version |-> 3, revision |-> 1,
    receipts |-> [o \in Op |-> IF o = p THEN 1 ELSE 0]] : p \in Command}

ASSUME TornAssumption == Torn \notin Snapshot

CommitStages == {"begun", "after-temp-open", "after-temp-write",
                 "after-file-fsync", "after-rename", "after-directory-fsync"}
MigrateStages == {"migrate", "migrate-renamed"}

TypeOK ==
  /\ regime \in {"restarts", "power"}
  /\ disk \in Snapshot \cup {Torn}
  /\ durable \in Snapshot \cup {Torn}
  /\ unsynced \subseteq Snapshot \cup {Torn}
  /\ readable \in BOOLEAN /\ marker \in BOOLEAN
  /\ running \in BOOLEAN /\ recovery \in BOOLEAN
  /\ mem \in Snapshot
  /\ stage \in {"idle"} \cup CommitStages \cup MigrateStages
  /\ op \in Op \cup {NoOp}
  /\ synced \in BOOLEAN
  /\ attempted \subseteq Op
  /\ acked \in [Command -> Nat]

Init ==
  /\ regime \in {"restarts", "power"}
  /\ disk \in {EmptySnapshot} \cup LegacySnapshots
  /\ durable = disk
  /\ unsynced = {}
  /\ readable = TRUE /\ marker = FALSE
  /\ running = FALSE /\ recovery = FALSE
  /\ mem = EmptySnapshot
  /\ stage = "idle" /\ op = NoOp /\ synced = FALSE
  /\ attempted = {}
  /\ acked = [c \in Command |-> disk.receipts[c]]

(***************************************************************************)
(* commit()                                                                *)
(***************************************************************************)
Bootstraps(receipts) == {b \in Bootstrap : receipts[b] # 0}
Newer(receipts, b) == {c \in Bootstraps(receipts) : receipts[c] > receipts[b]}
NewestOfBranches(receipts) ==
  {b \in Bootstraps(receipts) :
     \A c \in Newer(receipts, b) : BranchOf[c] # BranchOf[b]}

(* Mutant: the newest are looked for among the receipts of all operations. *)
KeptTooFew(receipts) ==
  {b \in Bootstraps(receipts) :
     \/ b \in NewestOfBranches(receipts)
     \/ Cardinality({o \in Op : receipts[o] > receipts[b]}) < MaxBootstrapReceipts}

(* boundedReceipts: the newest receipt of every branch, then the newest of *)
(* all until there are MaxBootstrapReceipts.                               *)
Kept(receipts) ==
  {b \in Bootstraps(receipts) :
     \/ b \in NewestOfBranches(receipts)
     \/ Cardinality(NewestOfBranches(receipts) \cup Newer(receipts, b))
          < MaxBootstrapReceipts}

Bounded(receipts) ==
  [o \in Op |-> IF o \in Bootstrap \ Kept(receipts) THEN 0 ELSE receipts[o]]

(* The receipts of the next revision: only a bootstrap commit drops some.  *)
NextReceipts(o) ==
  LET added == [mem.receipts EXCEPT ![o] = mem.revision + 1]
  IN IF o \in Bootstrap THEN Bounded(added) ELSE added

(* The one revision commit() accepts on top of the published snapshot. *)
NextSnapshot(o) ==
  [version |-> 4, revision |-> mem.revision + 1, receipts |-> NextReceipts(o)]

Ready == running /\ ~recovery /\ stage = "idle"

(* The compiler's own commits are acknowledged to nobody. *)
Acknowledge(o, revision) ==
  acked' = IF o \in Command THEN [acked EXCEPT ![o] = revision] ELSE acked

(* A retry is answered with the receipt of the committed operation. *)
ReturnExisting(o) ==
  /\ Ready
  /\ mem.receipts[o] # 0
  /\ Acknowledge(o, mem.receipts[o])
  /\ UNCHANGED <<files, process, attempted>>

(* Mutant: a retry is committed as if it were new. *)
BeginAgain(o) ==
  /\ Ready
  /\ stage' = "begun"
  /\ op' = o
  /\ synced' = FALSE
  /\ attempted' = attempted \cup {o}
  /\ UNCHANGED <<files, running, recovery, mem, acked>>

(* Every caller reads current(), builds the next revision from it and      *)
(* calls commit() in one turn, so the store never sees a stale one.  A     *)
(* bootstrap commit has an identifier of its own, made for it alone.       *)
Begin(o) ==
  /\ Ready
  /\ mem.receipts[o] = 0
  /\ o \in Bootstrap => o \notin attempted
  /\ stage' = "begun"
  /\ op' = o
  /\ synced' = FALSE
  /\ attempted' = attempted \cup {o}
  /\ UNCHANGED <<files, running, recovery, mem, acked>>

AtStage(from, to) ==
  /\ running
  /\ stage = from
  /\ stage' = to

OpenTemp ==
  /\ AtStage("begun", "after-temp-open")
  /\ UNCHANGED <<files, running, recovery, mem, op, synced, attempted, acked>>

WriteTemp ==
  /\ AtStage("after-temp-open", "after-temp-write")
  /\ UNCHANGED <<files, running, recovery, mem, op, synced, attempted, acked>>

SyncTemp ==
  /\ AtStage("after-temp-write", "after-file-fsync")
  /\ synced' = TRUE
  /\ UNCHANGED <<files, running, recovery, mem, op, attempted, acked>>

(* A renamed file whose data was not synced may be torn after a power cut. *)
RenameTo(snapshot) ==
  /\ disk' = snapshot
  /\ unsynced' = unsynced \cup {snapshot} \cup (IF synced THEN {} ELSE {Torn})
  /\ readable' = TRUE
  /\ UNCHANGED <<durable, marker>>

Rename ==
  /\ AtStage("after-file-fsync", "after-rename")
  /\ RenameTo(NextSnapshot(op))
  /\ UNCHANGED <<running, recovery, mem, op, synced, attempted, acked>>

DirectorySynced ==
  /\ durable' = disk
  /\ unsynced' = {}
  /\ UNCHANGED <<disk, readable, marker>>

(* Mutant: the directory is not fsynced. *)
SkipDirectorySync ==
  /\ AtStage("after-rename", "after-directory-fsync")
  /\ UNCHANGED <<files, running, recovery, mem, op, synced, attempted, acked>>

SyncDirectory ==
  /\ AtStage("after-rename", "after-directory-fsync")
  /\ DirectorySynced
  /\ UNCHANGED <<running, recovery, mem, op, synced, attempted, acked>>

(* Mutant: memory is published before the rename. *)
PublishEarly ==
  /\ AtStage("after-file-fsync", "idle")
  /\ mem' = NextSnapshot(op)
  /\ Acknowledge(op, mem.revision + 1)
  /\ op' = NoOp
  /\ synced' = FALSE
  /\ UNCHANGED <<files, running, recovery, attempted>>

(* Memory publication and the receipt, in one turn of the event loop. *)
Publish ==
  /\ AtStage("after-directory-fsync", "idle")
  /\ mem' = NextSnapshot(op)
  /\ Acknowledge(op, mem.revision + 1)
  /\ op' = NoOp
  /\ synced' = FALSE
  /\ UNCHANGED <<files, running, recovery, attempted>>

(* A step of commit() throws: the temporary file is unlinked, what was     *)
(* renamed stays, memory keeps the old revision and the caller is told     *)
(* persistence-failed.                                                     *)
CommitFails ==
  /\ running
  /\ stage \in CommitStages
  /\ stage' = "idle"
  /\ op' = NoOp
  /\ synced' = FALSE
  /\ UNCHANGED <<files, running, recovery, mem, attempted, acked>>

(***************************************************************************)
(* load()                                                                  *)
(***************************************************************************)
EnterRecovery ==
  /\ recovery' = TRUE
  /\ stage' = "idle"
  /\ UNCHANGED <<op, synced, attempted, acked>>

LoadMarked ==
  /\ ~running
  /\ marker
  /\ running' = TRUE
  /\ mem' = EmptySnapshot
  /\ EnterRecovery
  /\ UNCHANGED files

(* The marker is written exclusively; a failure to write it is swallowed.  *)
MayMark == marker' \in {marker, TRUE} /\ UNCHANGED <<disk, durable, unsynced, readable>>

Damaged == disk = Torn \/ ~readable

(* Mutant: state that cannot be read becomes an empty state. *)
LoadDamagedAsEmpty ==
  /\ ~running
  /\ ~marker
  /\ Damaged
  /\ running' = TRUE
  /\ mem' = EmptySnapshot
  /\ UNCHANGED <<files, recovery, stage, op, synced, attempted, acked>>

LoadDamaged ==
  /\ ~running
  /\ ~marker
  /\ Damaged
  /\ running' = TRUE
  /\ mem' = EmptySnapshot
  /\ EnterRecovery
  /\ MayMark

Upgraded(snapshot) == [snapshot EXCEPT !.version = 4]

(* Mutant: the marker of an earlier quarantine is not looked at. *)
LoadPastMarker ==
  /\ ~running
  /\ ~Damaged
  /\ running' = TRUE
  /\ mem' = Upgraded(disk)
  /\ stage' = IF disk.version = 3 THEN "migrate" ELSE "idle"
  /\ UNCHANGED <<files, recovery, op, synced, attempted, acked>>

Load ==
  /\ ~running
  /\ ~marker
  /\ ~Damaged
  /\ running' = TRUE
  /\ mem' = Upgraded(disk)
  /\ stage' = IF disk.version = 3 THEN "migrate" ELSE "idle"
  /\ UNCHANGED <<files, recovery, op, synced, attempted, acked>>

(* persistSchemaMigration: its temporary file is written, fsynced and      *)
(* renamed; then the directory is fsynced.                                 *)
MigrateSyncTemp ==
  /\ running
  /\ stage = "migrate"
  /\ ~synced
  /\ synced' = TRUE
  /\ UNCHANGED <<files, running, recovery, mem, stage, op, attempted, acked>>

MigrateRename ==
  /\ synced
  /\ AtStage("migrate", "migrate-renamed")
  /\ RenameTo(mem)
  /\ UNCHANGED <<running, recovery, mem, op, synced, attempted, acked>>

MigrateSyncDirectory ==
  /\ AtStage("migrate-renamed", "idle")
  /\ DirectorySynced
  /\ synced' = FALSE
  /\ UNCHANGED <<running, recovery, mem, op, attempted, acked>>

(* A failed migration is caught by the handler for corrupt state. *)
MigrateFails ==
  /\ running
  /\ stage \in MigrateStages
  /\ recovery' = TRUE
  /\ stage' = "idle"
  /\ synced' = FALSE
  /\ MayMark
  /\ UNCHANGED <<running, mem, op, attempted, acked>>

(***************************************************************************)
(* The environment.                                                        *)
(***************************************************************************)
ProcessGone ==
  /\ running' = FALSE
  /\ recovery' = FALSE
  /\ mem' = EmptySnapshot
  /\ stage' = "idle"
  /\ op' = NoOp
  /\ synced' = FALSE
  /\ UNCHANGED <<attempted, acked>>

(* The process ends, at any point, and its machine goes on. *)
ProcessEnds ==
  /\ Restarts
  /\ running
  /\ ProcessGone
  /\ UNCHANGED files

(* What the path may name after a power cut. *)
Survivors == IF PowerCuts THEN unsynced \cup {durable} ELSE {disk}

PowerCut ==
  /\ PowerCuts
  /\ disk' \in Survivors
  /\ durable' = disk'
  /\ unsynced' = {}
  /\ ProcessGone
  /\ UNCHANGED <<readable, marker>>

(* Somebody changes the mode of state.json, or changes it back. *)
ChangeMode ==
  /\ readable' = ~readable
  /\ UNCHANGED <<disk, durable, unsynced, marker, process, attempted, acked>>

CommitStep ==
  \/ OpenTemp \/ WriteTemp \/ SyncTemp \/ Rename \/ SyncDirectory \/ Publish
  \/ CommitFails

LoadStep ==
  \/ LoadMarked \/ LoadDamaged \/ Load
  \/ MigrateSyncTemp \/ MigrateRename \/ MigrateSyncDirectory \/ MigrateFails

Next ==
  /\ \/ \E o \in Command : ReturnExisting(o)
     \/ \E o \in Op : Begin(o)
     \/ CommitStep
     \/ LoadStep
     \/ ProcessEnds \/ PowerCut \/ ChangeMode
  /\ UNCHANGED regime

Spec == Init /\ [][Next]_vars

(***************************************************************************)
(* Properties.                                                             *)
(***************************************************************************)
Holds(receipts, snapshot) ==
  /\ snapshot # Torn
  /\ \A o \in Command : receipts[o] # 0 => snapshot.receipts[o] = receipts[o]

(* A successful command response means the committed state is durable:     *)
(* whatever the next start finds in state.json holds every receipt a       *)
(* client ever got, at the same revision (commit, load).                   *)
AckedDurable == \A s \in Survivors \cup {disk} : Holds(acked, s)

(* Nothing is published that can still be lost: the snapshot a request was *)
(* compiled from is what the next start finds, or what it finds has every  *)
(* command of it and is of a later revision (commit's publication after    *)
(* the directory fsync).                                                   *)
PublishedDurable ==
  running /\ ~recovery =>
    \A s \in Survivors \cup {disk} :
      /\ Holds(mem.receipts, s)
      /\ mem.revision <= s.revision
      /\ s.revision = mem.revision => s.receipts = mem.receipts

(* A revision is the history of its operations: no two of them committed   *)
(* the same revision, although a failed commit leaves a snapshot behind    *)
(* whose revision number is used again.  A number has no receipt only when *)
(* it was dropped, and none is dropped before MaxBootstrapReceipts of the  *)
(* compiler's remain, a later one among them.                              *)
NoReceiptOf(s, n) == \A o \in Op : s.receipts[o] # n
IsHistory(s) ==
  /\ \A o \in Op : s.receipts[o] <= s.revision
  /\ \A o, r \in Op : s.receipts[o] # 0 /\ s.receipts[o] = s.receipts[r] => o = r
  /\ \A n \in 1 .. s.revision :
       NoReceiptOf(s, n) =>
         /\ Cardinality(Bootstraps(s.receipts)) >= MaxBootstrapReceipts
         /\ \E b \in Bootstrap : s.receipts[b] > n
RevisionsAreHistory ==
  /\ disk # Torn => IsHistory(disk)
  /\ IsHistory(mem)

(* A client that got a receipt gets the same one for ever: an operation is *)
(* not applied a second time after a lost answer, a failed commit or a     *)
(* restart (the existing receipt in commit).                               *)
ReceiptsAreFinal ==
  [][\A o \in Command : acked[o] # 0 => acked'[o] = acked[o]]_acked

(* State corruption never silently becomes an empty state: once a start    *)
(* left the marker, nothing is committed, published or acknowledged and    *)
(* the file stays as evidence, whatever happens to its permissions.        *)
QuarantineFreezes ==
  [][marker /\ ~PowerCut =>
       /\ marker' /\ disk' = disk /\ acked' = acked
       /\ (running' => recovery')]_vars

(* What a request can see of the log: the published snapshot, and the file *)
(* when none is.                                                           *)
Visible == IF running /\ ~recovery THEN mem ELSE disk

(* The store implements the operation log of the commands: one takes       *)
(* effect at most once, at its own revision, and one whose client got no   *)
(* receipt surfaces alone, when the file is read again, or never (commit,  *)
(* load).                                                                  *)
Log == INSTANCE OperationLog WITH
  Op <- Command,
  attempted <- attempted \cap Command,
  revision <- Visible.revision,
  applied <- [c \in Command |-> Visible.receipts[c]]
LogSpec == Log!Spec

(***************************************************************************)
(* The inductive invariant.                                                *)
(***************************************************************************)
SameLog(s, t) == s.revision = t.revision /\ s.receipts = t.receipts

(* The published snapshot, or one unacknowledged operation ahead of it. *)
MemOrOneAhead(s) ==
  /\ s # Torn
  /\ \/ SameLog(s, mem)
     \/ \E o \in attempted : mem.receipts[o] = 0 /\ SameLog(s, NextSnapshot(o))

FilesFollowMem ==
  running /\ ~recovery =>
    /\ \A s \in Survivors \cup {disk} : MemOrOneAhead(s)
    /\ Holds(acked, mem)

(* How far the current commit or migration has brought the files. *)
StageInv ==
  /\ stage # "idle" => running /\ ~recovery
  /\ ~running => ~recovery
  /\ stage \in CommitStages => op \in attempted /\ mem.receipts[op] = 0
  /\ stage \in {"after-file-fsync", "migrate-renamed"} => synced
  /\ stage \in {"after-rename", "after-directory-fsync"} => disk = NextSnapshot(op)
  /\ stage = "after-directory-fsync" => Survivors = {disk}
  /\ stage = "migrate-renamed" => disk = mem

(* A dead process left nothing in flight that a power cut could undo; a    *)
(* migration, finished or not, and a quarantine do not change the log.     *)
RestInv ==
  /\ ~running => Survivors = {disk}
  /\ stage \in MigrateStages =>
       \A s \in Survivors \cup {disk} : s # Torn /\ SameLog(s, mem)
  /\ recovery => \A s \in Survivors : s # Torn /\ SameLog(s, disk)

StoreInv ==
  /\ TypeOK
  /\ StageInv
  /\ RestInv
  /\ disk # Torn
  /\ AckedDurable
  /\ FilesFollowMem

=============================================================================
