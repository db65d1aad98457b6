------------------------ MODULE SnapshotStore_proofs ------------------------
(***************************************************************************)
(* Theorems about SnapshotStore, for every set of operations and every     *)
(* bound on the bootstrap receipts that are kept.                          *)
(***************************************************************************)
EXTENDS SnapshotStore, FiniteSetTheorems, WellFoundedInduction, TLAPS

(***************************************************************************)
(* Lemmas about snapshots.                                                 *)
(***************************************************************************)
(* The fields of the published snapshot have their types.                  *)
LEMMA MemTypes ==
  ASSUME mem \in Snapshot
  PROVE  mem # Torn /\ mem.revision \in Nat /\ mem.receipts \in [Op -> Nat]
BY TornAssumption DEF Snapshot

(* A power cut leaves a snapshot or a torn file.                           *)
LEMMA SurvivorsType == TypeOK => Survivors \subseteq Snapshot \cup {Torn}
BY DEF TypeOK, Survivors

(* What the next revision of the published snapshot looks like.            *)
LEMMA NextSnapshotFields ==
  ASSUME mem \in Snapshot, NEW o \in Op
  PROVE  /\ NextSnapshot(o) \in Snapshot
         /\ NextSnapshot(o) # Torn
         /\ NextSnapshot(o).version = 4
         /\ NextSnapshot(o).revision = mem.revision + 1
         /\ \A r \in Command : NextSnapshot(o).receipts[r] =
                           IF r = o THEN mem.revision + 1 ELSE mem.receipts[r]
         /\ \A r \in Op : NextSnapshot(o).receipts[r] \in
                           {0, IF r = o THEN mem.revision + 1 ELSE mem.receipts[r]}
<1> DEFINE added == [mem.receipts EXCEPT ![o] = mem.revision + 1]
<1>1. mem.revision \in Nat /\ mem.receipts \in [Op -> Nat]
  BY DEF Snapshot
<1>2. /\ added \in [Op -> Nat]
      /\ \A r \in Op : added[r] = IF r = o THEN mem.revision + 1 ELSE mem.receipts[r]
  BY <1>1
<1>3. NextReceipts(o) = IF o \in Bootstrap THEN Bounded(added) ELSE added
  BY DEF NextReceipts
<1> HIDE DEF added
<1>4. /\ Bounded(added) \in [Op -> Nat]
      /\ \A r \in Command : Bounded(added)[r] = added[r]
      /\ \A r \in Op : Bounded(added)[r] \in {0, added[r]}
  BY <1>2, StoreAssumption DEF Bounded, Op
<1>5. /\ NextReceipts(o) \in [Op -> Nat]
      /\ \A r \in Command : NextReceipts(o)[r] = added[r]
      /\ \A r \in Op : NextReceipts(o)[r] \in {0, added[r]}
  BY <1>2, <1>3, <1>4
<1>6. NextSnapshot(o) \in Snapshot
  BY <1>1, <1>5 DEF NextSnapshot, Snapshot
<1> QED
  BY <1>1, <1>2, <1>5, <1>6, TornAssumption DEF NextSnapshot, Op

(* Being at most one operation ahead survives while memory stands still.   *)
LEMMA AheadIsStable ==
  ASSUME mem' = mem, attempted \subseteq attempted'
  PROVE  \A s : MemOrOneAhead(s) => MemOrOneAhead(s)'
BY DEF MemOrOneAhead, SameLog, NextSnapshot, NextReceipts

(* The next revision is one attempted operation ahead of memory.           *)
LEMMA NextIsAhead ==
  ASSUME mem \in Snapshot, NEW o \in Op, o \in attempted, mem.receipts[o] = 0
  PROVE  MemOrOneAhead(NextSnapshot(o))
BY NextSnapshotFields DEF MemOrOneAhead, SameLog

(* A file at most one operation ahead of memory has the commands memory    *)
(* has, and is what memory is unless it is ahead.                          *)
LEMMA AheadHolds ==
  ASSUME mem \in Snapshot, attempted \subseteq Op, NEW s, MemOrOneAhead(s)
  PROVE  /\ s # Torn
         /\ mem.revision <= s.revision
         /\ s.revision = mem.revision => s.receipts = mem.receipts
         /\ \A o \in Command : mem.receipts[o] # 0 => s.receipts[o] = mem.receipts[o]
<1>1. mem.revision \in Nat /\ mem.receipts \in [Op -> Nat]
  BY DEF Snapshot
<1>2. CASE SameLog(s, mem)
  BY <1>1, <1>2 DEF MemOrOneAhead, SameLog
<1>3. ASSUME NEW o \in attempted, mem.receipts[o] = 0, SameLog(s, NextSnapshot(o))
      PROVE  /\ mem.revision <= s.revision
             /\ s.revision # mem.revision
             /\ \A r \in Command : mem.receipts[r] # 0 => s.receipts[r] = mem.receipts[r]
  BY <1>1, <1>3, NextSnapshotFields DEF SameLog
<1> QED
  BY <1>2, <1>3 DEF MemOrOneAhead

(* The snapshots load() makes are snapshots.                               *)
LEMMA EmptyType == EmptySnapshot \in Snapshot
BY DEF EmptySnapshot, Snapshot

(* The older schema's snapshots are snapshots.                             *)
LEMMA LegacyType == LegacySnapshots \subseteq Snapshot
<1> SUFFICES ASSUME NEW p \in Command
             PROVE  [version |-> 3, revision |-> 1,
                     receipts |-> [o \in Op |-> IF o = p THEN 1 ELSE 0]] \in Snapshot
  BY DEF LegacySnapshots
<1> QED
  BY DEF Snapshot

(* What is on disk at first, and its receipts, are of their types.         *)
LEMMA InitialType == Init => TypeOK /\ StageInv /\ disk # Torn
<1> SUFFICES ASSUME Init PROVE TypeOK /\ StageInv /\ disk # Torn
  OBVIOUS
<1>1. disk \in Snapshot /\ disk # Torn
  BY EmptyType, LegacyType, TornAssumption DEF Init
<1>2. acked \in [Command -> Nat]
  BY <1>1 DEF Init, Snapshot, Op
<1> QED
  BY <1>1, <1>2, EmptyType, StoreAssumption
  DEF Init, TypeOK, StageInv, CommitStages, MigrateStages

(* A migrated snapshot is the same log.                                    *)
LEMMA UpgradedType ==
  ASSUME NEW s \in Snapshot
  PROVE  Upgraded(s) \in Snapshot /\ SameLog(s, Upgraded(s))
BY DEF Upgraded, Snapshot, SameLog

(***************************************************************************)
(* Types and stages: no assumption about the environment.                  *)
(***************************************************************************)
(* Every step of commit() and load() keeps the types.                      *)
LEMMA TypeStep ==
  TypeOK /\ StageInv /\ [Next]_vars => TypeOK'
<1> SUFFICES ASSUME TypeOK /\ StageInv, [Next]_vars PROVE TypeOK'
  OBVIOUS
<1>0. regime' = regime
  BY DEF Next, vars
<1> USE <1>0, StoreAssumption, TornAssumption
    DEF TypeOK, CommitStages, MigrateStages, files, process, StageInv
<1>1. ASSUME NEW o \in Command, ReturnExisting(o) PROVE TypeOK'
  BY <1>1, MemTypes DEF ReturnExisting, Ready, Acknowledge, Op
<1>2. ASSUME NEW o \in Op, Begin(o) PROVE TypeOK'
  BY <1>2 DEF Begin, Ready
<1>3. CASE OpenTemp
  BY <1>3 DEF OpenTemp, AtStage
<1>4. CASE WriteTemp
  BY <1>4 DEF WriteTemp, AtStage
<1>5. CASE SyncTemp
  BY <1>5 DEF SyncTemp, AtStage
<1>6. CASE Rename
  BY <1>6, NextSnapshotFields DEF Rename, AtStage, RenameTo
<1>7. CASE SyncDirectory
  BY <1>7 DEF SyncDirectory, AtStage, DirectorySynced
<1>8. CASE Publish
  <2>1. op \in Op /\ mem' = NextSnapshot(op)
    BY <1>8 DEF Publish, AtStage
  <2>2. mem' \in Snapshot
    BY <2>1, NextSnapshotFields
  <2>3. acked' = IF op \in Command THEN [acked EXCEPT ![op] = mem.revision + 1]
                ELSE acked
    BY <1>8 DEF Publish, Acknowledge
  <2>4. mem.revision + 1 \in Nat
    BY MemTypes
  <2>5. acked' \in [Command -> Nat]
    BY <2>3, <2>4
  <2> QED
    BY <1>8, <2>2, <2>5 DEF Publish, AtStage
<1>9. CASE CommitFails
  BY <1>9 DEF CommitFails
<1>10. CASE LoadMarked
  BY <1>10, EmptyType DEF LoadMarked, EnterRecovery
<1>11. CASE LoadDamaged
  BY <1>11, EmptyType DEF LoadDamaged, EnterRecovery, MayMark
<1>12. CASE Load
  BY <1>12, UpgradedType DEF Load, Damaged, Upgraded
<1>13. CASE MigrateSyncTemp
  BY <1>13 DEF MigrateSyncTemp
<1>14. CASE MigrateRename
  BY <1>14 DEF MigrateRename, AtStage, RenameTo
<1>15. CASE MigrateSyncDirectory
  BY <1>15 DEF MigrateSyncDirectory, AtStage, DirectorySynced
<1>16. CASE MigrateFails
  BY <1>16 DEF MigrateFails, MayMark
<1>17. CASE ProcessEnds
  BY <1>17, EmptyType DEF ProcessEnds, ProcessGone
<1>18. CASE PowerCut
  BY <1>18, EmptyType, SurvivorsType DEF PowerCut, ProcessGone
<1>19. CASE ChangeMode
  BY <1>19 DEF ChangeMode
<1>20. CASE UNCHANGED vars
  BY <1>20 DEF vars
<1> QED
  BY <1>1, <1>2, <1>3, <1>4, <1>5, <1>6, <1>7, <1>8, <1>9, <1>10,
     <1>11, <1>12, <1>13, <1>14, <1>15, <1>16, <1>17, <1>18, <1>19, <1>20
  DEF Next, CommitStep, LoadStep

(* The files are where the stage says.                                     *)
LEMMA StageStep ==
  TypeOK /\ StageInv /\ [Next]_vars => StageInv'
<1> SUFFICES ASSUME TypeOK /\ StageInv, [Next]_vars PROVE StageInv'
  OBVIOUS
<1>0. regime' = regime
  BY DEF Next, vars
<1> USE <1>0, StoreAssumption, TornAssumption
    DEF TypeOK, CommitStages, MigrateStages, files, process, StageInv, Survivors,
        PowerCuts, NextSnapshot, NextReceipts
<1>1. ASSUME NEW o \in Command, ReturnExisting(o) PROVE StageInv'
  BY <1>1 DEF ReturnExisting, Ready, Acknowledge
<1>2. ASSUME NEW o \in Op, Begin(o) PROVE StageInv'
  BY <1>2 DEF Begin, Ready
<1>3. CASE OpenTemp
  BY <1>3 DEF OpenTemp, AtStage
<1>4. CASE WriteTemp
  BY <1>4 DEF WriteTemp, AtStage
<1>5. CASE SyncTemp
  BY <1>5 DEF SyncTemp, AtStage
<1>6. CASE Rename
  BY <1>6 DEF Rename, AtStage, RenameTo
<1>7. CASE SyncDirectory
  BY <1>7 DEF SyncDirectory, AtStage, DirectorySynced
<1>8. CASE Publish
  BY <1>8 DEF Publish, AtStage, Acknowledge
<1>9. CASE CommitFails
  BY <1>9 DEF CommitFails
<1>10. CASE LoadMarked
  BY <1>10 DEF LoadMarked, EnterRecovery
<1>11. CASE LoadDamaged
  BY <1>11 DEF LoadDamaged, EnterRecovery, MayMark
<1>12. CASE Load
  BY <1>12 DEF Load, Damaged, Upgraded
<1>13. CASE MigrateSyncTemp
  BY <1>13 DEF MigrateSyncTemp
<1>14. CASE MigrateRename
  BY <1>14 DEF MigrateRename, AtStage, RenameTo
<1>15. CASE MigrateSyncDirectory
  BY <1>15 DEF MigrateSyncDirectory, AtStage, DirectorySynced
<1>16. CASE MigrateFails
  BY <1>16 DEF MigrateFails, MayMark
<1>17. CASE ProcessEnds
  BY <1>17 DEF ProcessEnds, ProcessGone
<1>18. CASE PowerCut
  BY <1>18 DEF PowerCut, ProcessGone
<1>19. CASE ChangeMode
  BY <1>19 DEF ChangeMode
<1>20. CASE UNCHANGED vars
  BY <1>20 DEF vars
<1> QED
  BY <1>1, <1>2, <1>3, <1>4, <1>5, <1>6, <1>7, <1>8, <1>9, <1>10,
     <1>11, <1>12, <1>13, <1>14, <1>15, <1>16, <1>17, <1>18, <1>19, <1>20
  DEF Next, CommitStep, LoadStep

(* A process leaves nothing in flight behind that a power cut could undo.  *)
LEMMA RestStep ==
  StoreInv /\ [Next]_vars => RestInv'
<1> SUFFICES ASSUME StoreInv, [Next]_vars PROVE RestInv'
  OBVIOUS
<1>0. regime' = regime
  BY DEF Next, vars
<1> USE <1>0, StoreAssumption, TornAssumption
    DEF TypeOK, CommitStages, MigrateStages, files, process,
        StoreInv, StageInv, RestInv, Survivors, SameLog,
        Restarts, PowerCuts
<1>1. ASSUME NEW o \in Command, ReturnExisting(o) PROVE RestInv'
  BY <1>1 DEF ReturnExisting, Ready, Acknowledge
<1>2. ASSUME NEW o \in Op, Begin(o) PROVE RestInv'
  BY <1>2 DEF Begin, Ready
<1>3. CASE OpenTemp
  BY <1>3 DEF OpenTemp, AtStage
<1>4. CASE WriteTemp
  BY <1>4 DEF WriteTemp, AtStage
<1>5. CASE SyncTemp
  BY <1>5 DEF SyncTemp, AtStage
<1>6. CASE Rename
  BY <1>6 DEF Rename, AtStage, RenameTo
<1>7. CASE SyncDirectory
  BY <1>7 DEF SyncDirectory, AtStage, DirectorySynced
<1>8. CASE Publish
  BY <1>8 DEF Publish, AtStage, Acknowledge
<1>9. CASE CommitFails
  BY <1>9 DEF CommitFails
<1>10. CASE LoadMarked
  BY <1>10 DEF LoadMarked, EnterRecovery
<1>11. CASE LoadDamaged
  BY <1>11 DEF LoadDamaged, EnterRecovery, MayMark
<1>12. CASE Load
  BY <1>12 DEF Load, Damaged, Upgraded
<1>13. CASE MigrateSyncTemp
  BY <1>13 DEF MigrateSyncTemp
<1>14. CASE MigrateRename
  BY <1>14 DEF MigrateRename, AtStage, RenameTo
<1>15. CASE MigrateSyncDirectory
  BY <1>15 DEF MigrateSyncDirectory, AtStage, DirectorySynced
<1>16. CASE MigrateFails
  BY <1>16 DEF MigrateFails, MayMark
<1>17. CASE ProcessEnds
  BY <1>17 DEF ProcessEnds, ProcessGone
<1>18. CASE PowerCut
  BY <1>18 DEF PowerCut, ProcessGone
<1>19. CASE ChangeMode
  BY <1>19 DEF ChangeMode
<1>20. CASE UNCHANGED vars
  BY <1>20 DEF vars
<1> QED
  BY <1>1, <1>2, <1>3, <1>4, <1>5, <1>6, <1>7, <1>8, <1>9, <1>10,
     <1>11, <1>12, <1>13, <1>14, <1>15, <1>16, <1>17, <1>18, <1>19, <1>20
  DEF Next, CommitStep, LoadStep

(* What the next start finds is memory or one operation ahead of it.       *)
LEMMA FilesStep ==
  StoreInv /\ [Next]_vars => FilesFollowMem'
<1> SUFFICES ASSUME StoreInv, [Next]_vars PROVE FilesFollowMem'
  OBVIOUS
<1>0. regime' = regime
  BY DEF Next, vars
<1> USE <1>0, StoreAssumption, TornAssumption, AheadIsStable
    DEF TypeOK, CommitStages, MigrateStages, files, process,
        StoreInv, StageInv, RestInv, FilesFollowMem,
        Survivors, Holds, Restarts, PowerCuts
<1>1. ASSUME NEW o \in Command, ReturnExisting(o) PROVE FilesFollowMem'
  BY <1>1 DEF ReturnExisting, Ready, Acknowledge
<1>2. ASSUME NEW o \in Op, Begin(o) PROVE FilesFollowMem'
  BY <1>2 DEF Begin, Ready
<1>3. CASE OpenTemp
  BY <1>3 DEF OpenTemp, AtStage
<1>4. CASE WriteTemp
  BY <1>4 DEF WriteTemp, AtStage
<1>5. CASE SyncTemp
  BY <1>5 DEF SyncTemp, AtStage
<1>6. CASE Rename
  BY <1>6, NextIsAhead DEF Rename, AtStage, RenameTo
<1>7. CASE SyncDirectory
  BY <1>7 DEF SyncDirectory, AtStage, DirectorySynced
<1>8. CASE Publish
  <2>1. op \in Op /\ mem' = NextSnapshot(op)
    BY <1>8 DEF Publish, AtStage
  <2>2. Survivors' = {mem'} /\ disk' = mem'
    BY <1>8 DEF Publish, AtStage
  <2>3. mem' # Torn /\ MemOrOneAhead(disk)'
    BY <2>1, <2>2, NextSnapshotFields DEF MemOrOneAhead, SameLog
  <2>4. Holds(acked, mem)
    BY <1>8 DEF Publish, AtStage
  <2>5. acked' = IF op \in Command THEN [acked EXCEPT ![op] = mem.revision + 1]
                ELSE acked
    BY <1>8 DEF Publish, Acknowledge
  <2>6. Holds(acked', mem')
    BY <2>1, <2>3, <2>4, <2>5, NextSnapshotFields
  <2> QED
    BY <2>2, <2>3, <2>6
<1>9. CASE CommitFails
  BY <1>9 DEF CommitFails
<1>10. CASE LoadMarked
  BY <1>10 DEF LoadMarked, EnterRecovery
<1>11. CASE LoadDamaged
  BY <1>11 DEF LoadDamaged, EnterRecovery, MayMark
<1>12. CASE Load
  <2>1. disk \in Snapshot /\ mem' = Upgraded(disk)
    BY <1>12 DEF Load, Damaged
  <2>2. Survivors' = {disk} /\ disk' = disk /\ acked' = acked
    BY <1>12 DEF Load
  <2>3. SameLog(disk, Upgraded(disk)) /\ Upgraded(disk) # Torn
    BY <2>1, UpgradedType
  <2>4. MemOrOneAhead(disk)'
    BY <2>1, <2>2, <2>3 DEF MemOrOneAhead, SameLog
  <2>5. Holds(acked, disk)
    BY DEF AckedDurable
  <2>6. Holds(acked', mem')
    BY <2>1, <2>2, <2>3, <2>5 DEF SameLog
  <2> QED
    BY <2>2, <2>4, <2>6
<1>13. CASE MigrateSyncTemp
  BY <1>13 DEF MigrateSyncTemp
<1>14. CASE MigrateRename
  <2>1. MemOrOneAhead(mem)
    BY MemTypes DEF MemOrOneAhead, SameLog
  <2> QED
    BY <1>14, <2>1 DEF MigrateRename, AtStage, RenameTo
<1>15. CASE MigrateSyncDirectory
  BY <1>15 DEF MigrateSyncDirectory, AtStage, DirectorySynced
<1>16. CASE MigrateFails
  BY <1>16 DEF MigrateFails, MayMark
<1>17. CASE ProcessEnds
  BY <1>17 DEF ProcessEnds, ProcessGone
<1>18. CASE PowerCut
  BY <1>18 DEF PowerCut, ProcessGone
<1>19. CASE ChangeMode
  BY <1>19 DEF ChangeMode
<1>20. CASE UNCHANGED vars
  BY <1>20 DEF vars
<1> QED
  BY <1>1, <1>2, <1>3, <1>4, <1>5, <1>6, <1>7, <1>8, <1>9, <1>10,
     <1>11, <1>12, <1>13, <1>14, <1>15, <1>16, <1>17, <1>18, <1>19, <1>20
  DEF Next, CommitStep, LoadStep

(* No receipt is lost.                                                     *)
LEMMA AckedStep ==
  StoreInv /\ [Next]_vars => AckedDurable'
<1> SUFFICES ASSUME StoreInv, [Next]_vars PROVE AckedDurable'
  OBVIOUS
<1>0. regime' = regime
  BY DEF Next, vars
<1> USE <1>0, StoreAssumption, TornAssumption, AheadHolds
    DEF TypeOK, CommitStages, MigrateStages, files, process,
        StoreInv, StageInv, RestInv, FilesFollowMem,
        Survivors, Holds, AckedDurable, Restarts, PowerCuts
<1>1. ASSUME NEW o \in Command, ReturnExisting(o) PROVE AckedDurable'
  BY <1>1 DEF ReturnExisting, Ready, Acknowledge
<1>2. ASSUME NEW o \in Op, Begin(o) PROVE AckedDurable'
  BY <1>2 DEF Begin, Ready
<1>3. CASE OpenTemp
  BY <1>3 DEF OpenTemp, AtStage
<1>4. CASE WriteTemp
  BY <1>4 DEF WriteTemp, AtStage
<1>5. CASE SyncTemp
  BY <1>5 DEF SyncTemp, AtStage
<1>6. CASE Rename
  BY <1>6, NextSnapshotFields DEF Rename, AtStage, RenameTo
<1>7. CASE SyncDirectory
  BY <1>7 DEF SyncDirectory, AtStage, DirectorySynced
<1>8. CASE Publish
  BY <1>8, NextSnapshotFields DEF Publish, AtStage, Acknowledge
<1>9. CASE CommitFails
  BY <1>9 DEF CommitFails
<1>10. CASE LoadMarked
  BY <1>10 DEF LoadMarked, EnterRecovery
<1>11. CASE LoadDamaged
  BY <1>11 DEF LoadDamaged, EnterRecovery, MayMark
<1>12. CASE Load
  BY <1>12 DEF Load, Damaged, Upgraded
<1>13. CASE MigrateSyncTemp
  BY <1>13 DEF MigrateSyncTemp
<1>14. CASE MigrateRename
  BY <1>14 DEF MigrateRename, AtStage, RenameTo
<1>15. CASE MigrateSyncDirectory
  BY <1>15 DEF MigrateSyncDirectory, AtStage, DirectorySynced
<1>16. CASE MigrateFails
  BY <1>16 DEF MigrateFails, MayMark
<1>17. CASE ProcessEnds
  BY <1>17 DEF ProcessEnds, ProcessGone
<1>18. CASE PowerCut
  BY <1>18 DEF PowerCut, ProcessGone
<1>19. CASE ChangeMode
  BY <1>19 DEF ChangeMode
<1>20. CASE UNCHANGED vars
  BY <1>20 DEF vars
<1> QED
  BY <1>1, <1>2, <1>3, <1>4, <1>5, <1>6, <1>7, <1>8, <1>9, <1>10,
     <1>11, <1>12, <1>13, <1>14, <1>15, <1>16, <1>17, <1>18, <1>19, <1>20
  DEF Next, CommitStep, LoadStep

(***************************************************************************)
(* The theorems.                                                           *)
(***************************************************************************)
(* AtomicStateSnapshotStore keeps its state and its files of their types   *)
(* under every crash, power cut and I/O error                              *)
(* (store/state-snapshot-store.ts).                                        *)
THEOREM TypeCorrect == Spec => []TypeOK
<1>1. Init => TypeOK /\ StageInv
  BY InitialType
<1>2. TypeOK /\ StageInv /\ [Next]_vars => (TypeOK /\ StageInv)'
  BY TypeStep, StageStep
<1> QED
  BY <1>1, <1>2, PTL DEF Spec

(* The invariant that ties the files to the published snapshot.  Either    *)
(* processes end while their machine stays up, which is the durability bar *)
(* the store is built for, or the machine loses power; with both a process *)
(* could acknowledge what it read from a rename that nobody synced.        *)
THEOREM StoreInvariant ==
  Spec => []StoreInv
<1>1. Init => StoreInv
  <2> SUFFICES ASSUME Init PROVE StoreInv
    OBVIOUS
  <2>1. TypeOK /\ StageInv /\ disk # Torn
    BY InitialType
  <2>2. Survivors = {disk}
    BY DEF Init, Survivors
  <2>3. RestInv
    BY <2>2 DEF Init, RestInv, MigrateStages
  <2>4. AckedDurable
    BY <2>1, <2>2 DEF Init, AckedDurable, Holds
  <2> QED
    BY <2>1, <2>3, <2>4 DEF Init, StoreInv, FilesFollowMem
<1>2. StoreInv /\ [Next]_vars => StoreInv'
  <2> SUFFICES ASSUME StoreInv, [Next]_vars PROVE StoreInv'
    OBVIOUS
  <2>1. TypeOK' /\ StageInv' /\ RestInv'
    BY TypeStep, StageStep, RestStep DEF StoreInv
  <2>2. FilesFollowMem' /\ AckedDurable'
    BY FilesStep, AckedStep
  <2>3. (disk # Torn)'
    BY <2>2 DEF AckedDurable, Holds
  <2> QED
    BY <2>1, <2>2, <2>3 DEF StoreInv
<1> QED
  BY <1>1, <1>2, PTL DEF Spec

(* A successful command response means the committed state is durable: no  *)
(* crash, I/O error, failed commit or migration loses a receipt a client   *)
(* got (commit, load).                                                     *)
THEOREM AckedDurableHolds ==
  Spec => []AckedDurable
<1>1. StoreInv => AckedDurable
  BY DEF StoreInv
<1> QED
  BY <1>1, StoreInvariant, PTL

(* No request is ever compiled from a snapshot that can still be lost      *)
(* (the publication at the end of commit).                                 *)
THEOREM PublishedDurableHolds ==
  Spec => []PublishedDurable
<1>1. StoreInv => PublishedDurable
  BY AheadHolds
  DEF StoreInv, TypeOK, PublishedDurable, FilesFollowMem, Holds
<1> QED
  BY <1>1, StoreInvariant, PTL

(* A client that got a receipt gets the same one for ever (the existing    *)
(* receipt in commit).                                                     *)
THEOREM ReceiptsAreFinalHolds ==
  Spec => ReceiptsAreFinal
<1>1. StoreInv /\ [Next]_vars =>
        [\A o \in Command : acked[o] # 0 => acked'[o] = acked[o]]_acked
  <2> SUFFICES ASSUME StoreInv, Next
      PROVE  [\A o \in Command : acked[o] # 0 => acked'[o] = acked[o]]_acked
    BY DEF vars
  <2> USE DEF StoreInv, TypeOK, StageInv, FilesFollowMem, Holds, Acknowledge
  <2>1. ASSUME NEW o \in Command, ReturnExisting(o)
        PROVE  \A r \in Command : acked[r] # 0 => acked'[r] = acked[r]
    BY <2>1 DEF ReturnExisting, Ready
  <2>2. CASE Publish
    BY <2>2 DEF Publish, AtStage, CommitStages
  <2>3. Next => \/ \E o \in Command : ReturnExisting(o)
                \/ Publish
                \/ acked' = acked
    BY DEF Next, Begin, CommitStep, OpenTemp, WriteTemp, SyncTemp, Rename,
           SyncDirectory, CommitFails, LoadStep, LoadMarked, LoadDamaged,
           Load, EnterRecovery, MigrateSyncTemp, MigrateRename,
           MigrateSyncDirectory, MigrateFails, ProcessEnds, PowerCut,
           ProcessGone, ChangeMode
  <2> QED
    BY <2>1, <2>2, <2>3
<1> QED
  BY <1>1, StoreInvariant, PTL DEF Spec, ReceiptsAreFinal

(***************************************************************************)
(* Revisions and quarantine.                                               *)
(***************************************************************************)
(* Whatever a start could find is the history of its operations.           *)
HistoryInv ==
  /\ IsHistory(mem)
  /\ \A s \in Survivors \cup {disk} : s # Torn => IsHistory(s)

(* When boundedReceipts drops receipts, enough of them remain: the last    *)
(* one it keeps was kept because too few were.                             *)
LEMMA KeptEnough ==
  ASSUME NEW receipts \in [Op -> Nat], NEW n \in Nat,
         \A o \in Op : receipts[o] <= n
  PROVE  /\ Kept(receipts) \subseteq Bootstraps(receipts)
         /\ \A b \in Bootstraps(receipts) :
              Newer(receipts, b) = {} => b \in Kept(receipts)
         /\ \/ Kept(receipts) = Bootstraps(receipts)
            \/ Cardinality(Kept(receipts)) >= MaxBootstrapReceipts
<1> DEFINE dropped == Bootstraps(receipts) \ Kept(receipts)
           ages == {n - receipts[b] : b \in dropped}
<1>1. /\ Kept(receipts) \subseteq Bootstraps(receipts)
      /\ Bootstraps(receipts) \subseteq Bootstrap
      /\ NewestOfBranches(receipts) \subseteq Kept(receipts)
  BY DEF Kept, Bootstraps, NewestOfBranches
<1>2. \A b \in Bootstraps(receipts) : Newer(receipts, b) = {} => b \in Kept(receipts)
  BY DEF Kept, NewestOfBranches
<1>3. ASSUME dropped # {}
      PROVE  Cardinality(Kept(receipts)) >= MaxBootstrapReceipts
  <2>1. ages \subseteq Nat /\ ages # {}
    BY <1>1, <1>3 DEF Op
  <2>2. PICK age \in ages : \A a \in ages : ~ (<<a, age>> \in OpToRel(<, Nat))
    <3> HIDE DEF ages
    <3> QED
      BY <2>1, WFMin, NatLessThanWellFounded
  <2>3. \A a \in ages : ~ (a < age)
    BY <2>1, <2>2 DEF OpToRel
  <2>4. PICK b \in dropped : age = n - receipts[b]
    BY <2>2
  <2>5. \A c \in dropped : receipts[c] <= receipts[b]
    <3> TAKE c \in dropped
    <3>1. ~ (n - receipts[c] < n - receipts[b])
      BY <2>3, <2>4
    <3>2. receipts[c] \in Nat /\ receipts[b] \in Nat
      BY <1>1 DEF Op
    <3> QED
      BY <3>1, <3>2
  <2> DEFINE reached == NewestOfBranches(receipts) \cup Newer(receipts, b)
  <2>6. Newer(receipts, b) \subseteq Kept(receipts)
    <3> SUFFICES ASSUME NEW c \in Newer(receipts, b), c \notin Kept(receipts) PROVE FALSE
      OBVIOUS
    <3>1. c \in dropped /\ receipts[c] > receipts[b]
      BY DEF Newer
    <3>2. receipts[c] \in Nat /\ receipts[b] \in Nat
      BY <1>1, <3>1 DEF Op
    <3> QED
      BY <2>5, <3>1, <3>2
  <2>7. /\ IsFiniteSet(Kept(receipts))
        /\ Cardinality(reached) <= Cardinality(Kept(receipts))
        /\ Cardinality(reached) \in Nat /\ Cardinality(Kept(receipts)) \in Nat
    <3>1. IsFiniteSet(Kept(receipts))
      BY <1>1, StoreAssumption, FS_Subset
    <3>2. reached \in SUBSET Kept(receipts)
      BY <1>1, <2>6
    <3> HIDE DEF reached
    <3> QED
      BY <3>1, <3>2, FS_Subset, FS_CardinalityType
  <2>8. ~ (Cardinality(reached) < MaxBootstrapReceipts)
    BY <2>4 DEF Kept
  <2> QED
    BY <2>7, <2>8, StoreAssumption
<1> QED
  BY <1>1, <1>2, <1>3

(* The next revision adds one operation at its own number, and what it     *)
(* drops leaves enough bootstrap receipts, its own among them.             *)
LEMMA NextIsHistory ==
  ASSUME mem \in Snapshot, IsHistory(mem), NEW o \in Op, mem.receipts[o] = 0
  PROVE  IsHistory(NextSnapshot(o))
<1> DEFINE next == NextSnapshot(o)
           added == [mem.receipts EXCEPT ![o] = mem.revision + 1]
<1>1. /\ mem.revision \in Nat /\ mem.receipts \in [Op -> Nat]
      /\ next.revision = mem.revision + 1
      /\ next.receipts \in [Op -> Nat]
      /\ \A r \in Op : next.receipts[r] \in
           {0, IF r = o THEN mem.revision + 1 ELSE mem.receipts[r]}
  BY NextSnapshotFields DEF Snapshot
<1>2. /\ added \in [Op -> Nat]
      /\ \A r \in Op : added[r] = IF r = o THEN mem.revision + 1 ELSE mem.receipts[r]
  BY <1>1
<1>3. next.receipts = IF o \in Bootstrap THEN Bounded(added) ELSE added
  BY DEF NextSnapshot, NextReceipts
<1> HIDE DEF next, added
<1>4. \A r \in Op : mem.receipts[r] \in Nat /\ mem.receipts[r] <= mem.revision
  BY <1>1 DEF IsHistory
<1>5. \A r \in Op : next.receipts[r] <= next.revision /\ added[r] <= next.revision
  <2> TAKE r \in Op
  <2>1. mem.receipts[r] <= mem.revision + 1 /\ 0 <= mem.revision + 1
        /\ mem.revision + 1 <= mem.revision + 1
    BY <1>1, <1>4
  <2> QED
    BY <1>1, <1>2, <2>1
<1>6. \A r, q \in Op :
        next.receipts[r] # 0 /\ next.receipts[r] = next.receipts[q] => r = q
  <2> TAKE r, q \in Op
  <2>1. mem.receipts[r] # mem.revision + 1 /\ mem.receipts[q] # mem.revision + 1
    BY <1>1, <1>4
  <2> QED
    BY <1>1, <2>1 DEF IsHistory
<1>7. ASSUME NEW n \in 1 .. next.revision, NoReceiptOf(next, n)
      PROVE  /\ Cardinality(Bootstraps(next.receipts)) >= MaxBootstrapReceipts
             /\ \E b \in Bootstrap : next.receipts[b] > n
  <2>1. CASE o \in Command
    <3>1. next.receipts = added
      BY <1>3, <2>1, StoreAssumption
    <3>2. n # mem.revision + 1 /\ NoReceiptOf(mem, n)
      <4>1. next.receipts[o] # n /\ next.receipts[o] = mem.revision + 1
        BY <1>2, <1>7, <3>1 DEF NoReceiptOf
      <4>2. ASSUME NEW r \in Op PROVE mem.receipts[r] # n
        BY <1>1, <1>2, <1>7, <3>1 DEF NoReceiptOf
      <4> QED
        BY <4>1, <4>2 DEF NoReceiptOf
    <3>3. n \in 1 .. mem.revision
      BY <1>1, <3>2
    <3>4. \A b \in Bootstrap : next.receipts[b] = mem.receipts[b]
      BY <1>2, <2>1, <3>1, StoreAssumption DEF Op
    <3>5. Bootstraps(next.receipts) = Bootstraps(mem.receipts)
      BY <3>4 DEF Bootstraps
    <3> QED
      BY <3>2, <3>3, <3>4, <3>5 DEF IsHistory
  <2>2. CASE o \in Bootstrap
    <3>1. next.receipts = Bounded(added)
      BY <1>3, <2>2
    <3>2. /\ Kept(added) \subseteq Bootstraps(added)
          /\ o \in Kept(added)
          /\ \/ Kept(added) = Bootstraps(added)
             \/ Cardinality(Kept(added)) >= MaxBootstrapReceipts
      <4>1. o \in Bootstraps(added)
        BY <1>1, <1>2, <2>2 DEF Bootstraps
      <4>2. Newer(added, o) = {}
        <5> SUFFICES ASSUME NEW c \in Bootstrap, added[c] > added[o] PROVE FALSE
          BY DEF Newer, Bootstraps
        <5> QED
          BY <1>1, <1>2, <1>5 DEF Op
      <4> QED
        BY <1>1, <1>2, <1>5, <4>1, <4>2, KeptEnough
    <3>3. /\ Bootstraps(next.receipts) = Kept(added)
          /\ next.receipts[o] = mem.revision + 1
          /\ \A b \in Bootstrap :
               b \in Kept(added) => next.receipts[b] = added[b]
      BY <1>2, <2>2, <3>1, <3>2 DEF Bounded, Bootstraps, Op
    <3>4. n < mem.revision + 1
      BY <1>1, <1>7, <3>3 DEF NoReceiptOf
    <3>5. CASE Cardinality(Kept(added)) >= MaxBootstrapReceipts
      BY <2>2, <3>3, <3>4, <3>5, <1>1
    <3>6. CASE Kept(added) = Bootstraps(added)
      <4>1. \A r \in Op : next.receipts[r] = added[r]
        BY <1>2, <3>1, <3>6 DEF Bounded, Bootstraps, Op
      <4>2. NoReceiptOf(mem, n)
        BY <1>1, <1>2, <1>7, <4>1 DEF NoReceiptOf
      <4>3. n \in 1 .. mem.revision
        BY <1>1, <3>4
      <4>4. Cardinality(Bootstraps(mem.receipts)) >= MaxBootstrapReceipts
        BY <4>2, <4>3 DEF IsHistory
      <4>5. /\ Bootstraps(mem.receipts) \in SUBSET Kept(added)
            /\ Kept(added) \subseteq Bootstrap
        BY <1>2, <3>6 DEF Bootstraps, Op
      <4>6. Cardinality(Kept(added)) >= MaxBootstrapReceipts
        <5>1. IsFiniteSet(Kept(added)) /\ IsFiniteSet(Bootstraps(mem.receipts))
          BY <4>5, StoreAssumption, FS_Subset
        <5>2. /\ Cardinality(Kept(added)) \in Nat
              /\ Cardinality(Bootstraps(mem.receipts)) \in Nat
              /\ Cardinality(Bootstraps(mem.receipts)) <= Cardinality(Kept(added))
          BY <4>5, <5>1, FS_Subset, FS_CardinalityType
        <5> QED
          BY <4>4, <5>2, StoreAssumption
      <4> QED
        BY <3>5, <4>6
    <3> QED
      BY <3>2, <3>5, <3>6
  <2> QED
    BY <2>1, <2>2 DEF Op
<1> QED
  BY <1>5, <1>6, <1>7 DEF IsHistory, next

(* The log is all that counts: a migration keeps a history a history. *)
LEMMA SameLogSameHistory ==
  ASSUME NEW s, NEW t, SameLog(s, t), IsHistory(s) PROVE IsHistory(t)
BY DEF SameLog, IsHistory, NoReceiptOf

LEMMA EmptyIsHistory == IsHistory(EmptySnapshot)
BY DEF IsHistory, EmptySnapshot

(* An older schema's state is one operation at revision 1. *)
LEMMA LegacyIsHistory == \A s \in LegacySnapshots : IsHistory(s)
<1> SUFFICES ASSUME NEW p \in Command, NEW s,
                    s = [version |-> 3, revision |-> 1,
                         receipts |-> [o \in Op |-> IF o = p THEN 1 ELSE 0]]
             PROVE  IsHistory(s)
  BY DEF LegacySnapshots
<1>1. s.revision = 1 /\ \A o \in Op : s.receipts[o] = IF o = p THEN 1 ELSE 0
  OBVIOUS
<1>2. p \in Op
  BY DEF Op
<1>3. \A n \in 1 .. s.revision : ~NoReceiptOf(s, n)
  BY <1>1, <1>2 DEF NoReceiptOf
<1> QED
  BY <1>1, <1>3 DEF IsHistory

LEMMA HistoryStep ==
  ASSUME StoreInv, HistoryInv, [Next]_vars PROVE HistoryInv'
<1>0. /\ regime' = regime
      /\ mem \in Snapshot
      /\ \A s, t : s = t => (IsHistory(s) <=> IsHistory(t))
  BY DEF Next, vars, StoreInv, TypeOK
<1> USE <1>0 DEF HistoryInv, Survivors, PowerCuts, files, process
<1>1. CASE mem' = mem /\ disk' = disk /\ durable' = durable /\ unsynced' = unsynced
  BY <1>1
<1>2. CASE Rename
  <2>1. op \in Op /\ mem.receipts[op] = 0
    BY <1>2 DEF StoreInv, StageInv, TypeOK, Rename, AtStage, CommitStages
  <2>2. IsHistory(NextSnapshot(op))
    BY <2>1, NextIsHistory
  <2> QED
    BY <1>2, <2>2 DEF Rename, RenameTo
<1>3. CASE SyncDirectory \/ MigrateSyncDirectory
  BY <1>3 DEF SyncDirectory, MigrateSyncDirectory, DirectorySynced
<1>4. CASE Publish
  <2>1. op \in Op /\ mem.receipts[op] = 0
    BY <1>4 DEF StoreInv, StageInv, TypeOK, Publish, AtStage, CommitStages
  <2>2. IsHistory(NextSnapshot(op))
    BY <2>1, NextIsHistory
  <2> QED
    BY <1>4, <2>2 DEF Publish
<1>5. CASE LoadMarked \/ LoadDamaged
  BY <1>5, EmptyIsHistory DEF LoadMarked, LoadDamaged, MayMark
<1>6. CASE Load
  <2>1. disk \in Snapshot /\ IsHistory(disk) /\ mem' = Upgraded(disk)
    BY <1>6 DEF Load, Damaged, StoreInv, TypeOK
  <2>2. IsHistory(mem')
    BY <2>1, UpgradedType, SameLogSameHistory
  <2> QED
    BY <1>6, <2>2 DEF Load
<1>7. CASE MigrateRename
  BY <1>7 DEF MigrateRename, RenameTo
<1>8. CASE ProcessEnds
  BY <1>8, EmptyIsHistory DEF ProcessEnds, ProcessGone
<1>9. CASE PowerCut
  BY <1>9, EmptyIsHistory DEF PowerCut, ProcessGone
<1>10. \/ mem' = mem /\ disk' = disk /\ durable' = durable /\ unsynced' = unsynced
       \/ Rename \/ SyncDirectory \/ MigrateSyncDirectory \/ Publish
       \/ LoadMarked \/ LoadDamaged \/ Load \/ MigrateRename
       \/ ProcessEnds \/ PowerCut
  BY DEF Next, vars, CommitStep, LoadStep, ReturnExisting, Begin, OpenTemp,
         WriteTemp, SyncTemp, CommitFails, MigrateSyncTemp, MigrateFails,
         MayMark, ChangeMode
<1> QED
  BY <1>1, <1>2, <1>3, <1>4, <1>5, <1>6, <1>7, <1>8, <1>9, <1>10

(* No two operations share a revision, although the number of a failed     *)
(* commit is used again (commit), and a revision lacks its receipt only    *)
(* behind MaxBootstrapReceipts kept ones of the compiler's                 *)
(* (boundedReceipts).                                                      *)
THEOREM RevisionsAreHistoryHolds ==
  Spec => []RevisionsAreHistory
<1>1. Init => HistoryInv
  <2>1. Init => IsHistory(disk) /\ Survivors = {disk}
    BY EmptyIsHistory, LegacyIsHistory DEF Init, Survivors
  <2> QED
    BY <2>1, EmptyIsHistory DEF Init, HistoryInv
<1>2. StoreInv /\ HistoryInv /\ [Next]_vars => HistoryInv'
  BY HistoryStep
<1>3. HistoryInv => RevisionsAreHistory
  BY DEF HistoryInv, RevisionsAreHistory
<1> QED
  BY <1>1, <1>2, <1>3, StoreInvariant, PTL DEF Spec

(* A process that finds a quarantine, or leaves one, is in recovery. *)
MarkedInv == marker /\ running => recovery

LEMMA MarkedStep ==
  ASSUME TypeOK, StageInv, MarkedInv, [Next]_vars PROVE MarkedInv'
<1> USE DEF MarkedInv, StageInv, files, process, CommitStages, MigrateStages
<1>1. CASE UNCHANGED <<marker, running, recovery>>
  BY <1>1
<1>2. CASE LoadStep
  BY <1>2
  DEF LoadStep, LoadMarked, LoadDamaged, Load, MigrateSyncTemp, MigrateRename,
      MigrateSyncDirectory, MigrateFails, EnterRecovery, AtStage, RenameTo,
      DirectorySynced
<1>3. CASE CommitStep
  BY <1>3
  DEF CommitStep, OpenTemp, WriteTemp, SyncTemp, Rename, SyncDirectory, Publish,
      CommitFails, AtStage, RenameTo, DirectorySynced
<1>4. CASE ProcessEnds \/ PowerCut
  BY <1>4 DEF ProcessEnds, PowerCut, ProcessGone
<1>5. \/ UNCHANGED <<marker, running, recovery>>
      \/ LoadStep \/ CommitStep \/ ProcessEnds \/ PowerCut
  BY DEF Next, vars, ReturnExisting, Begin, ChangeMode
<1> QED
  BY <1>1, <1>2, <1>3, <1>4, <1>5

(* Corrupt state never silently becomes an empty one: behind the marker    *)
(* nothing is committed, published or acknowledged, and only a power cut   *)
(* can still change what the evidence file holds (load).                   *)
THEOREM QuarantineFreezesHolds ==
  Spec => QuarantineFreezes
<1> DEFINE Frozen == marker /\ ~PowerCut =>
             /\ marker' /\ disk' = disk /\ acked' = acked
             /\ (running' => recovery')
<1>1. ASSUME TypeOK, StageInv, MarkedInv, [Next]_vars PROVE [Frozen]_vars
  <2> SUFFICES ASSUME Next, marker, ~PowerCut
               PROVE  /\ marker' /\ disk' = disk /\ acked' = acked
                      /\ (running' => recovery')
    BY <1>1
  <2>1. running => recovery /\ stage = "idle"
    BY <1>1 DEF MarkedInv, StageInv
  <2>2. \/ LoadMarked \/ ProcessEnds \/ ChangeMode
    BY <2>1
    DEF Next, CommitStep, LoadStep, ReturnExisting, Begin, Ready, OpenTemp,
        WriteTemp, SyncTemp, Rename, SyncDirectory, Publish, CommitFails,
        LoadDamaged, Load, MigrateSyncTemp, MigrateRename, MigrateSyncDirectory,
        MigrateFails, AtStage, CommitStages, MigrateStages
  <2>3. CASE LoadMarked
    BY <2>3 DEF LoadMarked, EnterRecovery, files
  <2>4. CASE ProcessEnds
    BY <2>4 DEF ProcessEnds, ProcessGone, files
  <2>5. CASE ChangeMode
    BY <2>1, <2>5 DEF ChangeMode, process
  <2> QED
    BY <2>2, <2>3, <2>4, <2>5
<1>2. Init => TypeOK /\ StageInv /\ MarkedInv
  BY InitialType DEF Init, MarkedInv
<1>3. TypeOK /\ StageInv /\ MarkedInv /\ [Next]_vars => (TypeOK /\ StageInv /\ MarkedInv)'
  BY TypeStep, StageStep, MarkedStep
<1> HIDE DEF Frozen
<1>4. Spec => [][Frozen]_vars
  BY <1>1, <1>2, <1>3, PTL DEF Spec
<1> QED
  BY <1>4 DEF Frozen, QuarantineFreezes

(***************************************************************************)
(* Refinement.                                                             *)
(***************************************************************************)
(* A step that shows the same log is a stutter of the operation log.       *)
LEMMA StutterStep ==
  ASSUME Visible'.revision = Visible.revision,
         Visible'.receipts = Visible.receipts,
         UNCHANGED <<attempted, acked>>
  PROVE  UNCHANGED Log!vars
BY DEF Log!vars

(* The next revision is one command more, or one of the compiler's that    *)
(* changes no command.                                                     *)
LEMMA OneMore ==
  ASSUME mem \in Snapshot, Visible = mem, NEW o \in Op, o \in attempted,
         mem.receipts[o] = 0,
         Visible'.revision = NextSnapshot(o).revision,
         Visible'.receipts = NextSnapshot(o).receipts
  PROVE  IF o \in Command THEN Log!Append(o)
         ELSE UNCHANGED attempted /\ UNCHANGED acked => Log!Anonymous
<1> DEFINE applied == [c \in Command |-> Visible.receipts[c]]
<1>1. /\ Visible'.revision = mem.revision + 1
      /\ \A c \in Command : Visible'.receipts[c] =
                            IF c = o THEN mem.revision + 1 ELSE mem.receipts[c]
  BY NextSnapshotFields
<1>2. CASE o \in Command
  <2>1. applied' = [applied EXCEPT ![o] = mem.revision + 1]
    BY <1>1, <1>2
  <2> QED
    BY <1>1, <1>2, <2>1 DEF Log!Append
<1>3. CASE o \notin Command
  <2>1. applied' = applied
    BY <1>1, <1>3
  <2> QED
    BY <1>1, <1>3, <2>1 DEF Log!Anonymous
<1> QED
  BY <1>2, <1>3

(* When the published snapshot gives way to a file, at most one operation  *)
(* surfaces.                                                               *)
LEMMA SurfaceStep ==
  ASSUME attempted \subseteq Op, mem \in Snapshot, running, ~recovery,
         MemOrOneAhead(Visible'), UNCHANGED <<attempted, acked>>
  PROVE  [Log!Next]_(Log!vars)
<1>1. Visible = mem
  BY DEF Visible
<1>2. CASE SameLog(Visible', mem)
  BY <1>1, <1>2, StutterStep DEF SameLog
<1>3. ASSUME NEW o \in attempted, mem.receipts[o] = 0,
             SameLog(Visible', NextSnapshot(o))
      PROVE  Log!Next
  <2> QED
    BY <1>1, <1>3, OneMore DEF Log!Surface, Log!Next, SameLog
<1> QED
  BY <1>2, <1>3 DEF MemOrOneAhead

(* The store implements the operation log of the commands: whatever        *)
(* crashes, a request sees a command once, at its own revision, and an     *)
(* acknowledged one for ever (commit, load, persistSchemaMigration).       *)
THEOREM ImplementsOperationLog ==
  Spec => LogSpec
<1>1. Init => Log!Init
  <2> SUFFICES ASSUME Init PROVE Log!Init
    OBVIOUS
  <2>1. Visible = disk
    BY DEF Init, Visible
  <2>2. CASE disk = EmptySnapshot
    BY <2>1, <2>2 DEF Init, Log!Init, EmptySnapshot, Op
  <2>3. CASE disk \in LegacySnapshots
    <3>1. PICK p \in Command :
            disk = [version |-> 3, revision |-> 1,
                    receipts |-> [o \in Op |-> IF o = p THEN 1 ELSE 0]]
      BY <2>3 DEF LegacySnapshots
    <3>2. /\ Visible.revision = 1
          /\ [c \in Command |-> Visible.receipts[c]] =
               [c \in Command |-> IF c = p THEN 1 ELSE 0]
      BY <2>1, <3>1 DEF Op
    <3>3. /\ acked = [c \in Command |-> Visible.receipts[c]]
          /\ attempted \cap Command = {}
      BY <2>1 DEF Init
    <3> QED
      BY <3>2, <3>3 DEF Log!Init
  <2> QED
    BY <2>2, <2>3 DEF Init
<1>2. StoreInv /\ StoreInv' /\ [Next]_vars => [Log!Next]_(Log!vars)
  <2> SUFFICES ASSUME StoreInv, StoreInv', [Next]_vars PROVE [Log!Next]_(Log!vars)
    OBVIOUS
  <2> USE StutterStep
      DEF StoreInv, TypeOK, StageInv, CommitStages, MigrateStages, files,
          process, Visible
  <2>1. ASSUME NEW o \in Command, ReturnExisting(o) PROVE Log!Next
    BY <2>1 DEF ReturnExisting, Ready, Acknowledge, Log!Next, Log!Answer
  <2>2. ASSUME NEW o \in Op, Begin(o) PROVE [Log!Next]_(Log!vars)
    <3>1. UNCHANGED <<Visible, acked>>
      BY <2>2 DEF Begin, Ready
    <3>2. CASE o \in Command
      <4>1. (attempted \cap Command)' = (attempted \cap Command) \cup {o}
        BY <2>2, <3>2 DEF Begin
      <4> QED
        BY <3>1, <3>2, <4>1 DEF Log!Next, Log!Attempt
    <3>3. CASE o \notin Command
      <4>1. (attempted \cap Command)' = attempted \cap Command
        BY <2>2, <3>3 DEF Begin
      <4> QED
        BY <3>1, <4>1 DEF Log!vars
    <3> QED
      BY <3>2, <3>3
  <2>3. CASE OpenTemp \/ WriteTemp \/ SyncTemp \/ Rename \/ SyncDirectory \/ CommitFails
    BY <2>3 DEF OpenTemp, WriteTemp, SyncTemp, Rename, SyncDirectory, CommitFails, AtStage
  <2>4. CASE Publish
    <3>1. PICK o \in Op : o = op
      BY <2>4 DEF Publish, AtStage
    <3>2. /\ o \in attempted /\ mem.receipts[o] = 0 /\ mem \in Snapshot
          /\ Visible = mem
          /\ Visible'.revision = NextSnapshot(o).revision
          /\ Visible'.receipts = NextSnapshot(o).receipts
      BY <2>4, <3>1 DEF Publish, AtStage
    <3> HIDE DEF Visible
    <3>3. IF o \in Command THEN Log!Append(o)
          ELSE UNCHANGED attempted /\ UNCHANGED acked => Log!Anonymous
      BY <3>2, OneMore
    <3>4. CASE o \in Command
      <4>1. acked' = [acked EXCEPT ![o] = Visible'.receipts[o]]
        BY <2>4, <3>1, <3>2, <3>4, NextSnapshotFields DEF Publish, Acknowledge
      <4>2. Log!Commit(o)
        BY <2>4, <3>3, <3>4, <4>1 DEF Publish, Log!Commit
      <4> QED
        BY <3>4, <4>2 DEF Log!Next
    <3>5. CASE o \notin Command
      <4>1. UNCHANGED attempted /\ UNCHANGED acked
        BY <2>4, <3>1, <3>5 DEF Publish, Acknowledge
      <4> QED
        BY <3>3, <3>5, <4>1 DEF Log!Next
    <3> QED
      BY <3>4, <3>5
  <2>5. CASE LoadMarked \/ LoadDamaged
    BY <2>5 DEF LoadMarked, LoadDamaged, EnterRecovery, MayMark
  <2>6. CASE Load
    <3>1. Visible = disk /\ Visible' = Upgraded(disk) /\ disk \in Snapshot
      BY <2>6 DEF Load, Damaged
    <3> QED
      BY <2>6, <3>1, UpgradedType DEF Load, SameLog
  <2>7. CASE MigrateSyncTemp \/ MigrateRename \/ MigrateSyncDirectory
    BY <2>7 DEF MigrateSyncTemp, MigrateRename, MigrateSyncDirectory, AtStage, DirectorySynced
  <2>8. CASE MigrateFails
    BY <2>8 DEF MigrateFails, MayMark, RestInv, SameLog
  <2>9. CASE ProcessEnds \/ PowerCut
    <3>1. Visible' = disk' /\ disk' \in Survivors \cup {disk} /\ UNCHANGED <<attempted, acked>>
      BY <2>9 DEF ProcessEnds, PowerCut, ProcessGone
    <3>2. CASE running /\ ~recovery
      <4>1. MemOrOneAhead(disk')
        BY <3>1, <3>2 DEF FilesFollowMem
      <4> QED
        BY <3>1, <3>2, <4>1, SurfaceStep
    <3>3. CASE ~running
      BY <3>1, <3>3 DEF RestInv
    <3>4. CASE recovery
      BY <3>1, <3>4 DEF RestInv, SameLog
    <3> QED
      BY <3>2, <3>3, <3>4
  <2>10. CASE ChangeMode
    BY <2>10 DEF ChangeMode
  <2>11. CASE UNCHANGED vars
    BY <2>11 DEF vars
  <2> QED
    BY <2>1, <2>2, <2>3, <2>4, <2>5, <2>6, <2>7, <2>8, <2>9, <2>10, <2>11
    DEF Next, CommitStep, LoadStep
<1> QED
  BY <1>1, <1>2, StoreInvariant, PTL DEF Spec, LogSpec, Log!Spec

=============================================================================
