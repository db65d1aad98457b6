----------------------- MODULE SessionOwnership_proofs -----------------------
(***************************************************************************)
(* Theorems about SessionOwnership, for every set of incarnations.         *)
(***************************************************************************)
EXTENDS SessionOwnership, TLAPS

USE SentinelAssumption DEF disk, Transition, DropReclaim

(* Type correctness, strengthened: a removal knows where it returns to.    *)
TypeInv == TypeOK /\ \A p \in Proc : pc[p] \in Removing => cont[p] # "none"

(* Every system call keeps the types.                                      *)
LEMMA TypeInvStep == TypeInv /\ [Next]_vars => TypeInv'
<1> SUFFICES ASSUME TypeInv, [Next]_vars PROVE TypeInv'
  OBVIOUS
<1>0. UNCHANGED environment
  BY DEF Next, vars
<1> USE <1>0
<1> USE DEF TypeInv, TypeOK, PCs, Acquiring, Removing, Opening, Closing,
            Refused, Ended
<1>1. ASSUME NEW p \in Proc, Acquire(p) PROVE TypeInv'
  <2>1. CASE MakeLockDir(p) BY <2>1 DEF MakeLockDir
  <2>2. CASE LockDirExists(p) BY <2>2 DEF LockDirExists
  <2>3. CASE WriteOwner(p) BY <2>3 DEF WriteOwner
  <2>4. CASE WriteOwnerFails(p) BY <2>4 DEF WriteOwnerFails
  <2>5. CASE Claim(p) BY <2>5 DEF Claim
  <2>6. CASE ReadIncumbent(p) BY <2>6 DEF ReadIncumbent
  <2>7. CASE IncumbentUnreadable(p) BY <2>7 DEF IncumbentUnreadable
  <2>8. CASE ProbeIncumbent(p) BY <2>8 DEF ProbeIncumbent
  <2>8a. CASE AwaitAnswer(p) BY <2>8a DEF AwaitAnswer
  <2>9. CASE CheckGrace(p) BY <2>9 DEF CheckGrace
  <2>10. CASE BeginReclaim(p) BY <2>10 DEF BeginReclaim
  <2>11. CASE ReclaimBusy(p) BY <2>11 DEF ReclaimBusy
  <2>12. CASE RecheckHolds(p) BY <2>12 DEF RecheckHolds
  <2>13. CASE RecheckFails(p) BY <2>13 DEF RecheckFails
  <2>14. CASE Displace(p) BY <2>14 DEF Displace
  <2>15. CASE RemoveOwnerFile(p) BY <2>15 DEF RemoveOwnerFile
  <2>16. CASE RemoveLockDir(p) BY <2>16 DEF RemoveLockDir
  <2> QED
    BY <1>1, <2>1, <2>2, <2>3, <2>4, <2>5, <2>6, <2>7, <2>8, <2>8a, <2>9, <2>10,
       <2>11, <2>12, <2>13, <2>14, <2>15, <2>16 DEF Acquire
<1>2. ASSUME NEW p \in Proc, Open(p) PROVE TypeInv'
  <2>1. CASE OpenState(p) BY <2>1 DEF OpenState
  <2>2. CASE OpenStateFails(p) BY <2>2 DEF OpenStateFails
  <2>3. CASE UnlinkStaleSocket(p) BY <2>3 DEF UnlinkStaleSocket
  <2>4. CASE Bind(p) BY <2>4 DEF Bind
  <2>5. CASE BindFails(p) BY <2>5 DEF BindFails
  <2>6. CASE WriteRecord(p) BY <2>6 DEF WriteRecord
  <2>7. CASE WriteRecordFails(p) BY <2>7 DEF WriteRecordFails
  <2> QED
    BY <1>2, <2>1, <2>2, <2>3, <2>4, <2>5, <2>6, <2>7 DEF Open
<1>3. ASSUME NEW p \in Proc, Close(p) PROVE TypeInv'
  <2>1. CASE StopListening(p) BY <2>1 DEF StopListening
  <2>2. CASE RemoveOwnRecord(p) BY <2>2 DEF RemoveOwnRecord
  <2>3. CASE RemoveSocket(p) BY <2>3 DEF RemoveSocket
  <2>4. CASE Release(p) BY <2>4 DEF Release
  <2> QED
    BY <1>3, <2>1, <2>2, <2>3, <2>4 DEF Close
<1>4. ASSUME NEW p \in Proc, Environment(p) PROVE TypeInv'
  <2>1. CASE Start(p) BY <2>1 DEF Start
  <2>2. CASE BeginClose(p) BY <2>2 DEF BeginClose
  <2>3. CASE Crash(p) BY <2>3 DEF Crash
  <2>4. CASE GraceElapses(p) BY <2>4 DEF GraceElapses
  <2> QED
    BY <1>4, <2>1, <2>2, <2>3, <2>4 DEF Environment
<1>5. CASE UNCHANGED vars
  BY <1>5 DEF vars
<1> QED
  BY <1>1, <1>2, <1>3, <1>4, <1>5 DEF Next, Run

(* The state of SessionOwnershipLock and of the control plane              *)
(* (store/session-ownership.ts, runtime/production-integrations.ts) stays  *)
(* of its type under every interleaving, crash and I/O error.              *)
THEOREM TypeCorrect == Spec => []TypeOK
<1>1. Init => TypeInv
  BY DEF Init, TypeInv, TypeOK, PCs, Removing
<1>2. TypeInv => TypeOK
  BY DEF TypeInv
<1> QED
  BY <1>1, <1>2, TypeInvStep, PTL DEF Spec

(* mkdir of the reclaim directory is its test-and-set, and only the        *)
(* incarnation that made it removes it.                                    *)
LEMMA ReclaimMutexStep ==
  TypeInv /\ ReclaimMutex /\ [Next]_vars => ReclaimMutex'
<1> SUFFICES ASSUME TypeInv /\ ReclaimMutex, [Next]_vars PROVE ReclaimMutex'
  OBVIOUS
<1> USE DEF ReclaimMutex, TypeInv, TypeOK, PCs, Acquiring, Removing, Opening, Closing, Refused,
            Ended
<1>1. ASSUME NEW p \in Proc, Acquire(p) PROVE ReclaimMutex'
  <2>1. CASE MakeLockDir(p) BY <2>1 DEF MakeLockDir
  <2>2. CASE LockDirExists(p) BY <2>2 DEF LockDirExists
  <2>3. CASE WriteOwner(p) BY <2>3 DEF WriteOwner
  <2>4. CASE WriteOwnerFails(p) BY <2>4 DEF WriteOwnerFails
  <2>5. CASE Claim(p) BY <2>5 DEF Claim
  <2>6. CASE ReadIncumbent(p) BY <2>6 DEF ReadIncumbent
  <2>7. CASE IncumbentUnreadable(p) BY <2>7 DEF IncumbentUnreadable
  <2>8. CASE ProbeIncumbent(p) BY <2>8 DEF ProbeIncumbent, SomeoneListens
  <2>8a. CASE AwaitAnswer(p) BY <2>8a DEF AwaitAnswer
  <2>9. CASE CheckGrace(p) BY <2>9 DEF CheckGrace
  <2>10. CASE BeginReclaim(p) BY <2>10 DEF BeginReclaim
  <2>11. CASE ReclaimBusy(p) BY <2>11 DEF ReclaimBusy
  <2>12. CASE RecheckHolds(p) BY <2>12 DEF RecheckHolds, SameIncumbent
  <2>13. CASE RecheckFails(p) BY <2>13 DEF RecheckFails, SameIncumbent
  <2>14. CASE Displace(p) BY <2>14 DEF Displace
  <2>15. CASE RemoveOwnerFile(p) BY <2>15 DEF RemoveOwnerFile
  <2>16. CASE RemoveLockDir(p) BY <2>16 DEF RemoveLockDir
  <2> QED
    BY <1>1, <2>1, <2>2, <2>3, <2>4, <2>5, <2>6, <2>7, <2>8, <2>8a, <2>9, <2>10,
       <2>11, <2>12, <2>13, <2>14, <2>15, <2>16
       DEF Acquire
<1>2. ASSUME NEW p \in Proc, Open(p) PROVE ReclaimMutex'
  <2>1. CASE OpenState(p) BY <2>1 DEF OpenState, SomeoneListens
  <2>2. CASE OpenStateFails(p) BY <2>2 DEF OpenStateFails, SomeoneListens
  <2>3. CASE UnlinkStaleSocket(p) BY <2>3 DEF UnlinkStaleSocket
  <2>4. CASE Bind(p) BY <2>4 DEF Bind
  <2>5. CASE BindFails(p) BY <2>5 DEF BindFails
  <2>6. CASE WriteRecord(p) BY <2>6 DEF WriteRecord
  <2>7. CASE WriteRecordFails(p) BY <2>7 DEF WriteRecordFails
  <2> QED
    BY <1>2, <2>1, <2>2, <2>3, <2>4, <2>5, <2>6, <2>7
       DEF Open
<1>3. ASSUME NEW p \in Proc, Close(p) PROVE ReclaimMutex'
  <2>1. CASE StopListening(p) BY <2>1 DEF StopListening
  <2>2. CASE RemoveOwnRecord(p) BY <2>2 DEF RemoveOwnRecord
  <2>3. CASE RemoveSocket(p) BY <2>3 DEF RemoveSocket
  <2>4. CASE Release(p) BY <2>4 DEF Release
  <2> QED
    BY <1>3, <2>1, <2>2, <2>3, <2>4
       DEF Close
<1>4. ASSUME NEW p \in Proc, Environment(p) PROVE ReclaimMutex'
  <2>1. CASE Start(p) BY <2>1 DEF Start
  <2>2. CASE BeginClose(p) BY <2>2 DEF BeginClose
  <2>3. CASE Crash(p) BY <2>3 DEF Crash
  <2>4. CASE GraceElapses(p) BY <2>4 DEF GraceElapses
  <2> QED
    BY <1>4, <2>1, <2>2, <2>3, <2>4
       DEF Environment
<1>5. CASE UNCHANGED vars
  BY <1>5 DEF vars
<1> QED
  BY <1>1, <1>2, <1>3, <1>4, <1>5 DEF Next, Run

(* The reclaim directory is a mutex under every interleaving, orderly      *)
(* closes and slow start-ups included (acquire).                           *)
THEOREM ReclaimMutexHolds == Spec => []ReclaimMutex
<1>1. Init => TypeInv /\ ReclaimMutex
  BY DEF Init, TypeInv, TypeOK, ReclaimMutex, PCs, Removing
<1>2. TypeInv /\ ReclaimMutex /\ [Next]_vars => (TypeInv /\ ReclaimMutex)'
  BY TypeInvStep, ReclaimMutexStep
<1> QED
  BY <1>1, <1>2, PTL DEF Spec

(***************************************************************************)
(* A refusal has a cause.                                                  *)
(***************************************************************************)
(* What a lock without an owner, a reclaim and an open listener tell about *)
(* the incarnations: each belongs to one in the middle of something, or to *)
(* one that crashed there.                                                 *)
TracesExplained ==
  /\ lockDir = NoOwner =>
       \E q \in Proc : pc[q] \in {"write", "crashed"} \cup Removing
  /\ \A q \in Proc : reclaiming[q] =>
       pc[q] \in {"recheck", "displace", "mkdir", "write", "claimed", "crashed"}
                  \cup Removing
  /\ \A q \in Proc : listening[q] => pc[q] \in {"record", "serving", "stop"}

(* Every step that leaves such a place takes the trace of it along.        *)
LEMMA TracesStep ==
  TypeInv /\ TracesExplained /\ [Next]_vars => TracesExplained'
<1> SUFFICES ASSUME TypeInv /\ TracesExplained, [Next]_vars PROVE TracesExplained'
  OBVIOUS
<1> USE DEF TracesExplained, TypeInv, TypeOK, PCs, Acquiring, Removing, Opening, Closing, Refused,
            Ended
<1>1. ASSUME NEW p \in Proc, Acquire(p) PROVE TracesExplained'
  <2>1. CASE MakeLockDir(p) BY <2>1 DEF MakeLockDir
  <2>2. CASE LockDirExists(p) BY <2>2 DEF LockDirExists
  <2>3. CASE WriteOwner(p) BY <2>3 DEF WriteOwner
  <2>4. CASE WriteOwnerFails(p) BY <2>4 DEF WriteOwnerFails
  <2>5. CASE Claim(p) BY <2>5 DEF Claim
  <2>6. CASE ReadIncumbent(p) BY <2>6 DEF ReadIncumbent
  <2>7. CASE IncumbentUnreadable(p) BY <2>7 DEF IncumbentUnreadable
  <2>8. CASE ProbeIncumbent(p) BY <2>8 DEF ProbeIncumbent, SomeoneListens
  <2>8a. CASE AwaitAnswer(p) BY <2>8a DEF AwaitAnswer
  <2>9. CASE CheckGrace(p) BY <2>9 DEF CheckGrace
  <2>10. CASE BeginReclaim(p) BY <2>10 DEF BeginReclaim
  <2>11. CASE ReclaimBusy(p) BY <2>11 DEF ReclaimBusy
  <2>12. CASE RecheckHolds(p) BY <2>12 DEF RecheckHolds, SameIncumbent
  <2>13. CASE RecheckFails(p) BY <2>13 DEF RecheckFails, SameIncumbent
  <2>14. CASE Displace(p) BY <2>14 DEF Displace
  <2>15. CASE RemoveOwnerFile(p) BY <2>15 DEF RemoveOwnerFile
  <2>16. CASE RemoveLockDir(p) BY <2>16 DEF RemoveLockDir
  <2> QED
    BY <1>1, <2>1, <2>2, <2>3, <2>4, <2>5, <2>6, <2>7, <2>8, <2>8a, <2>9, <2>10,
       <2>11, <2>12, <2>13, <2>14, <2>15, <2>16
       DEF Acquire
<1>2. ASSUME NEW p \in Proc, Open(p) PROVE TracesExplained'
  <2>1. CASE OpenState(p) BY <2>1 DEF OpenState, SomeoneListens
  <2>2. CASE OpenStateFails(p) BY <2>2 DEF OpenStateFails, SomeoneListens
  <2>3. CASE UnlinkStaleSocket(p) BY <2>3 DEF UnlinkStaleSocket
  <2>4. CASE Bind(p) BY <2>4 DEF Bind
  <2>5. CASE BindFails(p) BY <2>5 DEF BindFails
  <2>6. CASE WriteRecord(p) BY <2>6 DEF WriteRecord
  <2>7. CASE WriteRecordFails(p) BY <2>7 DEF WriteRecordFails
  <2> QED
    BY <1>2, <2>1, <2>2, <2>3, <2>4, <2>5, <2>6, <2>7
       DEF Open
<1>3. ASSUME NEW p \in Proc, Close(p) PROVE TracesExplained'
  <2>1. CASE StopListening(p) BY <2>1 DEF StopListening
  <2>2. CASE RemoveOwnRecord(p) BY <2>2 DEF RemoveOwnRecord
  <2>3. CASE RemoveSocket(p) BY <2>3 DEF RemoveSocket
  <2>4. CASE Release(p) BY <2>4 DEF Release
  <2> QED
    BY <1>3, <2>1, <2>2, <2>3, <2>4
       DEF Close
<1>4. ASSUME NEW p \in Proc, Environment(p) PROVE TracesExplained'
  <2>1. CASE Start(p) BY <2>1 DEF Start
  <2>2. CASE BeginClose(p) BY <2>2 DEF BeginClose
  <2>3. CASE Crash(p) BY <2>3 DEF Crash
  <2>4. CASE GraceElapses(p) BY <2>4 DEF GraceElapses
  <2> QED
    BY <1>4, <2>1, <2>2, <2>3, <2>4
       DEF Environment
<1>5. CASE UNCHANGED vars
  BY <1>5 DEF vars
<1> QED
  BY <1>1, <1>2, <1>3, <1>4, <1>5 DEF Next, Run

THEOREM TracesInvariant == Spec => [](TypeInv /\ ReclaimMutex /\ TracesExplained)
<1>1. Init => TypeInv /\ ReclaimMutex /\ TracesExplained
  BY DEF Init, TypeInv, TypeOK, ReclaimMutex, TracesExplained, PCs, Removing
<1>2. TypeInv /\ ReclaimMutex /\ TracesExplained /\ [Next]_vars
        => (TypeInv /\ ReclaimMutex /\ TracesExplained)'
  BY TypeInvStep, ReclaimMutexStep, TracesStep
<1> QED
  BY <1>1, <1>2, PTL DEF Spec

(* Only the steps against an incumbent refuse a start-up or let it wait.   *)
LEMMA WhoRefuses ==
  ASSUME TypeInv, [Next]_vars, NEW p \in Proc,
         pc[p] \in Acquiring \ {"ask"}, pc'[p] \in {"wedged", "ask"}
  PROVE  IncumbentUnreadable(p) \/ ProbeIncumbent(p) \/ CheckGrace(p) \/ ReclaimBusy(p)
<1> USE DEF TypeInv, TypeOK, PCs, Acquiring
<1>1. pc'[p] # pc[p]
  OBVIOUS
<1>2. ~ UNCHANGED vars
  BY <1>1 DEF vars
<1>3. PICK q \in Proc : Run(q) \/ Environment(q)
  BY <1>2 DEF Next
<1>4. ASSUME NEW from, NEW to, Transition(q, from, to)
      PROVE  q = p /\ from = pc[p] /\ to \in {"wedged", "ask"}
  BY <1>1, <1>4
<1>5. CASE Acquire(q)
  BY <1>5, <1>4
     DEF Acquire, MakeLockDir, LockDirExists, WriteOwner, WriteOwnerFails, Claim,
         ReadIncumbent, BeginReclaim, RecheckHolds, RecheckFails, Displace,
         RemoveOwnerFile, RemoveLockDir, ProbeIncumbent, AwaitAnswer, IncumbentUnreadable,
         CheckGrace, ReclaimBusy
<1>6. ~Open(q)
  BY <1>4 DEF Open, OpenState, OpenStateFails, UnlinkStaleSocket, Bind, BindFails,
              WriteRecord, WriteRecordFails
<1>7. ~Close(q)
  BY <1>4 DEF Close, StopListening, RemoveOwnRecord, RemoveSocket, Release
<1>8. ~Environment(q)
  BY <1>1, <1>4 DEF Environment, Start, BeginClose, Crash, GraceElapses
<1> QED
  BY <1>3, <1>5, <1>6, <1>7, <1>8 DEF Run

(* A start-up that meets nobody who runs is refused only because the lock  *)
(* vanished under it, because of what a crash left, or within the grace of *)
(* the owner it read: under every interleaving, with orderly closes, slow  *)
(* start-ups and I/O errors (acquire).                                     *)
THEOREM StartRefusedForCauseAlways == Spec => StartRefusedForCause
<1> DEFINE Cause(p) ==
      \/ lockDir = NoDir
      \/ \E q \in Proc : /\ pc[q] = "crashed"
                         /\ lockDir = NoOwner \/ reclaiming[q]
      \/ ~aged[incumbent[p]]
<1>1. ASSUME TypeInv, ReclaimMutex, TracesExplained, [Next]_vars,
             NEW p \in Proc, pc[p] \in Acquiring \ {"ask"}, pc'[p] \in {"wedged", "ask"},
             \A q \in Proc \ {p} : pc[q] \in {"idle"} \cup Ended
      PROVE  Cause(p)
  <2> USE DEF Acquiring, Removing, Refused, Ended
  <2>1. CASE IncumbentUnreadable(p)
    BY <1>1, <2>1 DEF IncumbentUnreadable, TypeInv, TypeOK, TracesExplained
  <2>2. CASE ProbeIncumbent(p)
    <3>1. pc[p] = "probe" /\ SomeoneListens
      BY <1>1, <2>2 DEF ProbeIncumbent, TypeInv, TypeOK
    <3>2. sockFile \in Proc /\ listening[sockFile]
      BY <1>1, <3>1 DEF SomeoneListens, TypeInv, TypeOK
    <3> QED
      BY <1>1, <3>1, <3>2 DEF TracesExplained
  <2>3. CASE CheckGrace(p)
    BY <1>1, <2>3 DEF CheckGrace, TypeInv, TypeOK
  <2>4. CASE ReclaimBusy(p)
    <3>1. pc[p] = "reclaim" /\ \E q \in Proc : reclaiming[q]
      BY <1>1, <2>4 DEF ReclaimBusy, ReclaimMutex
    <3> QED
      BY <1>1, <3>1 DEF TracesExplained
  <2> QED
    BY <1>1, <2>1, <2>2, <2>3, <2>4, WhoRefuses
<1>2. TypeInv /\ ReclaimMutex /\ TracesExplained /\ [Next]_vars =>
        [\A p \in Proc :
           /\ pc[p] \in Acquiring \ {"ask"} /\ pc'[p] \in {"wedged", "ask"}
           /\ \A q \in Proc \ {p} : pc[q] \in {"idle"} \cup Ended
           => \/ lockDir = NoDir
              \/ \E q \in Proc : /\ pc[q] = "crashed"
                                 /\ lockDir = NoOwner \/ reclaiming[q]
              \/ ~aged[incumbent[p]]]_vars
  BY <1>1
<1> QED
  BY <1>2, TracesInvariant, PTL DEF Spec, StartRefusedForCause

(***************************************************************************)
(* One writer, when nobody closes in an orderly way and nobody outlasts    *)
(* the grace (Prompt).                                                     *)
(***************************************************************************)
(* The steps of one incarnation never touch the lock directory of another  *)
(* one that holds it: a displacement meets only a dead incumbent's.        *)
LEMMA LockIsHoldersStep ==
  OwnershipInv /\ Prompt /\ [Next]_vars => LockIsHolders'
<1> SUFFICES ASSUME OwnershipInv, Prompt, [Next]_vars PROVE LockIsHolders'
  OBVIOUS
<1> USE DEF OwnershipInv, Prompt, LockKept, ReclaimMutex, LockIsHolders, OneHolder,
            ServingAnswers, IncumbentIsDead, Holding, TypeOK, PCs, Acquiring, Removing, Opening, Closing, Refused,
            Ended
<1>1. ASSUME NEW p \in Proc, Acquire(p) PROVE LockIsHolders'
  <2>1. CASE MakeLockDir(p) BY <2>1 DEF MakeLockDir
  <2>2. CASE LockDirExists(p) BY <2>2 DEF LockDirExists
  <2>3. CASE WriteOwner(p) BY <2>3 DEF WriteOwner
  <2>4. CASE WriteOwnerFails(p) BY <2>4 DEF WriteOwnerFails
  <2>5. CASE Claim(p) BY <2>5 DEF Claim
  <2>6. CASE ReadIncumbent(p) BY <2>6 DEF ReadIncumbent
  <2>7. CASE IncumbentUnreadable(p) BY <2>7 DEF IncumbentUnreadable
  <2>8. CASE ProbeIncumbent(p) BY <2>8 DEF ProbeIncumbent, SomeoneListens
  <2>8a. CASE AwaitAnswer(p) BY <2>8a DEF AwaitAnswer
  <2>9. CASE CheckGrace(p) BY <2>9 DEF CheckGrace
  <2>10. CASE BeginReclaim(p) BY <2>10 DEF BeginReclaim
  <2>11. CASE ReclaimBusy(p) BY <2>11 DEF ReclaimBusy
  <2>12. CASE RecheckHolds(p) BY <2>12 DEF RecheckHolds, SameIncumbent
  <2>13. CASE RecheckFails(p) BY <2>13 DEF RecheckFails, SameIncumbent
  <2>14. CASE Displace(p) BY <2>14 DEF Displace
  <2>15. CASE RemoveOwnerFile(p) BY <2>15 DEF RemoveOwnerFile
  <2>16. CASE RemoveLockDir(p) BY <2>16 DEF RemoveLockDir
  <2> QED
    BY <1>1, <2>1, <2>2, <2>3, <2>4, <2>5, <2>6, <2>7, <2>8, <2>8a, <2>9, <2>10,
       <2>11, <2>12, <2>13, <2>14, <2>15, <2>16
       DEF Acquire
<1>2. ASSUME NEW p \in Proc, Open(p) PROVE LockIsHolders'
  <2>1. CASE OpenState(p) BY <2>1 DEF OpenState, SomeoneListens
  <2>2. CASE OpenStateFails(p) BY <2>2 DEF OpenStateFails, SomeoneListens
  <2>3. CASE UnlinkStaleSocket(p) BY <2>3 DEF UnlinkStaleSocket
  <2>4. CASE Bind(p) BY <2>4 DEF Bind
  <2>5. CASE BindFails(p) BY <2>5 DEF BindFails
  <2>6. CASE WriteRecord(p) BY <2>6 DEF WriteRecord
  <2>7. CASE WriteRecordFails(p) BY <2>7 DEF WriteRecordFails
  <2> QED
    BY <1>2, <2>1, <2>2, <2>3, <2>4, <2>5, <2>6, <2>7
       DEF Open
<1>3. ASSUME NEW p \in Proc, Close(p) PROVE LockIsHolders'
  <2>1. CASE StopListening(p) BY <2>1 DEF StopListening
  <2>2. CASE RemoveOwnRecord(p) BY <2>2 DEF RemoveOwnRecord
  <2>3. CASE RemoveSocket(p) BY <2>3 DEF RemoveSocket
  <2>4. CASE Release(p) BY <2>4 DEF Release
  <2> QED
    BY <1>3, <2>1, <2>2, <2>3, <2>4
       DEF Close
<1>4. ASSUME NEW p \in Proc, Environment(p) PROVE LockIsHolders'
  <2>1. CASE Start(p) BY <2>1 DEF Start
  <2>2. CASE BeginClose(p) BY <2>2 DEF BeginClose
  <2>3. CASE Crash(p) BY <2>3 DEF Crash
  <2>4. CASE GraceElapses(p) BY <2>4 DEF GraceElapses
  <2> QED
    BY <1>4, <2>1, <2>2, <2>3, <2>4
       DEF Environment
<1>5. CASE UNCHANGED vars
  BY <1>5 DEF vars
<1> QED
  BY <1>1, <1>2, <1>3, <1>4, <1>5 DEF Next, Run

(* mkdir admits a second holder only when the path is free, and a holder's *)
(* path is not (LockIsHolders).                                            *)
LEMMA OneHolderStep ==
  OwnershipInv /\ Prompt /\ [Next]_vars => OneHolder'
<1> SUFFICES ASSUME OwnershipInv, Prompt, [Next]_vars PROVE OneHolder'
  OBVIOUS
<1> USE DEF OwnershipInv, Prompt, LockKept, ReclaimMutex, LockIsHolders, OneHolder,
            ServingAnswers, IncumbentIsDead, Holding, TypeOK, PCs, Acquiring, Removing, Opening, Closing, Refused,
            Ended
<1>1. ASSUME NEW p \in Proc, Acquire(p) PROVE OneHolder'
  <2>1. CASE MakeLockDir(p) BY <2>1 DEF MakeLockDir
  <2>2. CASE LockDirExists(p) BY <2>2 DEF LockDirExists
  <2>3. CASE WriteOwner(p) BY <2>3 DEF WriteOwner
  <2>4. CASE WriteOwnerFails(p) BY <2>4 DEF WriteOwnerFails
  <2>5. CASE Claim(p) BY <2>5 DEF Claim
  <2>6. CASE ReadIncumbent(p) BY <2>6 DEF ReadIncumbent
  <2>7. CASE IncumbentUnreadable(p) BY <2>7 DEF IncumbentUnreadable
  <2>8. CASE ProbeIncumbent(p) BY <2>8 DEF ProbeIncumbent, SomeoneListens
  <2>8a. CASE AwaitAnswer(p) BY <2>8a DEF AwaitAnswer
  <2>9. CASE CheckGrace(p) BY <2>9 DEF CheckGrace
  <2>10. CASE BeginReclaim(p) BY <2>10 DEF BeginReclaim
  <2>11. CASE ReclaimBusy(p) BY <2>11 DEF ReclaimBusy
  <2>12. CASE RecheckHolds(p) BY <2>12 DEF RecheckHolds, SameIncumbent
  <2>13. CASE RecheckFails(p) BY <2>13 DEF RecheckFails, SameIncumbent
  <2>14. CASE Displace(p) BY <2>14 DEF Displace
  <2>15. CASE RemoveOwnerFile(p) BY <2>15 DEF RemoveOwnerFile
  <2>16. CASE RemoveLockDir(p) BY <2>16 DEF RemoveLockDir
  <2> QED
    BY <1>1, <2>1, <2>2, <2>3, <2>4, <2>5, <2>6, <2>7, <2>8, <2>8a, <2>9, <2>10,
       <2>11, <2>12, <2>13, <2>14, <2>15, <2>16
       DEF Acquire
<1>2. ASSUME NEW p \in Proc, Open(p) PROVE OneHolder'
  <2>1. CASE OpenState(p) BY <2>1 DEF OpenState, SomeoneListens
  <2>2. CASE OpenStateFails(p) BY <2>2 DEF OpenStateFails, SomeoneListens
  <2>3. CASE UnlinkStaleSocket(p) BY <2>3 DEF UnlinkStaleSocket
  <2>4. CASE Bind(p) BY <2>4 DEF Bind
  <2>5. CASE BindFails(p) BY <2>5 DEF BindFails
  <2>6. CASE WriteRecord(p) BY <2>6 DEF WriteRecord
  <2>7. CASE WriteRecordFails(p) BY <2>7 DEF WriteRecordFails
  <2> QED
    BY <1>2, <2>1, <2>2, <2>3, <2>4, <2>5, <2>6, <2>7
       DEF Open
<1>3. ASSUME NEW p \in Proc, Close(p) PROVE OneHolder'
  <2>1. CASE StopListening(p) BY <2>1 DEF StopListening
  <2>2. CASE RemoveOwnRecord(p) BY <2>2 DEF RemoveOwnRecord
  <2>3. CASE RemoveSocket(p) BY <2>3 DEF RemoveSocket
  <2>4. CASE Release(p) BY <2>4 DEF Release
  <2> QED
    BY <1>3, <2>1, <2>2, <2>3, <2>4
       DEF Close
<1>4. ASSUME NEW p \in Proc, Environment(p) PROVE OneHolder'
  <2>1. CASE Start(p) BY <2>1 DEF Start
  <2>2. CASE BeginClose(p) BY <2>2 DEF BeginClose
  <2>3. CASE Crash(p) BY <2>3 DEF Crash
  <2>4. CASE GraceElapses(p) BY <2>4 DEF GraceElapses
  <2> QED
    BY <1>4, <2>1, <2>2, <2>3, <2>4
       DEF Environment
<1>5. CASE UNCHANGED vars
  BY <1>5 DEF vars
<1> QED
  BY <1>1, <1>2, <1>3, <1>4, <1>5 DEF Next, Run

(* Only a holder unlinks or binds c.sock, and there is one holder.         *)
LEMMA ServingAnswersStep ==
  OwnershipInv /\ Prompt /\ [Next]_vars => ServingAnswers'
<1> SUFFICES ASSUME OwnershipInv, Prompt, [Next]_vars PROVE ServingAnswers'
  OBVIOUS
<1> USE DEF OwnershipInv, Prompt, LockKept, ReclaimMutex, LockIsHolders, OneHolder,
            ServingAnswers, IncumbentIsDead, Holding, TypeOK, PCs, Acquiring, Removing, Opening, Closing, Refused,
            Ended
<1>1. ASSUME NEW p \in Proc, Acquire(p) PROVE ServingAnswers'
  <2>1. CASE MakeLockDir(p) BY <2>1 DEF MakeLockDir
  <2>2. CASE LockDirExists(p) BY <2>2 DEF LockDirExists
  <2>3. CASE WriteOwner(p) BY <2>3 DEF WriteOwner
  <2>4. CASE WriteOwnerFails(p) BY <2>4 DEF WriteOwnerFails
  <2>5. CASE Claim(p) BY <2>5 DEF Claim
  <2>6. CASE ReadIncumbent(p) BY <2>6 DEF ReadIncumbent
  <2>7. CASE IncumbentUnreadable(p) BY <2>7 DEF IncumbentUnreadable
  <2>8. CASE ProbeIncumbent(p) BY <2>8 DEF ProbeIncumbent, SomeoneListens
  <2>8a. CASE AwaitAnswer(p) BY <2>8a DEF AwaitAnswer
  <2>9. CASE CheckGrace(p) BY <2>9 DEF CheckGrace
  <2>10. CASE BeginReclaim(p) BY <2>10 DEF BeginReclaim
  <2>11. CASE ReclaimBusy(p) BY <2>11 DEF ReclaimBusy
  <2>12. CASE RecheckHolds(p) BY <2>12 DEF RecheckHolds, SameIncumbent
  <2>13. CASE RecheckFails(p) BY <2>13 DEF RecheckFails, SameIncumbent
  <2>14. CASE Displace(p) BY <2>14 DEF Displace
  <2>15. CASE RemoveOwnerFile(p) BY <2>15 DEF RemoveOwnerFile
  <2>16. CASE RemoveLockDir(p) BY <2>16 DEF RemoveLockDir
  <2> QED
    BY <1>1, <2>1, <2>2, <2>3, <2>4, <2>5, <2>6, <2>7, <2>8, <2>8a, <2>9, <2>10,
       <2>11, <2>12, <2>13, <2>14, <2>15, <2>16
       DEF Acquire
<1>2. ASSUME NEW p \in Proc, Open(p) PROVE ServingAnswers'
  <2>1. CASE OpenState(p) BY <2>1 DEF OpenState, SomeoneListens
  <2>2. CASE OpenStateFails(p) BY <2>2 DEF OpenStateFails, SomeoneListens
  <2>3. CASE UnlinkStaleSocket(p) BY <2>3 DEF UnlinkStaleSocket
  <2>4. CASE Bind(p) BY <2>4 DEF Bind
  <2>5. CASE BindFails(p) BY <2>5 DEF BindFails
  <2>6. CASE WriteRecord(p) BY <2>6 DEF WriteRecord
  <2>7. CASE WriteRecordFails(p) BY <2>7 DEF WriteRecordFails
  <2> QED
    BY <1>2, <2>1, <2>2, <2>3, <2>4, <2>5, <2>6, <2>7
       DEF Open
<1>3. ASSUME NEW p \in Proc, Close(p) PROVE ServingAnswers'
  <2>1. CASE StopListening(p) BY <2>1 DEF StopListening
  <2>2. CASE RemoveOwnRecord(p) BY <2>2 DEF RemoveOwnRecord
  <2>3. CASE RemoveSocket(p) BY <2>3 DEF RemoveSocket
  <2>4. CASE Release(p) BY <2>4 DEF Release
  <2> QED
    BY <1>3, <2>1, <2>2, <2>3, <2>4
       DEF Close
<1>4. ASSUME NEW p \in Proc, Environment(p) PROVE ServingAnswers'
  <2>1. CASE Start(p) BY <2>1 DEF Start
  <2>2. CASE BeginClose(p) BY <2>2 DEF BeginClose
  <2>3. CASE Crash(p) BY <2>3 DEF Crash
  <2>4. CASE GraceElapses(p) BY <2>4 DEF GraceElapses
  <2> QED
    BY <1>4, <2>1, <2>2, <2>3, <2>4
       DEF Environment
<1>5. CASE UNCHANGED vars
  BY <1>5 DEF vars
<1> QED
  BY <1>1, <1>2, <1>3, <1>4, <1>5 DEF Next, Run

(* A serving owner answers the probe, and one that still starts up is      *)
(* younger than the grace: who passes both checks follows a dead nonce.    *)
LEMMA IncumbentIsDeadStep ==
  OwnershipInv /\ Prompt /\ [Next]_vars => IncumbentIsDead'
<1> SUFFICES ASSUME OwnershipInv, Prompt, [Next]_vars PROVE IncumbentIsDead'
  OBVIOUS
<1> USE DEF OwnershipInv, Prompt, LockKept, ReclaimMutex, LockIsHolders, OneHolder,
            ServingAnswers, IncumbentIsDead, Holding, TypeOK, PCs, Acquiring, Removing, Opening, Closing, Refused,
            Ended
<1>1. ASSUME NEW p \in Proc, Acquire(p) PROVE IncumbentIsDead'
  <2>1. CASE MakeLockDir(p) BY <2>1 DEF MakeLockDir
  <2>2. CASE LockDirExists(p) BY <2>2 DEF LockDirExists
  <2>3. CASE WriteOwner(p) BY <2>3 DEF WriteOwner
  <2>4. CASE WriteOwnerFails(p) BY <2>4 DEF WriteOwnerFails
  <2>5. CASE Claim(p) BY <2>5 DEF Claim
  <2>6. CASE ReadIncumbent(p) BY <2>6 DEF ReadIncumbent
  <2>7. CASE IncumbentUnreadable(p) BY <2>7 DEF IncumbentUnreadable
  <2>8. CASE ProbeIncumbent(p) BY <2>8 DEF ProbeIncumbent, SomeoneListens
  <2>8a. CASE AwaitAnswer(p) BY <2>8a DEF AwaitAnswer
  <2>9. CASE CheckGrace(p) BY <2>9 DEF CheckGrace
  <2>10. CASE BeginReclaim(p) BY <2>10 DEF BeginReclaim
  <2>11. CASE ReclaimBusy(p) BY <2>11 DEF ReclaimBusy
  <2>12. CASE RecheckHolds(p) BY <2>12 DEF RecheckHolds, SameIncumbent
  <2>13. CASE RecheckFails(p) BY <2>13 DEF RecheckFails, SameIncumbent
  <2>14. CASE Displace(p) BY <2>14 DEF Displace
  <2>15. CASE RemoveOwnerFile(p) BY <2>15 DEF RemoveOwnerFile
  <2>16. CASE RemoveLockDir(p) BY <2>16 DEF RemoveLockDir
  <2> QED
    BY <1>1, <2>1, <2>2, <2>3, <2>4, <2>5, <2>6, <2>7, <2>8, <2>8a, <2>9, <2>10,
       <2>11, <2>12, <2>13, <2>14, <2>15, <2>16
       DEF Acquire
<1>2. ASSUME NEW p \in Proc, Open(p) PROVE IncumbentIsDead'
  <2>1. CASE OpenState(p) BY <2>1 DEF OpenState, SomeoneListens
  <2>2. CASE OpenStateFails(p) BY <2>2 DEF OpenStateFails, SomeoneListens
  <2>3. CASE UnlinkStaleSocket(p) BY <2>3 DEF UnlinkStaleSocket
  <2>4. CASE Bind(p) BY <2>4 DEF Bind
  <2>5. CASE BindFails(p) BY <2>5 DEF BindFails
  <2>6. CASE WriteRecord(p) BY <2>6 DEF WriteRecord
  <2>7. CASE WriteRecordFails(p) BY <2>7 DEF WriteRecordFails
  <2> QED
    BY <1>2, <2>1, <2>2, <2>3, <2>4, <2>5, <2>6, <2>7
       DEF Open
<1>3. ASSUME NEW p \in Proc, Close(p) PROVE IncumbentIsDead'
  <2>1. CASE StopListening(p) BY <2>1 DEF StopListening
  <2>2. CASE RemoveOwnRecord(p) BY <2>2 DEF RemoveOwnRecord
  <2>3. CASE RemoveSocket(p) BY <2>3 DEF RemoveSocket
  <2>4. CASE Release(p) BY <2>4 DEF Release
  <2> QED
    BY <1>3, <2>1, <2>2, <2>3, <2>4
       DEF Close
<1>4. ASSUME NEW p \in Proc, Environment(p) PROVE IncumbentIsDead'
  <2>1. CASE Start(p) BY <2>1 DEF Start
  <2>2. CASE BeginClose(p) BY <2>2 DEF BeginClose
  <2>3. CASE Crash(p) BY <2>3 DEF Crash
  <2>4. CASE GraceElapses(p) BY <2>4 DEF GraceElapses
  <2> QED
    BY <1>4, <2>1, <2>2, <2>3, <2>4
       DEF Environment
<1>5. CASE UNCHANGED vars
  BY <1>5 DEF vars
<1> QED
  BY <1>1, <1>2, <1>3, <1>4, <1>5 DEF Next, Run

(* The invariant that makes the lock work is inductive for every set of    *)
(* incarnations (acquire, createOwnedLock and the start-up after it).      *)
THEOREM OwnershipInvariant == Spec => []OwnershipInv
<1>1. Init => TypeInv /\ OwnershipInv
  BY DEF Init, TypeInv, OwnershipInv, LockKept, TypeOK, ReclaimMutex, LockIsHolders,
         OneHolder, ServingAnswers, IncumbentIsDead, Holding, PCs, Acquiring,
         Removing, Opening, Closing, Refused, Ended
<1>2. TypeInv /\ OwnershipInv /\ [Next]_vars => (TypeInv /\ OwnershipInv)'
  <2> SUFFICES ASSUME TypeInv, OwnershipInv, [Next]_vars
               PROVE  TypeInv' /\ OwnershipInv'
    OBVIOUS
  <2>1. TypeInv' /\ ReclaimMutex'
    BY TypeInvStep, ReclaimMutexStep DEF OwnershipInv
  <2>2. Prompt' => Prompt
    BY DEF Next, vars, Prompt, MayClose, MaySlow
  <2>3. Prompt => LockKept'
    BY LockIsHoldersStep, OneHolderStep, ServingAnswersStep, IncumbentIsDeadStep
       DEF LockKept
  <2> QED
    BY <2>1, <2>2, <2>3 DEF OwnershipInv, TypeInv
<1> QED
  BY <1>1, <1>2, PTL DEF Spec

(* Two incarnations never hold an open, writable store of one session at   *)
(* once, as long as nobody shuts down in an orderly way and every start-up *)
(* beats the grace: crashes at any point and I/O errors do not break the   *)
(* promise of one live writer (store/session-ownership.ts).                *)
THEOREM OneWriterHolds == Spec => []OneWriter
<1>1. OwnershipInv => OneWriter
  BY DEF OwnershipInv, LockKept, OneHolder, OneWriter, Writers, Holding, Opening
<1> QED
  BY <1>1, OwnershipInvariant, PTL

=============================================================================
