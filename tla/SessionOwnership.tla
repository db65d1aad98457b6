-------------------------- MODULE SessionOwnership --------------------------
(***************************************************************************)
(* The ownership of one session directory: the lock directory of           *)
(* store/session-ownership.ts, and the start-up and shutdown of the        *)
(* process that takes it (runtime/production-integrations.ts), one file    *)
(* system call at a time.                                                  *)
(*                                                                         *)
(* A process of the model is one incarnation: every start of the program   *)
(* draws a fresh nonce, so a restart after a crash is another element of   *)
(* Proc and the nonce of an incarnation is the incarnation itself.         *)
(*                                                                         *)
(* Paths, not inodes: a call acts on whatever the path names at that       *)
(* moment.  The displaced lock.stale.<uuid> directories are left out,      *)
(* nothing reads them.                                                     *)
(***************************************************************************)
EXTENDS Naturals

CONSTANTS
  Proc,         \* the incarnations that contend for the session
  Environments, \* what may happen to which of them
  NoDir,        \* lockDir: the path does not exist
  NoOwner,      \* lockDir: the directory exists, owner.json does not
  Nobody        \* no incarnation

ASSUME SentinelAssumption ==
  /\ NoDir \notin Proc /\ NoOwner \notin Proc /\ Nobody \notin Proc
  /\ NoDir # NoOwner

ASSUME EnvironmentAssumption ==
  Environments \subseteq
    [mayClose : SUBSET Proc, maySlow : SUBSET Proc, mayFault : SUBSET Proc]

VARIABLES
  lockDir,     \* owner.lock: NoDir, NoOwner, or whose nonce owner.json holds
  reclaimDir,  \* whether owner.lock.reclaim exists
  sockFile,    \* the incarnation that bound the file c.sock, or Nobody
  record,      \* the incarnation whose control.json is on disk, or Nobody
  pc,          \* where each incarnation is
  incumbent,   \* the nonce acquire() read before its probe
  reclaiming,  \* whether the incarnation made the reclaim directory
  listening,   \* whether its control server accepts connections
  authorized,  \* socketRemovalAuthorized
  cont,        \* where a recursive removal of the lock returns to
  aged,        \* whether 5 s have passed since its owner record was made
  environment  \* which of Environments this behaviour is in

disk == <<lockDir, reclaimDir, sockFile, record>>
vars == <<disk, pc, incumbent, reclaiming, listening, authorized, cont, aged,
          environment>>

(* Who may be asked to shut down in an orderly way, who may pause for      *)
(* longer than the 5 s reclaim grace, and who may meet an I/O error.       *)
MayClose == environment.mayClose
MaySlow == environment.maySlow
MayFault == environment.mayFault

(* Nobody shuts down in order, and every start-up beats the grace. *)
Prompt == MayClose = {} /\ MaySlow = {}

Acquiring == {"mkdir", "write", "claimed", "read", "probe", "ask", "grace",
              "reclaim", "recheck", "displace"}
Removing  == {"rmFile", "rmDir"}
Opening   == {"open", "unlink", "bind", "record"}
Closing   == {"stop", "rmRecord", "rmSock", "release"}
Refused   == {"live-owner", "wedged", "failed"}
Ended     == Refused \cup {"closed", "crashed"}
PCs       == {"idle", "serving"} \cup Acquiring \cup Removing \cup Opening
               \cup Closing \cup Ended

TypeOK ==
  /\ lockDir \in Proc \cup {NoDir, NoOwner}
  /\ reclaimDir \in BOOLEAN
  /\ sockFile \in Proc \cup {Nobody}
  /\ record \in Proc \cup {Nobody}
  /\ pc \in [Proc -> PCs]
  /\ incumbent \in [Proc -> Proc \cup {Nobody}]
  /\ reclaiming \in [Proc -> BOOLEAN]
  /\ listening \in [Proc -> BOOLEAN]
  /\ authorized \in [Proc -> BOOLEAN]
  /\ cont \in [Proc -> {"none", "read", "mkdir", "failed", "closed"}]
  /\ aged \in [Proc -> BOOLEAN]
  /\ environment \in Environments

Init ==
  /\ lockDir = NoDir
  /\ reclaimDir = FALSE
  /\ sockFile = Nobody
  /\ record = Nobody
  /\ pc = [p \in Proc |-> "idle"]
  /\ incumbent = [p \in Proc |-> Nobody]
  /\ reclaiming = [p \in Proc |-> FALSE]
  /\ listening = [p \in Proc |-> FALSE]
  /\ authorized = [p \in Proc |-> FALSE]
  /\ cont = [p \in Proc |-> "none"]
  /\ aged = [p \in Proc |-> FALSE]
  /\ environment \in Environments

Transition(p, from, to) ==
  /\ pc[p] = from
  /\ pc' = [pc EXCEPT ![p] = to]

(* rmSync of the reclaim directory, when this incarnation made it. *)
DropReclaim(p) ==
  /\ reclaimDir' = (reclaimDir /\ ~reclaiming[p])
  /\ reclaiming' = [reclaiming EXCEPT ![p] = FALSE]

(***************************************************************************)
(* createOwnedLock: mkdir of the lock, then owner.json with O_EXCL.        *)
(* acquire() calls it first, and again after it displaced a stale lock;    *)
(* reclaiming tells the two calls apart.                                   *)
(***************************************************************************)
Start(p) ==
  /\ Transition(p, "idle", "mkdir")
  /\ UNCHANGED <<disk, incumbent, reclaiming, listening, authorized, cont, aged>>

MakeLockDir(p) ==
  /\ Transition(p, "mkdir", "write")
  /\ lockDir = NoDir
  /\ lockDir' = NoOwner
  /\ UNCHANGED <<reclaimDir, sockFile, record, incumbent, reclaiming,
                 listening, authorized, cont, aged>>

(* EEXIST: the first call goes on to inspect the incumbent, the call made  *)
(* inside a reclaim gives the reclaim up and acquires again.               *)
LockDirExists(p) ==
  /\ lockDir # NoDir
  /\ Transition(p, "mkdir", IF reclaiming[p] THEN "mkdir" ELSE "read")
  /\ DropReclaim(p)
  /\ UNCHANGED <<lockDir, sockFile, record, incumbent, listening, authorized,
                 cont, aged>>

WriteOwner(p) ==
  /\ Transition(p, "write", "claimed")
  /\ lockDir = NoOwner
  /\ lockDir' = p
  /\ UNCHANGED <<reclaimDir, sockFile, record, incumbent, reclaiming,
                 listening, authorized, cont, aged>>

(* owner.json cannot be created: EEXIST, ENOENT or an I/O error.  The lock *)
(* is removed and the error thrown; acquire() answers EEXIST only.         *)
WriteOwnerFails(p) ==
  /\ \/ lockDir # NoOwner
     \/ p \in MayFault
  /\ Transition(p, "write", "rmFile")
  /\ cont' = [cont EXCEPT ![p] =
       IF lockDir \notin Proc THEN "failed"
       ELSE IF reclaiming[p] THEN "mkdir" ELSE "read"]
  /\ UNCHANGED <<disk, incumbent, reclaiming, listening, authorized, aged>>

(* acquire() returns "owned"; a reclaim is over. *)
Claim(p) ==
  /\ Transition(p, "claimed", "open")
  /\ DropReclaim(p)
  /\ UNCHANGED <<lockDir, sockFile, record, incumbent, listening, authorized,
                 cont, aged>>

(***************************************************************************)
(* acquire() against an incumbent.                                         *)
(***************************************************************************)
ReadIncumbent(p) ==
  /\ lockDir \in Proc
  /\ Transition(p, "read", "probe")
  /\ incumbent' = [incumbent EXCEPT ![p] = lockDir]
  /\ UNCHANGED <<disk, reclaiming, listening, authorized, cont, aged>>

IncumbentUnreadable(p) ==
  /\ lockDir \notin Proc
  /\ Transition(p, "read", "wedged")
  /\ UNCHANGED <<disk, incumbent, reclaiming, listening, authorized, cont, aged>>

(* Mutant: a socket file is taken for a listener. *)
AnyoneListens == sockFile # Nobody

(* A connection to c.sock is refused unless the incarnation that bound the *)
(* file accepts.                                                           *)
SomeoneListens == sockFile # Nobody /\ listening[sockFile]

(* The ping of the incumbent: nobody accepts, or another incarnation than  *)
(* the incumbent, or one that control.json holds no capability of: it      *)
(* answers with another nonce or not with 200.                             *)
ProbeIncumbent(p) ==
  /\ Transition(p, "probe",
       IF ~SomeoneListens THEN "grace"
       ELSE IF sockFile = incumbent[p] /\ record = sockFile THEN "ask" ELSE "wedged")
  /\ UNCHANGED <<disk, incumbent, reclaiming, listening, authorized, cont, aged>>

(* The incumbent accepted.  It answers, or not in time, or it died or      *)
(* closed its connections first.                                           *)
AwaitAnswer(p) ==
  /\ \/ Transition(p, "ask", "live-owner") /\ listening[incumbent[p]]
     \/ Transition(p, "ask", "wedged")
  /\ UNCHANGED <<disk, incumbent, reclaiming, listening, authorized, cont, aged>>

(* Mutant: a silent owner is reclaimed without its grace. *)
CheckNoGrace(p) ==
  /\ Transition(p, "grace", "reclaim")
  /\ UNCHANGED <<disk, incumbent, reclaiming, listening, authorized, cont, aged>>

CheckGrace(p) ==
  /\ Transition(p, "grace", IF aged[incumbent[p]] THEN "reclaim" ELSE "wedged")
  /\ UNCHANGED <<disk, incumbent, reclaiming, listening, authorized, cont, aged>>

(* Mutant: the reclaim directory is made as mkdir -p does. *)
BeginReclaimAnyway(p) ==
  /\ Transition(p, "reclaim", "recheck")
  /\ reclaimDir' = TRUE
  /\ reclaiming' = [reclaiming EXCEPT ![p] = TRUE]
  /\ UNCHANGED <<lockDir, sockFile, record, incumbent, listening, authorized,
                 cont, aged>>

BeginReclaim(p) ==
  /\ Transition(p, "reclaim", "recheck")
  /\ ~reclaimDir
  /\ reclaimDir' = TRUE
  /\ reclaiming' = [reclaiming EXCEPT ![p] = TRUE]
  /\ UNCHANGED <<lockDir, sockFile, record, incumbent, listening, authorized,
                 cont, aged>>

(* Mutant: a busy reclaim is retried. *)
ReclaimRetried(p) ==
  /\ Transition(p, "reclaim", "mkdir")
  /\ reclaimDir
  /\ UNCHANGED <<disk, incumbent, reclaiming, listening, authorized, cont, aged>>

ReclaimBusy(p) ==
  /\ Transition(p, "reclaim", "wedged")
  /\ reclaimDir
  /\ UNCHANGED <<disk, incumbent, reclaiming, listening, authorized, cont, aged>>

(* Mutant: whatever owner lies there now is displaced. *)
AnyIncumbent(p) == lockDir \in Proc

(* owner.json is read again under the reclaim directory. *)
SameIncumbent(p) == lockDir = incumbent[p]

RecheckHolds(p) ==
  /\ SameIncumbent(p)
  /\ Transition(p, "recheck", "displace")
  /\ UNCHANGED <<disk, incumbent, reclaiming, listening, authorized, cont, aged>>

RecheckFails(p) ==
  /\ ~SameIncumbent(p)
  /\ Transition(p, "recheck", "mkdir")
  /\ DropReclaim(p)
  /\ UNCHANGED <<lockDir, sockFile, record, incumbent, listening, authorized,
                 cont, aged>>

(* rename of the lock directory to its stale name, whatever it now holds. *)
Displace(p) ==
  /\ Transition(p, "displace", "mkdir")
  /\ IF lockDir = NoDir
       THEN DropReclaim(p) /\ UNCHANGED lockDir
       ELSE lockDir' = NoDir /\ UNCHANGED <<reclaimDir, reclaiming>>
  /\ UNCHANGED <<sockFile, record, incumbent, listening, authorized, cont, aged>>

(***************************************************************************)
(* rmSync(lockPath, recursive, force): the children, then the directory.   *)
(***************************************************************************)
RemoveOwnerFile(p) ==
  /\ Transition(p, "rmFile", "rmDir")
  /\ lockDir' = IF lockDir \in Proc THEN NoOwner ELSE lockDir
  /\ UNCHANGED <<reclaimDir, sockFile, record, incumbent, reclaiming,
                 listening, authorized, cont, aged>>

(* A directory that filled up again answers ENOTEMPTY, which is thrown.    *)
(* Either way a reclaim that meets it is over.                             *)
RemoveLockDir(p) ==
  /\ Transition(p, "rmDir",
       IF lockDir \in Proc /\ cont[p] # "closed" THEN "failed" ELSE cont[p])
  /\ lockDir' = IF lockDir \in Proc THEN lockDir ELSE NoDir
  /\ cont' = [cont EXCEPT ![p] = "none"]
  /\ DropReclaim(p)
  /\ UNCHANGED <<sockFile, record, incumbent, listening, authorized, aged>>

(***************************************************************************)
(* controlPlaneBootstrap after "owned".  From here on the incarnation has  *)
(* a writable store.  A step that fails closes the integrations again.     *)
(***************************************************************************)
OpenState(p) ==
  /\ ~SomeoneListens
  /\ Transition(p, "open", "unlink")
  /\ authorized' = [authorized EXCEPT ![p] = TRUE]
  /\ UNCHANGED <<disk, incumbent, reclaiming, listening, cont, aged>>

(* The session socket still answers, or the store, key or probe fails.     *)
OpenStateFails(p) ==
  /\ p \in MayFault \/ SomeoneListens
  /\ Transition(p, "open", "stop")
  /\ UNCHANGED <<disk, incumbent, reclaiming, listening, authorized, cont, aged>>

UnlinkStaleSocket(p) ==
  /\ Transition(p, "unlink", "bind")
  /\ sockFile' = Nobody
  /\ UNCHANGED <<lockDir, reclaimDir, record, incumbent, reclaiming,
                 listening, authorized, cont, aged>>

Bind(p) ==
  /\ sockFile = Nobody
  /\ Transition(p, "bind", "record")
  /\ sockFile' = p
  /\ listening' = [listening EXCEPT ![p] = TRUE]
  /\ UNCHANGED <<lockDir, reclaimDir, record, incumbent, reclaiming,
                 authorized, cont, aged>>

(* The path is taken, or its mode cannot be set: the server is closed      *)
(* again, which removes the path.                                          *)
BindFails(p) ==
  /\ sockFile # Nobody \/ p \in MayFault
  /\ Transition(p, "bind", "stop")
  /\ UNCHANGED <<disk, incumbent, reclaiming, listening, authorized, cont, aged>>

WriteRecord(p) ==
  /\ Transition(p, "record", "serving")
  /\ record' = p
  /\ UNCHANGED <<lockDir, reclaimDir, sockFile, incumbent, reclaiming,
                 listening, authorized, cont, aged>>

WriteRecordFails(p) ==
  /\ p \in MayFault
  /\ Transition(p, "record", "stop")
  /\ UNCHANGED <<disk, incumbent, reclaiming, listening, authorized, cont, aged>>

(***************************************************************************)
(* close(): the listener, control.json, the socket path, the lock.         *)
(***************************************************************************)
BeginClose(p) ==
  /\ p \in MayClose
  /\ Transition(p, "serving", "stop")
  /\ UNCHANGED <<disk, incumbent, reclaiming, listening, authorized, cont, aged>>

StopListening(p) ==
  /\ Transition(p, "stop", "rmRecord")
  /\ sockFile' = IF listening[p] THEN Nobody ELSE sockFile
  /\ listening' = [listening EXCEPT ![p] = FALSE]
  /\ UNCHANGED <<lockDir, reclaimDir, record, incumbent, reclaiming,
                 authorized, cont, aged>>

RemoveOwnRecord(p) ==
  /\ Transition(p, "rmRecord", "rmSock")
  /\ record' = IF record = p THEN Nobody ELSE record
  /\ UNCHANGED <<lockDir, reclaimDir, sockFile, incumbent, reclaiming,
                 listening, authorized, cont, aged>>

RemoveSocket(p) ==
  /\ Transition(p, "rmSock", "release")
  /\ sockFile' = IF authorized[p] THEN Nobody ELSE sockFile
  /\ UNCHANGED <<lockDir, reclaimDir, record, incumbent, reclaiming,
                 listening, authorized, cont, aged>>

(* release() removes the lock when owner.json still holds its own nonce.   *)
Release(p) ==
  /\ Transition(p, "release", IF lockDir = p THEN "rmFile" ELSE "closed")
  /\ cont' = [cont EXCEPT ![p] = IF lockDir = p THEN "closed" ELSE "none"]
  /\ UNCHANGED <<disk, incumbent, reclaiming, listening, authorized, aged>>

(***************************************************************************)
(* The environment: a crash at any point, and the passing of the grace.    *)
(* A prompt incarnation reaches its listener, or gives up, within it, and  *)
(* a prompt contender reads the clock right after its probe, so that the   *)
(* owner's grace does not run out between the two.                         *)
(***************************************************************************)
Crash(p) ==
  /\ pc[p] \notin {"idle"} \cup Ended
  /\ pc' = [pc EXCEPT ![p] = "crashed"]
  /\ listening' = [listening EXCEPT ![p] = FALSE]
  /\ UNCHANGED <<disk, incumbent, reclaiming, authorized, cont, aged>>

GraceElapses(p) ==
  /\ ~aged[p]
  /\ pc[p] # "idle"
  /\ p \in MaySlow \/ pc[p] \in {"serving"} \cup Ended
  /\ \A q \in Proc \ MaySlow : pc[q] = "grace" => incumbent[q] # p
  /\ aged' = [aged EXCEPT ![p] = TRUE]
  /\ UNCHANGED <<disk, pc, incumbent, reclaiming, listening, authorized, cont>>

Acquire(p) ==
  \/ MakeLockDir(p) \/ LockDirExists(p)
  \/ WriteOwner(p) \/ WriteOwnerFails(p) \/ Claim(p)
  \/ ReadIncumbent(p) \/ IncumbentUnreadable(p)
  \/ ProbeIncumbent(p) \/ AwaitAnswer(p) \/ CheckGrace(p)
  \/ BeginReclaim(p) \/ ReclaimBusy(p)
  \/ RecheckHolds(p) \/ RecheckFails(p) \/ Displace(p)
  \/ RemoveOwnerFile(p) \/ RemoveLockDir(p)

Open(p) ==
  \/ OpenState(p) \/ OpenStateFails(p) \/ UnlinkStaleSocket(p)
  \/ Bind(p) \/ BindFails(p) \/ WriteRecord(p) \/ WriteRecordFails(p)

Close(p) ==
  \/ StopListening(p) \/ RemoveOwnRecord(p) \/ RemoveSocket(p) \/ Release(p)

Environment(p) == Start(p) \/ BeginClose(p) \/ Crash(p) \/ GraceElapses(p)

Run(p) == Acquire(p) \/ Open(p) \/ Close(p)

Next == (\E p \in Proc : Run(p) \/ Environment(p)) /\ UNCHANGED environment

Spec == Init /\ [][Next]_vars

(* A started incarnation keeps running unless it crashes. *)
FairSpec == Spec /\ \A p \in Proc : WF_vars(Run(p) /\ UNCHANGED environment)

(***************************************************************************)
(* Properties.                                                             *)
(***************************************************************************)
Writers == {p \in Proc : pc[p] \in Opening \cup {"serving"}}

(* One live writer owns a session state directory: two incarnations never  *)
(* hold an open, writable store at once, when nobody shuts down in an      *)
(* orderly way and every start-up beats the reclaim grace (acquire in      *)
(* store/session-ownership.ts).                                            *)
OneWriter == Prompt => \A p, q \in Writers : p = q

(* The stronger reading of the same promise: never two incarnations that   *)
(* completed their start-up and serve requests over one state directory    *)
(* (controlPlaneBootstrap in runtime/production-integrations.ts).          *)
OneServing == \A p, q \in Proc : pc[p] = "serving" /\ pc[q] = "serving" => p = q

(* The reclaim directory is a mutex that nobody else can open: whenever it *)
(* exists exactly one incarnation, running or dead, made it, and while     *)
(* none does nobody is past the recheck (acquire).                         *)
ReclaimMutex ==
  /\ \A p, q \in Proc : reclaiming[p] /\ reclaiming[q] => p = q
  /\ reclaimDir <=> \E p \in Proc : reclaiming[p]
  /\ \A p \in Proc : pc[p] \in {"recheck", "displace"} => reclaiming[p]

(* A dead owner blocks the session for a known cause only: when nobody     *)
(* else is running, a start-up is neither refused nor left waiting for an  *)
(* answer unless the lock vanished after the mkdir, a crash left an        *)
(* ownerless lock or the reclaim directory behind, or the dead owner's     *)
(* grace is not over (the wedged results of acquire).  A socket file or    *)
(* control.json left behind is no cause.  The one other refusal is that of *)
(* a start-up whose ping an owner accepted that ran then.                  *)
StartRefusedForCause ==
  [][\A p \in Proc :
       /\ pc[p] \in Acquiring \ {"ask"} /\ pc'[p] \in {"wedged", "ask"}
       /\ \A q \in Proc \ {p} : pc[q] \in {"idle"} \cup Ended
       => \/ lockDir = NoDir
          \/ \E q \in Proc : /\ pc[q] = "crashed"
                             /\ lockDir = NoOwner \/ reclaiming[q]
          \/ ~aged[incumbent[p]]]_vars

(* Every attempt to own the session ends: acquire() calls itself again     *)
(* only after somebody else moved, and the start-up always reaches         *)
(* serving, a refusal or a close.  An incarnation starts once, so that     *)
(* there is time and again a moment when none is in the middle of it.      *)
AttemptEnds ==
  []<>(\A p \in Proc : pc[p] \in {"idle", "serving"} \cup Ended)

(***************************************************************************)
(* The inductive invariant behind OneWriter.  A holder is an incarnation   *)
(* whose mkdir of the lock succeeded and that has neither ended nor        *)
(* removed it.                                                             *)
(***************************************************************************)
Holding == {"write", "claimed", "serving"} \cup Removing \cup Opening \cup Closing

(* The path names the directory of the one holder, at the stage it is in. *)
LockIsHolders ==
  \A p \in Proc :
    /\ pc[p] \in Holding => lockDir \in {p, NoOwner}
    /\ pc[p] \in {"write", "rmDir"} => lockDir = NoOwner
    /\ pc[p] \in {"claimed", "serving"} \cup Opening \cup Closing => lockDir = p
    /\ pc[p] \in Removing => cont[p] \in {"failed", "closed"}

OneHolder ==
  \A p, q \in Proc : pc[p] \in Holding /\ pc[q] \in Holding => p = q

(* An owner that completed its start-up can be reached until it dies. *)
ServingAnswers ==
  \A p \in Proc :
    /\ pc[p] \in {"record", "serving"} => sockFile = p /\ listening[p]
    /\ aged[p] => pc[p] \in {"serving"} \cup Ended

(* Who passed the probe and the grace check follows a dead incumbent. *)
IncumbentIsDead ==
  \A p \in Proc :
    /\ pc[p] \in {"probe", "ask", "grace", "reclaim", "recheck", "displace"} =>
         incumbent[p] \in Proc
    /\ pc[p] = "grace" =>
         pc[incumbent[p]] \in Ended \/ ~aged[incumbent[p]]
    /\ pc[p] \in {"reclaim", "recheck", "displace"} =>
         pc[incumbent[p]] \in Ended
    /\ pc[p] = "displace" => lockDir = incumbent[p]

LockKept == LockIsHolders /\ OneHolder /\ ServingAnswers /\ IncumbentIsDead

OwnershipInv ==
  /\ TypeOK
  /\ ReclaimMutex
  /\ Prompt => LockKept

=============================================================================
