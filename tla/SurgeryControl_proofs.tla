------------------------ MODULE SurgeryControl_proofs ------------------------
(***************************************************************************)
(* Batches are atomic, an occurrence has one surgery, and what a client    *)
(* was told is hidden is not sent: proofs about SurgeryControl.            *)
(***************************************************************************)
EXTENDS SurgeryControl, TLAPS

(* The receipts of a snapshot explain its surgeries, one for each          *)
(* occurrence, and every one is of an occurrence of its branch.            *)
Explained(s, cmd) ==
  /\ \A c \in Client : s.receipts[c] # 0 => cmd[c] # NoCommand
  /\ \A x \in Surgeries :
       x \in s.reversed <=> \E c \in Client :
         s.receipts[c] # 0 /\ cmd[c].kind = "restore" /\ x \in cmd[c].targets
  /\ \A x \in Surgeries :
       x \in s.committed <=>
         /\ x \notin s.reversed
         /\ s.receipts[x.by] # 0 /\ cmd[x.by].kind # "restore"
         /\ x.branch = cmd[x.by].branch /\ x.at \in cmd[x.by].targets
  /\ \A x \in s.reversed : s.receipts[x.by] # 0
  /\ \A x \in s.committed : x.at \in UNION Contents[x.branch]
  /\ \A x, y \in s.committed : x.at = y.at => x = y

(* Whoever was told of a receipt finds it in memory and in the file. *)
Known ==
  /\ \A c \in Client : state.receipts[c] # 0 => disk.receipts[c] # 0
  /\ \A c \in Client : answer[c] = "committed" => state.receipts[c] # 0

Observable == \A b \in Branch : catalog[b] \in Contents[b] \cup {Unobserved}

Sent == \A c \in Client : wire[c] # {} => command[c] # NoCommand

IInv ==
  /\ TypeOK
  /\ Explained(state, command) /\ Explained(disk, command)
  /\ Known /\ Observable /\ Sent

(***************************************************************************)
(* One snapshot.                                                           *)
(***************************************************************************)
(* The next snapshot of a permitted command is a snapshot. *)
LEMMA NextIsSnapshot ==
  ASSUME TypeOK, NEW c \in Client, command[c] # NoCommand, Permitted(command[c])
  PROVE  NextSnapshot(c) \in Snapshots
<1>1. command[c] \in Commands
  BY DEF TypeOK
<1>2. CASE command[c].kind = "restore"
  <2>1. command[c].targets \subseteq state.committed
    BY <1>2 DEF Permitted, Reversible, Active
  <2>2. NextSnapshot(c) =
          [revision |-> state.revision + 1, seen |-> state.seen,
           committed |-> state.committed \ command[c].targets,
           reversed |-> state.reversed \cup command[c].targets,
           receipts |-> [state.receipts EXCEPT ![c] = state.revision + 1]]
    BY <1>2 DEF TypeOK, Snapshots, NextSnapshot
  <2> QED
    BY <2>1, <2>2 DEF TypeOK, Snapshots
<1>3. CASE command[c].kind # "restore"
  <2>1. command[c].branch \in Branch /\ command[c].targets \in SUBSET Occurrence
    BY <1>1, <1>3 DEF Commands
  <2>2. Ordered(c, command[c]) \subseteq Surgeries
    BY <2>1 DEF Ordered, Surgeries
  <2>3. NextSnapshot(c) =
          [revision |-> state.revision + 1, seen |-> state.seen,
           committed |-> state.committed \cup Ordered(c, command[c]),
           reversed |-> state.reversed,
           receipts |-> [state.receipts EXCEPT ![c] = state.revision + 1]]
    BY <1>3 DEF TypeOK, Snapshots, NextSnapshot
  <2> QED
    BY <2>2, <2>3 DEF TypeOK, Snapshots
<1> QED
  BY <1>2, <1>3

(* A permitted batch, or reversal, leaves its snapshot explained. *)
LEMMA NextIsExplained ==
  ASSUME IInv, NEW c \in Client, command[c] # NoCommand,
         ~Retried(c), Permitted(command[c])
  PROVE  Explained(NextSnapshot(c), command)
<1> DEFINE cmd == command[c]
           next == NextSnapshot(c)
<1>1. cmd \in Commands /\ state \in Snapshots
  BY DEF IInv, TypeOK
<1>2. /\ next.receipts = [state.receipts EXCEPT ![c] = state.revision + 1]
      /\ state.revision + 1 # 0
      /\ next.receipts \in [Client -> Nat]
  BY <1>1 DEF NextSnapshot, Snapshots
<1>3. /\ state.receipts[c] = 0
      /\ \A d \in Client : next.receipts[d] # 0 <=> (d = c \/ state.receipts[d] # 0)
  BY <1>1, <1>2 DEF Retried, Snapshots
<1>4. \A x \in state.committed \cup state.reversed : x \in Surgeries /\ x.by \in Client
  BY <1>1 DEF Snapshots, Surgeries
<1>5. Explained(state, command)
  BY DEF IInv
<1>6. CASE cmd.kind = "restore"
  <2>1. /\ next.committed = state.committed \ cmd.targets
        /\ next.reversed = state.reversed \cup cmd.targets
    BY <1>1, <1>6 DEF NextSnapshot, Snapshots
  <2>2. cmd.targets \subseteq state.committed
    BY <1>6 DEF Permitted, Reversible, Active
  <2>3. \A x \in state.committed : state.receipts[x.by] # 0
    BY <1>4, <1>5 DEF Explained
  <2> HIDE DEF next
  <2>4. \A x \in Surgeries :
          x \in next.reversed <=> \E d \in Client :
            next.receipts[d] # 0 /\ command[d].kind = "restore"
            /\ x \in command[d].targets
    BY <1>3, <1>5, <1>6, <2>1 DEF Explained
  <2>5. \A x \in Surgeries :
          x \in next.committed <=>
            /\ x \notin next.reversed
            /\ next.receipts[x.by] # 0 /\ command[x.by].kind # "restore"
            /\ x.branch = command[x.by].branch /\ x.at \in command[x.by].targets
    BY <1>3, <1>5, <1>6, <2>1 DEF Explained, Surgeries
  <2>6. \A x \in next.reversed : next.receipts[x.by] # 0
    BY <1>3, <1>4, <1>5, <2>1, <2>2, <2>3 DEF Explained
  <2> QED
    BY <1>3, <1>5, <2>1, <2>4, <2>5, <2>6 DEF Explained, next
<1>7. CASE cmd.kind # "restore"
  <2>1. /\ next.committed = state.committed \cup Ordered(c, cmd)
        /\ next.reversed = state.reversed
    BY <1>1, <1>7 DEF NextSnapshot, Snapshots
  <2>2. cmd.branch \in Branch /\ cmd.targets \in SUBSET Occurrence
    BY <1>1, <1>7 DEF Commands
  <2>3. /\ cmd.targets \subseteq catalog[cmd.branch]
        /\ \A x \in state.committed : x.branch = cmd.branch => x.at \notin cmd.targets
    BY <1>7 DEF Permitted, Acceptable, SurgeriesAt, Active
  <2>4. cmd.targets \subseteq UNION Contents[cmd.branch]
    BY <2>2, <2>3 DEF IInv, Observable, Unobserved
  <2>5. \A x \in Surgeries : x \in Ordered(c, cmd) <=>
          x.by = c /\ x.branch = cmd.branch /\ x.at \in cmd.targets
    BY <2>2 DEF Ordered, Surgeries
  <2>6. Ordered(c, cmd) \subseteq Surgeries
    BY <2>2 DEF Ordered, Surgeries
  <2>7. \A x \in Surgeries : x.by = c => x \notin state.reversed /\ x \notin state.committed
    BY <1>3, <1>5 DEF Explained
  <2> HIDE DEF next
  <2>8. \A x \in Surgeries :
          x \in next.reversed <=> \E d \in Client :
            next.receipts[d] # 0 /\ command[d].kind = "restore"
            /\ x \in command[d].targets
    BY <1>3, <1>5, <1>7, <2>1 DEF Explained
  <2>9. \A x \in Surgeries :
          x \in next.committed <=>
            /\ x \notin next.reversed
            /\ next.receipts[x.by] # 0 /\ command[x.by].kind # "restore"
            /\ x.branch = command[x.by].branch /\ x.at \in command[x.by].targets
    BY <1>3, <1>5, <1>7, <2>1, <2>5, <2>7 DEF Explained, Surgeries
  <2>10. \A x \in next.reversed : next.receipts[x.by] # 0
    BY <1>3, <1>4, <1>5, <2>1 DEF Explained
  <2>11. \A x \in next.committed : x.at \in UNION Contents[x.branch]
    BY <1>5, <2>1, <2>4, <2>5, <2>6 DEF Explained
  <2>12. \A x \in state.committed : \A y \in Ordered(c, cmd) : x.at # y.at
    <3> TAKE x \in state.committed
    <3> TAKE y \in Ordered(c, cmd)
    <3>1. y.branch = cmd.branch /\ y.at \in cmd.targets
      BY <2>5, <2>6
    <3>2. x.at \in UNION Contents[x.branch]
      BY <1>5 DEF Explained
    <3> x.branch \in Branch
      BY <1>4 DEF Surgeries
    <3>3. CASE x.branch = cmd.branch
      BY <2>3, <3>1, <3>3
    <3>4. CASE x.branch # cmd.branch
      BY <2>2, <2>4, <3>1, <3>2, <3>4, ContentsAssumption
    <3> QED
      BY <3>3, <3>4
  <2>13. \A x, y \in Ordered(c, cmd) : x.at = y.at => x = y
    BY DEF Ordered
  <2>14. \A x, y \in next.committed : x.at = y.at => x = y
    BY <1>5, <2>1, <2>12, <2>13 DEF Explained
  <2>15. \A d \in Client : next.receipts[d] # 0 => command[d] # NoCommand
    BY <1>3, <1>5 DEF Explained
  <2> QED
    BY <2>8, <2>9, <2>10, <2>11, <2>14, <2>15 DEF Explained, next
<1> QED
  BY <1>6, <1>7

(* What does not touch surgeries, receipts and the commands they are of    *)
(* leaves a snapshot explained.                                            *)
LEMMA StaysExplained ==
  ASSUME NEW s \in Snapshots, NEW t \in Snapshots, NEW cmd, NEW new,
         Explained(s, cmd),
         t.committed = s.committed, t.reversed = s.reversed,
         t.receipts = s.receipts,
         \A c \in Client : s.receipts[c] # 0 => new[c] = cmd[c]
  PROVE  Explained(t, new)
<1>1. \A c \in Client : t.receipts[c] # 0 => new[c] = cmd[c]
  OBVIOUS
<1>2. \A c \in Client : t.receipts[c] # 0 => new[c] # NoCommand
  BY <1>1 DEF Explained
<1>3. \A x \in Surgeries :
        x \in t.reversed <=> \E c \in Client :
          t.receipts[c] # 0 /\ new[c].kind = "restore" /\ x \in new[c].targets
  BY <1>1 DEF Explained
<1>4. \A x \in Surgeries : x.by \in Client
  BY DEF Surgeries
<1>5. \A x \in Surgeries :
        x \in t.committed <=>
          /\ x \notin t.reversed
          /\ t.receipts[x.by] # 0 /\ new[x.by].kind # "restore"
          /\ x.branch = new[x.by].branch /\ x.at \in new[x.by].targets
  BY <1>1, <1>4 DEF Explained
<1> QED
  BY <1>2, <1>3, <1>5 DEF Explained

(* Nothing a client sends and nothing a request commits is malformed. *)
LEMMA BuiltIsCommand ==
  ASSUME TypeOK, NEW b \in Branch, NEW kind \in {"evict", "replace", "restore"},
         NEW chosen \in SUBSET catalog[b], NEW complete \in BOOLEAN,
         kind # "evict" => complete
  PROVE  Built(b, kind, chosen, complete) \in Commands
<1>1. /\ state.revision \in Nat /\ catalog[b] \in SUBSET Occurrence
      /\ chosen \in SUBSET Occurrence
      /\ SurgeriesAt(state, b, chosen) \in SUBSET Surgeries
  BY DEF TypeOK, Snapshots, SurgeriesAt, Active
<1>2. CASE kind = "restore"
  <2>1. Built(b, kind, chosen, complete) =
          [kind |-> "restore", branch |-> b, revision |-> state.revision,
           seen |-> catalog[b], targets |-> SurgeriesAt(state, b, chosen),
           complete |-> TRUE]
    BY <1>2 DEF Built
  <2> QED
    BY <1>1, <2>1 DEF Commands
<1>3. CASE kind # "restore"
  <2>1. Built(b, kind, chosen, complete) =
          [kind |-> kind, branch |-> b, revision |-> state.revision,
           seen |-> catalog[b], targets |-> chosen, complete |-> complete]
    BY <1>3 DEF Built
  <2>2. kind \in {"evict", "replace"}
    BY <1>3
  <2>3. [kind |-> kind, branch |-> b, revision |-> state.revision,
         seen |-> catalog[b], targets |-> chosen, complete |-> complete] \in
          [kind : {"evict", "replace"}, branch : Branch, revision : Nat,
           seen : SUBSET Occurrence, targets : SUBSET Occurrence,
           complete : BOOLEAN]
    BY <1>1, <2>2, Zenon
  <2> QED
    BY <2>1, <2>3, Zenon DEF Commands
<1> QED
  BY <1>2, <1>3

LEMMA ObservedIsSnapshot ==
  ASSUME TypeOK, NEW b \in Branch, NEW content \in Contents[b]
  PROVE  /\ Observed(b, content) \in Snapshots
         /\ Observed(b, content).committed = state.committed
         /\ Observed(b, content).reversed = state.reversed
         /\ Observed(b, content).receipts = state.receipts
<1>1. state \in Snapshots
  BY DEF TypeOK
<1>2. PICK after \in [Branch -> SUBSET Occurrence] :
        after = [state.seen EXCEPT ![b] = content]
  BY <1>1, ContentsAssumption DEF Snapshots
<1>3. Observed(b, content) = [state EXCEPT !.revision = @ + 1, !.seen = after]
  BY <1>2 DEF Observed
<1>4. Observed(b, content) =
        [revision |-> state.revision + 1, seen |-> after,
         committed |-> state.committed, reversed |-> state.reversed,
         receipts |-> state.receipts]
  BY <1>1, <1>3 DEF Snapshots
<1> QED
  BY <1>1, <1>2, <1>4 DEF Snapshots

LEMMA CompileDispatches ==
  ASSUME NEW s \in Snapshots, NEW b \in Branch, NEW content \in Contents[b],
         dispatched \in Dispatches \cup {NoDispatch}, Compile(s, b, content)
  PROVE  dispatched' \in Dispatches \cup {NoDispatch}
<1> DEFINE applied == {x.at : x \in Active(s, b)}
<1>1. content \in SUBSET Occurrence /\ s.revision \in Nat
  BY ContentsAssumption DEF Snapshots
<1>2. CASE applied \subseteq content
  <2>1. dispatched' = [revision |-> s.revision, branch |-> b,
                       content |-> content, applied |-> applied]
    BY <1>2 DEF Compile
  <2> QED
    BY <1>1, <1>2, <2>1 DEF Dispatches
<1>3. CASE ~(applied \subseteq content)
  BY <1>3 DEF Compile
<1> QED
  BY <1>2, <1>3

(***************************************************************************)
(* Every step.                                                             *)
(***************************************************************************)
LEMMA InitEstablishes == Init => IInv
<1> SUFFICES ASSUME Init PROVE IInv
  OBVIOUS
<1>1. EmptySnapshot \in Snapshots
  BY DEF EmptySnapshot, Snapshots, Unobserved
<1>2. TypeOK
  BY <1>1, BoundAssumption DEF Init, TypeOK, Unobserved
<1>3. Explained(EmptySnapshot, command)
  BY DEF EmptySnapshot, Explained, Surgeries
<1> QED
  BY <1>2, <1>3 DEF IInv, Init, Known, Observable, Sent, EmptySnapshot

LEMMA ClientSteps ==
  ASSUME IInv, NEW c \in Client, Prepare(c) \/ Send(c) \/ GiveUp(c)
  PROVE  IInv'
<1> state \in Snapshots /\ disk \in Snapshots
  BY DEF IInv, TypeOK
<1>1. CASE Prepare(c)
  <2>0. PICK b \in Branch : \E kind \in {"evict", "replace", "restore"} :
          \E chosen \in SUBSET catalog[b] : \E complete \in BOOLEAN :
            /\ kind # "evict" => complete
            /\ command' = [command EXCEPT ![c] = Built(b, kind, chosen, complete)]
    BY <1>1 DEF Prepare
  <2>1. PICK kind \in {"evict", "replace", "restore"},
             chosen \in SUBSET catalog[b], complete \in BOOLEAN :
          /\ kind # "evict" => complete
          /\ command' = [command EXCEPT ![c] = Built(b, kind, chosen, complete)]
    BY <2>0
  <2>2. Built(b, kind, chosen, complete) \in Commands
    BY <2>1, BuiltIsCommand DEF IInv
  <2>3. TypeOK'
    BY <1>1, <2>1, <2>2 DEF IInv, TypeOK, Prepare, service, bounds
  <2>4. \A d \in Client : command[d] # NoCommand => command'[d] = command[d]
    BY <1>1, <2>1 DEF IInv, TypeOK, Prepare
  <2>5. Built(b, kind, chosen, complete) # NoCommand
    BY DEF Built, NoCommand
  <2>6. /\ \A d \in Client : state.receipts[d] # 0 => command'[d] = command[d]
        /\ \A d \in Client : disk.receipts[d] # 0 => command'[d] = command[d]
        /\ Explained(state, command) /\ Explained(disk, command)
    BY <2>4 DEF IInv, Explained
  <2>8. Explained(state, command')
    BY <2>6, StaysExplained
  <2>9. Explained(disk, command')
    BY <2>6, StaysExplained
  <2>7. Sent'
    BY <1>1, <2>1, <2>4, <2>5 DEF IInv, TypeOK, Sent, Prepare
  <2> QED
    BY <1>1, <2>3, <2>7, <2>8, <2>9 DEF IInv, Prepare, Known, Observable, service
<1>2. CASE Send(c)
  <2>1. TypeOK'
    BY <1>2, BoundAssumption DEF IInv, TypeOK, Send, service, bounds
  <2>2. Sent'
    BY <1>2 DEF IInv, TypeOK, Sent, Send
  <2> QED
    BY <1>2, <2>1, <2>2 DEF IInv, Send, Known, Observable, service
<1>3. CASE GiveUp(c)
  <2>1. TypeOK'
    BY <1>3 DEF IInv, TypeOK, GiveUp, service, bounds
  <2> QED
    BY <1>3, <2>1 DEF IInv, TypeOK, GiveUp, Known, Observable, Sent, service
<1> QED
  BY <1>1, <1>2, <1>3

LEMMA HandleSteps ==
  ASSUME IInv, NEW c \in Client, NEW n \in 1 .. Attempts, Handle(c, n)
  PROVE  IInv'
<1> DEFINE next == NextSnapshot(c)
<1>1. state \in Snapshots /\ disk \in Snapshots /\ TypeOK
  BY DEF IInv, TypeOK
<1>2. command[c] # NoCommand
  BY DEF IInv, Sent, Handle
<1>3. /\ wire' = [wire EXCEPT ![c] = @ \ {n}]
      /\ UNCHANGED <<catalog, dispatched, command, attempt, bounds>>
  BY DEF Handle
<1>4. ASSUME ~Retried(c), Permitted(command[c])
      PROVE  /\ next \in Snapshots /\ Explained(next, command)
             /\ next.receipts = [state.receipts EXCEPT ![c] = state.revision + 1]
             /\ \A d \in Client : next.receipts[d] # 0 <=>
                  (d = c \/ state.receipts[d] # 0)
  <2>1. next \in Snapshots /\ Explained(next, command)
    BY <1>1, <1>2, <1>4, NextIsSnapshot, NextIsExplained
  <2>2. next.receipts = [state.receipts EXCEPT ![c] = state.revision + 1]
    BY <1>1 DEF NextSnapshot, Snapshots
  <2>3. state.revision + 1 # 0
    BY <1>1 DEF Snapshots
  <2> HIDE DEF next
  <2> QED
    BY <1>1, <2>1, <2>2, <2>3 DEF Snapshots
<1> HIDE DEF next
<1>5. \E result \in {"committed", "rejected", "failed"} :
        /\ Respond(c, n, result)
        /\ \/ UNCHANGED <<state, disk>>
              /\ (result = "committed" => state.receipts[c] # 0)
           \/ ~Retried(c) /\ Permitted(command[c])
              /\ state' = next /\ disk' = next
           \/ ~Retried(c) /\ Permitted(command[c]) /\ result = "failed"
              /\ state' = state /\ disk' \in {disk, next}
  BY DEF Handle, Retried, Persist, PersistFails, next
<1>6. /\ state' \in Snapshots /\ disk' \in Snapshots
      /\ Explained(state', command) /\ Explained(disk', command)
  BY <1>1, <1>4, <1>5 DEF IInv
<1>7. /\ answer' \in [Client -> {"none", "committed", "rejected", "failed", "unknown"}]
      /\ \A d \in Client : d # c => answer'[d] = answer[d]
  BY <1>1, <1>5 DEF TypeOK, Respond
<1>8. TypeOK'
  BY <1>1, <1>3, <1>6, <1>7 DEF TypeOK, bounds
<1>9. Known'
  <2>1. ASSUME NEW d \in Client, state'.receipts[d] # 0
        PROVE  disk'.receipts[d] # 0
    BY <1>4, <1>5, <2>1 DEF IInv, Known
  <2>2. ASSUME NEW d \in Client, answer'[d] = "committed"
        PROVE  state'.receipts[d] # 0
    BY <1>1, <1>4, <1>5, <2>2 DEF IInv, Known, Respond, TypeOK
  <2> QED
    BY <2>1, <2>2 DEF Known
<1>10. Sent'
  BY <1>1, <1>3 DEF IInv, Sent, TypeOK
<1> QED
  BY <1>3, <1>6, <1>8, <1>9, <1>10 DEF IInv, Observable

LEMMA RequestSteps ==
  ASSUME IInv, NEW b \in Branch, NEW content \in Contents[b],
         ModelRequest(b, content)
  PROVE  IInv'
<1> DEFINE next == Observed(b, content)
<1>1. state \in Snapshots /\ disk \in Snapshots /\ TypeOK
  BY DEF IInv, TypeOK
<1>2. /\ next \in Snapshots /\ Explained(next, command)
      /\ next.receipts = state.receipts
  BY <1>1, ObservedIsSnapshot, StaysExplained DEF IInv
<1>3. /\ catalog' = [catalog EXCEPT ![b] = content]
      /\ content \in SUBSET Occurrence
      /\ requests < MaxRequests /\ requests' = requests + 1
      /\ UNCHANGED <<command, attempt, wire, answer, restarts>>
  BY ContentsAssumption DEF ModelRequest, clients
<1>4. failures' \in 0 .. MaxFailures
  BY <1>1, BoundAssumption DEF ModelRequest, TypeOK
<1>5. dispatched' \in Dispatches \cup {NoDispatch}
  <2>1. dispatched \in Dispatches \cup {NoDispatch}
    BY <1>1 DEF TypeOK
  <2>2. CASE Compile(state, b, content)
    BY <1>1, <2>1, <2>2, CompileDispatches
  <2>3. CASE Persist(next) /\ Compile(state', b, content)
    BY <1>2, <2>1, <2>3, CompileDispatches DEF Persist
  <2>4. CASE UNCHANGED dispatched
    BY <2>1, <2>4
  <2> QED
    BY <2>2, <2>3, <2>4 DEF ModelRequest
<1> HIDE DEF next
<1>6. \/ UNCHANGED <<state, disk>>
      \/ state' = next /\ disk' = next
      \/ state' = state /\ disk' \in {disk, next}
  BY DEF ModelRequest, Persist, PersistFails, next
<1>7. /\ state' \in Snapshots /\ disk' \in Snapshots
      /\ Explained(state', command) /\ Explained(disk', command)
  BY <1>1, <1>2, <1>6 DEF IInv
<1>8. TypeOK'
  BY <1>1, <1>3, <1>4, <1>5, <1>7, BoundAssumption DEF TypeOK
<1>9. Known'
  BY <1>2, <1>3, <1>6 DEF IInv, Known
<1>10. Observable'
  BY <1>1, <1>3 DEF IInv, Observable, TypeOK
<1> QED
  BY <1>3, <1>7, <1>8, <1>9, <1>10 DEF IInv, Sent

LEMMA RestartSteps == IInv /\ Restart => IInv'
<1> SUFFICES ASSUME IInv, Restart PROVE IInv'
  OBVIOUS
<1>1. /\ state' = disk /\ disk' = disk
      /\ UNCHANGED <<command, attempt, dispatched, requests, failures>>
  BY DEF Restart
<1>2. /\ wire' = [c \in Client |-> {}]
      /\ catalog' = [b \in Branch |-> Unobserved]
  BY DEF Restart
<1>3. \A c \in Client :
        answer'[c] = "committed" => disk.receipts[c] # 0
  BY DEF IInv, Known, Restart
<1>4. answer' \in [Client -> {"none", "committed", "rejected", "failed", "unknown"}]
  BY DEF IInv, TypeOK, Restart
<1>5. TypeOK'
  BY <1>1, <1>2, <1>4, BoundAssumption DEF IInv, TypeOK, Restart, Unobserved
<1> QED
  BY <1>1, <1>2, <1>3, <1>5 DEF IInv, Known, Observable, Sent, Unobserved

LEMMA StepKeeps == IInv /\ [Next]_vars => IInv'
<1> SUFFICES ASSUME IInv, [Next]_vars PROVE IInv'
  OBVIOUS
<1>1. CASE \E c \in Client : Prepare(c) \/ Send(c) \/ GiveUp(c)
  BY <1>1, ClientSteps
<1>2. CASE \E c \in Client : \E n \in 1 .. Attempts : Handle(c, n)
  BY <1>2, HandleSteps
<1>3. CASE \E b \in Branch : \E content \in Contents[b] : ModelRequest(b, content)
  BY <1>3, RequestSteps
<1>4. CASE Restart
  BY <1>4, RestartSteps
<1>5. CASE UNCHANGED vars
  BY <1>5 DEF IInv, TypeOK, Known, Observable, Sent, vars, service, clients, bounds
<1> QED
  BY <1>1, <1>2, <1>3, <1>4, <1>5 DEF Next

LEMMA IInvHolds == Spec => []IInv
BY InitEstablishes, StepKeeps, PTL DEF Spec

(***************************************************************************)
(* What clients were told, as long as the commits of the model requests    *)
(* succeed.                                                                *)
(***************************************************************************)
(* A copy of the command is on its way, or may still be sent. *)
Pending(c) == command[c] # NoCommand /\ (wire[c] # {} \/ answer[c] = "none")

CatalogIsCommitted == \A b \in Branch : catalog[b] \in {Unobserved, state.seen[b]}

(* A command whose revision is the current one is about the current request. *)
SeenIsCurrent ==
  \A c \in Client : Pending(c) =>
    /\ catalog[command[c].branch] # Unobserved
    /\ command[c].revision <= state.revision
    /\ command[c].revision = state.revision =>
         catalog[command[c].branch] = command[c].seen

(* The file is ahead only by a command that its next copy would commit. *)
AheadIsPermitted ==
  \A c \in Client :
    state.receipts[c] = 0 /\ disk.receipts[c] # 0 => Permitted(command[c])

(* No later copy of a refused command is permitted. *)
RefusedStaysRefused ==
  \A c \in Client : answer[c] = "rejected" =>
    /\ state.receipts[c] = 0 /\ disk.receipts[c] = 0
    /\ wire[c] # {} => ~Permitted(command[c])

Told ==
  /\ CatalogIsCommitted
  /\ SeenIsCurrent
  /\ AheadIsPermitted
  /\ RefusedStaysRefused

TInv == IInv /\ (failures = 0 => Told)

(* Whether a command is permitted depends on the snapshot and its branch. *)
LEMMA PermittedStays ==
  ASSUME NEW c, state' = state, command'[c] = command[c],
         catalog'[command[c].branch] = catalog[command[c].branch]
  PROVE  Permitted(command[c])' <=> Permitted(command[c])
BY DEF Permitted, Timely, Acceptable, Reversible, SurgeriesAt, Active

(* The command of a client that has one is of a branch and a revision. *)
LEMMA CommandTypes ==
  ASSUME TypeOK, NEW c \in Client, command[c] # NoCommand
  PROVE  command[c].branch \in Branch /\ command[c].revision \in Nat
<1>1. command[c] \in Commands
  BY DEF TypeOK
<1> QED
  BY <1>1 DEF Commands

LEMMA ClientsAreTold ==
  ASSUME IInv, Told, NEW c \in Client, Prepare(c) \/ Send(c) \/ GiveUp(c)
  PROVE  Told'
<1>0. /\ UNCHANGED <<state, disk, catalog>>
      /\ state.revision \in Nat
  BY DEF IInv, TypeOK, Snapshots, Prepare, Send, GiveUp, service
<1>1. CASE Prepare(c)
  <2>0. PICK b \in Branch : \E kind \in {"evict", "replace", "restore"} :
          \E chosen \in SUBSET catalog[b] : \E complete \in BOOLEAN :
            /\ catalog[b] # Unobserved
            /\ command' = [command EXCEPT ![c] = Built(b, kind, chosen, complete)]
    BY <1>1 DEF Prepare
  <2>1. PICK kind \in {"evict", "replace", "restore"},
             chosen \in SUBSET catalog[b], complete \in BOOLEAN :
          /\ catalog[b] # Unobserved
          /\ command' = [command EXCEPT ![c] = Built(b, kind, chosen, complete)]
    BY <2>0
  <2> DEFINE new == Built(b, kind, chosen, complete)
  <2>8. /\ command' = [command EXCEPT ![c] = new]
        /\ new.branch = b /\ new.revision = state.revision
        /\ new.seen = catalog[b] /\ catalog[b] # Unobserved
    BY <2>1 DEF Built
  <2> HIDE DEF new
  <2>2. /\ command[c] = NoCommand /\ wire' = wire /\ answer' = answer
        /\ command'[c] = new
        /\ \A d \in Client : d # c => command'[d] = command[d]
    BY <1>1, <2>8 DEF Prepare, IInv, TypeOK
  <2>3. disk.receipts[c] = 0 /\ wire[c] = {}
    BY <2>2 DEF IInv, Explained, Sent
  <2>4. CatalogIsCommitted'
    BY <1>0 DEF Told, CatalogIsCommitted
  <2>5. SeenIsCurrent'
    BY <1>0, <2>8, <2>2 DEF Told, SeenIsCurrent, Pending
  <2>6. AheadIsPermitted'
    BY <1>0, <2>2, <2>3, PermittedStays DEF Told, AheadIsPermitted
  <2>7. RefusedStaysRefused'
    BY <1>0, <2>2, <2>3, PermittedStays DEF Told, RefusedStaysRefused
  <2> QED
    BY <2>4, <2>5, <2>6, <2>7 DEF Told
<1>2. CASE Send(c) \/ GiveUp(c)
  <2>1. command' = command
    BY <1>2 DEF Send, GiveUp
  <2>2. /\ \A d \in Client : answer'[d] = "rejected" => answer[d] = "rejected"
        /\ \A d \in Client : answer'[d] = "none" => answer[d] = "none"
        /\ \A d \in Client : wire'[d] = wire[d] \/ answer[d] = "none"
        /\ \A d \in Client : answer'[d] = answer[d] \/ answer'[d] = "unknown"
    BY <1>2 DEF Send, GiveUp, IInv, TypeOK
  <2>3. CatalogIsCommitted' /\ AheadIsPermitted'
    BY <1>0, <2>1, PermittedStays DEF Told, CatalogIsCommitted, AheadIsPermitted
  <2>4. SeenIsCurrent'
    BY <1>0, <2>1, <2>2 DEF Told, SeenIsCurrent, Pending
  <2>5. RefusedStaysRefused'
    BY <1>0, <2>1, <2>2, PermittedStays DEF Told, RefusedStaysRefused
  <2> QED
    BY <2>3, <2>4, <2>5 DEF Told
<1> QED
  BY <1>1, <1>2

(* Handling a copy: either the snapshot stays, and with it what is         *)
(* permitted, or it grows by one revision, which refuses every other       *)
(* command that is pending.                                                *)
LEMMA HandlersAreTold ==
  ASSUME IInv, Told, NEW c \in Client, NEW n \in 1 .. Attempts, Handle(c, n)
  PROVE  Told'
<1> DEFINE next == NextSnapshot(c)
<1>1. /\ UNCHANGED <<catalog, command>>
      /\ wire' = [wire EXCEPT ![c] = @ \ {n}]
      /\ command[c] # NoCommand /\ wire[c] # {}
  BY DEF Handle, IInv, Sent
<1>2. /\ state \in Snapshots /\ state.revision \in Nat
      /\ state.receipts \in [Client -> Nat]
      /\ wire \in [Client -> SUBSET (1 .. Attempts)]
  BY DEF IInv, TypeOK, Snapshots
<1>3. Pending(c)
  BY <1>1 DEF Pending
<1>4. /\ next.revision = state.revision + 1 /\ next.seen = state.seen
      /\ next.receipts[c] # 0
      /\ \A d \in Client : d # c => next.receipts[d] = state.receipts[d]
  BY <1>2 DEF NextSnapshot, Snapshots
<1> HIDE DEF next
<1>5. /\ \A d \in Client : wire'[d] # {} => wire[d] # {}
      /\ \A d \in Client : answer'[d] = "none" => answer[d] = "none"
      /\ \A d \in Client : d # c => answer'[d] = answer[d]
  BY <1>1, <1>2 DEF Handle, Respond, IInv, TypeOK
<1>6. \A d \in Client : Pending(d)' => Pending(d)
  BY <1>1, <1>5 DEF Pending
<1>7. CASE UNCHANGED <<state, disk>>
  <2>1. CatalogIsCommitted' /\ SeenIsCurrent'
    BY <1>1, <1>6, <1>7 DEF Told, CatalogIsCommitted, SeenIsCurrent
  <2>2. AheadIsPermitted'
    BY <1>1, <1>7, PermittedStays DEF Told, AheadIsPermitted
  <2>3. answer'[c] = "rejected" =>
          answer[c] = "rejected" \/ (~Retried(c) /\ ~Permitted(command[c]))
    BY DEF Handle, Respond, IInv, TypeOK
  <2>4. ~Retried(c) /\ ~Permitted(command[c]) =>
          state.receipts[c] = 0 /\ disk.receipts[c] = 0
    BY DEF Told, AheadIsPermitted, Retried
  <2>5. RefusedStaysRefused'
    BY <1>1, <1>5, <1>7, <2>3, <2>4, PermittedStays DEF Told, RefusedStaysRefused
  <2> QED
    BY <2>1, <2>2, <2>5 DEF Told
<1>8. CASE ~Retried(c) /\ Permitted(command[c]) /\ Respond(c, n, "committed")
           /\ state' = next /\ disk' = next
  <2>1. answer[c] # "rejected"
    BY <1>1, <1>8 DEF Told, RefusedStaysRefused
  <2>2. answer'[c] # "rejected"
    BY <1>8, <2>1 DEF Respond, IInv, TypeOK
  <2>3. CatalogIsCommitted'
    BY <1>1, <1>4, <1>8 DEF Told, CatalogIsCommitted
  <2>4. \A d \in Client : Pending(d) => command[d].revision \in Nat
    BY CommandTypes DEF Pending, IInv
  <2>5. \A d \in Client : Pending(d) => command[d].revision < state'.revision
    BY <1>2, <1>4, <1>8, <2>4 DEF Told, SeenIsCurrent
  <2>6. SeenIsCurrent'
    BY <1>1, <1>2, <1>4, <1>6, <1>8, <2>4, <2>5 DEF Told, SeenIsCurrent
  <2>7. AheadIsPermitted'
    BY <1>8 DEF AheadIsPermitted
  <2>8. ASSUME NEW d \in Client, d # c, wire[d] # {}
        PROVE  ~Permitted(command[d])'
    <3>1. command[d] # NoCommand
      BY <2>8 DEF IInv, Sent
    <3>2. command'[d].revision # state'.revision
      BY <1>1, <1>2, <1>4, <1>8, <2>4, <2>5, <2>8, <3>1 DEF Pending
    <3> QED
      BY <3>2 DEF Permitted, Timely
  <2>9. RefusedStaysRefused'
    BY <1>1, <1>4, <1>5, <1>8, <2>2, <2>8 DEF Told, RefusedStaysRefused
  <2> QED
    BY <2>3, <2>6, <2>7, <2>9 DEF Told
<1>9. CASE ~Retried(c) /\ Permitted(command[c]) /\ Respond(c, n, "failed")
           /\ state' = state /\ disk' \in {disk, next}
  <2>1. answer[c] # "rejected"
    BY <1>1, <1>9 DEF Told, RefusedStaysRefused
  <2>2. answer'[c] # "rejected"
    BY <1>9, <2>1 DEF Respond, IInv, TypeOK
  <2>3. CatalogIsCommitted' /\ SeenIsCurrent'
    BY <1>1, <1>6, <1>9 DEF Told, CatalogIsCommitted, SeenIsCurrent
  <2>4. \A d \in Client : d # c /\ state.receipts[d] = 0 /\ disk.receipts[d] = 0
          => disk'.receipts[d] = 0
    BY <1>4, <1>9
  <2>5. \A d \in Client : d # c /\ state.receipts[d] = 0 /\ disk'.receipts[d] # 0
          => disk.receipts[d] # 0
    BY <1>4, <1>9
  <2>6. AheadIsPermitted'
    BY <1>1, <1>9, <2>5, PermittedStays DEF Told, AheadIsPermitted
  <2>7. RefusedStaysRefused'
    BY <1>1, <1>5, <1>9, <2>2, <2>4, PermittedStays DEF Told, RefusedStaysRefused
  <2> QED
    BY <2>3, <2>6, <2>7 DEF Told
<1> QED
  BY <1>7, <1>8, <1>9 DEF Handle, Persist, PersistFails, next

(* A model request that commits its history refuses every pending command; *)
(* one whose history is committed already changes no observed branch.      *)
LEMMA RequestsAreTold ==
  ASSUME IInv, Told, NEW b \in Branch, NEW content \in Contents[b],
         ModelRequest(b, content), failures' = failures
  PROVE  Told'
<1> DEFINE next == Observed(b, content)
<1>1. /\ UNCHANGED <<command, wire, answer>>
      /\ catalog' = [catalog EXCEPT ![b] = content]
      /\ catalog \in [Branch -> SUBSET Occurrence]
      /\ state \in Snapshots /\ state.revision \in Nat
      /\ state.seen \in [Branch -> SUBSET Occurrence]
  BY DEF ModelRequest, clients, IInv, TypeOK, Snapshots
<1>2. /\ \A d \in Client : Pending(d)' <=> Pending(d)
      /\ \A d \in Client : Pending(d) =>
           command[d].branch \in Branch /\ command[d].revision \in Nat
  BY <1>1, CommandTypes DEF Pending, IInv
<1>3. CASE state.seen[b] = content /\ UNCHANGED <<state, disk>>
  <2>1. \A a \in Branch : catalog[a] # Unobserved => catalog'[a] = catalog[a]
    BY <1>1, <1>3 DEF Told, CatalogIsCommitted
  <2>2. CatalogIsCommitted'
    BY <1>1, <1>3 DEF Told, CatalogIsCommitted
  <2>3. SeenIsCurrent'
    BY <1>1, <1>2, <1>3, <2>1 DEF Told, SeenIsCurrent
  <2>4. ASSUME NEW d \in Client, command[d] # NoCommand,
               catalog[command[d].branch] # Unobserved
        PROVE  Permitted(command[d])' <=> Permitted(command[d])
    <3>1. catalog'[command[d].branch] = catalog[command[d].branch]
      BY <2>1, <2>4, CommandTypes DEF IInv
    <3> QED
      BY <1>1, <1>3, <3>1, PermittedStays
  <2>5. AheadIsPermitted'
    <3> SUFFICES ASSUME NEW d \in Client,
                        state.receipts[d] = 0, disk.receipts[d] # 0
                 PROVE  Permitted(command[d])'
      BY <1>3 DEF AheadIsPermitted
    <3>1. Permitted(command[d]) /\ command[d] # NoCommand
      BY DEF Told, AheadIsPermitted, IInv, Explained
    <3> QED
      BY <2>4, <3>1 DEF Permitted, Timely
  <2>6. RefusedStaysRefused'
    <3> SUFFICES ASSUME NEW d \in Client, answer[d] = "rejected"
                 PROVE  /\ state.receipts[d] = 0 /\ disk.receipts[d] = 0
                        /\ wire[d] # {} => ~Permitted(command[d])'
      BY <1>1, <1>3 DEF RefusedStaysRefused
    <3>1. /\ state.receipts[d] = 0 /\ disk.receipts[d] = 0
          /\ wire[d] # {} => ~Permitted(command[d])
      BY DEF Told, RefusedStaysRefused
    <3>2. wire[d] # {} => Pending(d)
      BY DEF IInv, Sent, Pending
    <3> QED
      BY <2>4, <3>1, <3>2 DEF Told, SeenIsCurrent, Pending
  <2> QED
    BY <2>2, <2>3, <2>5, <2>6 DEF Told
<1>4. CASE state.seen[b] # content /\ state' = next /\ disk' = next
  <2>1. /\ next.revision = state.revision + 1
        /\ next.seen = [state.seen EXCEPT ![b] = content]
        /\ next.receipts = state.receipts
    BY <1>1 DEF Observed, Snapshots
  <2> HIDE DEF next
  <2>2. CatalogIsCommitted'
    BY <1>1, <1>4, <2>1 DEF Told, CatalogIsCommitted
  <2>3. \A d \in Client : Pending(d) => command[d].revision < state'.revision
    BY <1>1, <1>2, <1>4, <2>1 DEF Told, SeenIsCurrent
  <2>4. content # Unobserved
    BY ContentsAssumption DEF Unobserved
  <2>5. SeenIsCurrent'
    BY <1>1, <1>2, <1>4, <2>1, <2>3, <2>4 DEF Told, SeenIsCurrent
  <2>6. AheadIsPermitted'
    BY <1>4 DEF AheadIsPermitted
  <2>7. ASSUME NEW d \in Client, wire[d] # {}
        PROVE  ~Permitted(command[d])'
    <3>1. Pending(d)
      BY <2>7 DEF IInv, Sent, Pending
    <3>2. command'[d].revision # state'.revision
      BY <1>1, <1>2, <1>4, <2>1, <2>3, <3>1
    <3> QED
      BY <3>2 DEF Permitted, Timely
  <2>8. RefusedStaysRefused'
    BY <1>1, <1>4, <2>1, <2>7 DEF Told, RefusedStaysRefused
  <2> QED
    BY <2>2, <2>5, <2>6, <2>8 DEF Told
<1>5. failures # failures + 1
  BY DEF IInv, TypeOK
<1> QED
  BY <1>3, <1>4, <1>5 DEF ModelRequest, Persist, next

(* A restart forgets the commands that were pending. *)
LEMMA RestartsAreTold == ASSUME IInv, Told, Restart PROVE Told'
<1>1. /\ state' = disk /\ disk' = disk /\ command' = command
      /\ \A b \in Branch : catalog'[b] = Unobserved
      /\ \A c \in Client : wire'[c] = {}
      /\ \A c \in Client : answer'[c] = "rejected" => answer[c] = "rejected"
      /\ \A c \in Client : command[c] # NoCommand => answer'[c] # "none"
  BY DEF Restart, IInv, TypeOK
<1>2. \A c \in Client : ~Pending(c)'
  BY <1>1 DEF Pending
<1> QED
  BY <1>1, <1>2
  DEF Told, CatalogIsCommitted, SeenIsCurrent, AheadIsPermitted, RefusedStaysRefused

LEMMA TInvHolds == Spec => []TInv
<1>1. Init => TInv
  <2> SUFFICES ASSUME Init PROVE Told
    BY InitEstablishes DEF TInv
  <2>1. \A c \in Client : EmptySnapshot.receipts[c] = 0
    BY DEF EmptySnapshot
  <2> QED
    BY <2>1
    DEF Init, Told, CatalogIsCommitted, SeenIsCurrent, AheadIsPermitted,
        RefusedStaysRefused, Pending
<1>2. TInv /\ [Next]_vars => TInv'
  <2> SUFFICES ASSUME TInv, [Next]_vars, failures' = 0 PROVE Told'
    BY StepKeeps DEF TInv
  <2>1. IInv /\ failures \in Nat /\ failures' = failures /\ Told
    <3>1. IInv /\ failures \in Nat
      BY BoundAssumption DEF TInv, IInv, TypeOK
    <3>2. failures' \in {failures, failures + 1}
      BY DEF Next, vars, bounds, Prepare, Send, GiveUp, Handle, ModelRequest, Restart
    <3> QED
      BY <3>1, <3>2 DEF TInv
  <2>2. CASE \E c \in Client : Prepare(c) \/ Send(c) \/ GiveUp(c)
    BY <2>1, <2>2, ClientsAreTold
  <2>3. CASE \E c \in Client : \E n \in 1 .. Attempts : Handle(c, n)
    BY <2>1, <2>3, HandlersAreTold
  <2>4. CASE \E b \in Branch : \E content \in Contents[b] : ModelRequest(b, content)
    BY <2>1, <2>4, RequestsAreTold
  <2>5. CASE Restart
    BY <2>1, <2>5, RestartsAreTold
  <2>6. CASE UNCHANGED vars
    BY <2>1, <2>6
    DEF vars, service, clients, Told, CatalogIsCommitted, SeenIsCurrent,
        AheadIsPermitted, RefusedStaysRefused, Pending, Permitted, Timely,
        Acceptable, Reversible, SurgeriesAt, Active
  <2> QED
    BY <2>2, <2>3, <2>4, <2>5, <2>6 DEF Next
<1> QED
  BY <1>1, <1>2, PTL DEF Spec

(***************************************************************************)
(* Theorems.                                                               *)
(***************************************************************************)
(* Every variable stays in its type, for any clients, branches and bounds. *)
THEOREM TypeCorrect == Spec => []TypeOK
<1>1. IInv => TypeOK
  BY DEF IInv
<1> QED
  BY <1>1, IInvHolds, PTL

(* No occurrence ever has two active surgeries, in memory or in the file,  *)
(* so the check of compile() for two operations on one path never fails.   *)
THEOREM OneActiveAlways == Spec => []OneActive
<1>1. IInv => OneActive
  BY DEF IInv, Explained, OneActive
<1> QED
  BY <1>1, IInvHolds, PTL

(* Each batch, and each reversal, is in a snapshot as a whole or not at    *)
(* all: mutate() is atomic, also through failed commits and restarts.      *)
THEOREM ReceiptsExplainAlways == Spec => []ReceiptsExplain
<1>1. ASSUME IInv, NEW s \in {state, disk}
      PROVE  s.reversed = UndoneIn(s) /\ s.committed = OrderedIn(s) \ UndoneIn(s)
  <2>1. s \in Snapshots /\ Explained(s, command)
    BY <1>1 DEF IInv, TypeOK
  <2>2. s.reversed \subseteq Surgeries /\ s.committed \subseteq Surgeries
    BY <2>1 DEF Snapshots
  <2>3. \A c \in Done(s) : c \in Client /\ command[c] \in Commands
    BY <1>1, <2>1 DEF IInv, TypeOK, Explained, Done
  <2>4. \A x : x \in UndoneIn(s) <=> \E c \in Client :
          s.receipts[c] # 0 /\ command[c].kind = "restore" /\ x \in command[c].targets
    BY DEF UndoneIn, Done
  <2>5. \A c \in Done(s) :
          command[c].kind = "restore" => command[c].targets \subseteq Surgeries
    BY <2>3 DEF Commands
  <2>6. s.reversed = UndoneIn(s)
    BY <2>1, <2>2, <2>4, <2>5 DEF Explained, Done
  <2>7. \A c \in Done(s) : command[c].kind # "restore" =>
          command[c].branch \in Branch /\ command[c].targets \subseteq Occurrence
    BY <2>3 DEF Commands
  <2>8. \A x : x \in OrderedIn(s) <=>
          /\ x \in Surgeries
          /\ s.receipts[x.by] # 0 /\ command[x.by].kind # "restore"
          /\ x.branch = command[x.by].branch /\ x.at \in command[x.by].targets
    BY <2>7 DEF OrderedIn, Ordered, Done, Surgeries
  <2> QED
    BY <2>1, <2>2, <2>6, <2>8 DEF Explained
<1>2. IInv => ReceiptsExplain
  BY <1>1 DEF ReceiptsExplain
<1> QED
  BY <1>2, IInvHolds, PTL

(* What a client was told is hidden is an active surgery of its branch     *)
(* until somebody asks to restore it.                                      *)
LEMMA HiddenIsActive ==
  ASSUME IInv, NEW x \in Hidden
  PROVE  x \in Surgeries /\ x \in state.committed
<1>1. PICK c \in Client : /\ answer[c] = "committed" /\ command[c].kind # "restore"
                          /\ x \in Ordered(c, command[c])
  BY DEF Hidden
<1>2. state.receipts[c] # 0 /\ Explained(state, command)
  BY <1>1 DEF IInv, Known
<1>3. command[c].branch \in Branch /\ command[c].targets \subseteq Occurrence
  <2>1. command[c] # NoCommand
    BY <1>2 DEF Explained
  <2>2. command[c] \in Commands
    BY <2>1 DEF IInv, TypeOK
  <2> QED
    BY <1>1, <2>2 DEF Commands
<1>4. /\ x \in Surgeries /\ x.by = c
      /\ x.branch = command[c].branch /\ x.at \in command[c].targets
  BY <1>1, <1>3 DEF Ordered, Surgeries
<1>5. x \notin state.reversed
  BY <1>2, <1>4 DEF Hidden, Explained
<1> QED
  BY <1>1, <1>2, <1>4, <1>5 DEF Explained

(* No request leaves with an occurrence in the clear that a client was     *)
(* told is hidden and nobody asked to restore (mutate, commit, compile).   *)
THEOREM HiddenStaysHiddenAlways == Spec => HiddenStaysHidden
<1> DEFINE Shows == dispatched' # dispatched =>
      \A x \in Hidden : x.at \notin dispatched'.content \ dispatched'.applied
<1>1. ASSUME IInv, Next PROVE Shows
  <2> SUFFICES ASSUME dispatched' # dispatched, NEW x \in Hidden
               PROVE  x.at \notin dispatched'.content \ dispatched'.applied
    OBVIOUS
  <2>1. PICK b \in Branch : \E content \in Contents[b] : ModelRequest(b, content)
    BY <1>1 DEF Next, Prepare, Send, GiveUp, Handle, Restart, service
  <2>2. PICK content \in Contents[b] : ModelRequest(b, content)
    BY <2>1
  <2>3. x \in Surgeries /\ x \in state.committed /\ x.at \in UNION Contents[x.branch]
    BY <1>1, HiddenIsActive DEF IInv, Explained
  <2>4. PICK s \in {state, Observed(b, content)} : Compile(s, b, content)
    BY <2>2 DEF ModelRequest, Persist
  <2>5. s.committed = state.committed
    BY <1>1, <2>4, ObservedIsSnapshot DEF IInv
  <2>6. /\ dispatched'.content = content
        /\ dispatched'.applied = {y.at : y \in Active(s, b)}
    BY <2>4 DEF Compile
  <2>7. CASE x.branch = b
    BY <2>3, <2>5, <2>6, <2>7 DEF Active
  <2>8. CASE x.branch # b
    BY <2>3, <2>6, <2>8, ContentsAssumption DEF Surgeries
  <2> QED
    BY <2>7, <2>8
<1>2. ASSUME IInv, UNCHANGED vars PROVE Shows
  BY <1>2 DEF vars, service
<1>3. IInv /\ [Next]_vars => [Shows]_vars
  BY <1>1, <1>2
<1> HIDE DEF Shows
<1>4. Spec => [][Shows]_vars
  BY <1>3, IInvHolds, PTL DEF Spec
<1> QED
  BY <1>4 DEF Shows, HiddenStaysHidden

(* What a client printed is so: a receipt is of an operation that memory   *)
(* and file hold, and an operation that was refused is never applied, by   *)
(* no copy of it that arrives late (requestJson, mutate).                  *)
THEOREM AnswersAreTrueAlways == Spec => []AnswersAreTrue
<1>1. TInv => AnswersAreTrue
  BY DEF TInv, IInv, Known, Told, RefusedStaysRefused, AnswersAreTrue
<1> QED
  BY <1>1, TInvHolds, PTL

(* A command takes effect on the request its skeleton showed, and a        *)
(* restart that surfaces one is not mistaken for it (expectedRevision).    *)
THEOREM CommittedAsSeenAlways == Spec => CommittedAsSeen
<1> DEFINE AsSeen == \A c \in Client :
      (state.receipts[c] = 0 /\ state'.receipts[c] # 0 /\ catalog' = catalog
       /\ failures = 0)
        => catalog[command[c].branch] = command[c].seen
<1>1. ASSUME TInv, Next PROVE AsSeen
  <2> SUFFICES ASSUME NEW c \in Client,
                      state.receipts[c] = 0, state'.receipts[c] # 0,
                      catalog' = catalog, failures = 0
               PROVE  catalog[command[c].branch] = command[c].seen
    OBVIOUS
  <2>1. IInv /\ Told /\ TypeOK
    BY <1>1 DEF TInv, IInv
  <2>2. CASE \E d \in Client : \E n \in 1 .. Attempts : Handle(d, n)
    <3>1. PICK d \in Client, n \in 1 .. Attempts : Handle(d, n)
      BY <2>2
    <3>2. state' = NextSnapshot(d) /\ Permitted(command[d])
      BY <3>1 DEF Handle, Persist, PersistFails
    <3>3. d = c
      <4>1. \A e \in Client : e # d => NextSnapshot(d).receipts[e] = state.receipts[e]
        BY <2>1 DEF NextSnapshot, TypeOK, Snapshots
      <4> QED
        BY <3>2, <4>1
    <3>4. Pending(c)
      BY <2>1, <3>1, <3>3 DEF Handle, IInv, Sent, Pending
    <3> QED
      BY <2>1, <3>2, <3>3, <3>4 DEF Told, SeenIsCurrent, Permitted, Timely
  <2>3. CASE Restart
    <3>1. Permitted(command[c]) /\ command[c] # NoCommand
      BY <2>1, <2>3 DEF Restart, Told, AheadIsPermitted, IInv, Explained
    <3>2. command[c].branch \in Branch
      BY <2>1, <3>1, CommandTypes
    <3>3. catalog[command[c].branch] = Unobserved
      BY <2>3, <3>2 DEF Restart
    <3> QED
      BY <3>1, <3>3 DEF Permitted, Timely
  <2>4. CASE \E b \in Branch : \E content \in Contents[b] : ModelRequest(b, content)
    <3>0. PICK b \in Branch : \E content \in Contents[b] : ModelRequest(b, content)
      BY <2>4
    <3>1. PICK content \in Contents[b] : ModelRequest(b, content)
      BY <3>0
    <3>2. state' \in {state, Observed(b, content)}
      BY <3>1 DEF ModelRequest, Persist, PersistFails
    <3> QED
      BY <2>1, <3>2, ObservedIsSnapshot
  <2>5. CASE \E d \in Client : Prepare(d) \/ Send(d) \/ GiveUp(d)
    BY <2>5 DEF Prepare, Send, GiveUp, service
  <2> QED
    BY <1>1, <2>2, <2>3, <2>4, <2>5 DEF Next
<1>2. ASSUME TInv, UNCHANGED vars PROVE AsSeen
  BY <1>2 DEF vars, service
<1>3. TInv /\ [Next]_vars => [AsSeen]_vars
  BY <1>1, <1>2
<1> HIDE DEF AsSeen
<1>4. Spec => [][AsSeen]_vars
  BY <1>3, TInvHolds, PTL DEF Spec
<1> QED
  BY <1>4 DEF AsSeen, CommittedAsSeen
=============================================================================
