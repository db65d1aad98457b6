--------------------------- MODULE SurgeryControl ---------------------------
(***************************************************************************)
(* The surgery commands of a session: StateControlService of               *)
(* api/state-control.ts, the command line that reads a skeleton and posts  *)
(* a mutation built from it (cli/commands.ts), its retries                 *)
(* (cli/control-client.ts), and the model requests that publish a branch   *)
(* and are compiled with its surgeries (proxy/handler.ts,                  *)
(* compiler/compiler.ts).                                                  *)
(*                                                                         *)
(* An identifier of an occurrence hashes its branch, kind, source, path    *)
(* and predecessors, so two occurrences with one identifier are alike, and *)
(* a request is the set of its occurrences.  The store's commit() is one   *)
(* step: SnapshotStore is about what happens inside it.                    *)
(***************************************************************************)
EXTENDS Naturals, FiniteSets

CONSTANTS
  Client,       \* runs of the command line, and their operationIds
  Branch,       \* branches
  Occurrence,   \* occurrences
  Contents,     \* the requests a branch may see: sets of its occurrences
  Mutable,      \* the occurrences that are not protected
  NonText,      \* the occurrences replace refuses: images, documents, calls
  Container,    \* the message or item an occurrence is part of
  Attempts,     \* how often a command is sent (3 in the code)
  MaxRequests,  \* bound: how many model requests are served
  MaxRestarts,  \* bound: how often the process restarts
  MaxFailures   \* bound: how often the commit of a model request fails

ASSUME ContentsAssumption ==
  /\ Contents \in [Branch -> SUBSET ((SUBSET Occurrence) \ {{}})]
  /\ \A a, b \in Branch : a # b => (UNION Contents[a]) \cap (UNION Contents[b]) = {}
  /\ Mutable \subseteq Occurrence /\ NonText \subseteq Occurrence
  /\ DOMAIN Container = Occurrence
ASSUME BoundAssumption ==
  /\ Attempts \in Nat \ {0}
  /\ MaxRequests \in Nat /\ MaxRestarts \in Nat /\ MaxFailures \in Nat

VARIABLES
  state,        \* the published snapshot
  disk,         \* the snapshot in state.json
  catalog,      \* the last request of each branch: ExplicitConversationCatalog
  command,      \* the mutation each client built from its skeleton
  attempt,      \* how often it was sent
  wire,         \* the sent copies the service has not handled
  answer,       \* what the client printed
  dispatched,   \* the request handed to the provider last
  requests,     \* how many model requests were served
  restarts,     \* how often the process restarted
  failures      \* how often the commit of a model request failed

bounds == <<requests, restarts, failures>>
service == <<state, disk, catalog, dispatched>>
clients == <<command, attempt, wire, answer>>
vars == <<service, clients, bounds>>

(* Nothing is known of a branch before its first request. *)
Unobserved == {}

(* The surgery a client ordered on an occurrence of a branch. *)
Surgeries == [by : Client, branch : Branch, at : Occurrence]

Snapshots == [revision : Nat,
              seen : [Branch -> SUBSET Occurrence],
              committed : SUBSET Surgeries,
              reversed : SUBSET Surgeries,
              receipts : [Client -> Nat]]

NoCommand == [kind |-> "none"]
Commands ==
  [kind : {"evict", "replace"}, branch : Branch, revision : Nat,
   seen : SUBSET Occurrence, targets : SUBSET Occurrence, complete : BOOLEAN]
  \cup
  [kind : {"restore"}, branch : Branch, revision : Nat,
   seen : SUBSET Occurrence, targets : SUBSET Surgeries, complete : {TRUE}]

NoDispatch == [revision |-> 0]
Dispatches == [revision : Nat, branch : Branch, content : SUBSET Occurrence,
               applied : SUBSET Occurrence]

TypeOK ==
  /\ state \in Snapshots /\ disk \in Snapshots
  /\ catalog \in [Branch -> SUBSET Occurrence]
  /\ command \in [Client -> Commands \cup {NoCommand}]
  /\ attempt \in [Client -> 0 .. Attempts]
  /\ wire \in [Client -> SUBSET (1 .. Attempts)]
  /\ answer \in [Client -> {"none", "committed", "rejected", "failed", "unknown"}]
  /\ dispatched \in Dispatches \cup {NoDispatch}
  /\ requests \in 0 .. MaxRequests /\ restarts \in 0 .. MaxRestarts
  /\ failures \in 0 .. MaxFailures

EmptySnapshot == [revision |-> 0, seen |-> [b \in Branch |-> Unobserved],
                  committed |-> {}, reversed |-> {},
                  receipts |-> [c \in Client |-> 0]]

Init ==
  /\ state = EmptySnapshot /\ disk = EmptySnapshot
  /\ catalog = [b \in Branch |-> Unobserved]
  /\ command = [c \in Client |-> NoCommand]
  /\ attempt = [c \in Client |-> 0]
  /\ wire = [c \in Client |-> {}]
  /\ answer = [c \in Client |-> "none"]
  /\ dispatched = NoDispatch
  /\ requests = 0 /\ restarts = 0 /\ failures = 0

(* Mutant: the snapshot is published and not written. *)
PersistForgets(next) == state' = next /\ UNCHANGED disk

Persist(next) == state' = next /\ disk' = next

(* A commit that fails may have renamed the file already. *)
PersistFails(next) == UNCHANGED state /\ disk' \in {disk, next}

Active(s, b) == {x \in s.committed : x.branch = b}

(***************************************************************************)
(* A client: skeleton, mutation, retries.                                  *)
(***************************************************************************)
(* The surgeries restore finds for occurrences of a skeleton. *)
SurgeriesAt(s, b, occurrences) == {x \in Active(s, b) : x.at \in occurrences}

(* What the command line builds from a skeleton of branch b. *)
Built(b, kind, chosen, complete) ==
  [kind |-> kind, branch |-> b, revision |-> state.revision, seen |-> catalog[b],
   targets |-> IF kind = "restore" THEN SurgeriesAt(state, b, chosen) ELSE chosen,
   complete |-> complete]

Prepare(c) ==
  /\ command[c] = NoCommand
  /\ \E b \in {b \in Branch : catalog[b] # Unobserved} :
     \E kind \in {"evict", "replace", "restore"} :
     \E chosen \in SUBSET catalog[b] : \E complete \in BOOLEAN :
       /\ kind # "evict" => complete
       /\ kind = "replace" => Cardinality(chosen) = 1
       /\ Built(b, kind, chosen, complete).targets # {}
       /\ command' = [command EXCEPT ![c] = Built(b, kind, chosen, complete)]
  /\ UNCHANGED <<service, attempt, wire, answer, bounds>>

(* Mutant: one attempt too many. *)
SendOnceMore(c) ==
  /\ command[c] # NoCommand
  /\ answer[c] = "none"
  /\ attempt[c] <= Attempts
  /\ attempt' = [attempt EXCEPT ![c] = @ + 1]
  /\ wire' = [wire EXCEPT ![c] = @ \cup {attempt[c] + 1}]
  /\ UNCHANGED <<service, command, answer, bounds>>

(* The first attempt, or the next one after a timeout or a lost connection. *)
Send(c) ==
  /\ command[c] # NoCommand
  /\ answer[c] = "none"
  /\ attempt[c] < Attempts
  /\ attempt' = [attempt EXCEPT ![c] = @ + 1]
  /\ wire' = [wire EXCEPT ![c] = @ \cup {attempt[c] + 1}]
  /\ UNCHANGED <<service, command, answer, bounds>>

GiveUp(c) ==
  /\ answer[c] = "none"
  /\ attempt[c] = Attempts
  /\ answer' = [answer EXCEPT ![c] = "unknown"]
  /\ UNCHANGED <<service, command, attempt, wire, bounds>>

(***************************************************************************)
(* The service: StateControlService.mutate.                                *)
(***************************************************************************)
(* Mutants: a surgery may be ordered twice; a stale command passes. *)
AcceptableTwice(cmd) ==
  /\ cmd.targets \subseteq catalog[cmd.branch] \cap Mutable
  /\ cmd.kind = "replace" => cmd.targets \cap NonText = {}
AnyRevision(cmd) == catalog[cmd.branch] # Unobserved

(* surgery(): a batch of occurrences that are all mutable and untouched.   *)
(* With requireComplete their containers must hold nothing protected.      *)
Acceptable(cmd) ==
  /\ cmd.targets \subseteq catalog[cmd.branch] \cap Mutable
  /\ cmd.kind = "replace" => cmd.targets \cap NonText = {}
  /\ SurgeriesAt(state, cmd.branch, cmd.targets) = {}
  /\ cmd.complete =>
       \A t \in cmd.targets : \A p \in catalog[cmd.branch] \ Mutable :
         Container[t] # Container[p]

(* reverse(): a batch of surgeries of the branch that are all active. *)
Reversible(cmd) == cmd.targets \subseteq Active(state, cmd.branch)

Timely(cmd) ==
  /\ state.revision = cmd.revision
  /\ catalog[cmd.branch] # Unobserved

Permitted(cmd) ==
  /\ Timely(cmd)
  /\ IF cmd.kind = "restore" THEN Reversible(cmd) ELSE Acceptable(cmd)

Ordered(c, cmd) == {[by |-> c, branch |-> cmd.branch, at |-> o] : o \in cmd.targets}

(* Mutant: a reversed surgery stays among the committed ones. *)
NextSnapshotKeepsReversed(c) ==
  LET cmd == command[c]
  IN  IF cmd.kind = "restore"
      THEN [state EXCEPT !.revision = @ + 1,
                         !.receipts[c] = state.revision + 1,
                         !.reversed = @ \cup cmd.targets]
      ELSE [state EXCEPT !.revision = @ + 1,
                         !.receipts[c] = state.revision + 1,
                         !.committed = @ \cup Ordered(c, cmd)]

NextSnapshot(c) ==
  LET cmd == command[c]
  IN  IF cmd.kind = "restore"
      THEN [state EXCEPT !.revision = @ + 1,
                         !.receipts[c] = state.revision + 1,
                         !.committed = @ \ cmd.targets,
                         !.reversed = @ \cup cmd.targets]
      ELSE [state EXCEPT !.revision = @ + 1,
                         !.receipts[c] = state.revision + 1,
                         !.committed = @ \cup Ordered(c, cmd)]

(* The answer to a copy the client no longer waits for is lost, and so may *)
(* any other be.                                                           *)
Respond(c, n, result) ==
  \/ UNCHANGED answer
  \/ /\ n = attempt[c] /\ answer[c] = "none"
     /\ answer' = [answer EXCEPT ![c] = result]

(* Mutant: the receipt of a retried operation is not looked up. *)
NeverRetried(c) == FALSE

Retried(c) == state.receipts[c] # 0

Handle(c, n) ==
  /\ n \in wire[c]
  /\ wire' = [wire EXCEPT ![c] = @ \ {n}]
  /\ \/ Retried(c) /\ Respond(c, n, "committed") /\ UNCHANGED <<state, disk>>
     \/ ~Retried(c) /\ ~Permitted(command[c]) /\ Respond(c, n, "rejected")
        /\ UNCHANGED <<state, disk>>
     \/ ~Retried(c) /\ Permitted(command[c]) /\ Respond(c, n, "committed")
        /\ Persist(NextSnapshot(c))
     \/ ~Retried(c) /\ Permitted(command[c]) /\ Respond(c, n, "failed")
        /\ PersistFails(NextSnapshot(c))
  /\ UNCHANGED <<catalog, dispatched, command, attempt, bounds>>

(***************************************************************************)
(* A model request, in one turn: publish it, commit its history when that  *)
(* changed, compile it with the surgeries of that revision, dispatch it.   *)
(***************************************************************************)
Observed(b, content) ==
  [state EXCEPT !.revision = @ + 1, !.seen = [@ EXCEPT ![b] = content]]

(* compile(): every active surgery of the branch, or no request. *)
Compile(s, b, content) ==
  LET applied == {x.at : x \in Active(s, b)}
  IN  IF applied \subseteq content
      THEN dispatched' = [revision |-> s.revision, branch |-> b,
                          content |-> content, applied |-> applied]
      ELSE UNCHANGED dispatched

ModelRequest(b, content) ==
  /\ requests < MaxRequests
  /\ requests' = requests + 1
  /\ catalog' = [catalog EXCEPT ![b] = content]
  /\ \/ /\ state.seen[b] = content
        /\ Compile(state, b, content)
        /\ UNCHANGED <<state, disk, failures>>
     \/ /\ state.seen[b] # content
        /\ Persist(Observed(b, content))
        /\ Compile(state', b, content)
        /\ UNCHANGED failures
     \/ /\ state.seen[b] # content
        /\ failures < MaxFailures
        /\ failures' = failures + 1
        /\ PersistFails(Observed(b, content))
        /\ UNCHANGED dispatched
  /\ UNCHANGED <<clients, restarts>>

(* A new process reads state.json and knows no branch.  It has a new       *)
(* capability, which refuses the commands built from an old skeleton.      *)
Restart ==
  /\ restarts < MaxRestarts
  /\ restarts' = restarts + 1
  /\ state' = disk
  /\ catalog' = [b \in Branch |-> Unobserved]
  /\ wire' = [c \in Client |-> {}]
  /\ answer' = [c \in Client |->
                  IF command[c] # NoCommand /\ answer[c] = "none"
                  THEN "unknown" ELSE answer[c]]
  /\ UNCHANGED <<disk, dispatched, command, attempt, requests, failures>>

Next ==
  \/ \E c \in Client : Prepare(c) \/ Send(c) \/ GiveUp(c)
  \/ \E c \in Client : \E n \in 1 .. Attempts : Handle(c, n)
  \/ \E b \in Branch : \E content \in Contents[b] : ModelRequest(b, content)
  \/ Restart

Spec == Init /\ [][Next]_vars

(***************************************************************************)
(* Properties.                                                             *)
(***************************************************************************)
(* What a client printed is so: a receipt is of an operation that was      *)
(* applied, and an operation that was refused is never applied, whichever  *)
(* copy of it is handled late (requestJson's retries, commit's receipts).  *)
(* The second needs the catalog to change with the revision: see failures. *)
AnswersAreTrue ==
  \A c \in Client :
    /\ answer[c] = "committed" => state.receipts[c] # 0 /\ disk.receipts[c] # 0
    /\ (answer[c] = "rejected" /\ failures = 0) =>
         state.receipts[c] = 0 /\ disk.receipts[c] = 0

(* The receipts of a snapshot explain its surgeries: every batch is there  *)
(* as a whole, every reversal is, and nothing else (surgery and reverse).  *)
Done(s) == {c \in Client : s.receipts[c] # 0}
OrderedIn(s) ==
  UNION {Ordered(c, command[c]) : c \in {d \in Done(s) : command[d].kind # "restore"}}
UndoneIn(s) ==
  UNION {command[c].targets : c \in {d \in Done(s) : command[d].kind = "restore"}}
ReceiptsExplain ==
  \A s \in {state, disk} :
    /\ s.reversed = UndoneIn(s)
    /\ s.committed = OrderedIn(s) \ UndoneIn(s)

(* No two surgeries of one occurrence are active, which compile() would    *)
(* refuse for ever (surgery's duplicate check).                            *)
OneActive ==
  \A s \in {state, disk} : \A x, y \in s.committed : x.at = y.at => x = y

(* A command takes effect on the request its skeleton showed, not on one   *)
(* that arrived since (expectedRevision), as long as the commits of the    *)
(* model requests succeed.                                                 *)
CommittedAsSeen ==
  [][\A c \in Client :
       (state.receipts[c] = 0 /\ state'.receipts[c] # 0 /\ catalog' = catalog
        /\ failures = 0)
         => catalog[command[c].branch] = command[c].seen]_vars

(* Once a client printed that an occurrence is hidden, no request is       *)
(* dispatched with it in the clear until somebody asks to restore it,      *)
(* after any crash, retry or trim (durability of commit, compile).         *)
Hidden ==
  {x \in UNION {Ordered(c, command[c]) :
               c \in {d \in Client : answer[d] = "committed"
                                  /\ command[d].kind # "restore"}} :
     ~\E d \in Client : command[d].kind = "restore" /\ x \in command[d].targets}
HiddenStaysHidden ==
  [][dispatched' # dispatched =>
       \A x \in Hidden : x.at \notin dispatched'.content \ dispatched'.applied]_vars

(* Every active surgery of an observed branch can be restored from the     *)
(* command line, also when its source left the conversation (the restore   *)
(* command of cli/commands.ts).                                            *)
AllRestorable ==
  \A x \in state.committed :
    catalog[x.branch] # Unobserved =>
      x \in SurgeriesAt(state, x.branch, catalog[x.branch])
=============================================================================
