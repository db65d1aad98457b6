------------------------------ MODULE Branches ------------------------------
(***************************************************************************)
(* To which branch of a session a request belongs, and where its bootstrap *)
(* text goes: the tracker of state/identity.ts, the placement of           *)
(* compiler/bootstrap-state.ts and the turn of proxy/handler.ts that calls *)
(* both, over a store whose commits may fail and a process that restarts.  *)
(*                                                                         *)
(* A history is the sequence of item hashes of one request, and an item is *)
(* one occurrence.  The identifier of an occurrence hashes its branch and  *)
(* everything before it, so the occurrence at the end of a prefix is that  *)
(* prefix.  A branch's history field is the last element of its window     *)
(* wherever the code writes either, so the window alone is kept.           *)
(***************************************************************************)
EXTENDS Naturals, Sequences, FiniteSets, SequencesExt

CONSTANTS
  Branch,       \* branch identifiers (UUIDs); a request is limited to them
  NoBranch,     \* no parent
  Item,         \* item hashes
  UserItems,    \* the mutable user texts
  SignedItems,  \* those that contain the skill's signature
  Echoes,       \* <<e, u>>: the text e is u behind the bootstrap text
  MaxLength,    \* bound: the longest request
  Window,       \* observations a branch keeps (8 in the code)
  MaxRestarts,  \* bound: how often the process restarts
  Worlds        \* what clients and the disk may do, and bounds: see world

ASSUME BranchAssumption == NoBranch \notin Branch
ASSUME ItemAssumption ==
  /\ UserItems \subseteq Item /\ SignedItems \subseteq Item
  /\ Echoes \subseteq Item \X Item
ASSUME BoundAssumption ==
  /\ Window \in Nat \ {0} /\ MaxLength \in Nat
  /\ MaxRestarts \in Nat
  /\ Worlds \subseteq [items : SUBSET Item, requests : Nat, replays : BOOLEAN, faults : BOOLEAN]

VARIABLES
  tracker,      \* the branches of the PristineHistoryTracker
  catalog,      \* the branches a command can name
  state,        \* bootstrapBranches of the published snapshot
  disk,         \* bootstrapBranches of state.json
  requests,     \* how many requests were served
  restarts,     \* how often the process restarted
  world         \* what clients send (items, at most so many requests),
                \* whether older requests again, and whether a commit may fail

vars == <<tracker, catalog, state, disk, requests, restarts, world>>

Histories == BoundedSeq(Item, MaxLength)

Lineages == [window : Seq(Histories) \ {<<>>}, parent : Branch \cup {NoBranch}]
Placements == [decision : {"pending", "inject", "preserve"},
               status : {"awaiting-anchor", "anchored", "stopped"},
               anchor : Histories,
               reanchors : {0, 1}]
Persisted == [lineage : Lineages, placement : Placements]

(* A partial function from branches. *)
BranchMap(f, Records) ==
  /\ DOMAIN f \subseteq Branch
  /\ \A b \in DOMAIN f : f[b] \in Records

TypeOK ==
  /\ BranchMap(tracker, Lineages)
  /\ catalog \subseteq DOMAIN tracker
  /\ BranchMap(state, Persisted)
  /\ BranchMap(disk, Persisted)
  /\ world \in Worlds
  /\ requests \in 0 .. world.requests
  /\ restarts \in 0 .. MaxRestarts

Init ==
  /\ tracker = <<>>
  /\ catalog = {}
  /\ state = <<>>
  /\ disk = <<>>
  /\ requests = 0
  /\ restarts = 0
  /\ world \in Worlds

Put(f, x, y) == [z \in DOMAIN f \cup {x} |-> IF z = x THEN y ELSE f[z]]

Current(lineage) == Last(lineage.window)

Slide(window, h) ==
  LET longer == Append(window, h)
  IN  IF Len(longer) > Window THEN Tail(longer) ELSE longer

(***************************************************************************)
(* PristineHistoryTracker.observe                                          *)
(***************************************************************************)
(* Mutant: only the last observation of a branch is remembered. *)
OwnersNow(t, h) == {b \in DOMAIN t : h = Current(t[b])}

Owners(t, h) == {b \in DOMAIN t : h \in ToSet(t[b].window)}

Extended(t, h) == {b \in DOMAIN t : IsStrictPrefix(Current(t[b]), h)}

Containing(t, h) == {b \in DOMAIN t : IsStrictPrefix(h, Current(t[b]))}

Shorter(s, t) == 0 .. Min({Len(s), Len(t)})

(* How much of the end of previous begins next. *)
Overlap(previous, next) ==
  LET Suffix(n) == SubSeq(previous, Len(previous) - n + 1, Len(previous))
  IN  Max({n \in Shorter(previous, next) : SubSeq(next, 1, n) = Suffix(n)})

Common(previous, next) ==
  Max({n \in Shorter(previous, next) : SubSeq(next, 1, n) = SubSeq(previous, 1, n)})

(* The branches that share the most with a request, when that is enough. *)
Closest(shared, enough) ==
  LET most == Max(Range(shared) \cup {enough})
  IN  {b \in DOMAIN shared : shared[b] = most}

Ambiguous == [transition |-> "ambiguous", of |-> {}]

Unique(transition, branches) ==
  IF Cardinality(branches) = 1 THEN [transition |-> transition, of |-> branches]
  ELSE Ambiguous

(* The branch a request continues or forks from: the first relation that   *)
(* some branch has to it must be that of one branch only.                  *)
Resolve(t, h) ==
  LET trimmed == Closest([b \in DOMAIN t |-> Overlap(Current(t[b]), h)], 2)
      related == Closest([b \in DOMAIN t |-> Common(Current(t[b]), h)], 1)
  IN  IF Owners(t, h) # {} THEN Unique("stable", Owners(t, h))
      ELSE IF Extended(t, h) # {} THEN Unique("extended", Extended(t, h))
      ELSE IF Containing(t, h) # {} THEN Ambiguous
      ELSE IF trimmed # {} THEN Unique("trimmed", trimmed)
      ELSE IF related # {} THEN Unique("forked", related)
      ELSE [transition |-> "created", of |-> {}]

(***************************************************************************)
(* reconcileBootstrapState: the placement of the bootstrap text.           *)
(***************************************************************************)
UserIndices(h) == {i \in 1 .. Len(h) : h[i] \in UserItems}

FirstUser(h) == SubSeq(h, 1, Min(UserIndices(h)))

Awaiting == [decision |-> "pending", status |-> "awaiting-anchor",
             anchor |-> <<>>, reanchors |-> 0]

(* The first user text becomes the anchor; a signature in it means that    *)
(* the bootstrap text is there already.                                    *)
Anchored(h) ==
  [decision |-> IF Last(FirstUser(h)) \in SignedItems THEN "preserve" ELSE "inject",
   status |-> "anchored", anchor |-> FirstUser(h), reanchors |-> 0]

Place(h) == IF UserIndices(h) = {} THEN Awaiting ELSE Anchored(h)

(* Mutants: no budget of one; the replaced anchor is decided upon anew. *)
AnchorAlwaysMoves(p, h) ==
  IF UserIndices(h) # {}
  THEN [p EXCEPT !.anchor = FirstUser(h), !.reanchors = @ + 1]
  ELSE [p EXCEPT !.anchor = <<>>, !.status = "stopped"]
AnchorDecidedAnew(p, h) ==
  IF p.reanchors = 0 /\ UserIndices(h) # {}
  THEN [Anchored(h) EXCEPT !.reanchors = 1]
  ELSE [p EXCEPT !.anchor = <<>>, !.status = "stopped"]

(* The anchor is gone: the first user text replaces it, once. *)
AnchorLost(p, h) ==
  IF p.reanchors = 0 /\ UserIndices(h) # {}
  THEN [p EXCEPT !.anchor = FirstUser(h), !.reanchors = 1]
  ELSE [p EXCEPT !.anchor = <<>>, !.status = "stopped"]

(* findAnchorOccurrence: the occurrence itself, or at its path the text    *)
(* with the bootstrap text before it.                                      *)
FindsAnchor(anchor, h) ==
  \/ IsPrefix(anchor, h)
  \/ /\ Len(anchor) <= Len(h)
     /\ <<h[Len(anchor)], Last(anchor)>> \in Echoes

(* findInheritedAnchorOccurrence: the same text at the same path. *)
FindsInherited(anchor, h) ==
  Len(anchor) <= Len(h) /\ h[Len(anchor)] = Last(anchor)

Inherit(p, h) ==
  CASE p.status = "anchored" ->
         IF FindsInherited(p.anchor, h)
         THEN [p EXCEPT !.anchor = SubSeq(h, 1, Len(p.anchor))]
         ELSE AnchorLost(p, h)
    [] p.status = "awaiting-anchor" -> Place(h)
    [] p.status = "stopped" -> p

(* Mutant: the anchor of a known branch is taken for granted. *)
KeepAnchor(p, h) == IF p.status = "awaiting-anchor" THEN Place(h) ELSE p

Keep(p, h) ==
  CASE p.status = "anchored" ->
         IF FindsAnchor(p.anchor, h) THEN p ELSE AnchorLost(p, h)
    [] p.status = "awaiting-anchor" -> Place(h)
    [] p.status = "stopped" -> p

(* What is to be persisted of branch b for the request h. *)
Reconciled(b, parent, h) ==
  IF b \in DOMAIN state
  THEN LET window == state[b].lineage.window
       IN  [lineage |-> [window |-> IF Last(window) = h THEN window ELSE Slide(window, h),
                         parent |-> parent],
            placement |-> Keep(state[b].placement, h)]
  ELSE [lineage |-> [window |-> <<h>>, parent |-> parent],
        placement |-> IF parent \in DOMAIN state
                      THEN Inherit(state[parent].placement, h)
                      ELSE Place(h)]

(* Mutant: a branch without a decision is not worth a commit. *)
CommitDecided(b, record) ==
  IF record.placement.decision = "pending" THEN UNCHANGED <<state, disk>>
  ELSE /\ state' = Put(state, b, record)
       /\ disk' = state'

(* A commit that fails may have renamed the file already. *)
Commit(b, record) ==
  IF b \in DOMAIN state /\ state[b] = record THEN UNCHANGED <<state, disk>>
  ELSE \/ /\ state' = Put(state, b, record)
          /\ disk' = state'
       \/ /\ world.faults
          /\ UNCHANGED state
          /\ disk' \in {disk, Put(state, b, record)}

(***************************************************************************)
(* One request, in one turn of the event loop: resolve it, publish it to   *)
(* the catalog, commit its placement.  An ambiguous one changes nothing.   *)
(***************************************************************************)
Serve(b, parent, h) ==
  /\ requests' = requests + 1
  /\ catalog' = catalog \cup {b}
  /\ Commit(b, Reconciled(b, parent, h))
  /\ UNCHANGED <<restarts, world>>

Repeat(h, b) ==
  /\ world.replays \/ h = Current(tracker[b])
  /\ UNCHANGED tracker
  /\ Serve(b, tracker[b].parent, h)

Advance(h, b) ==
  /\ tracker' = [tracker EXCEPT ![b].window = Slide(@, h)]
  /\ Serve(b, tracker[b].parent, h)

(* A new branch, of a new conversation when it has no parent. *)
Open(h, b, parent) ==
  /\ tracker' = Put(tracker, b, [window |-> <<h>>, parent |-> parent])
  /\ Serve(b, parent, h)

Unused == Branch \ (DOMAIN tracker \cup DOMAIN state \cup DOMAIN disk)

Request(h) ==
  /\ requests < world.requests
  /\ ToSet(h) \subseteq world.items
  /\ LET found == Resolve(tracker, h)
     IN  \/ \E b \in found.of :
              \/ found.transition = "stable" /\ Repeat(h, b)
              \/ found.transition \in {"extended", "trimmed"} /\ Advance(h, b)
              \/ found.transition = "forked" /\ \E f \in Unused : Open(h, f, b)
         \/ found.transition = "created" /\ \E f \in Unused : Open(h, f, NoBranch)

(* Mutant: only the last observation is restored. *)
RestoredCurrent(branches) ==
  [b \in DOMAIN branches |->
     [branches[b].lineage EXCEPT !.window = <<Last(@)>>]]

(* The tracker is restored from the committed branches; the catalog is not. *)
Restored(branches) == [b \in DOMAIN branches |-> branches[b].lineage]

Restart ==
  /\ restarts < MaxRestarts
  /\ restarts' = restarts + 1
  /\ state' = disk
  /\ tracker' = Restored(disk)
  /\ catalog' = {}
  /\ UNCHANGED <<disk, requests, world>>

(* A client sends at least one item. *)
Next == Restart \/ \E h \in Histories \ {<<>>} : Request(h)

Spec == Init /\ [][Next]_vars

(***************************************************************************)
(* Properties.                                                             *)
(***************************************************************************)
(* Clients do not send older requests again, and no commit fails.          *)
Forward == ~world.replays /\ ~world.faults

WindowsDisjoint ==
  \A b, c \in DOMAIN tracker :
    b # c => ToSet(tracker[b].window) \cap ToSet(tracker[c].window) = {}

(* One observation is never served as two branches: as long as a window    *)
(* holds it, it is that branch's alone (observe).  It needs a process      *)
(* that was not restarted, or persisted windows that follow the tracker's. *)
OneOwner == restarts = 0 \/ Forward => WindowsDisjoint

(* The compiler, which runs on the committed branch and the last request   *)
(* of it, always finds the anchor the branch was committed with, and a     *)
(* decision (reconcileBootstrapState before compile).                      *)
AnchorReconciled ==
  \A b \in DOMAIN state :
    state[b].placement.status = "anchored" =>
      /\ state[b].placement.anchor # <<>>
      /\ FindsAnchor(state[b].placement.anchor, Current(state[b].lineage))
      /\ state[b].placement.decision # "pending"

(* A decision is made once: whatever is trimmed, replayed, lost in a       *)
(* failed commit or restarted, a branch keeps its decision, moves its      *)
(* anchor at most once, never resumes after it stopped, is never           *)
(* forgotten, and a fork keeps the decision of the branch it came from     *)
(* (reconcileBootstrapState).                                              *)
Follows(p, q) ==
  /\ p.decision # "pending" => q.decision = p.decision
  /\ p.status = "stopped" => q.status = "stopped"
  /\ p.reanchors <= q.reanchors
  /\ p.anchor # <<>> /\ q.anchor \notin {<<>>, p.anchor} =>
       p.reanchors = 0 /\ q.reanchors = 1
DecisionIsFinal ==
  [][/\ DOMAIN state \subseteq DOMAIN state'
     /\ \A b \in DOMAIN state :
          Follows(state[b].placement, state'[b].placement)
     /\ \A b \in DOMAIN state' \ DOMAIN state :
          LET parent == state'[b].lineage.parent
          IN  parent \in DOMAIN state /\ state[parent].placement.decision # "pending"
                => state'[b].placement.decision = state[parent].placement.decision
    ]_state

(* A restart changes nothing a client can see: every request resolves to   *)
(* the same branch before and after it (restore).                          *)
RestartKeepsIdentity ==
  \A h \in Histories : Resolve(Restored(disk), h) = Resolve(tracker, h)

(* It is so when no client sends older requests again and no commit fails. *)
ForwardKeepsIdentity == Forward => RestartKeepsIdentity

CatalogCommitted == catalog \subseteq DOMAIN disk

(* A command can only name a branch that a restart remembers (publish      *)
(* before the commit of the branch).                                       *)
CataloguedIsDurable == Forward => CatalogCommitted

(***************************************************************************)
(* The inductive invariants: what the tracker holds, and what a restart    *)
(* would restore when no client replays and no commit fails.               *)
(***************************************************************************)
TrackerInv ==
  /\ BranchMap(tracker, Lineages)
  /\ WindowsDisjoint

RestoredInv ==
  /\ state = disk
  /\ tracker = Restored(disk)
  /\ CatalogCommitted

=============================================================================
