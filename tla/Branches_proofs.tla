--------------------------- MODULE Branches_proofs ---------------------------
(***************************************************************************)
(* One observation has one owner, a restart resolves every request as      *)
(* before, and a placement is decided once: proofs about Branches.         *)
(***************************************************************************)
EXTENDS Branches, SequenceTheorems, WellFoundedInduction, TLAPS

(* What a window holds after an observation: the new one and old ones. *)
LEMMA SlideHolds ==
  ASSUME NEW w \in Seq(Histories) \ {<<>>}, NEW h \in Histories
  PROVE  /\ Slide(w, h) \in Seq(Histories) \ {<<>>}
         /\ ToSet(Slide(w, h)) \subseteq ToSet(w) \cup {h}
<1> DEFINE longer == Append(w, h)
<1>1. /\ longer \in Seq(Histories)
      /\ Len(longer) = Len(w) + 1
      /\ \A i \in 1 .. Len(longer) : longer[i] \in ToSet(w) \cup {h}
  BY DEF ToSet
<1>2. Len(w) \in Nat \ {0}
  BY EmptySeq
<1>3. ToSet(longer) \subseteq ToSet(w) \cup {h}
  BY <1>1 DEF ToSet
<1>4. /\ Tail(longer) \in Seq(Histories)
      /\ Len(Tail(longer)) = Len(w)
      /\ \A i \in 1 .. Len(w) : Tail(longer)[i] = longer[i + 1]
  BY <1>1, <1>2
<1>5. ToSet(Tail(longer)) \subseteq ToSet(w) \cup {h}
  BY <1>1, <1>2, <1>4 DEF ToSet
<1>6. longer # <<>> /\ Tail(longer) # <<>>
  BY <1>1, <1>2, <1>4
<1> QED
  BY <1>1, <1>3, <1>4, <1>5, <1>6 DEF Slide

(* The last observation of a window is one of it. *)
LEMMA LastIsHeld ==
  ASSUME NEW w \in Seq(Histories) \ {<<>>}
  PROVE  Last(w) \in ToSet(w)
BY EmptySeq DEF Last, ToSet

(* A request that is not the repetition of an observation is in no window, *)
(* and what it resolves to are branches of the tracker.                    *)
LEMMA ResolveFinds ==
  ASSUME NEW t, NEW h
  PROVE  /\ Resolve(t, h).of \subseteq DOMAIN t
         /\ Resolve(t, h).transition \in {"extended", "trimmed", "forked", "created"}
              => Owners(t, h) = {}
<1> DEFINE trimmed == Closest([b \in DOMAIN t |-> Overlap(Current(t[b]), h)], 2)
           related == Closest([b \in DOMAIN t |-> Common(Current(t[b]), h)], 1)
<1>1. /\ Owners(t, h) \subseteq DOMAIN t
      /\ Extended(t, h) \subseteq DOMAIN t
      /\ trimmed \subseteq DOMAIN t
      /\ related \subseteq DOMAIN t
  BY DEF Owners, Extended, Closest
<1>2. Owners(t, h) # {} =>
        Resolve(t, h).transition \in {"stable", "ambiguous"}
  BY DEF Resolve, Unique, Ambiguous
<1>3. ASSUME NEW name, NEW S \in SUBSET DOMAIN t
      PROVE  Unique(name, S).of \subseteq DOMAIN t
  BY DEF Unique, Ambiguous
<1>4. Resolve(t, h).of \subseteq DOMAIN t
  <2> HIDE DEF trimmed, related
  <2>1. \/ \E name : \E S \in SUBSET DOMAIN t : Resolve(t, h) = Unique(name, S)
        \/ Resolve(t, h) = Ambiguous
        \/ Resolve(t, h).of = {}
    BY <1>1 DEF Resolve, trimmed, related
  <2> QED
    BY <2>1, <1>3 DEF Ambiguous
<1> QED
  BY <1>2, <1>4

(***************************************************************************)
(* A request keeps the windows of the tracker apart.                       *)
(***************************************************************************)
(* No window of the tracker holds a request that has no owner. *)
LEMMA NotOwned ==
  ASSUME NEW h, Owners(tracker, h) = {}
  PROVE  \A b \in DOMAIN tracker : h \notin ToSet(tracker[b].window)
BY DEF Owners

(* Sliding a request into one window keeps the type of the tracker. *)
LEMMA SlidKeepsType ==
  ASSUME BranchMap(tracker, Lineages), NEW h \in Histories, NEW b \in DOMAIN tracker,
         tracker' = [tracker EXCEPT ![b].window = Slide(@, h)]
  PROVE  BranchMap(tracker', Lineages) /\ DOMAIN tracker' = DOMAIN tracker
<1> DEFINE slid == Slide(tracker[b].window, h)
<1>1. /\ tracker[b] \in Lineages
      /\ tracker[b].window \in Seq(Histories) \ {<<>>}
  BY DEF BranchMap, Lineages
<1>2. slid \in Seq(Histories) \ {<<>>}
  BY <1>1, SlideHolds
<1>3. tracker' = [tracker EXCEPT ![b].window = slid]
  OBVIOUS
<1> HIDE DEF slid
<1>4. /\ DOMAIN tracker' = DOMAIN tracker
      /\ tracker'[b] = [tracker[b] EXCEPT !.window = slid]
      /\ \A c \in DOMAIN tracker : c # b => tracker'[c] = tracker[c]
  BY <1>3
<1>5. tracker'[b] \in Lineages
  BY <1>1, <1>2, <1>4 DEF Lineages
<1> QED
  BY <1>4, <1>5 DEF BranchMap

(* Sliding a request nobody owns into one window. *)
LEMMA AdvanceKeepsTrackerInv ==
  ASSUME TrackerInv, NEW h \in Histories, Owners(tracker, h) = {},
         NEW b \in DOMAIN tracker, Advance(h, b)
  PROVE  TrackerInv'
<1> DEFINE slid == Slide(tracker[b].window, h)
<1>1. /\ tracker[b] \in Lineages
      /\ tracker[b].window \in Seq(Histories) \ {<<>>}
  BY DEF TrackerInv, BranchMap, Lineages
<1>2. /\ slid \in Seq(Histories) \ {<<>>}
      /\ ToSet(slid) \subseteq ToSet(tracker[b].window) \cup {h}
  BY <1>1, SlideHolds
<1> HIDE DEF slid
<1>3. tracker' = [tracker EXCEPT ![b].window = slid]
  BY DEF Advance, slid
<1>4. /\ DOMAIN tracker' = DOMAIN tracker
      /\ tracker'[b] = [tracker[b] EXCEPT !.window = slid]
      /\ \A c \in DOMAIN tracker : c # b => tracker'[c] = tracker[c]
  BY <1>3
<1>5. tracker'[b] \in Lineages /\ tracker'[b].window = slid
  BY <1>1, <1>2, <1>4 DEF Lineages
<1>6. BranchMap(tracker, Lineages)'
  <2>1. Lineages' = Lineages
    BY DEF Lineages, Histories
  <2>2. BranchMap(tracker', Lineages)
    BY SlidKeepsType DEF TrackerInv, Advance
  <2> QED
    BY <2>1, <2>2 DEF BranchMap
<1>7. WindowsDisjoint'
  <2> SUFFICES ASSUME NEW c \in DOMAIN tracker, NEW d \in DOMAIN tracker, c # d
               PROVE  ToSet(tracker'[c].window) \cap ToSet(tracker'[d].window) = {}
    BY <1>4 DEF WindowsDisjoint
  <2>1. ToSet(tracker[c].window) \cap ToSet(tracker[d].window) = {}
    BY DEF TrackerInv, WindowsDisjoint
  <2>2. h \notin ToSet(tracker[c].window) /\ h \notin ToSet(tracker[d].window)
    BY NotOwned
  <2>3. CASE c = b
    BY <2>1, <2>2, <2>3, <1>2, <1>4, <1>5
  <2>4. CASE d = b
    BY <2>1, <2>2, <2>4, <1>2, <1>4, <1>5
  <2>5. CASE c # b /\ d # b
    BY <2>1, <2>5, <1>4
  <2> QED
    BY <2>3, <2>4, <2>5
<1> QED
  BY <1>6, <1>7 DEF TrackerInv

(* A new branch for a request nobody owns. *)
LEMMA OpenKeepsTrackerInv ==
  ASSUME TrackerInv, NEW h \in Histories, Owners(tracker, h) = {},
         NEW b \in Unused, NEW parent \in Branch \cup {NoBranch},
         Open(h, b, parent)
  PROVE  TrackerInv'
<1> DEFINE opened == [window |-> <<h>>, parent |-> parent]
<1>1. b \in Branch /\ b \notin DOMAIN tracker
  BY DEF Unused
<1>2. /\ opened \in Lineages
      /\ ToSet(opened.window) = {h}
  BY DEF Lineages, ToSet
<1>3. /\ DOMAIN tracker' = DOMAIN tracker \cup {b}
      /\ tracker'[b] = opened
      /\ \A c \in DOMAIN tracker : tracker'[c] = tracker[c]
  BY <1>1 DEF Open, Put
<1> HIDE DEF opened
<1>4. BranchMap(tracker, Lineages)'
  <2>1. DOMAIN tracker' \subseteq Branch
    BY <1>1, <1>3 DEF TrackerInv, BranchMap
  <2>2. ASSUME NEW c \in DOMAIN tracker' PROVE tracker'[c] \in Lineages
    BY <1>2, <1>3 DEF TrackerInv, BranchMap
  <2>3. Lineages' = Lineages
    BY DEF Lineages, Histories
  <2> QED
    BY <2>1, <2>2, <2>3 DEF BranchMap
<1>5. WindowsDisjoint'
  <2> SUFFICES ASSUME NEW c \in DOMAIN tracker', NEW d \in DOMAIN tracker', c # d
               PROVE  ToSet(tracker'[c].window) \cap ToSet(tracker'[d].window) = {}
    BY DEF WindowsDisjoint
  <2>1. \A x \in DOMAIN tracker : h \notin ToSet(tracker[x].window)
    BY NotOwned
  <2>2. CASE c = b
    BY <2>1, <2>2, <1>2, <1>3
  <2>3. CASE d = b
    BY <2>1, <2>3, <1>2, <1>3
  <2>4. CASE c # b /\ d # b
    BY <2>4, <1>3 DEF TrackerInv, WindowsDisjoint
  <2> QED
    BY <2>2, <2>3, <2>4
<1> QED
  BY <1>4, <1>5 DEF TrackerInv

(* What one request does: it repeats an observation of a branch, advances  *)
(* a branch, or opens a new one.                                           *)
LEMMA RequestCases ==
  ASSUME BranchMap(tracker, Lineages), NEW h, Request(h)
  PROVE  \/ \E b \in DOMAIN tracker : Repeat(h, b)
         \/ /\ Owners(tracker, h) = {}
            /\ \/ \E b \in DOMAIN tracker : Advance(h, b)
               \/ \E b \in Unused, parent \in Branch \cup {NoBranch} : Open(h, b, parent)
<1> DEFINE found == Resolve(tracker, h)
<1>1. /\ found.of \subseteq DOMAIN tracker
      /\ found.transition \in {"extended", "trimmed", "forked", "created"}
           => Owners(tracker, h) = {}
  BY ResolveFinds
<1>2. DOMAIN tracker \subseteq Branch
  BY DEF BranchMap
<1>3. \/ \E b \in found.of : found.transition = "stable" /\ Repeat(h, b)
      \/ \E b \in found.of : found.transition \in {"extended", "trimmed"} /\ Advance(h, b)
      \/ \E b \in found.of : found.transition = "forked" /\ \E f \in Unused : Open(h, f, b)
      \/ found.transition = "created" /\ \E f \in Unused : Open(h, f, NoBranch)
  BY DEF Request
<1> HIDE DEF found
<1> QED
  BY <1>1, <1>2, <1>3

LEMMA RequestKeepsTrackerInv ==
  ASSUME TrackerInv, NEW h \in Histories, Request(h)
  PROVE  TrackerInv'
<1>1. BranchMap(tracker, Lineages)
  BY DEF TrackerInv
<1>2. CASE \E b \in DOMAIN tracker : Repeat(h, b)
  <2>1. tracker' = tracker
    BY <1>2 DEF Repeat
  <2>2. Lineages' = Lineages
    BY DEF Lineages, Histories
  <2> QED
    BY <2>1, <2>2 DEF TrackerInv, BranchMap, WindowsDisjoint
<1>3. CASE Owners(tracker, h) = {} /\ \E b \in DOMAIN tracker : Advance(h, b)
  BY <1>3, AdvanceKeepsTrackerInv
<1>4. CASE /\ Owners(tracker, h) = {}
           /\ \E b \in Unused, parent \in Branch \cup {NoBranch} : Open(h, b, parent)
  BY <1>4, OpenKeepsTrackerInv
<1> QED
  BY <1>1, <1>2, <1>3, <1>4, RequestCases

(***************************************************************************)
(* Without faults and replays the committed branches follow the tracker.   *)
(***************************************************************************)
(* What a successful commit leaves, on disk and in memory. *)
LEMMA CommitStores ==
  ASSUME NEW b, NEW record, ~world.faults, state = disk, Commit(b, record)
  PROVE  /\ state' = disk'
         /\ DOMAIN disk' = DOMAIN disk \cup {b}
         /\ disk'[b] = record
         /\ \A c \in DOMAIN disk : c # b => disk'[c] = disk[c]
<1>1. CASE b \in DOMAIN state /\ state[b] = record
  BY <1>1 DEF Commit
<1>2. CASE ~(b \in DOMAIN state /\ state[b] = record)
  <2>1. disk' = Put(disk, b, record) /\ state' = disk'
    BY <1>2 DEF Commit
  <2> QED
    BY <2>1 DEF Put
<1> QED
  BY <1>1, <1>2

(* A request that commits the lineage its tracker has leaves the two equal. *)
LEMMA ServeKeepsRestoredInv ==
  ASSUME ~world.faults, RestoredInv, NEW b, NEW parent, NEW h, Serve(b, parent, h),
         tracker' = [c \in DOMAIN tracker \cup {b} |->
                       IF c = b THEN Reconciled(b, parent, h).lineage ELSE tracker[c]]
  PROVE  RestoredInv'
<1> DEFINE record == Reconciled(b, parent, h)
<1>1. /\ state = disk
      /\ tracker = [c \in DOMAIN disk |-> disk[c].lineage]
      /\ catalog \subseteq DOMAIN disk
  BY DEF RestoredInv, Restored, CatalogCommitted
<1>2. Commit(b, record) /\ catalog' = catalog \cup {b}
  BY DEF Serve
<1> HIDE DEF record
<1>3. /\ state' = disk'
      /\ DOMAIN disk' = DOMAIN disk \cup {b}
      /\ disk'[b] = record
      /\ \A c \in DOMAIN disk : c # b => disk'[c] = disk[c]
  BY <1>1, <1>2, CommitStores
<1>4. tracker' = [c \in DOMAIN disk \cup {b} |->
                    IF c = b THEN record.lineage ELSE disk[c].lineage]
  BY <1>1 DEF record
<1>5. tracker' = [c \in DOMAIN disk' |-> disk'[c].lineage]
  <2>1. \A c \in DOMAIN disk \cup {b} :
          (IF c = b THEN record.lineage ELSE disk[c].lineage) = disk'[c].lineage
    BY <1>3
  <2> QED
    BY <2>1, <1>3, <1>4
<1>6. catalog' \subseteq DOMAIN disk'
  BY <1>1, <1>2, <1>3
<1> QED
  BY <1>3, <1>5, <1>6 DEF RestoredInv, Restored, CatalogCommitted

LEMMA RequestKeepsRestoredInv ==
  ASSUME ~world.faults, ~world.replays, TrackerInv, RestoredInv,
         NEW h \in Histories, Request(h)
  PROVE  RestoredInv'
<1>1. /\ state = disk
      /\ tracker = [c \in DOMAIN disk |-> disk[c].lineage]
      /\ BranchMap(tracker, Lineages)
      /\ DOMAIN tracker = DOMAIN state
      /\ \A b \in DOMAIN tracker : tracker[b] = state[b].lineage
  BY DEF RestoredInv, Restored, TrackerInv
<1>2. ASSUME NEW b \in DOMAIN tracker
      PROVE  /\ tracker[b] \in Lineages
             /\ tracker[b].window \in Seq(Histories) \ {<<>>}
             /\ tracker[b] = [window |-> tracker[b].window, parent |-> tracker[b].parent]
  BY <1>1 DEF BranchMap, Lineages
<1>3. CASE \E b \in DOMAIN tracker : Repeat(h, b)
  <2>1. PICK b \in DOMAIN tracker : Repeat(h, b)
    BY <1>3
  <2>2. h = Last(tracker[b].window) /\ tracker' = tracker
    BY <2>1 DEF Repeat, Current
  <2>3. Reconciled(b, tracker[b].parent, h).lineage = tracker[b]
    BY <1>1, <1>2, <2>2 DEF Reconciled
  <2>4. tracker' = [c \in DOMAIN tracker \cup {b} |->
                      IF c = b THEN Reconciled(b, tracker[b].parent, h).lineage
                      ELSE tracker[c]]
    <3>1. tracker = [c \in DOMAIN tracker |-> tracker[c]]
      BY <1>1
    <3> QED
      BY <2>2, <2>3, <3>1
  <2> QED
    BY <2>1, <2>4, ServeKeepsRestoredInv DEF Repeat
<1>4. CASE Owners(tracker, h) = {} /\ \E b \in DOMAIN tracker : Advance(h, b)
  <2>1. PICK b \in DOMAIN tracker : Advance(h, b)
    BY <1>4
  <2>2. Last(tracker[b].window) # h
    BY <1>2, <1>4, NotOwned, LastIsHeld
  <2>3. Reconciled(b, tracker[b].parent, h).lineage =
          [window |-> Slide(tracker[b].window, h), parent |-> tracker[b].parent]
    BY <1>1, <2>2 DEF Reconciled
  <2> DEFINE slid == Slide(tracker[b].window, h)
             lineage == Reconciled(b, tracker[b].parent, h).lineage
  <2>4. tracker' = [tracker EXCEPT ![b].window = slid]
    BY <2>1 DEF Advance
  <2>5. lineage = [window |-> slid, parent |-> tracker[b].parent]
    BY <2>3
  <2> HIDE DEF slid, lineage
  <2>6. [tracker[b] EXCEPT !.window = slid] = lineage
    BY <1>2, <2>5
  <2>7. tracker' = [c \in DOMAIN tracker |-> IF c = b THEN lineage ELSE tracker[c]]
    <3>1. tracker' = [c \in DOMAIN tracker |->
                        IF c = b THEN [tracker[b] EXCEPT !.window = slid]
                        ELSE tracker[c]]
      BY <2>4
    <3> QED
      BY <2>6, <3>1
  <2>8. tracker' = [c \in DOMAIN tracker \cup {b} |->
                      IF c = b THEN Reconciled(b, tracker[b].parent, h).lineage
                      ELSE tracker[c]]
    <3>1. DOMAIN tracker \cup {b} = DOMAIN tracker
      OBVIOUS
    <3> QED
      BY <2>7, <3>1 DEF lineage
  <2> QED
    BY <2>1, <2>8, ServeKeepsRestoredInv DEF Advance
<1>5. CASE \E b \in Unused, parent \in Branch \cup {NoBranch} : Open(h, b, parent)
  <2>1. PICK b \in Unused, parent \in Branch \cup {NoBranch} : Open(h, b, parent)
    BY <1>5
  <2>2. Reconciled(b, parent, h).lineage = [window |-> <<h>>, parent |-> parent]
    BY DEF Reconciled, Unused
  <2>3. tracker' = [c \in DOMAIN tracker \cup {b} |->
                      IF c = b THEN Reconciled(b, parent, h).lineage ELSE tracker[c]]
    BY <2>1, <2>2 DEF Open, Put
  <2> QED
    BY <2>1, <2>3, ServeKeepsRestoredInv DEF Open
<1> QED
  BY <1>1, <1>3, <1>4, <1>5, RequestCases

(***************************************************************************)
(* Where the bootstrap text goes: lemmas about histories and placements.   *)
(***************************************************************************)
(* A nonempty set of natural numbers has a least element. *)
LEMMA LeastNatural ==
  ASSUME NEW T \in SUBSET Nat, T # {}
  PROVE  Min(T) \in T /\ \A n \in T : Min(T) <= n
<1> DEFINE Less == OpToRel(<, Nat)
<1>1. IsWellFoundedOn(Less, Nat)
  BY NatLessThanWellFounded
<1>2. \A x, y \in Nat : x < y => <<x, y>> \in Less
  BY DEF OpToRel
<1> HIDE DEF Less
<1>3. PICK m \in T : \A n \in T : ~(<<n, m>> \in Less)
  BY <1>1, WFMin
<1>4. ASSUME NEW n \in T PROVE m <= n
  <2>1. m \in Nat /\ n \in Nat
    BY <1>3
  <2>2. ~(n < m)
    BY <2>1, <1>2, <1>3
  <2> QED
    BY <2>1, <2>2
<1> QED
  BY <1>4 DEF Min

(* A history is a sequence of items, and its prefixes are histories. *)
LEMMA HistoryTypes ==
  ASSUME NEW h \in Histories
  PROVE  h \in Seq(Item) /\ Len(h) \in 0 .. MaxLength
BY BoundAssumption, SeqDef DEF Histories, BoundedSeq, SeqOf

LEMMA PrefixIsHistory ==
  ASSUME NEW h \in Histories, NEW n \in 0 .. Len(h)
  PROVE  /\ SubSeq(h, 1, n) \in Histories
         /\ Len(SubSeq(h, 1, n)) = n
         /\ IsPrefix(SubSeq(h, 1, n), h)
         /\ n # 0 => SubSeq(h, 1, n) # <<>>
<1> DEFINE g == SubSeq(h, 1, n)
<1>1. h \in Seq(Item) /\ Len(h) \in 0 .. MaxLength /\ n \in 0 .. MaxLength
  BY HistoryTypes, BoundAssumption
<1>2. g \in Seq(Item) /\ Len(g) = n
  BY <1>1, SubSeqProperties, ElementOfSeq
<1>3. g \in [1 .. n -> Item]
  BY <1>2, LenProperties
<1>4. g \in Histories
  BY <1>1, <1>3 DEF Histories, BoundedSeq, SeqOf
<1>5. SubSeq(g, 1, Len(g)) = g
  BY <1>2, SubSeqFull
<1> QED
  BY <1>1, <1>2, <1>4, <1>5 DEF IsPrefix

(* The anchor a placement starts with is a nonempty prefix. *)
LEMMA FirstUserIsPrefix ==
  ASSUME NEW h \in Histories, UserIndices(h) # {}
  PROVE  FirstUser(h) \in Histories \ {<<>>} /\ IsPrefix(FirstUser(h), h)
<1>1. UserIndices(h) \subseteq 1 .. Len(h) /\ Len(h) \in Nat
  BY HistoryTypes DEF UserIndices
<1>2. Min(UserIndices(h)) \in 1 .. Len(h)
  BY <1>1, LeastNatural
<1> QED
  BY <1>1, <1>2, PrefixIsHistory DEF FirstUser

(* The newest observation of a window is the last one. *)
LEMMA SlideEnds ==
  ASSUME NEW w \in Seq(Histories) \ {<<>>}, NEW h \in Histories
  PROVE  Last(Slide(w, h)) = h
<1> DEFINE longer == Append(w, h)
<1>1. /\ Len(w) \in Nat \ {0}
      /\ longer \in Seq(Histories) /\ Len(longer) = Len(w) + 1
      /\ longer[Len(w) + 1] = h
  BY EmptySeq, AppendProperties
<1>2. Len(Tail(longer)) = Len(w) /\ Tail(longer)[Len(w)] = longer[Len(w) + 1]
  BY <1>1
<1> QED
  BY <1>1, <1>2 DEF Slide, Last

(* What is right about the placement of a branch whose last request is h. *)
Placed(p, h) ==
  /\ p \in Placements
  /\ p.status = "anchored" =>
       /\ p.anchor # <<>> /\ p.decision # "pending"
       /\ FindsAnchor(p.anchor, h)
  /\ p.status = "awaiting-anchor" => p = Awaiting
  /\ p.status = "stopped" => p.anchor = <<>>

LEMMA EmptyIsHistory == <<>> \in Histories
<1>1. <<>> \in [1 .. 0 -> Item] /\ 0 \in 0 .. MaxLength
  BY BoundAssumption
<1> QED
  BY <1>1 DEF Histories, BoundedSeq, SeqOf

(* A new placement awaits its anchor or is anchored and decided. *)
LEMMA PlaceIsPlaced ==
  ASSUME NEW h \in Histories PROVE Placed(Place(h), h)
<1>1. CASE UserIndices(h) = {}
  BY <1>1, EmptyIsHistory DEF Place, Placed, Awaiting, Placements
<1>2. CASE UserIndices(h) # {}
  <2>1. FirstUser(h) \in Histories \ {<<>>} /\ IsPrefix(FirstUser(h), h)
    BY <1>2, FirstUserIsPrefix
  <2> QED
    BY <1>2, <2>1 DEF Place, Anchored, Placed, Placements, FindsAnchor
<1> QED
  BY <1>1, <1>2

(* A lost anchor is replaced once, by one that the request has. *)
LEMMA LostIsPlaced ==
  ASSUME NEW h \in Histories, NEW p \in Placements,
         p.status = "anchored", p.decision # "pending"
  PROVE  /\ Placed(AnchorLost(p, h), h)
         /\ Follows(p, AnchorLost(p, h))
         /\ AnchorLost(p, h).decision = p.decision
<1>1. CASE p.reanchors = 0 /\ UserIndices(h) # {}
  <2>1. FirstUser(h) \in Histories \ {<<>>} /\ IsPrefix(FirstUser(h), h)
    BY <1>1, FirstUserIsPrefix
  <2>2. AnchorLost(p, h) =
          [decision |-> p.decision, status |-> "anchored",
           anchor |-> FirstUser(h), reanchors |-> 1]
    BY <1>1 DEF AnchorLost, Placements
  <2> QED
    BY <1>1, <2>1, <2>2 DEF Placed, Placements, FindsAnchor, Follows
<1>2. CASE ~(p.reanchors = 0 /\ UserIndices(h) # {})
  <2>1. AnchorLost(p, h) =
          [decision |-> p.decision, status |-> "stopped",
           anchor |-> <<>>, reanchors |-> p.reanchors]
    BY <1>2 DEF AnchorLost, Placements
  <2> QED
    BY <2>1, EmptyIsHistory DEF Placed, Placements, Follows
<1> QED
  BY <1>1, <1>2

(* The next request of a branch. *)
LEMMA KeepIsPlaced ==
  ASSUME NEW g, NEW h \in Histories, NEW p, Placed(p, g)
  PROVE  Placed(Keep(p, h), h) /\ Follows(p, Keep(p, h))
<1>1. p \in Placements /\ Follows(p, p)
  BY DEF Placed, Follows, Placements
<1>2. CASE p.status = "anchored"
  <2>1. Keep(p, h) = IF FindsAnchor(p.anchor, h) THEN p ELSE AnchorLost(p, h)
    BY <1>2 DEF Keep
  <2> QED
    BY <1>1, <1>2, <2>1, LostIsPlaced DEF Placed
<1>3. CASE p.status = "awaiting-anchor"
  <2>1. Keep(p, h) = Place(h) /\ p = Awaiting
    BY <1>3 DEF Keep, Placed
  <2>2. Placed(Place(h), h) /\ Place(h).reanchors \in {0, 1}
    BY PlaceIsPlaced DEF Placed, Placements
  <2>3. Follows(Awaiting, Place(h))
    BY <2>2 DEF Follows, Awaiting
  <2> QED
    BY <2>1, <2>2, <2>3
<1>4. CASE p.status = "stopped"
  <2>1. Keep(p, h) = p
    BY <1>4 DEF Keep
  <2> QED
    BY <1>1, <1>4, <2>1 DEF Placed
<1> QED
  BY <1>1, <1>2, <1>3, <1>4 DEF Placements

(* The first request of a fork. *)
LEMMA InheritIsPlaced ==
  ASSUME NEW g, NEW h \in Histories, NEW p, Placed(p, g)
  PROVE  /\ Placed(Inherit(p, h), h)
         /\ p.decision # "pending" => Inherit(p, h).decision = p.decision
<1>1. p \in Placements
  BY DEF Placed
<1>2. CASE p.status = "anchored" /\ FindsInherited(p.anchor, h)
  <2>1. p.anchor \in Histories /\ p.anchor # <<>> /\ p.decision # "pending"
    BY <1>1, <1>2 DEF Placed, Placements
  <2>2. Len(p.anchor) \in 1 .. Len(h)
    BY <1>2, <2>1, HistoryTypes, EmptySeq DEF FindsInherited
  <2> DEFINE new == SubSeq(h, 1, Len(p.anchor))
  <2>3. new \in Histories /\ new # <<>> /\ IsPrefix(new, h)
    BY <2>2, PrefixIsHistory
  <2>4. Inherit(p, h) = [p EXCEPT !.anchor = new]
    BY <1>2 DEF Inherit
  <2> HIDE DEF new
  <2> QED
    BY <1>1, <1>2, <2>1, <2>3, <2>4 DEF Placed, Placements, FindsAnchor
<1>3. CASE p.status = "anchored" /\ ~FindsInherited(p.anchor, h)
  <2>1. Inherit(p, h) = AnchorLost(p, h)
    BY <1>3 DEF Inherit
  <2> QED
    BY <1>1, <1>3, <2>1, LostIsPlaced DEF Placed
<1>4. CASE p.status = "awaiting-anchor"
  <2>1. Inherit(p, h) = Place(h) /\ p.decision = "pending"
    BY <1>4 DEF Inherit, Placed, Awaiting
  <2> QED
    BY <2>1, PlaceIsPlaced
<1>5. CASE p.status = "stopped"
  <2>1. Inherit(p, h) = p
    BY <1>5 DEF Inherit
  <2> QED
    BY <1>1, <1>5, <2>1 DEF Placed
<1> QED
  BY <1>1, <1>2, <1>3, <1>4, <1>5 DEF Placements

(***************************************************************************)
(* What is committed, and what it succeeds.                                *)
(***************************************************************************)
(* The branches t come after the branches s: none is forgotten, each       *)
(* follows its placement, and a fork keeps its parent's decision.          *)
Succeeds(s, t) ==
  /\ DOMAIN s \subseteq DOMAIN t
  /\ \A b \in DOMAIN s : Follows(s[b].placement, t[b].placement)
  /\ \A b \in DOMAIN t \ DOMAIN s :
       LET parent == t[b].lineage.parent
       IN  parent \in DOMAIN s /\ s[parent].placement.decision # "pending"
             => t[b].placement.decision = s[parent].placement.decision

(* Every branch of m is placed for the last request of it. *)
CommittedWell(m) ==
  /\ BranchMap(m, Persisted)
  /\ \A b \in DOMAIN m : Placed(m[b].placement, Current(m[b].lineage))

(* The invariant behind the placements: what a restart would find on disk  *)
(* is as good as what is published, and comes after it.                    *)
PlacedInv ==
  /\ TypeOK
  /\ CommittedWell(state)
  /\ CommittedWell(disk)
  /\ Succeeds(state, disk)

LEMMA SucceedsItself ==
  ASSUME NEW m, CommittedWell(m) PROVE Succeeds(m, m)
<1>1. ASSUME NEW b \in DOMAIN m PROVE Follows(m[b].placement, m[b].placement)
  <2>1. m[b].placement.reanchors \in {0, 1}
    BY DEF CommittedWell, Placed, Placements
  <2> QED
    BY <2>1 DEF Follows
<1> QED
  BY <1>1 DEF Succeeds

(* The record of a request is placed for it, and follows what the branch,  *)
(* or the branch it forks from, had before.                                *)
Continues(b, parent, record) ==
  /\ record \in Persisted
  /\ record.lineage.parent = parent
  /\ Placed(record.placement, Current(record.lineage))
  /\ b \in DOMAIN state => Follows(state[b].placement, record.placement)
  /\ /\ b \notin DOMAIN state /\ parent \in DOMAIN state
     /\ state[parent].placement.decision # "pending"
     => record.placement.decision = state[parent].placement.decision

LEMMA ReconciledContinues ==
  ASSUME CommittedWell(state), NEW b, NEW parent \in Branch \cup {NoBranch},
         NEW h \in Histories
  PROVE  Continues(b, parent, Reconciled(b, parent, h))
<1> DEFINE record == Reconciled(b, parent, h)
<1>1. CASE b \in DOMAIN state
  <2> DEFINE window == state[b].lineage.window
             next == IF Last(window) = h THEN window ELSE Slide(window, h)
             placement == Keep(state[b].placement, h)
  <2>1. record = [lineage |-> [window |-> next, parent |-> parent],
                  placement |-> placement]
    BY <1>1 DEF Reconciled
  <2>2. window \in Seq(Histories) \ {<<>>}
    BY <1>1 DEF CommittedWell, BranchMap, Persisted, Lineages
  <2>3. next \in Seq(Histories) \ {<<>>} /\ Last(next) = h
    BY <2>2, SlideHolds, SlideEnds
  <2>4. Placed(placement, h) /\ Follows(state[b].placement, placement)
    BY <1>1, KeepIsPlaced DEF CommittedWell
  <2> HIDE DEF window, next, placement
  <2>5. record \in Persisted
    BY <2>1, <2>3, <2>4 DEF Persisted, Lineages, Placed
  <2> HIDE DEF record
  <2>6. Continues(b, parent, record)
    BY <1>1, <2>1, <2>3, <2>4, <2>5 DEF Current, Continues
  <2> QED
    BY <2>6 DEF record
<1>2. CASE b \notin DOMAIN state
  <2> DEFINE placement == IF parent \in DOMAIN state
                          THEN Inherit(state[parent].placement, h)
                          ELSE Place(h)
  <2>1. record = [lineage |-> [window |-> <<h>>, parent |-> parent],
                  placement |-> placement]
    BY <1>2 DEF Reconciled
  <2>2. <<h>> \in Seq(Histories) \ {<<>>} /\ Last(<<h>>) = h
    BY DEF Last
  <2>3. /\ Placed(placement, h)
        /\ parent \in DOMAIN state /\ state[parent].placement.decision # "pending"
             => placement.decision = state[parent].placement.decision
    <3>1. CASE parent \in DOMAIN state
      BY <3>1, InheritIsPlaced DEF CommittedWell
    <3>2. CASE parent \notin DOMAIN state
      BY <3>2, PlaceIsPlaced
    <3> QED
      BY <3>1, <3>2
  <2> HIDE DEF placement
  <2>4. record \in Persisted
    BY <2>1, <2>2, <2>3 DEF Persisted, Lineages, Placed
  <2> HIDE DEF record
  <2>5. Continues(b, parent, record)
    BY <1>2, <2>1, <2>2, <2>3, <2>4 DEF Current, Continues
  <2> QED
    BY <2>5 DEF record
<1> QED
  BY <1>1, <1>2

(* Putting such a record leads to branches that are well and come after.   *)
LEMMA PutIsWell ==
  ASSUME CommittedWell(state), NEW b \in Branch, NEW parent, NEW record,
         Continues(b, parent, record)
  PROVE  /\ CommittedWell(Put(state, b, record))
         /\ Succeeds(state, Put(state, b, record))
<1> DEFINE new == Put(state, b, record)
<1>1. /\ DOMAIN new = DOMAIN state \cup {b}
      /\ new[b] = record
      /\ \A c \in DOMAIN state : c # b => new[c] = state[c]
  BY DEF Put
<1> HIDE DEF new
<1>2. CommittedWell(new)
  BY <1>1 DEF Continues, CommittedWell, BranchMap
<1>3. Succeeds(state, new)
  <2>1. ASSUME NEW c \in DOMAIN state PROVE Follows(state[c].placement, new[c].placement)
    BY <1>1, SucceedsItself DEF Continues, Succeeds
  <2> QED
    BY <1>1, <2>1 DEF Continues, Succeeds
<1> QED
  BY <1>2, <1>3 DEF new

(* A commit that succeeds, changes nothing, or fails before or after the   *)
(* file was renamed.                                                       *)
LEMMA CommitKeepsPlacements ==
  ASSUME CommittedWell(state), CommittedWell(disk), Succeeds(state, disk),
         NEW b \in Branch, NEW parent \in Branch \cup {NoBranch},
         NEW h \in Histories, Commit(b, Reconciled(b, parent, h))
  PROVE  /\ CommittedWell(state') /\ CommittedWell(disk')
         /\ Succeeds(state', disk') /\ Succeeds(state, state')
<1> DEFINE new == Put(state, b, Reconciled(b, parent, h))
<1>1. CommittedWell(new) /\ Succeeds(state, new)
  BY ReconciledContinues, PutIsWell
<1>2. \/ state' = state /\ disk' = disk
      \/ state' = new /\ disk' = new
      \/ state' = state /\ disk' = new
  BY DEF Commit
<1> HIDE DEF new
<1>3. Succeeds(state, state) /\ Succeeds(new, new)
  BY <1>1, SucceedsItself
<1>4. CASE state' = state /\ disk' = disk
  BY <1>3, <1>4
<1>5. CASE state' = new /\ disk' = new
  BY <1>1, <1>3, <1>5
<1>6. CASE state' = state /\ disk' = new
  BY <1>1, <1>3, <1>6
<1> QED
  BY <1>2, <1>4, <1>5, <1>6

(* A request keeps the type of the tracker, names only branches of it, and *)
(* commits one of them.                                                    *)
LEMMA RequestServes ==
  ASSUME TypeOK, NEW h \in Histories, Request(h)
  PROVE  /\ BranchMap(tracker', Lineages)
         /\ catalog' \subseteq DOMAIN tracker'
         /\ requests' = requests + 1 /\ requests < world.requests
         /\ restarts' = restarts /\ world' = world
         /\ \E b \in Branch, parent \in Branch \cup {NoBranch} :
              Commit(b, Reconciled(b, parent, h))
<1>1. BranchMap(tracker, Lineages) /\ catalog \subseteq DOMAIN tracker
  BY DEF TypeOK
<1>2. requests < world.requests
  BY DEF Request
<1>3. CASE \E b \in DOMAIN tracker : Repeat(h, b)
  <2>1. PICK b \in DOMAIN tracker : Repeat(h, b)
    BY <1>3
  <2>2. tracker' = tracker /\ Serve(b, tracker[b].parent, h)
    BY <2>1 DEF Repeat
  <2>3. b \in Branch /\ tracker[b].parent \in Branch \cup {NoBranch}
    BY <1>1 DEF BranchMap, Lineages
  <2> QED
    BY <1>1, <1>2, <2>2, <2>3 DEF Serve
<1>4. CASE \E b \in DOMAIN tracker : Advance(h, b)
  <2>1. PICK b \in DOMAIN tracker : Advance(h, b)
    BY <1>4
  <2>2. /\ tracker' = [tracker EXCEPT ![b].window = Slide(@, h)]
        /\ Serve(b, tracker[b].parent, h)
    BY <2>1 DEF Advance
  <2>3. b \in Branch /\ tracker[b].parent \in Branch \cup {NoBranch}
    BY <1>1 DEF BranchMap, Lineages
  <2>4. BranchMap(tracker', Lineages) /\ DOMAIN tracker' = DOMAIN tracker
    BY <1>1, <2>2, SlidKeepsType
  <2> QED
    BY <1>1, <1>2, <2>2, <2>3, <2>4 DEF Serve
<1>5. CASE \E b \in Unused, parent \in Branch \cup {NoBranch} : Open(h, b, parent)
  <2>1. PICK b \in Unused, parent \in Branch \cup {NoBranch} : Open(h, b, parent)
    BY <1>5
  <2>2. /\ tracker' = Put(tracker, b, [window |-> <<h>>, parent |-> parent])
        /\ Serve(b, parent, h)
    BY <2>1 DEF Open
  <2>3. b \in Branch
    BY DEF Unused
  <2>4. BranchMap(tracker', Lineages) /\ DOMAIN tracker' = DOMAIN tracker \cup {b}
    <3>1. [window |-> <<h>>, parent |-> parent] \in Lineages
      BY DEF Lineages
    <3> QED
      BY <1>1, <2>2, <2>3, <3>1 DEF Put, BranchMap
  <2> QED
    BY <1>1, <1>2, <2>2, <2>3, <2>4 DEF Serve
<1> QED
  BY <1>1, <1>3, <1>4, <1>5, RequestCases

(***************************************************************************)
(* The theorems.                                                           *)
(***************************************************************************)
LEMMA InitHolds == Init => TrackerInv /\ RestoredInv
<1> SUFFICES ASSUME Init PROVE TrackerInv /\ RestoredInv
  OBVIOUS
<1>1. DOMAIN <<>> = {} /\ <<>> = [b \in {} |-> <<>>[b].lineage]
  OBVIOUS
<1>2. /\ tracker = <<>> /\ state = <<>> /\ disk = <<>> /\ catalog = {}
  BY DEF Init
<1> QED
  BY <1>1, <1>2 DEF TrackerInv, BranchMap, WindowsDisjoint, RestoredInv, Restored,
                    CatalogCommitted

(* The invariant: of every process that was not restarted, and of every    *)
(* one when no client replays and no commit fails.                         *)
Inv ==
  /\ restarts \in Nat
  /\ restarts = 0 \/ Forward => TrackerInv
  /\ Forward => RestoredInv

THEOREM Invariant == Spec => []Inv
<1>1. Init => Inv
  BY InitHolds DEF Init, Inv
<1>2. Inv /\ [Next]_vars => Inv'
  <2> SUFFICES ASSUME Inv, [Next]_vars PROVE Inv'
    OBVIOUS
  <2>1. CASE \E h \in Histories : Request(h)
    <3>1. PICK h \in Histories : Request(h)
      BY <2>1
    <3>2. restarts' = restarts /\ world' = world
      BY <3>1 DEF Request, Repeat, Advance, Open, Serve
    <3>3. TrackerInv => TrackerInv'
      BY <3>1, RequestKeepsTrackerInv
    <3>4. Forward /\ TrackerInv /\ RestoredInv => RestoredInv'
      BY <3>1, RequestKeepsRestoredInv DEF Forward
    <3> QED
      BY <3>2, <3>3, <3>4 DEF Inv, Forward
  <2>2. CASE Restart
    <3>1. world' = world /\ restarts' = restarts + 1
      BY <2>2 DEF Restart
    <3>2. Forward' <=> Forward
      BY <3>1 DEF Forward
    <3>3. CASE Forward
      <4>1. TrackerInv /\ RestoredInv
        BY <3>3 DEF Inv
      <4>2. tracker' = tracker /\ disk' = disk /\ state' = disk /\ catalog' = {}
        BY <2>2, <4>1 DEF Restart, RestoredInv
      <4>3. Lineages' = Lineages /\ Restored(disk)' = Restored(disk)
        BY <4>2 DEF Lineages, Histories, Restored
      <4>4. TrackerInv' /\ RestoredInv'
        BY <4>1, <4>2, <4>3 DEF TrackerInv, BranchMap, WindowsDisjoint, RestoredInv,
                                Restored, CatalogCommitted
      <4> QED
        BY <3>1, <4>4 DEF Inv
    <3>4. CASE ~Forward
      <4>1. restarts' \in Nat \ {0}
        BY <3>1 DEF Inv
      <4> QED
        BY <3>2, <3>4, <4>1 DEF Inv
    <3> QED
      BY <3>3, <3>4
  <2>3. CASE UNCHANGED vars
    <3>1. TrackerInv => TrackerInv'
      BY <2>3 DEF vars, TrackerInv, BranchMap, WindowsDisjoint, Lineages, Histories
    <3>2. RestoredInv => RestoredInv'
      BY <2>3 DEF vars, RestoredInv, Restored, CatalogCommitted
    <3> QED
      BY <2>3, <3>1, <3>2 DEF vars, Inv, Forward
  <2> QED
    BY <2>1, <2>2, <2>3 DEF Next
<1> QED
  BY <1>1, <1>2, PTL DEF Spec

(* No observation is served as two branches: within one process, however   *)
(* often clients replay and commits fail, and across any number of         *)
(* restarts when they do not (observe).                                    *)
THEOREM OneOwnerAlways == Spec => []OneOwner
<1>1. Inv => OneOwner
  BY DEF Inv, TrackerInv, OneOwner
<1> QED
  BY <1>1, Invariant, PTL

(* A restart does not change what any request resolves to (restore).       *)
THEOREM ForwardKeepsIdentityAlways == Spec => []ForwardKeepsIdentity
<1>1. Inv => ForwardKeepsIdentity
  BY DEF Inv, RestoredInv, ForwardKeepsIdentity, RestartKeepsIdentity
<1> QED
  BY <1>1, Invariant, PTL

(* And a command can only name a branch that a restart remembers.          *)
THEOREM CataloguedIsDurableAlways == Spec => []CataloguedIsDurable
<1>1. Inv => CataloguedIsDurable
  BY DEF Inv, RestoredInv, CataloguedIsDurable
<1> QED
  BY <1>1, Invariant, PTL

(* The invariant of the placements is inductive, and each step leads to    *)
(* committed branches that come after the ones before it.                  *)
LEMMA PlacedStep ==
  ASSUME PlacedInv, [Next]_vars
  PROVE  PlacedInv' /\ Succeeds(state, state')
<1>1. CASE \E h \in Histories : Request(h)
  <2>1. PICK h \in Histories : Request(h)
    BY <1>1
  <2>2. /\ BranchMap(tracker', Lineages)
        /\ catalog' \subseteq DOMAIN tracker'
        /\ requests' = requests + 1 /\ requests < world.requests
        /\ restarts' = restarts /\ world' = world
        /\ \E b \in Branch, parent \in Branch \cup {NoBranch} :
             Commit(b, Reconciled(b, parent, h))
    BY <2>1, RequestServes DEF PlacedInv
  <2>3. /\ CommittedWell(state') /\ CommittedWell(disk')
        /\ Succeeds(state', disk') /\ Succeeds(state, state')
    BY <2>2, CommitKeepsPlacements DEF PlacedInv
  <2>4. TypeOK'
    <3>1. world \in Worlds /\ world.requests \in Nat /\ requests \in 0 .. world.requests
      BY BoundAssumption DEF PlacedInv, TypeOK
    <3>2. requests' \in 0 .. world'.requests
      BY <2>2, <3>1
    <3> QED
      BY <2>2, <2>3, <3>1, <3>2 DEF PlacedInv, TypeOK, CommittedWell
  <2> QED
    BY <2>3, <2>4 DEF PlacedInv
<1>2. CASE Restart
  <2>1. /\ state' = disk /\ disk' = disk /\ tracker' = Restored(disk)
        /\ catalog' = {} /\ requests' = requests /\ world' = world
        /\ restarts' = restarts + 1 /\ restarts < MaxRestarts
    BY <1>2 DEF Restart
  <2>2. CommittedWell(disk) /\ Succeeds(disk, disk) /\ Succeeds(state, disk)
    BY SucceedsItself DEF PlacedInv
  <2>3. BranchMap(Restored(disk), Lineages)
    BY <2>2 DEF CommittedWell, BranchMap, Restored, Persisted
  <2>4. restarts' \in 0 .. MaxRestarts
    BY <2>1, BoundAssumption DEF PlacedInv, TypeOK
  <2>5. TypeOK'
    BY <2>1, <2>2, <2>3, <2>4 DEF PlacedInv, TypeOK, CommittedWell
  <2> QED
    BY <2>1, <2>2, <2>5 DEF PlacedInv
<1>3. CASE UNCHANGED vars
  <2>1. /\ tracker' = tracker /\ catalog' = catalog /\ state' = state /\ disk' = disk
        /\ requests' = requests /\ restarts' = restarts /\ world' = world
    BY <1>3 DEF vars
  <2>2. Succeeds(state, state)
    BY SucceedsItself DEF PlacedInv
  <2>3. TypeOK'
    BY <2>1 DEF PlacedInv, TypeOK
  <2> QED
    BY <2>1, <2>2, <2>3 DEF PlacedInv
<1> QED
  BY <1>1, <1>2, <1>3 DEF Next

THEOREM PlacedInvariant == Spec => []PlacedInv
<1>1. Init => PlacedInv
  <2> SUFFICES ASSUME Init PROVE PlacedInv
    OBVIOUS
  <2>1. /\ DOMAIN tracker = {} /\ DOMAIN state = {} /\ DOMAIN disk = {}
        /\ catalog = {} /\ requests = 0 /\ restarts = 0 /\ world \in Worlds
    BY DEF Init
  <2>2. world.requests \in Nat /\ MaxRestarts \in Nat
    BY <2>1, BoundAssumption
  <2> QED
    BY <2>1, <2>2 DEF PlacedInv, TypeOK, BranchMap, CommittedWell, Succeeds
<1>2. PlacedInv /\ [Next]_vars => PlacedInv'
  BY PlacedStep
<1> QED
  BY <1>1, <1>2, PTL DEF Spec

(* Whatever clients send and wherever a commit fails, the tracker, the     *)
(* committed branches and the file keep their types.                       *)
THEOREM TypeCorrect == Spec => []TypeOK
<1>1. PlacedInv => TypeOK
  BY DEF PlacedInv
<1> QED
  BY <1>1, PlacedInvariant, PTL

(* The anchor of a committed branch is in the last request of it, and its  *)
(* decision is made: through replays, trims, forks, commits that fail      *)
(* after the rename, and restarts (reconcileBootstrapState).               *)
THEOREM AnchorReconciledAlways == Spec => []AnchorReconciled
<1>1. PlacedInv => AnchorReconciled
  BY DEF PlacedInv, CommittedWell, Placed, AnchorReconciled
<1> QED
  BY <1>1, PlacedInvariant, PTL

(* A decision is made once, an anchor moves once, a stopped branch stays   *)
(* stopped and a fork decides as its parent did, also across a restart     *)
(* that finds on disk a commit the process took for failed.                *)
THEOREM DecisionIsFinalAlways == Spec => DecisionIsFinal
<1>1. PlacedInv /\ [Next]_vars =>
        [/\ DOMAIN state \subseteq DOMAIN state'
         /\ \A b \in DOMAIN state :
              Follows(state[b].placement, state'[b].placement)
         /\ \A b \in DOMAIN state' \ DOMAIN state :
              LET parent == state'[b].lineage.parent
              IN  parent \in DOMAIN state /\ state[parent].placement.decision # "pending"
                    => state'[b].placement.decision = state[parent].placement.decision
        ]_state
  BY PlacedStep DEF Succeeds
<1> QED
  BY <1>1, PlacedInvariant, PTL DEF Spec, DecisionIsFinal

=============================================================================
