--------------------------- MODULE MCSnapshotStore ---------------------------
(* Operations of SnapshotStore for TLC: one branch commits once, another   *)
(* twice, so that with two receipts kept the middle one can be dropped.    *)
EXTENDS SnapshotStore, TLC
CONSTANTS c1, c2, b1, b2, b3
MCBranchOf == [b \in {b1, b2, b3} |-> IF b = b1 THEN "root" ELSE "fork"]
OpSymmetry ==
  {c @@ b : c \in Permutations({c1, c2}), b \in Permutations({b2, b3})}
=============================================================================
