------------------------------ MODULE MCBranches ------------------------------
(* A user text, the same behind the bootstrap text, an answer, for TLC. *)
EXTENDS Branches
CONSTANTS b1, b2, user, echo, answer
MCEchoes == {<<echo, user>>}
BranchSymmetry == Permutations(Branch)

(* Anything may happen; clients only go forward; clients replay. *)
AnyWorld == [items |-> Item, requests |-> 3, replays |-> TRUE, faults |-> TRUE]
ForwardWorld == [items |-> {user, answer}, requests |-> 5, replays |-> FALSE, faults |-> FALSE]
ReplayWorld == [items |-> {user, answer}, requests |-> 4, replays |-> TRUE, faults |-> FALSE]
AnyOrForward == {AnyWorld, ForwardWorld}
OnlyReplay == {ReplayWorld}
=============================================================================
