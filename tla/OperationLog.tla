---------------------------- MODULE OperationLog ----------------------------
(***************************************************************************)
(* What the state store promises its clients: a log of operations, each    *)
(* applied at most once and at its own revision, that never loses one it   *)
(* acknowledged.  An operation whose caller got an error or no answer has  *)
(* an unknown outcome: it may still surface, alone, when the store is read *)
(* again, and it is answered with the receipt of that one application.     *)
(* Revisions nobody waits for are numbered in between.                     *)
(***************************************************************************)
EXTENDS Naturals

CONSTANT Op            \* identifiers of the clients' operations (UUIDs)

VARIABLES
  attempted,           \* the operations whose write was begun
  revision,            \* the number of the last revision
  applied,             \* the revision each operation committed, or 0
  acked                \* the revision its receipt told a client, or 0

vars == <<attempted, revision, applied, acked>>

(* The log is empty, or inherited from an older schema with one operation. *)
Init ==
  /\ \/ revision = 0 /\ applied = [o \in Op |-> 0]
     \/ /\ revision = 1
        /\ \E p \in Op : applied = [o \in Op |-> IF o = p THEN 1 ELSE 0]
  /\ acked = applied
  /\ attempted = {}

Attempt(o) ==
  /\ attempted' = attempted \cup {o}
  /\ UNCHANGED <<revision, applied, acked>>

Append(o) ==
  /\ o \in attempted
  /\ applied[o] = 0
  /\ revision' = revision + 1
  /\ applied' = [applied EXCEPT ![o] = revision + 1]

(* The outcome of an operation that was not answered becomes visible. *)
Surface(o) == Append(o) /\ UNCHANGED <<attempted, acked>>

Commit(o) ==
  /\ Append(o)
  /\ acked' = [acked EXCEPT ![o] = applied'[o]]
  /\ UNCHANGED attempted

(* A retry is answered with the receipt of the first application. *)
Answer(o) ==
  /\ applied[o] # 0
  /\ acked' = [acked EXCEPT ![o] = applied[o]]
  /\ UNCHANGED <<attempted, revision, applied>>

(* A revision of the compiler's, which is no client's operation. *)
Anonymous ==
  /\ revision' = revision + 1
  /\ UNCHANGED <<attempted, applied, acked>>

Next ==
  \/ \E o \in Op : Attempt(o) \/ Surface(o) \/ Commit(o) \/ Answer(o)
  \/ Anonymous

Spec == Init /\ [][Next]_vars

=============================================================================
