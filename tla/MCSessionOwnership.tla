------------------------- MODULE MCSessionOwnership -------------------------
(* Incarnations of SessionOwnership for TLC. *)
EXTENDS SessionOwnership, TLC
CONSTANTS a, b, c
ProcSymmetry == Permutations(Proc)
(* Three that start promptly, or two that may close in order, one of which *)
(* may be slow, and two that may meet I/O errors.                          *)
PromptOrMixed ==
  {[mayClose |-> {}, maySlow |-> {}, mayFault |-> Proc],
   [mayClose |-> {a, b}, maySlow |-> {b}, mayFault |-> {a, c}]}
AllClose == {[mayClose |-> Proc, maySlow |-> {}, mayFault |-> {}]}
=============================================================================
