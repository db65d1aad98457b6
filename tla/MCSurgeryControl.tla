-------------------------- MODULE MCSurgeryControl --------------------------
(* A conversation for TLC: a text and a picture, what a trim leaves of it, *)
(* a text with a protected call in its message, and a fork with its own    *)
(* copy of the text.                                                       *)
EXTENDS SurgeryControl, TLC
CONSTANTS c1, c2, main, fork, text, picture, rest, call, copy
MCContents ==
  [b \in {main, fork} |->
     IF b = main THEN {{text, picture}, {rest, call}} ELSE {{copy}}]
MCContainer ==
  [o \in {text, picture, rest, call, copy} |-> IF o = call THEN rest ELSE o]
ClientSymmetry == Permutations(Client)
=============================================================================
