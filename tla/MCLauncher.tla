----------------------------- MODULE MCLauncher -----------------------------
(* Every kind of launch for TLC. *)
EXTENDS Launcher
AllModes == Wrapped \cup Cursor
=============================================================================
