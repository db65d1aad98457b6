---------------------------- MODULE MCProxyServer ----------------------------
(* Two requests for TLC. *)
EXTENDS ProxyServer
CONSTANTS r1, r2
=============================================================================
