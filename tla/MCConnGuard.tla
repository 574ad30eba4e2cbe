---------------------------- MODULE MCConnGuard ----------------------------
(***************************************************************************)
(* ConnGuard for TLC: three threads, and a limit that two of them fill.    *)
(***************************************************************************)
EXTENDS ConnGuard

CONSTANTS c1, c2, c3

ThreeClients == {c1, c2, c3}
=============================================================================
