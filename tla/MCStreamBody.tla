---------------------------- MODULE MCStreamBody ----------------------------
(***************************************************************************)
(* StreamBody for TLC: each timeout off or on, and the idle one shorter or *)
(* longer than the total one, so that every kind of wait and both orders   *)
(* of expiry occur.  The header timeout can use up the whole deadline.     *)
(***************************************************************************)
EXTENDS StreamBody

IdleValues == {0, 2, 4}
TotalValues == {0, 3}
=============================================================================
