-------------------------- MODULE MCStreamBodyDocs --------------------------
(***************************************************************************)
(* StreamBodyDocs for TLC, with the limits of MCStreamBody.                *)
(***************************************************************************)
EXTENDS StreamBodyDocs

IdleValues == {0, 2, 4}
TotalValues == {0, 3}
=============================================================================
