--------------------------- MODULE MCControlPlane ---------------------------
(***************************************************************************)
(* ControlPlane for TLC: two backends, the second one with an alias that   *)
(* the first one's upstream may report too.                                *)
(***************************************************************************)
EXTENDS ControlPlane

Tiers == <<0, 0>>
Limits == <<0, 0>>
OneAliased == <<{}, {"m"}>>
Reports == {Failed, {"m"}, {"m", "n"}}
=============================================================================
