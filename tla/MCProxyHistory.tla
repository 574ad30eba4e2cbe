--------------------------- MODULE MCProxyHistory ---------------------------
(***************************************************************************)
(* ProxyHistory for TLC.  Two requests of one session race over three      *)
(* backends: two of the preferred tier, listed after the fallback one, so  *)
(* that configuration order, tier and load disagree.                       *)
(***************************************************************************)
EXTENDS ProxyHistory, TLC

CONSTANTS r1, r2

TwoRequests == {r1, r2}
RequestSymmetry == Permutations(Request)

Tiers3 == <<1, 0, 0>>
Limits3 == <<1, 1, 2>>
NoAliases3 == <<{}, {}, {}>>

Tiers2 == <<1, 0>>
Limits2 == <<0, 1>>
Aliases2 == <<{"m"}, {}>>

NoLimit == [k \in ApiKey |-> 0]
EveryModel == [k \in ApiKey |-> Model]
OneModelList == {{"m"}}
ModelLists == {{}, {"m"}}
=============================================================================
