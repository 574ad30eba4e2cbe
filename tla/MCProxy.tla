------------------------------ MODULE MCProxy ------------------------------
(***************************************************************************)
(* Two instances of Proxy for TLC.  The keys instance has one backend with *)
(* room for two requests, a key with a limit and an allowlist, a key       *)
(* without a limit, and a bearer that is no key.  The other one has no     *)
(* keys, a backend that one request fills, and a backend with an alias     *)
(* whose header cannot be built.                                           *)
(***************************************************************************)
EXTENDS Proxy, TLC

CONSTANTS r1, r2, r3

TwoRequests == {r1, r2}
ThreeRequests == {r1, r2, r3}
RequestSymmetry == Permutations(Request)

OneTier == <<0>>
OneLimit == <<2>>
NoAliases == <<{}>>
KeyLimits == [k \in ApiKey |-> IF k = "limited" THEN 1 ELSE 0]
KeyModels == [k \in ApiKey |-> IF k = "limited" THEN {"m"} ELSE {"n"}]
ModelLists == {{}, {"m", "n"}}

Tiers2 == <<0, 0>>
Limits2 == <<1, 1>>
Aliases2 == <<{}, {"m"}>>
NoLimit == [k \in ApiKey |-> 0]
EveryModel == [k \in ApiKey |-> Model]
OneModelList == {{"m"}}
=============================================================================
