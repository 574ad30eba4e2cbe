---------------------------- MODULE MCProxyDocs ----------------------------
(***************************************************************************)
(* ProxyDocs for TLC: two requests, a preferred backend that one request   *)
(* saturates, and a fallback one.                                          *)
(***************************************************************************)
EXTENDS ProxyDocs, TLC

CONSTANTS r1, r2

TwoRequests == {r1, r2}

Tiers2 == <<1, 0>>
Limits2 == <<0, 1>>
Aliases2 == <<{"m"}, {}>>

NoLimit == [k \in ApiKey |-> 0]
EveryModel == [k \in ApiKey |-> Model]
ModelLists == {{}, {"m"}}
=============================================================================
