------------------------------- MODULE Slots -------------------------------
(***************************************************************************)
(* What a bounded pool of in-flight slots promises, whatever counts it:    *)
(* a slot is taken only while the pool has room, is given back by the      *)
(* client that took it, and nothing else ever changes who holds one.       *)
(*                                                                         *)
(* A pool is a backend (max_connections) or an API key                     *)
(* (concurrent_requests); a capacity of 0 means unlimited.  ConnGuard      *)
(* implements one pool with an atomic counter, and Proxy implements all    *)
(* the pools of the router at once.                                        *)
(***************************************************************************)
EXTENDS Naturals, FiniteSets

CONSTANTS Client,  \* who may hold a slot
          Pool,    \* what slots are taken from
          Cap      \* Cap[p]: the capacity of p, 0 for unlimited

VARIABLE holders   \* holders[p]: the clients holding a slot of p

Unlimited(p) == Cap[p] = 0

Init == holders = [p \in Pool |-> {}]

Acquire(c, p) ==
    /\ c \notin holders[p]
    /\ Unlimited(p) \/ Cardinality(holders[p]) < Cap[p]
    /\ holders' = [holders EXCEPT ![p] = @ \cup {c}]

Release(c, p) ==
    /\ c \in holders[p]
    /\ holders' = [holders EXCEPT ![p] = @ \ {c}]

Next == \E c \in Client, p \in Pool : Acquire(c, p) \/ Release(c, p)

Spec == Init /\ [][Next]_holders
=============================================================================
