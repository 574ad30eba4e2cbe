------------------------------ MODULE Routing ------------------------------
(***************************************************************************)
(* The configuration of the backends and the questions routing asks of one *)
(* backend or of one candidate list (src/routing.rs, src/state.rs).  They  *)
(* are pure: what they read of the shared state is passed to them, since   *)
(* the router reads it one piece at a time while other requests change it. *)
(*                                                                         *)
(* A backend is its index in the configuration, which is what the session  *)
(* cache stores too; 0 stands for no backend.                              *)
(***************************************************************************)
EXTENDS Naturals, Sequences

CONSTANTS NumBackends,  \* the configuration names at least one backend
          Model,        \* model names clients may ask for
          Fallback,     \* Fallback[b]: the tier of b, lower is preferred
          MaxConn,      \* MaxConn[b]: max_connections of b, 0 for unlimited
          Aliases       \* Aliases[b]: the alias names of b, {} for no aliases

Backend == 1..NumBackends
NoBackendId == 0

ASSUME BackendAssumption ==
    /\ NumBackends \in Nat \ {0}
    /\ Fallback \in [Backend -> Nat]
    /\ MaxConn \in [Backend -> Nat]
    /\ Aliases \in [Backend -> SUBSET Model]

\* A bound that is one too large.
Full_late(n, max) == max > 0 /\ n > max

\* The test of is_saturated, and the one try_acquire makes before it counts.
Full(n, max) == max > 0 /\ n >= max

\* raw: the model ids last fetched from b.
Serves(b, m, raw) == IF Aliases[b] # {} THEN m \in Aliases[b] ELSE m \in raw

\* The filter of healthy_candidates, for a backend with n requests in flight.
Candidate(up, n, b, m, raw) ==
    up /\ ~Full(n, MaxConn[b]) /\ Serves(b, m, raw)

\* Least connections first, tiers only as the tie-break.
Less_load(a, b, load) ==
    \/ load[a] < load[b]
    \/ load[a] = load[b] /\ Fallback[a] < Fallback[b]

\* Equal elements swapped: the sort is not stable.
Less_unstable(a, b, load) ==
    \/ Fallback[a] < Fallback[b]
    \/ Fallback[a] = Fallback[b] /\ load[a] <= load[b]

\* The comparison of sort_by_fallback_and_connections, load being the counters
\* at the moment of this comparison.
Less(a, b, load) ==
    \/ Fallback[a] < Fallback[b]
    \/ Fallback[a] = Fallback[b] /\ load[a] < load[b]

Swap(s, i, j) == [s EXCEPT ![i] = s[j], ![j] = s[i]]

Position(s, b) == CHOOSE i \in DOMAIN s : s[i] = b

\* Inserting the pinned backend over the head, which is lost.
MoveToFront_over(s, p) == [s EXCEPT ![1] = s[p]]

\* cands.insert(0, cands.remove(p)).
MoveToFront(s, p) ==
    [i \in DOMAIN s |->
        CASE i = 1 -> s[p]
          [] 1 < i /\ i <= p -> s[i - 1]
          [] OTHER -> s[i]]
=============================================================================
