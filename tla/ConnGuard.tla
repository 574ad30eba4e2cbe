----------------------------- MODULE ConnGuard -----------------------------
(***************************************************************************)
(* ConnGuard::try_acquire and its Drop (src/proxy.rs) at the grain of      *)
(* their atomic operations: the load, the compare_exchange_weak and the    *)
(* fetch_sub of threads that share one AtomicU64.                          *)
(*                                                                         *)
(* A client is a thread inside one try_acquire, or holding the guard that  *)
(* try_acquire returned.                                                   *)
(***************************************************************************)
EXTENDS Naturals, FiniteSets

CONSTANTS Client,          \* the threads that use the counter
          MaxConnections,  \* the limit passed to try_acquire, 0 for unlimited
          MaxU64           \* the largest value of the counter

ASSUME ClientAssumption == IsFiniteSet(Client)
ASSUME LimitAssumption == MaxConnections \in Nat

\* Fewer threads than a u64 can count: the counter never saturates.
ASSUME WidthAssumption == MaxU64 \in Nat /\ Cardinality(Client) <= MaxU64

VARIABLES active,  \* the shared AtomicU64
          pc,      \* where each client is
          cur      \* the local `cur` of each client's loop

vars == <<active, pc, cur>>

PC == {"idle", "load", "cas", "held", "refused"}
Looping == {"load", "cas"}

Held == {c \in Client : pc[c] = "held"}

Goto(c, l) == pc' = [pc EXCEPT ![c] = l]

Init ==
    /\ active = 0
    /\ pc = [c \in Client |-> "idle"]
    /\ cur = [c \in Client |-> 0]

\* A bound that is one too large.
AtCapacity_late(n) == MaxConnections > 0 /\ n > MaxConnections

AtCapacity(n) == MaxConnections > 0 /\ n >= MaxConnections

SaturatingAdd(n) == IF n = MaxU64 THEN n ELSE n + 1
WrappingSub(n) == IF n = 0 THEN MaxU64 ELSE n - 1

Call(c) ==
    /\ pc[c] = "idle"
    /\ Goto(c, "load")
    /\ UNCHANGED <<active, cur>>

\* The load, and the early `return None` decided by the value just read.
Load(c) ==
    /\ pc[c] = "load"
    /\ cur' = [cur EXCEPT ![c] = active]
    /\ Goto(c, IF AtCapacity(active) THEN "refused" ELSE "cas")
    /\ UNCHANGED active

\* A plain store instead of the compare-and-exchange.
CasOk_store(c) ==
    /\ pc[c] = "cas"
    /\ active' = SaturatingAdd(cur[c])
    /\ Goto(c, "held")
    /\ UNCHANGED cur

CasOk(c) ==
    /\ pc[c] = "cas"
    /\ active = cur[c]
    /\ active' = SaturatingAdd(cur[c])
    /\ Goto(c, "held")
    /\ UNCHANGED cur

\* A retry that keeps the stale `cur` instead of loading again.
CasFail_stale(c) == pc[c] = "cas" /\ UNCHANGED vars

\* One attempt only: a failed exchange is reported as no capacity.
CasFail_gives_up(c) ==
    /\ pc[c] = "cas"
    /\ Goto(c, "refused")
    /\ UNCHANGED <<active, cur>>

\* compare_exchange_weak also fails spuriously, when active = cur[c].
CasFail(c) ==
    /\ pc[c] = "cas"
    /\ Goto(c, "load")
    /\ UNCHANGED <<active, cur>>

\* The refused caller drops a guard it never got.
Refused_drops(c) ==
    /\ pc[c] = "refused"
    /\ active' = active - 1
    /\ Goto(c, "idle")
    /\ UNCHANGED cur

\* The caller saw None.
Refused(c) ==
    /\ pc[c] = "refused"
    /\ Goto(c, "idle")
    /\ UNCHANGED <<active, cur>>

Drop(c) ==
    /\ pc[c] = "held"
    /\ active' = WrappingSub(active)
    /\ Goto(c, "idle")
    /\ UNCHANGED cur

Next ==
    \E c \in Client :
        \/ Call(c) \/ Load(c) \/ CasOk(c) \/ CasFail(c)
        \/ Refused(c) \/ Drop(c)

Spec == Init /\ [][Next]_vars

\* A running thread executes its next instruction; and when compare-and-
\* exchanges keep finding the value they expect, some of them succeed (the
\* forward progress of the hardware's store-conditional).  Nothing says which
\* thread wins, and a caller need neither call again nor drop its guard.
Fairness ==
    /\ \A c \in Client : WF_vars(Load(c)) /\ WF_vars(CasOk(c) \/ CasFail(c))
    /\ SF_vars(\E c \in Client : CasOk(c))

FairSpec == Spec /\ Fairness

-----------------------------------------------------------------------------
\* The counter, the threads and their locals keep their types; in particular
\* the counter never leaves the range of a u64 that has not wrapped.
TypeOK ==
    /\ active \in 0..MaxU64
    /\ pc \in [Client -> PC]
    /\ cur \in [Client -> 0..MaxU64]

\* The counter equals the number of live guards at every instruction boundary:
\* no interleaving of loads, exchanges and drops loses or invents a slot.
CountMatchesGuards == active = Cardinality(Held)

\* "We never oversubscribe a backend under concurrent load" (the comment on the
\* call in forward_once), stated of the guards themselves, not of the counter.
NeverOversubscribed ==
    MaxConnections > 0 => Cardinality(Held) <= MaxConnections

\* What the proof of the two needs: a client about to exchange has read a value
\* that was below the limit.
ReadBelowLimit ==
    \A c \in Client : pc[c] = "cas" => ~AtCapacity(cur[c])

IInv == TypeOK /\ CountMatchesGuards /\ NeverOversubscribed /\ ReadBelowLimit

\* try_acquire returns None only at a moment when every slot is really held.
RefusalJustified ==
    [][\A c \in Client :
          pc[c] # "refused" /\ pc'[c] = "refused"
             => MaxConnections > 0 /\ Cardinality(Held) >= MaxConnections]_vars

\* The loop is lock-free: a call can only be kept looping for ever by other
\* acquisitions and drops that do happen.
LockFree ==
    \/ []<><<active' # active>>_vars
    \/ \A c \in Client : []<>(pc[c] \notin Looping)

\* The atomic counter implements one bounded pool.
Pools == INSTANCE Slots WITH Pool <- {"counter"},
                             Cap <- [p \in {"counter"} |-> MaxConnections],
                             holders <- [p \in {"counter"} |-> Held]

ImplementsSlots == Pools!Spec
=============================================================================
