-------------------------- MODULE ConnGuardProofs --------------------------
(***************************************************************************)
(* Proofs about ConnGuard, for every finite set of threads and every       *)
(* limit: the counter is exact, the limit is never exceeded, and the       *)
(* counter implements the abstract pool of Slots.                          *)
(***************************************************************************)
EXTENDS ConnGuard, FiniteSetTheorems, TLAPS

\* The guards of a finite set of threads can be counted, and a u64 is enough.
LEMMA HeldCount ==
    /\ IsFiniteSet(Held)
    /\ Cardinality(Held) \in Nat
    /\ Cardinality(Held) <= MaxU64
<1>1. Held \in SUBSET Client
  BY DEF Held
<1>2. IsFiniteSet(Held) /\ Cardinality(Held) <= Cardinality(Client)
  BY <1>1, ClientAssumption, FS_Subset
<1>3. Cardinality(Held) \in Nat /\ Cardinality(Client) \in Nat
  BY <1>2, ClientAssumption, FS_CardinalityType
<1> QED
  BY <1>2, <1>3, WidthAssumption

\* A step that moves no thread into or out of the holders keeps their set.
LEMMA HeldUnchanged ==
    ASSUME TypeOK, NEW c \in Client, NEW l \in PC,
           Goto(c, l), pc[c] # "held", l # "held"
    PROVE  Held' = Held
BY DEF TypeOK, Goto, Held

\* A thread that gets its guard is one more holder, and the counter could still
\* be incremented.
LEMMA HeldGains ==
    ASSUME TypeOK, NEW c \in Client, pc[c] # "held", Goto(c, "held")
    PROVE  /\ Held' = Held \cup {c}
           /\ Cardinality(Held') = Cardinality(Held) + 1
           /\ Cardinality(Held) < MaxU64
<1>1. Held' = Held \cup {c} /\ c \notin Held /\ Held' \in SUBSET Client
  BY DEF TypeOK, Goto, Held
<1>2. Cardinality(Held') = Cardinality(Held) + 1
  BY <1>1, HeldCount, FS_AddElement
<1>3. Cardinality(Held') <= Cardinality(Client)
  BY <1>1, ClientAssumption, FS_Subset
<1>4. Cardinality(Client) \in Nat
  BY ClientAssumption, FS_CardinalityType
<1> QED
  BY <1>1, <1>2, <1>3, <1>4, HeldCount, WidthAssumption

\* A thread that drops its guard is one holder less.
LEMMA HeldLoses ==
    ASSUME TypeOK, NEW c \in Client, pc[c] = "held", Goto(c, "idle")
    PROVE  /\ Held' = Held \ {c}
           /\ c \in Held
           /\ Cardinality(Held') = Cardinality(Held) - 1
           /\ Cardinality(Held) > 0
<1>1. Held' = Held \ {c} /\ c \in Held
  BY DEF TypeOK, Goto, Held
<1>2. Cardinality(Held') = Cardinality(Held) - 1
  BY <1>1, HeldCount, FS_RemoveElement
<1>3. Cardinality(Held) # 0
  BY <1>1, HeldCount, FS_EmptySet
<1> QED
  BY <1>1, <1>2, <1>3, HeldCount

-----------------------------------------------------------------------------
\* The counter starts at zero, with no guard alive.
LEMMA InitIInv == Init => IInv
<1> SUFFICES ASSUME Init PROVE IInv
  OBVIOUS
<1>1. TypeOK
  BY WidthAssumption DEF Init, TypeOK, PC
<1>2. Held = {}
  BY DEF Init, Held
<1>3. Cardinality(Held) = 0
  BY <1>2, FS_EmptySet
<1>4. CountMatchesGuards /\ NeverOversubscribed
  BY <1>3, LimitAssumption DEF Init, CountMatchesGuards, NeverOversubscribed
<1>5. ReadBelowLimit
  BY DEF Init, ReadBelowLimit
<1> QED
  BY <1>1, <1>4, <1>5 DEF IInv

\* The steps that neither take nor give a slot.
LEMMA QuietStep ==
    ASSUME IInv, NEW c \in Client,
           Call(c) \/ Load(c) \/ CasFail(c) \/ Refused(c)
    PROVE  IInv' /\ Held' = Held
<1> USE DEF IInv
<1>1. active' = active
  BY DEF Call, Load, CasFail, Refused
<1>2. Held' = Held
  BY HeldUnchanged DEF Call, Load, CasFail, Refused, PC
<1>3. TypeOK'
  BY DEF TypeOK, PC, Call, Load, CasFail, Refused, Goto
<1>4. ReadBelowLimit'
  BY DEF ReadBelowLimit, AtCapacity, TypeOK, Call, Load, CasFail, Refused, Goto
<1>5. CountMatchesGuards' /\ NeverOversubscribed'
  BY <1>1, <1>2 DEF CountMatchesGuards, NeverOversubscribed
<1> QED
  BY <1>2, <1>3, <1>4, <1>5

\* The compare-and-exchange that succeeds: the value read was below the limit
\* and is still the number of holders.
LEMMA CasOkStep ==
    ASSUME IInv, NEW c \in Client, CasOk(c)
    PROVE  IInv' /\ Held' = Held \cup {c} /\ ~AtCapacity(Cardinality(Held))
<1> USE DEF IInv
<1>1. /\ Held' = Held \cup {c}
      /\ Cardinality(Held') = Cardinality(Held) + 1
      /\ Cardinality(Held) < MaxU64
  BY HeldGains DEF CasOk
<1>2. active' = active + 1
  BY <1>1, HeldCount DEF CasOk, SaturatingAdd, CountMatchesGuards
<1>3. ~AtCapacity(Cardinality(Held))
  BY DEF CasOk, ReadBelowLimit, CountMatchesGuards
<1>4. TypeOK'
  BY <1>1, <1>2, HeldCount, WidthAssumption
  DEF TypeOK, PC, CasOk, Goto, CountMatchesGuards
<1>5. CountMatchesGuards' /\ NeverOversubscribed'
  BY <1>1, <1>2, <1>3, HeldCount, LimitAssumption
  DEF CountMatchesGuards, NeverOversubscribed, AtCapacity
<1>6. ReadBelowLimit'
  BY DEF ReadBelowLimit, AtCapacity, TypeOK, CasOk, Goto
<1> QED
  BY <1>1, <1>3, <1>4, <1>5, <1>6

\* A guard that is dropped was counted.
LEMMA DropStep ==
    ASSUME IInv, NEW c \in Client, Drop(c)
    PROVE  IInv' /\ Held' = Held \ {c} /\ c \in Held
<1> USE DEF IInv
<1>1. /\ Held' = Held \ {c}
      /\ c \in Held
      /\ Cardinality(Held') = Cardinality(Held) - 1
      /\ Cardinality(Held) > 0
  BY HeldLoses DEF Drop
<1>2. active' = active - 1
  BY <1>1, HeldCount DEF Drop, WrappingSub, CountMatchesGuards
<1>3. TypeOK'
  BY <1>1, <1>2, HeldCount, WidthAssumption
  DEF TypeOK, PC, Drop, Goto, CountMatchesGuards
<1>4. CountMatchesGuards' /\ NeverOversubscribed'
  BY <1>1, <1>2, HeldCount, LimitAssumption
  DEF CountMatchesGuards, NeverOversubscribed
<1>5. ReadBelowLimit'
  BY DEF ReadBelowLimit, AtCapacity, TypeOK, Drop, Goto
<1> QED
  BY <1>1, <1>3, <1>4, <1>5

\* Every instruction of every thread keeps the invariant.
LEMMA StepIInv == IInv /\ [Next]_vars => IInv'
<1> SUFFICES ASSUME IInv, [Next]_vars PROVE IInv'
  OBVIOUS
<1>1. CASE Next
  BY <1>1, QuietStep, CasOkStep, DropStep DEF Next
<1>2. CASE UNCHANGED vars
  <2>1. Held' = Held
    BY <1>2 DEF vars, Held
  <2> QED
    BY <1>2, <2>1
    DEF vars, IInv, TypeOK, CountMatchesGuards, NeverOversubscribed,
        ReadBelowLimit, AtCapacity
<1> QED
  BY <1>1, <1>2

-----------------------------------------------------------------------------
\* The inductive invariant holds in every reachable state.
THEOREM Invariance == Spec => []IInv
BY InitIInv, StepIInv, PTL DEF Spec

\* The counter and the locals stay in the range of a u64, and a client is always
\* at one of its five program points.
THEOREM TypeCorrect == Spec => []TypeOK
<1>1. IInv => TypeOK
  BY DEF IInv
<1> QED
  BY <1>1, Invariance, PTL

\* The counter is the number of live guards, whatever the interleaving.
THEOREM ExactCount == Spec => []CountMatchesGuards
<1>1. IInv => CountMatchesGuards
  BY DEF IInv
<1> QED
  BY <1>1, Invariance, PTL

\* No interleaving lets more than max_connections guards live at once.
THEOREM CapacityRespected == Spec => []NeverOversubscribed
<1>1. IInv => NeverOversubscribed
  BY DEF IInv
<1> QED
  BY <1>1, Invariance, PTL

\* A None is returned only when the limit was reached by live guards.
THEOREM Refusals == Spec => RefusalJustified
<1>1. ASSUME IInv, [Next]_vars
      PROVE  [\A c \in Client :
                 pc[c] # "refused" /\ pc'[c] = "refused"
                   => MaxConnections > 0
                      /\ Cardinality(Held) >= MaxConnections]_vars
  <2> SUFFICES ASSUME Next, NEW c \in Client,
                      pc[c] # "refused", pc'[c] = "refused"
               PROVE  MaxConnections > 0 /\ Cardinality(Held) >= MaxConnections
    BY <1>1
  <2>1. PICK d \in Client : \/ Call(d) \/ Load(d) \/ CasOk(d) \/ CasFail(d)
                            \/ Refused(d) \/ Drop(d)
    BY DEF Next
  <2>2. Load(c)
    BY <1>1, <2>1
    DEF IInv, TypeOK, Call, Load, CasOk, CasFail, Refused, Drop, Goto
  <2>3. AtCapacity(active)
    BY <1>1, <2>2 DEF IInv, TypeOK, Load, Goto
  <2> QED
    BY <1>1, <2>3 DEF IInv, CountMatchesGuards, AtCapacity
<1> QED
  BY <1>1, Invariance, PTL DEF Spec, RefusalJustified

-----------------------------------------------------------------------------
\* A counter of zero is an empty pool.
LEMMA PoolInit == Init => Pools!Init
<1> SUFFICES ASSUME Init PROVE Held = {}
  BY DEF Pools!Init
<1> QED
  BY DEF Init, Held

\* A successful exchange takes a slot of the pool, a drop gives one back, and
\* every other instruction is a stutter.
LEMMA PoolStep == IInv /\ [Next]_vars
                    => [Pools!Next]_([p \in {"counter"} |-> Held])
<1> SUFFICES ASSUME IInv, [Next]_vars
             PROVE  Pools!Next \/ Held' = Held
  OBVIOUS
<1>1. CASE UNCHANGED vars
  BY <1>1 DEF vars, Held
<1>2. ASSUME NEW c \in Client,
             Call(c) \/ Load(c) \/ CasFail(c) \/ Refused(c)
      PROVE  Held' = Held
  BY <1>2, QuietStep
<1>3. ASSUME NEW c \in Client, CasOk(c)
      PROVE  Pools!Next
  <2>1. Held' = Held \cup {c} /\ ~AtCapacity(Cardinality(Held))
    BY <1>3, CasOkStep
  <2>2. c \notin Held
    BY <1>3 DEF CasOk, Held
  <2>3. MaxConnections = 0 \/ Cardinality(Held) < MaxConnections
    BY <2>1, HeldCount, LimitAssumption DEF AtCapacity
  <2>4. Pools!Acquire(c, "counter")
    BY <2>1, <2>2, <2>3
    DEF Pools!Acquire, Pools!Unlimited, Pools!Cardinality, Cardinality
  <2> QED
    BY <2>4 DEF Pools!Next
<1>4. ASSUME NEW c \in Client, Drop(c)
      PROVE  Pools!Next
  <2>1. Held' = Held \ {c} /\ c \in Held
    BY <1>4, DropStep
  <2>2. Pools!Release(c, "counter")
    BY <2>1 DEF Pools!Release
  <2> QED
    BY <2>2 DEF Pools!Next
<1> QED
  BY <1>1, <1>2, <1>3, <1>4 DEF Next

\* The load / compare-and-exchange loop implements a pool whose slots are taken
\* atomically: this is why Proxy may take a slot in one step.
THEOREM Refinement == Spec => ImplementsSlots
BY PoolInit, PoolStep, Invariance, PTL DEF Spec, ImplementsSlots, Pools!Spec
=============================================================================
