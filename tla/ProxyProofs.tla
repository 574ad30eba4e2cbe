---------------------------- MODULE ProxyProofs ----------------------------
(***************************************************************************)
(* Proofs about Proxy, for every set of requests, every number of          *)
(* backends, every configuration of limits, tiers, aliases and keys: the   *)
(* counters are exact, and they implement bounded pools.                   *)
(***************************************************************************)
EXTENDS Proxy, FiniteSetTheorems, TLAPS

Owning == {"sent", "stream", "dropped"}
Keyed == Handling \cup {"stream", "closing"}
Admitted == Keyed \cup {"dropped"}

\* What the place of a request says of its locals: which guards it owns, that
\* it has a job, and that its positions lie in its list.
LocalsOK(r) ==
    /\ slot[r] # NoBackendId <=> pc[r] \in Owning
    /\ keyed[r] <=> AuthEnabled /\ pc[r] \in Keyed
    /\ pc[r] \in Admitted => job[r] \in Job /\ Authenticated(job[r])
    /\ pc[r] = "scan" => next[r] > 0
    /\ pc[r] = "sort" => /\ next[r] > 1
                         /\ at[r] > 0 /\ at[r] <= next[r]
                         /\ order[r] # <<>>
    /\ pc[r] \in {"attempt", "sent"} => next[r] > 0

Locals == \A r \in Request : LocalsOK(r)

BackendExact == \A b \in Backend : active[b] = Cardinality(Users(b))
KeyExact == \A k \in ApiKey : keyActive[k] = Cardinality(Keyholders(k))

IInv == TypeOK /\ Locals /\ BackendExact /\ KeyExact

-----------------------------------------------------------------------------
(* Counting.                                                               *)

\* Any set of requests is finite, so it can be counted.
LEMMA RequestsFinite ==
    ASSUME NEW S \in SUBSET Request
    PROVE  IsFiniteSet(S) /\ Cardinality(S) \in Nat
BY RequestAssumption, FS_Subset, FS_CardinalityType

\* One more owner of a guard, and one owner less.
LEMMA CountGain ==
    ASSUME NEW S \in SUBSET Request, NEW r \in Request, r \notin S
    PROVE  Cardinality(S \cup {r}) = Cardinality(S) + 1
BY RequestsFinite, FS_AddElement

\* One owner of a guard less.
LEMMA CountLoss ==
    ASSUME NEW S \in SUBSET Request, NEW r \in S
    PROVE  /\ Cardinality(S \ {r}) = Cardinality(S) - 1
           /\ Cardinality(S) > 0
<1>1. Cardinality(S \ {r}) = Cardinality(S) - 1
  BY RequestsFinite, FS_RemoveElement
<1>2. Cardinality(S) # 0
  BY RequestsFinite, FS_EmptySet
<1> QED
  BY <1>1, <1>2, RequestsFinite

\* Guards are owned by requests.
LEMMA OwnersAreRequests ==
    /\ \A b \in Backend : Users(b) \in SUBSET Request
    /\ \A k \in ApiKey : Keyholders(k) \in SUBSET Request
BY DEF Users, Keyholders

\* A counter somebody owns a guard of can be decremented.
LEMMA OwnedIsPositive ==
    ASSUME IInv, NEW r \in Request
    PROVE  /\ slot[r] \in Backend => active[slot[r]] > 0
           /\ keyed[r] => /\ job[r] \in Job /\ job[r].bearer \in ApiKey
                          /\ keyActive[job[r].bearer] > 0
<1>1. ASSUME slot[r] \in Backend PROVE active[slot[r]] > 0
  <2>1. r \in Users(slot[r])
    BY DEF Users
  <2> QED
    BY <1>1, <2>1, OwnersAreRequests, CountLoss DEF IInv, BackendExact
<1>2. ASSUME keyed[r]
      PROVE  /\ job[r] \in Job /\ job[r].bearer \in ApiKey
             /\ keyActive[job[r].bearer] > 0
  <2>1. job[r] \in Job /\ job[r].bearer \in ApiKey
    BY <1>2 DEF IInv, Locals, LocalsOK, Authenticated, Admitted
  <2>2. r \in Keyholders(job[r].bearer)
    BY <1>2 DEF Keyholders
  <2> QED
    BY <2>1, <2>2, OwnersAreRequests, CountLoss DEF IInv, KeyExact
<1> QED
  BY <1>1, <1>2

-----------------------------------------------------------------------------
(* What a step does to the guards.                                         *)

\* Every step leaves the guards of backends alone, takes one of a backend that
\* has room, or gives one back.
LEMMA SlotStep ==
    ASSUME IInv, [Next]_vars
    PROVE  \/ UNCHANGED <<active, slot>>
           \/ \E r \in Request, b \in Backend :
                 slot[r] = NoBackendId /\ ~BackendFull(b) /\ TakeSlot(r, b)
           \/ \E r \in Request : slot[r] \in Backend /\ GiveBackSlot(r)
<1> USE DEF shared, local
<1>1. ASSUME NEW r \in Request, NEW j \in Job, Arrive(r, j)
      PROVE  UNCHANGED <<active, slot>>
  BY <1>1 DEF Arrive, Unauthorized, BadRequest, Forbidden, RateLimited,
              Refuse, Admit
<1>2. ASSUME NEW r \in Request, Route(r), ~Reserve(r)
      PROVE  UNCHANGED <<active, slot>>
  BY <1>2 DEF Route, Scan, NoBackend, StartSort, Sift, Settle, Lookup, Skip,
              Exhausted, Fail
<1>3. ASSUME NEW r \in Request, Reserve(r)
      PROVE  \E b \in Backend :
                slot[r] = NoBackendId /\ ~BackendFull(b) /\ TakeSlot(r, b)
  <2>1. Current(r) \in Backend
    BY <1>3 DEF Reserve, Trying, Current, IInv, TypeOK, Locals, LocalsOK
  <2>2. slot[r] = NoBackendId
    BY <1>3 DEF Reserve, Trying, IInv, Locals, LocalsOK, Owning
  <2> QED
    BY <1>3, <2>1, <2>2 DEF Reserve
<1>4. ASSUME NEW r \in Request,
             NoAnswer(r) \/ LoseSlot(r) \/ DropSlot(r)
      PROVE  slot[r] \in Backend /\ GiveBackSlot(r)
  <2>1. pc[r] \in Owning /\ GiveBackSlot(r)
    BY <1>4 DEF NoAnswer, LoseSlot, DropSlot, Owning
  <2> QED
    BY <2>1 DEF IInv, TypeOK, Locals, LocalsOK
<1>5. ASSUME NEW r \in Request,
             \/ \E success \in BOOLEAN : Respond(r, success)
             \/ DropBody(r) \/ DropKey(r) \/ Close(r)
      PROVE  UNCHANGED <<active, slot>>
  BY <1>5 DEF Respond, DropBody, DropKey, Close
<1>6. ASSUME Environment \/ UNCHANGED vars
      PROVE  UNCHANGED <<active, slot>>
  BY <1>6 DEF Environment, ProbeBackend, RefreshModels, ForgetPin, vars
<1> QED
  BY <1>1, <1>2, <1>3, <1>4, <1>5, <1>6
     DEF Next, Headers, Finish, Release

\* Likewise for the keys: the holders of each key and its counter stay the
\* same, or one request with room joins one key, or one leaves one key.
LEMMA KeyStep ==
    ASSUME IInv, [Next]_vars
    PROVE  \/ /\ keyActive' = keyActive
              /\ \A k \in ApiKey : Keyholders(k)' = Keyholders(k)
           \/ \E r \in Request, k \in ApiKey :
                 /\ r \notin Keyholders(k) /\ ~KeyFull(k)
                 /\ keyActive' = [keyActive EXCEPT ![k] = @ + 1]
                 /\ \A x \in ApiKey : Keyholders(x)' =
                       IF x = k THEN Keyholders(x) \cup {r} ELSE Keyholders(x)
           \/ \E r \in Request, k \in ApiKey :
                 /\ r \in Keyholders(k)
                 /\ keyActive' = [keyActive EXCEPT ![k] = @ - 1]
                 /\ \A x \in ApiKey : Keyholders(x)' =
                       IF x = k THEN Keyholders(x) \ {r} ELSE Keyholders(x)
<1> DEFINE Same == /\ keyActive' = keyActive
                   /\ \A k \in ApiKey : Keyholders(k)' = Keyholders(k)
           Joins(r, k) ==
               /\ r \notin Keyholders(k) /\ ~KeyFull(k)
               /\ keyActive' = [keyActive EXCEPT ![k] = @ + 1]
               /\ \A x \in ApiKey : Keyholders(x)' =
                     IF x = k THEN Keyholders(x) \cup {r} ELSE Keyholders(x)
           Leaves(r, k) ==
               /\ r \in Keyholders(k)
               /\ keyActive' = [keyActive EXCEPT ![k] = @ - 1]
               /\ \A x \in ApiKey : Keyholders(x)' =
                     IF x = k THEN Keyholders(x) \ {r} ELSE Keyholders(x)
<1> USE DEF shared, local
<1>1. ASSUME UNCHANGED <<keyActive, keyed, job>> PROVE Same
  BY <1>1 DEF Keyholders
<1>2. ASSUME NEW r \in Request, ~keyed[r], keyed' = keyed,
             keyActive' = keyActive,
             \A q \in Request \ {r} : job'[q] = job[q]
      PROVE  Same
  BY <1>2 DEF Keyholders
<1>3. ASSUME NEW r \in Request, GiveBackKey(r),
             \A q \in Request \ {r} : job'[q] = job[q]
      PROVE  Same \/ \E k \in ApiKey : Leaves(r, k)
  <2>1. CASE ~keyed[r]
    <3>1. keyed' = keyed /\ keyActive' = keyActive
      BY <1>3, <2>1 DEF GiveBackKey, IInv, TypeOK
    <3> QED
      BY <1>2, <1>3, <2>1, <3>1
  <2>2. CASE keyed[r]
    <3>1. job[r].bearer \in ApiKey
      BY <2>2, OwnedIsPositive
    <3>2. Leaves(r, job[r].bearer)
      BY <1>3, <2>2, <3>1 DEF GiveBackKey, Keyholders, IInv, TypeOK
    <3> QED
      BY <3>1, <3>2
  <2> QED
    BY <2>1, <2>2
<1>4. ASSUME NEW r \in Request, NEW j \in Job, Admit(r, j)
      PROVE  Same \/ \E k \in ApiKey : Joins(r, k)
  <2>1. ~keyed[r]
    BY <1>4 DEF Admit, IInv, Locals, LocalsOK, Keyed, Handling
  <2>2. \A q \in Request \ {r} : job'[q] = job[q]
    BY <1>4 DEF Admit, IInv, TypeOK
  <2>3. CASE ~AuthEnabled
    <3>1. keyed' = keyed /\ keyActive' = keyActive
      BY <1>4, <2>1, <2>3 DEF Admit, IInv, TypeOK, AuthEnabled
    <3> QED
      BY <1>2, <2>1, <2>2, <3>1
  <2>4. CASE AuthEnabled
    <3>1. j.bearer \in ApiKey /\ ~KeyFull(j.bearer)
      BY <1>4, <2>4 DEF Admit, Authenticated
    <3>2. keyed' = [keyed EXCEPT ![r] = TRUE] /\ job' = [job EXCEPT ![r] = j]
      BY <1>4, <2>4 DEF Admit
    <3>3. Joins(r, j.bearer)
      BY <1>4, <2>1, <2>4, <3>1, <3>2 DEF Admit, Keyholders, IInv, TypeOK
    <3> QED
      BY <3>1, <3>3
  <2> QED
    BY <2>3, <2>4
<1>5. ASSUME NEW r \in Request, NEW j \in Job, Arrive(r, j), ~Admit(r, j)
      PROVE  Same
  BY <1>1, <1>5 DEF Arrive, Unauthorized, BadRequest, Forbidden, RateLimited,
                    Refuse
<1>6. ASSUME NEW r \in Request, NoBackend(r) \/ Exhausted(r) \/ DropBody(r)
      PROVE  Same \/ \E k \in ApiKey : Leaves(r, k)
  BY <1>3, <1>6 DEF NoBackend, Exhausted, DropBody, Fail
<1>7. ASSUME NEW r \in Request, DropKey(r)
      PROVE  Same \/ \E k \in ApiKey : Leaves(r, k)
  BY <1>3, <1>7 DEF DropKey, Reset, IInv, TypeOK
<1>8. ASSUME NEW r \in Request, DropSlot(r) \/ Close(r)
      PROVE  Same
  <2>1. ~keyed[r]
    BY <1>8 DEF DropSlot, Close, IInv, Locals, LocalsOK, Keyed, Handling
  <2>2. \A q \in Request \ {r} : job'[q] = job[q]
    BY <1>8 DEF DropSlot, Close, Reset, IInv, TypeOK
  <2> QED
    BY <1>2, <1>8, <2>1, <2>2 DEF DropSlot, Close
<1>9. ASSUME NEW r \in Request,
             \/ Route(r) /\ ~NoBackend(r) /\ ~Exhausted(r)
             \/ Headers(r) \/ LoseSlot(r)
      PROVE  Same
  BY <1>1, <1>9 DEF Route, Scan, StartSort, Sift, Settle, Lookup, Skip,
                    Reserve, Headers, NoAnswer, Respond, LoseSlot
<1>10. ASSUME Environment \/ UNCHANGED vars PROVE Same
  BY <1>1, <1>10 DEF Environment, ProbeBackend, RefreshModels, ForgetPin, vars
<1> HIDE DEF Same, Joins, Leaves
<1>11. \/ Same \/ \E r \in Request, k \in ApiKey : Joins(r, k) \/ Leaves(r, k)
  BY <1>4, <1>5, <1>6, <1>7, <1>8, <1>9, <1>10
     DEF Next, Route, Finish, Release
<1> QED
  BY <1>11 DEF Same, Joins, Leaves

-----------------------------------------------------------------------------
(* The invariant is inductive.                                             *)

\* The server starts with the invariant.
LEMMA InitInv == Init => IInv
<1> SUFFICES ASSUME Init PROVE IInv
  OBVIOUS
<1>1. TypeOK
  BY DEF Init, TypeOK, Answer, PC, Backend, NoBackendId
<1>2. Locals
  BY DEF Init, Locals, LocalsOK, Owning, Keyed, Admitted, Handling
<1>3. BackendExact
  <2>1. \A b \in Backend : Users(b) = {} /\ active[b] = 0
    BY BackendAssumption DEF Init, Users, Backend, NoBackendId
  <2> QED
    BY <2>1, FS_EmptySet DEF BackendExact
<1>4. KeyExact
  BY FS_EmptySet DEF Init, KeyExact, Keyholders
<1> QED
  BY <1>1, <1>2, <1>3, <1>4 DEF IInv

\* Rearranging a candidate list keeps it a candidate list.
LEMMA SwapType ==
    ASSUME NEW s \in Seq(Backend), NEW i \in DOMAIN s, NEW k \in DOMAIN s
    PROVE  Swap(s, i, k) \in Seq(Backend)
BY DEF Swap

\* Moving the pinned backend to the front keeps the length as well.
LEMMA MoveToFrontType ==
    ASSUME NEW s \in Seq(Backend), NEW p \in DOMAIN s
    PROVE  /\ MoveToFront(s, p) \in Seq(Backend)
           /\ Len(MoveToFront(s, p)) = Len(s)
<1>1. \A i \in 1..Len(s) : MoveToFront(s, p)[i] \in Backend
  BY DEF MoveToFront
<1>2. MoveToFront(s, p) \in [1..Len(s) -> Backend]
  BY <1>1 DEF MoveToFront
<1> QED
  BY <1>2

\* The list is not empty when the lookup moves one of its elements.
LEMMA PinPositionType ==
    ASSUME IInv, NEW r \in Request, pc[r] = "sort"
    PROVE  PinPosition(r) \in DOMAIN order[r]
<1>1. order[r] \in Seq(Backend) /\ order[r] # <<>>
  BY DEF IInv, TypeOK, Locals, LocalsOK
<1>2. 1 \in DOMAIN order[r]
  BY <1>1
<1> QED
  BY <1>2 DEF PinPosition, Position

\* Where the sort compares, both positions lie in the list.
LEMMA SortPositions ==
    ASSUME IInv, NEW r \in Request, Sorting(r)
    PROVE  /\ at[r] \in DOMAIN order[r]
           /\ at[r] > 1 => at[r] - 1 \in DOMAIN order[r]
BY DEF Sorting, IInv, TypeOK, Locals, LocalsOK

\* No drop takes a counter below zero, as its guard was counted.
LEMMA SharedTypeStep ==
    ASSUME IInv, [Next]_vars
    PROVE  /\ active' \in [Backend -> Nat]
           /\ keyActive' \in [ApiKey -> Nat]
           /\ slot' \in [Request -> Backend \cup {NoBackendId}]
<1>1. active' \in [Backend -> Nat]
      /\ slot' \in [Request -> Backend \cup {NoBackendId}]
  <2>1. CASE UNCHANGED <<active, slot>>
    BY <2>1 DEF IInv, TypeOK
  <2>2. ASSUME NEW r \in Request, NEW b \in Backend, TakeSlot(r, b)
        PROVE  active' \in [Backend -> Nat]
               /\ slot' \in [Request -> Backend \cup {NoBackendId}]
    BY <2>2 DEF IInv, TypeOK, TakeSlot
  <2>3. ASSUME NEW r \in Request, slot[r] \in Backend, GiveBackSlot(r)
        PROVE  active' \in [Backend -> Nat]
               /\ slot' \in [Request -> Backend \cup {NoBackendId}]
    BY <2>3, OwnedIsPositive DEF IInv, TypeOK, GiveBackSlot
  <2> QED
    BY <2>1, <2>2, <2>3, SlotStep
<1>2. keyActive' \in [ApiKey -> Nat]
  <2>1. \A k \in ApiKey : keyActive[k] \in Nat
    BY DEF IInv, TypeOK
  <2>2. \A r \in Request, k \in ApiKey :
           r \in Keyholders(k) => keyActive[k] > 0
    BY OwnersAreRequests, CountLoss DEF IInv, KeyExact
  <2> QED
    BY <2>1, <2>2, KeyStep DEF IInv, TypeOK
<1> QED
  BY <1>1, <1>2

\* Every action keeps the types.
LEMMA TypeStep == IInv /\ [Next]_vars => TypeOK'
<1> SUFFICES ASSUME IInv, [Next]_vars PROVE TypeOK'
  OBVIOUS
<1> DEFINE LocalTypes ==
        /\ healthy' \in [Backend -> BOOLEAN]
        /\ raw' \in [Backend -> RawModels]
        /\ pin' \in [Job -> Backend \cup {NoBackendId}]
        /\ pc' \in [Request -> PC]
        /\ job' \in [Request -> Job \cup {NoJob}]
        /\ order' \in [Request -> Seq(Backend)]
        /\ next' \in [Request -> Nat]
        /\ at' \in [Request -> Nat]
        /\ keyed' \in [Request -> BOOLEAN]
        /\ answer' \in [Request -> Answer]
<1> USE DEF shared, local, Goto
<1>1. ASSUME NEW r \in Request, NEW j \in Job, Arrive(r, j) PROVE LocalTypes
  <2>1. ASSUME NEW status \in Refusal, Refuse(r, status) PROVE LocalTypes
    BY <2>1 DEF Refuse, IInv, TypeOK, PC, Answer
  <2>2. CASE Admit(r, j)
    BY <2>2 DEF Admit, IInv, TypeOK, PC, AuthEnabled
  <2> QED
    BY <1>1, <2>1, <2>2 DEF Arrive, Unauthorized, BadRequest, Forbidden,
       RateLimited, Refusal
<1>2. ASSUME NEW r \in Request, Scan(r) PROVE LocalTypes
  BY <1>2 DEF Scan, IInv, TypeOK
<1>3. ASSUME NEW r \in Request, NoBackend(r) \/ Exhausted(r)
      PROVE LocalTypes
  <2>1. ASSUME NEW status \in Unavailable, Fail(r, status) PROVE LocalTypes
    BY <2>1 DEF Fail, Leave, GiveBackKey, IInv, TypeOK, PC, Answer
  <2> QED
    BY <1>3, <2>1 DEF NoBackend, Exhausted, Unavailable
<1>4. ASSUME NEW r \in Request, StartSort(r) PROVE LocalTypes
  BY <1>4 DEF StartSort, IInv, TypeOK, PC
<1>5. ASSUME NEW r \in Request, Sift(r) PROVE LocalTypes
  <2>1. at[r] > 1 /\ Swap(order[r], at[r], at[r] - 1) \in Seq(Backend)
    BY <1>5, SortPositions, SwapType DEF Sift, Precedes, IInv, TypeOK
  <2> QED
    BY <1>5, <2>1 DEF Sift, IInv, TypeOK
<1>6. ASSUME NEW r \in Request, Settle(r) PROVE LocalTypes
  BY <1>6 DEF Settle, IInv, TypeOK
<1>7. ASSUME NEW r \in Request, Lookup(r) PROVE LocalTypes
  <2>1. MoveToFront(order[r], PinPosition(r)) \in Seq(Backend)
    BY <1>7, PinPositionType, MoveToFrontType DEF Lookup, IInv, TypeOK
  <2> QED
    BY <1>7, <2>1 DEF Lookup, IInv, TypeOK, PC
<1>8. ASSUME NEW r \in Request, Skip(r) \/ Reserve(r) \/ NoAnswer(r)
      PROVE LocalTypes
  <2>1. CASE Skip(r)
    BY <2>1 DEF Skip, IInv, TypeOK
  <2>2. CASE Reserve(r)
    BY <2>2 DEF Reserve, IInv, TypeOK, PC
  <2>3. CASE NoAnswer(r)
    BY <2>3 DEF NoAnswer, IInv, TypeOK, PC
  <2> QED
    BY <1>8, <2>1, <2>2, <2>3
<1>9. ASSUME NEW r \in Request, NEW success \in BOOLEAN, Respond(r, success)
      PROVE LocalTypes
  <2>1. job[r] \in Job
    BY <1>9 DEF Respond, IInv, Locals, LocalsOK, Admitted, Keyed, Handling
  <2> QED
    BY <1>9, <2>1 DEF Respond, Leave, IInv, TypeOK, PC, Answer
<1>10. ASSUME NEW r \in Request, Finish(r) PROVE LocalTypes
  <2>1. CASE LoseSlot(r)
    BY <2>1 DEF LoseSlot, Leave, IInv, TypeOK, PC
  <2>2. CASE DropBody(r)
    BY <2>2 DEF DropBody, GiveBackKey, IInv, TypeOK, PC
  <2> QED
    BY <1>10, <2>1, <2>2 DEF Finish
<1>11. ASSUME NEW r \in Request, Release(r) PROVE LocalTypes
  BY <1>11 DEF Release, DropKey, DropSlot, Close, Reset, GiveBackKey, IInv,
               TypeOK, PC, Answer
<1>12. ASSUME Environment \/ UNCHANGED vars PROVE LocalTypes
  BY <1>12 DEF Environment, ProbeBackend, RefreshModels, ForgetPin, vars,
               IInv, TypeOK
<1>13. LocalTypes
  <2> HIDE DEF LocalTypes
  <2> QED
    BY <1>1, <1>2, <1>3, <1>4, <1>5, <1>6, <1>7, <1>8, <1>9, <1>10, <1>11,
       <1>12 DEF Next, Route, Headers
<1> QED
  BY <1>13, SharedTypeStep DEF TypeOK

\* A step of one request leaves the locals of every other request alone.
LEMMA Others ==
    ASSUME IInv, NEW r \in Request, NEW q \in Request \ {r},
           \/ \E j \in Job : Arrive(r, j)
           \/ Route(r) \/ Headers(r) \/ Finish(r) \/ Release(r)
    PROVE  /\ pc'[q] = pc[q] /\ job'[q] = job[q] /\ order'[q] = order[q]
           /\ next'[q] = next[q] /\ at'[q] = at[q] /\ slot'[q] = slot[q]
           /\ keyed'[q] = keyed[q]
<1> USE DEF shared, local, Goto, IInv, TypeOK
<1> DEFINE Same ==
        /\ pc'[q] = pc[q] /\ job'[q] = job[q] /\ order'[q] = order[q]
        /\ next'[q] = next[q] /\ at'[q] = at[q] /\ slot'[q] = slot[q]
        /\ keyed'[q] = keyed[q]
<1>1. ASSUME NEW j \in Job, Arrive(r, j) PROVE Same
  BY <1>1 DEF Arrive, Unauthorized, BadRequest, Forbidden, RateLimited,
              Refuse, Admit
<1>2. CASE Route(r)
  <2>1. CASE Scan(r) \/ StartSort(r) \/ Sift(r) \/ Settle(r) \/ Lookup(r)
    BY <2>1 DEF Scan, StartSort, Sift, Settle, Lookup
  <2>2. CASE NoBackend(r) \/ Exhausted(r)
    BY <2>2 DEF NoBackend, Exhausted, Fail, Leave, GiveBackKey
  <2>3. CASE Skip(r) \/ Reserve(r)
    BY <2>3 DEF Skip, Reserve, TakeSlot
  <2> QED
    BY <1>2, <2>1, <2>2, <2>3 DEF Route
<1>3. CASE Headers(r)
  BY <1>3 DEF Headers, NoAnswer, Respond, Leave, GiveBackSlot
<1>4. CASE Finish(r)
  BY <1>4 DEF Finish, LoseSlot, DropBody, Leave, GiveBackKey, GiveBackSlot
<1>5. CASE Release(r)
  BY <1>5 DEF Release, DropKey, DropSlot, Close, Reset, GiveBackKey,
              GiveBackSlot
<1> QED
  BY <1>1, <1>2, <1>3, <1>4, <1>5

\* A step within the handler, before anything is sent, has only the positions
\* to keep in order.
LEMMA WithinHandler ==
    ASSUME IInv, NEW r \in Request,
           pc[r] \in Handling \ {"sent"}, pc'[r] \in Handling \ {"sent"},
           slot'[r] = slot[r], keyed'[r] = keyed[r], job'[r] = job[r],
           pc'[r] = "sort" => /\ next'[r] > 1
                              /\ at'[r] > 0 /\ at'[r] <= next'[r]
                              /\ order'[r] # <<>>,
           next'[r] > 0
    PROVE  LocalsOK(r)'
<1>1. slot'[r] = NoBackendId
  BY DEF IInv, Locals, LocalsOK, Owning, Handling
<1>2. pc[r] \in Keyed /\ pc'[r] \in Keyed /\ pc[r] \in Admitted
      /\ pc'[r] \notin Owning
  BY DEF Handling, Keyed, Admitted, Owning
<1>3. keyed'[r] <=> AuthEnabled
  BY <1>2 DEF IInv, Locals, LocalsOK
<1>4. job'[r] \in Job /\ Authenticated(job'[r])
  BY <1>2 DEF IInv, Locals, LocalsOK
<1> QED
  BY <1>1, <1>2, <1>3, <1>4 DEF LocalsOK, NoBackendId, Authenticated,
     AuthEnabled

\* Every action leaves its request with the guards its new place calls for.
LEMMA LocalsStep == IInv /\ [Next]_vars => Locals'
<1> SUFFICES ASSUME IInv, [Next]_vars PROVE Locals'
  OBVIOUS
<1> USE DEF shared, local, Goto, Owning, Keyed, Admitted, Handling,
            NoBackendId, Authenticated, AuthEnabled
<1>1. ASSUME NEW r \in Request,
             \/ \E j \in Job : Arrive(r, j)
             \/ Route(r) \/ Headers(r) \/ Finish(r) \/ Release(r)
      PROVE  Locals'
  <2>1. ASSUME NEW q \in Request \ {r} PROVE LocalsOK(q)'
    BY <1>1, <2>1, Others DEF IInv, Locals, LocalsOK
  <2>2. LocalsOK(r)'
    <3> USE DEF IInv, TypeOK, Locals, LocalsOK
    <3>1. ASSUME NEW j \in Job, Arrive(r, j) PROVE LocalsOK(r)'
      <4>1. ASSUME NEW status, Refuse(r, status) PROVE LocalsOK(r)'
        BY <4>1 DEF Refuse
      <4>2. CASE Admit(r, j)
        <5>1. /\ pc'[r] = "scan" /\ job'[r] = j /\ next'[r] = 1
              /\ slot'[r] = slot[r] /\ keyed'[r] = AuthEnabled
          BY <4>2 DEF Admit
        <5>2. slot[r] = 0
          BY <4>2 DEF Admit
        <5>3. j \in Job /\ Authenticated(j)
          BY <4>2 DEF Admit
        <5>4. keyed'[r] <=> AuthEnabled
          BY <5>1
        <5>5. /\ slot'[r] = 0 /\ pc'[r] \in Keyed /\ pc'[r] \notin Owning
              /\ job'[r] \in Job /\ Authenticated(job'[r])
          BY <5>1, <5>2, <5>3
        <5> HIDE DEF Owning, Keyed, Admitted, Handling, Authenticated,
                     AuthEnabled, IInv, TypeOK, Locals
        <5> QED
          BY <5>1, <5>4, <5>5 DEF Authenticated, AuthEnabled
      <4> QED
        BY <3>1, <4>1, <4>2 DEF Arrive, Unauthorized, BadRequest, Forbidden,
           RateLimited
    <3>2. CASE Scan(r)
      <4>1. /\ pc'[r] = "scan" /\ pc[r] = "scan" /\ next'[r] = next[r] + 1
            /\ slot'[r] = slot[r] /\ keyed'[r] = keyed[r] /\ job'[r] = job[r]
        BY <3>2 DEF Scan
      <4>2. next'[r] > 0
        BY <4>1
      <4> QED
        BY <4>1, <4>2, WithinHandler
    <3>3. ASSUME NEW status, pc[r] \in {"scan", "attempt"}, Fail(r, status)
          PROVE LocalsOK(r)'
      BY <3>3 DEF Fail, Leave, GiveBackKey
    <3>4. CASE StartSort(r)
      <4>1. /\ pc'[r] = "sort" /\ pc[r] = "scan"
            /\ next'[r] = 2 /\ at'[r] = 2 /\ order'[r] # <<>>
            /\ slot'[r] = slot[r] /\ keyed'[r] = keyed[r] /\ job'[r] = job[r]
        BY <3>4 DEF StartSort
      <4>2. next'[r] > 1 /\ at'[r] > 0 /\ at'[r] <= next'[r]
        BY <4>1
      <4> QED
        BY <4>1, <4>2, WithinHandler
    <3>5. CASE Sift(r)
      <4>1. at[r] > 1 /\ Swap(order[r], at[r], at[r] - 1) # <<>>
        BY <3>5, SortPositions DEF Sift, Precedes, Swap
      <4>2. /\ pc'[r] = "sort" /\ pc[r] = "sort"
            /\ next'[r] = next[r] /\ at'[r] = at[r] - 1 /\ order'[r] # <<>>
            /\ slot'[r] = slot[r] /\ keyed'[r] = keyed[r] /\ job'[r] = job[r]
        BY <3>5, <4>1 DEF Sift, Sorting
      <4>3. next[r] > 1 /\ at'[r] > 0 /\ at'[r] <= next'[r]
        BY <4>1, <4>2
      <4> QED
        BY <4>2, <4>3, WithinHandler
    <3>6. CASE Settle(r)
      <4>1. /\ pc'[r] = "sort" /\ pc[r] = "sort" /\ order'[r] = order[r]
            /\ next'[r] = next[r] + 1 /\ at'[r] = next[r] + 1
            /\ slot'[r] = slot[r] /\ keyed'[r] = keyed[r] /\ job'[r] = job[r]
        BY <3>6 DEF Settle, Sorting
      <4>2. next'[r] > 1 /\ at'[r] > 0 /\ at'[r] <= next'[r] /\ order[r] # <<>>
        BY <4>1
      <4> QED
        BY <4>1, <4>2, WithinHandler
    <3>7. CASE Lookup(r)
      <4>1. /\ pc'[r] = "attempt" /\ pc[r] = "sort" /\ next'[r] = 1
            /\ slot'[r] = slot[r] /\ keyed'[r] = keyed[r] /\ job'[r] = job[r]
        BY <3>7 DEF Lookup
      <4>2. next'[r] > 0
        BY <4>1
      <4> QED
        BY <4>1, <4>2, WithinHandler
    <3>8. CASE Skip(r)
      <4>1. /\ pc'[r] = "attempt" /\ pc[r] = "attempt"
            /\ next'[r] = next[r] + 1
            /\ slot'[r] = slot[r] /\ keyed'[r] = keyed[r] /\ job'[r] = job[r]
        BY <3>8 DEF Skip, Trying
      <4>2. next'[r] > 0
        BY <4>1
      <4> QED
        BY <4>1, <4>2, WithinHandler
    <3>9. CASE Reserve(r)
      <4>1. Current(r) \in Backend
        BY <3>9 DEF Reserve, Trying, Current
      <4>2. /\ pc'[r] = "sent" /\ pc[r] = "attempt" /\ next'[r] = next[r]
            /\ slot'[r] = Current(r) /\ keyed'[r] = keyed[r]
            /\ job'[r] = job[r]
        BY <3>9 DEF Reserve, Trying, TakeSlot
      <4>3. slot'[r] # 0
        BY <4>1, <4>2, BackendAssumption DEF Backend
      <4> QED
        BY <4>2, <4>3
    <3>10. CASE NoAnswer(r)
      BY <3>10 DEF NoAnswer, GiveBackSlot
    <3>11. ASSUME NEW success \in BOOLEAN, Respond(r, success)
           PROVE LocalsOK(r)'
      BY <3>11 DEF Respond, Leave
    <3>12. CASE LoseSlot(r)
      BY <3>12 DEF LoseSlot, Leave, GiveBackSlot
    <3>13. CASE DropBody(r)
      BY <3>13 DEF DropBody, GiveBackKey
    <3>14. CASE DropKey(r)
      BY <3>14 DEF DropKey, Reset, GiveBackKey
    <3>15. CASE DropSlot(r)
      BY <3>15 DEF DropSlot, Reset, GiveBackSlot
    <3>16. CASE Close(r)
      BY <3>16 DEF Close, Reset
    <3> QED
      BY <1>1, <3>1, <3>2, <3>3, <3>4, <3>5, <3>6, <3>7, <3>8, <3>9, <3>10,
         <3>11, <3>12, <3>13, <3>14, <3>15, <3>16
         DEF Route, Headers, Finish, Release, NoBackend, Exhausted
  <2> QED
    BY <2>1, <2>2 DEF Locals
<1>2. CASE Environment \/ UNCHANGED vars
  <2>1. UNCHANGED local
    BY <1>2 DEF Environment, ProbeBackend, RefreshModels, ForgetPin, vars
  <2> QED
    BY <2>1 DEF IInv, Locals, LocalsOK
<1> QED
  BY <1>1, <1>2 DEF Next

\* Every action changes a counter exactly as it changes the owners of its
\* guards.
LEMMA ExactStep == IInv /\ [Next]_vars => BackendExact' /\ KeyExact'
<1> SUFFICES ASSUME IInv, [Next]_vars PROVE BackendExact' /\ KeyExact'
  OBVIOUS
<1>1. BackendExact'
  <2>1. CASE UNCHANGED <<active, slot>>
    BY <2>1 DEF IInv, BackendExact, Users
  <2>2. ASSUME NEW r \in Request, NEW b \in Backend,
               slot[r] = NoBackendId, TakeSlot(r, b)
        PROVE  BackendExact'
    <3>1. r \notin Users(b) /\ Users(b)' = Users(b) \cup {r}
      BY <2>2 DEF Users, TakeSlot, IInv, TypeOK, Backend, NoBackendId
    <3>2. \A x \in Backend \ {b} : Users(x)' = Users(x)
      BY <2>2 DEF Users, TakeSlot, IInv, TypeOK, Backend, NoBackendId
    <3>3. Cardinality(Users(b)') = Cardinality(Users(b)) + 1
      BY <3>1, OwnersAreRequests, CountGain
    <3> QED
      BY <2>2, <3>2, <3>3 DEF BackendExact, TakeSlot, IInv, TypeOK
  <2>3. ASSUME NEW r \in Request, NEW b \in Backend, slot[r] = b,
               GiveBackSlot(r)
        PROVE  BackendExact'
    <3>1. r \in Users(b) /\ Users(b)' = Users(b) \ {r}
      BY <2>3 DEF Users, GiveBackSlot, IInv, TypeOK, Backend, NoBackendId
    <3>2. \A x \in Backend \ {b} : Users(x)' = Users(x)
      BY <2>3 DEF Users, GiveBackSlot, IInv, TypeOK, Backend, NoBackendId
    <3>3. Cardinality(Users(b)') = Cardinality(Users(b)) - 1
      BY <3>1, OwnersAreRequests, CountLoss
    <3> QED
      BY <2>3, <3>2, <3>3 DEF BackendExact, GiveBackSlot, IInv, TypeOK
  <2> QED
    BY <2>1, <2>2, <2>3, SlotStep
<1>2. KeyExact'
  <2>1. ASSUME NEW r \in Request, NEW k \in ApiKey, r \notin Keyholders(k)
        PROVE  Cardinality(Keyholders(k) \cup {r})
                 = Cardinality(Keyholders(k)) + 1
    BY <2>1, OwnersAreRequests, CountGain
  <2>2. ASSUME NEW r \in Request, NEW k \in ApiKey, r \in Keyholders(k)
        PROVE  Cardinality(Keyholders(k) \ {r})
                 = Cardinality(Keyholders(k)) - 1
    BY <2>2, OwnersAreRequests, CountLoss
  <2>3. CASE /\ keyActive' = keyActive
             /\ \A k \in ApiKey : Keyholders(k)' = Keyholders(k)
    BY <2>3 DEF KeyExact, IInv
  <2>4. ASSUME NEW r \in Request, NEW k \in ApiKey, r \notin Keyholders(k),
               keyActive' = [keyActive EXCEPT ![k] = @ + 1],
               \A x \in ApiKey : Keyholders(x)' =
                  IF x = k THEN Keyholders(x) \cup {r} ELSE Keyholders(x)
        PROVE  KeyExact'
    BY <2>1, <2>4 DEF KeyExact, IInv, TypeOK
  <2>5. ASSUME NEW r \in Request, NEW k \in ApiKey, r \in Keyholders(k),
               keyActive' = [keyActive EXCEPT ![k] = @ - 1],
               \A x \in ApiKey : Keyholders(x)' =
                  IF x = k THEN Keyholders(x) \ {r} ELSE Keyholders(x)
        PROVE  KeyExact'
    BY <2>2, <2>5 DEF KeyExact, IInv, TypeOK
  <2> QED
    BY <2>3, <2>4, <2>5, KeyStep
<1> QED
  BY <1>1, <1>2

-----------------------------------------------------------------------------
(* The theorems.                                                           *)

\* The invariant holds in every reachable state.
THEOREM Invariance == Spec => []IInv
<1>1. IInv /\ [Next]_vars => IInv'
  BY TypeStep, LocalsStep, ExactStep DEF IInv
<1> QED
  BY InitInv, <1>1, PTL DEF Spec

\* Every variable keeps its type; no counter ever goes below zero.
THEOREM TypeCorrect == Spec => []TypeOK
BY Invariance, PTL DEF IInv

\* The in-flight counters of backends and keys equal the number of guards that
\* are alive, in every interleaving of admissions, failovers, hang-ups and
\* stream ends, and a request that is over owns no guard.
THEOREM NoSlotLost == Spec => []SlotsExact
<1>1. IInv => SlotsExact
  BY DEF IInv, SlotsExact, BackendExact, KeyExact, Locals, LocalsOK, Owning,
         Keyed, Handling
<1> QED
  BY Invariance, <1>1, PTL

\* No key is oversubscribed: try_acquire increments only below the limit.
KeysCapped == \A k \in ApiKey : KeyMax[k] > 0 => keyActive[k] <= KeyMax[k]

\* Every action respects the limit of every key.
LEMMA KeysCappedStep ==
    ASSUME IInv, KeysCapped, [Next]_vars
    PROVE  KeysCapped'
<1>1. \A k \in ApiKey : keyActive[k] \in Nat /\ KeyMax[k] \in Nat
  BY KeyAssumption DEF IInv, TypeOK
<1>2. CASE keyActive' = keyActive
  BY <1>2 DEF KeysCapped
<1>3. ASSUME NEW k \in ApiKey, ~KeyFull(k),
             keyActive' = [keyActive EXCEPT ![k] = @ + 1]
      PROVE  KeysCapped'
  BY <1>1, <1>3 DEF KeysCapped, KeyFull, Full, IInv, TypeOK
<1>4. ASSUME NEW k \in ApiKey, keyActive' = [keyActive EXCEPT ![k] = @ - 1]
      PROVE  KeysCapped'
  BY <1>1, <1>4 DEF KeysCapped, IInv, TypeOK
<1> QED
  BY <1>2, <1>3, <1>4, KeyStep

\* A key with a limit never has more requests on backends than the limit, save
\* those whose bodies are being dropped: whoever uses a backend still owns its
\* key's guard, and these are exactly counted and capped.
THEOREM KeyLimits == Spec => []KeyLimitsBackendUse
<1>1. Init => KeysCapped
  BY KeyAssumption DEF Init, KeysCapped
<1>2. IInv /\ KeysCapped => KeyLimitsBackendUse
  <2> SUFFICES ASSUME IInv, KeysCapped, NEW k \in ApiKey, KeyMax[k] > 0
               PROVE  Cardinality({r \in Request : /\ slot[r] # NoBackendId
                                                   /\ job[r].bearer = k
                                                   /\ pc[r] # "dropped"})
                        <= KeyMax[k]
    BY DEF KeyLimitsBackendUse
  <2> DEFINE S == {r \in Request : /\ slot[r] # NoBackendId
                                   /\ job[r].bearer = k
                                   /\ pc[r] # "dropped"}
  <2>1. S \subseteq Keyholders(k)
    BY DEF IInv, Locals, LocalsOK, Owning, Keyed, Handling, Keyholders,
           AuthEnabled
  <2>2. Keyholders(k) \in SUBSET Request /\ S \in SUBSET Request
    BY DEF Keyholders
  <2>3. Cardinality(S) <= Cardinality(Keyholders(k))
    BY <2>1, <2>2, RequestsFinite, FS_Subset
  <2>4. /\ Cardinality(Keyholders(k)) = keyActive[k]
        /\ keyActive[k] <= KeyMax[k]
    BY DEF IInv, KeyExact, KeysCapped
  <2>5. Cardinality(S) \in Nat /\ keyActive[k] \in Nat /\ KeyMax[k] \in Nat
    BY <2>2, RequestsFinite, KeyAssumption DEF IInv, TypeOK
  <2> HIDE DEF S
  <2>6. Cardinality(S) <= KeyMax[k]
    BY <2>3, <2>4, <2>5
  <2> QED
    BY <2>6 DEF S
<1> QED
  BY <1>1, <1>2, KeysCappedStep, Invariance, PTL DEF Spec

-----------------------------------------------------------------------------
(* Refinement.                                                             *)

\* The counters of the backends implement the bounded pools of Slots: a step
\* takes one slot of a backend with room, or gives one back, or stutters.
THEOREM BackendRefinement == Spec => ImplementsBackendPools
<1>1. Init => BackendPools!Init
  <2> SUFFICES ASSUME Init PROVE \A b \in Backend : Users(b) = {}
    BY DEF BackendPools!Init
  <2> QED
    BY BackendAssumption DEF Init, Users, Backend, NoBackendId
<1>2. IInv /\ [Next]_vars => [BackendPools!Next]_[b \in Backend |-> Users(b)]
  <2> DEFINE H == [b \in Backend |-> Users(b)]
  <2> SUFFICES ASSUME IInv, [Next]_vars PROVE BackendPools!Next \/ H' = H
    OBVIOUS
  <2>1. CASE UNCHANGED <<active, slot>>
    <3>1. H' = H
      BY <2>1 DEF Users
    <3> QED
      BY <3>1
  <2>2. ASSUME NEW r \in Request, NEW b \in Backend,
               slot[r] = NoBackendId, ~BackendFull(b), TakeSlot(r, b)
        PROVE  BackendPools!Next
    <3>1. /\ r \notin Users(b)
          /\ H' = [H EXCEPT ![b] = @ \cup {r}]
      <4>1. r \notin Users(b) /\ Users(b)' = Users(b) \cup {r}
        BY <2>2 DEF Users, TakeSlot, IInv, TypeOK, Backend, NoBackendId
      <4>2. \A x \in Backend \ {b} : Users(x)' = Users(x)
        BY <2>2 DEF Users, TakeSlot, IInv, TypeOK, Backend, NoBackendId
      <4> QED
        BY <4>1, <4>2
    <3>2. MaxConn[b] = 0 \/ Cardinality(Users(b)) < MaxConn[b]
      BY <2>2, BackendAssumption
         DEF BackendFull, Full, IInv, TypeOK, BackendExact
    <3>3. BackendPools!Acquire(r, b)
      BY <3>1, <3>2 DEF BackendPools!Acquire, BackendPools!Unlimited,
         BackendPools!Cardinality, Cardinality
    <3> QED
      BY <3>3 DEF BackendPools!Next
  <2>3. ASSUME NEW r \in Request, NEW b \in Backend, slot[r] = b,
               GiveBackSlot(r)
        PROVE  BackendPools!Next
    <3>1. /\ r \in Users(b)
          /\ H' = [H EXCEPT ![b] = @ \ {r}]
      <4>1. r \in Users(b) /\ Users(b)' = Users(b) \ {r}
        BY <2>3 DEF Users, GiveBackSlot, IInv, TypeOK, Backend, NoBackendId
      <4>2. \A x \in Backend \ {b} : Users(x)' = Users(x)
        BY <2>3 DEF Users, GiveBackSlot, IInv, TypeOK, Backend, NoBackendId
      <4> QED
        BY <4>1, <4>2
    <3>2. BackendPools!Release(r, b)
      BY <3>1 DEF BackendPools!Release
    <3> QED
      BY <3>2 DEF BackendPools!Next
  <2> QED
    BY <2>1, <2>2, <2>3, SlotStep
<1> QED
  BY <1>1, <1>2, Invariance, PTL
     DEF Spec, ImplementsBackendPools, BackendPools!Spec

\* And so do the counters of the keys.
THEOREM KeyRefinement == Spec => ImplementsKeyPools
<1>1. Init => KeyPools!Init
  <2> SUFFICES ASSUME Init PROVE \A k \in ApiKey : Keyholders(k) = {}
    BY DEF KeyPools!Init
  <2> QED
    BY DEF Init, Keyholders
<1>2. IInv /\ [Next]_vars => [KeyPools!Next]_[k \in ApiKey |-> Keyholders(k)]
  <2> DEFINE H == [k \in ApiKey |-> Keyholders(k)]
  <2> SUFFICES ASSUME IInv, [Next]_vars PROVE KeyPools!Next \/ H' = H
    OBVIOUS
  <2>1. CASE \A k \in ApiKey : Keyholders(k)' = Keyholders(k)
    <3>1. H' = H
      BY <2>1
    <3> QED
      BY <3>1
  <2>2. ASSUME NEW r \in Request, NEW k \in ApiKey,
               r \notin Keyholders(k), ~KeyFull(k),
               \A x \in ApiKey : Keyholders(x)' =
                  IF x = k THEN Keyholders(x) \cup {r} ELSE Keyholders(x)
        PROVE  KeyPools!Next
    <3>1. H' = [H EXCEPT ![k] = @ \cup {r}]
      BY <2>2
    <3>2. KeyMax[k] = 0 \/ Cardinality(Keyholders(k)) < KeyMax[k]
      BY <2>2, KeyAssumption DEF KeyFull, Full, IInv, TypeOK, KeyExact
    <3>3. KeyPools!Acquire(r, k)
      BY <2>2, <3>1, <3>2 DEF KeyPools!Acquire, KeyPools!Unlimited,
         KeyPools!Cardinality, Cardinality
    <3> QED
      BY <3>3 DEF KeyPools!Next
  <2>3. ASSUME NEW r \in Request, NEW k \in ApiKey, r \in Keyholders(k),
               \A x \in ApiKey : Keyholders(x)' =
                  IF x = k THEN Keyholders(x) \ {r} ELSE Keyholders(x)
        PROVE  KeyPools!Next
    <3>1. H' = [H EXCEPT ![k] = @ \ {r}]
      BY <2>3
    <3>2. KeyPools!Release(r, k)
      BY <2>3, <3>1 DEF KeyPools!Release
    <3> QED
      BY <3>2 DEF KeyPools!Next
  <2> QED
    BY <2>1, <2>2, <2>3, KeyStep
<1> QED
  BY <1>1, <1>2, Invariance, PTL DEF Spec, ImplementsKeyPools, KeyPools!Spec
=============================================================================
