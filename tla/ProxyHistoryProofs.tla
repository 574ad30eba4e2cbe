------------------------ MODULE ProxyHistoryProofs ------------------------
(***************************************************************************)
(* Proofs about the candidate list of every request and about the rules of *)
(* failover that ProxyHistory judges by what a request has seen since its  *)
(* admission, for any number of requests and backends, and whatever the    *)
(* counters, the health checker, the model lists and the session cache do  *)
(* meanwhile.                                                              *)
(*                                                                         *)
(* The counters the sort compares may change between two comparisons.  The *)
(* tiers never change, so the sort is correct as a sort by tier, whatever  *)
(* the counters say.  When nothing does change while the list is made, the *)
(* list is the one ordered_candidates documents, to the last tie.          *)
(***************************************************************************)
EXTENDS ProxyHistory, ProxyProofs

(* The order of the candidate list.                                        *)

Distinct(s) == \A i, j \in DOMAIN s : i < j => s[i] # s[j]

\* Up to position n, the elements of s are in the order of their tiers, save
\* that the one at position p may be too far back.
SortedBut(s, n, p) ==
    \A i, j \in DOMAIN s :
        i < j /\ j <= n /\ j # p => Fallback[s[i]] <= Fallback[s[j]]

SortedTail(s) ==
    \A i, j \in DOMAIN s :
        1 < i /\ i < j => Fallback[s[i]] <= Fallback[s[j]]

\* What the place of a request says of its list: it grows by ever larger
\* backends, is then sorted up to the element being inserted, and in the end is
\* sorted but for its head.
OrderOK(r) ==
    /\ pc[r] \notin Handling => order[r] = <<>>
    /\ Distinct(order[r])
    /\ pc[r] = "scan" => \A i \in DOMAIN order[r] : order[r][i] < next[r]
    /\ pc[r] = "sort" => /\ SortedBut(order[r], next[r], at[r])
                         /\ next[r] > Len(order[r]) => at[r] = next[r]
    /\ pc[r] \in {"attempt", "sent"} => SortedTail(order[r])

OrderInv == \A r \in Request : OrderOK(r)

-----------------------------------------------------------------------------
(* What the operators do to a list.                                        *)

\* Backends are numbers.
LEMMA BackendType == \A b \in Backend : b \in Nat
BY BackendAssumption DEF Backend

\* Tiers are numbers.
LEMMA TierType == \A b \in Backend : Fallback[b] \in Nat
BY BackendAssumption

\* The next backend is larger than every one before it.
LEMMA AppendDistinct ==
    ASSUME NEW s \in Seq(Backend), NEW b \in Backend, Distinct(s),
           \A i \in DOMAIN s : s[i] < b
    PROVE  /\ Distinct(Append(s, b))
           /\ \A i \in DOMAIN Append(s, b) : Append(s, b)[i] < b + 1
<1>1. \A i \in DOMAIN s : s[i] \in Nat /\ s[i] < b /\ s[i] # b
  <2>1. \A i \in DOMAIN s : s[i] \in Nat /\ s[i] < b
    BY BackendType
  <2> QED
    BY <2>1, BackendType
<1>2. b \in Nat
  BY BackendType
<1>3. /\ DOMAIN Append(s, b) = 1..(Len(s) + 1)
      /\ Append(s, b)[Len(s) + 1] = b
      /\ \A i \in 1..Len(s) : Append(s, b)[i] = s[i]
  OBVIOUS
<1>4. Distinct(Append(s, b))
  BY <1>1, <1>3 DEF Distinct
<1>5. \A i \in DOMAIN Append(s, b) : Append(s, b)[i] < b + 1
  BY <1>1, <1>2, <1>3
<1> QED
  BY <1>4, <1>5

\* Swapping two elements leaves all elements distinct.
LEMMA SwapDistinct ==
    ASSUME NEW s \in Seq(Backend), NEW p \in DOMAIN s, NEW q \in DOMAIN s,
           Distinct(s)
    PROVE  Distinct(Swap(s, p, q))
<1>1. \A i, j \in DOMAIN s : i # j => s[i] # s[j]
  BY DEF Distinct
<1>2. /\ DOMAIN Swap(s, p, q) = DOMAIN s
      /\ \A i \in DOMAIN s : Swap(s, p, q)[i] =
            IF i = q THEN s[p] ELSE IF i = p THEN s[q] ELSE s[i]
  BY DEF Swap
<1> QED
  BY <1>1, <1>2 DEF Distinct

\* Moving the inserted element one position forward, past one of a tier that
\* is not lower.
LEMMA SwapSorted ==
    ASSUME NEW s \in Seq(Backend), NEW n \in Nat,
           NEW p \in DOMAIN s, p > 1, SortedBut(s, n, p), p <= n,
           Fallback[s[p]] <= Fallback[s[p - 1]]
    PROVE  SortedBut(Swap(s, p, p - 1), n, p - 1)
<1> DEFINE t == Swap(s, p, p - 1)
<1>1. /\ p - 1 \in DOMAIN s /\ DOMAIN t = DOMAIN s
      /\ t[p] = s[p - 1] /\ t[p - 1] = s[p]
      /\ \A i \in DOMAIN s : i # p /\ i # p - 1 => t[i] = s[i]
  BY DEF Swap
<1>2. SUFFICES ASSUME NEW i \in DOMAIN s, NEW j \in DOMAIN s,
                      i < j, j <= n, j # p - 1
               PROVE  Fallback[t[i]] <= Fallback[t[j]]
  BY <1>1 DEF SortedBut
<1>3. /\ \A k \in DOMAIN s : s[k] \in Backend
      /\ \A k \in DOMAIN s : Fallback[s[k]] \in Nat
  BY TierType
<1> HIDE DEF t
<1>4. CASE j = p
  <2>1. CASE i = p - 1
    BY <1>1, <1>4, <2>1
  <2>2. CASE i # p - 1
    <3>1. i < p - 1 /\ p - 1 <= n /\ p - 1 # p
      BY <1>2, <1>4, <2>2
    <3>2. Fallback[s[i]] <= Fallback[s[p - 1]]
      BY <1>1, <3>1 DEF SortedBut
    <3> QED
      BY <1>1, <1>2, <1>4, <2>2, <3>2
  <2> QED
    BY <2>1, <2>2
<1>5. CASE j # p
  <2>1. t[j] = s[j]
    BY <1>1, <1>2, <1>5
  <2>2. PICK k \in DOMAIN s : t[i] = s[k] /\ k < j
    <3>1. CASE i = p
      BY <1>1, <1>2, <3>1
    <3>2. CASE i = p - 1
      BY <1>1, <1>2, <1>5, <3>2
    <3>3. CASE i # p /\ i # p - 1
      BY <1>1, <1>2, <3>3
    <3> QED
      BY <3>1, <3>2, <3>3
  <2> QED
    BY <1>2, <1>5, <2>1, <2>2 DEF SortedBut
<1> QED
  BY <1>4, <1>5

\* The element stays where it is: its tier is not lower than the one before.
LEMMA SettleSorted ==
    ASSUME NEW s \in Seq(Backend), NEW n \in Nat,
           NEW p \in DOMAIN s, SortedBut(s, n, p), p <= n,
           p > 1 => Fallback[s[p - 1]] <= Fallback[s[p]]
    PROVE  SortedBut(s, n + 1, n + 1)
<1>1. SUFFICES ASSUME NEW i \in DOMAIN s, NEW j \in DOMAIN s,
                      i < j, j <= n + 1, j # n + 1
               PROVE  Fallback[s[i]] <= Fallback[s[j]]
  BY DEF SortedBut
<1>2. \A k \in DOMAIN s : Fallback[s[k]] \in Nat
  BY TierType
<1>3. j <= n
  BY <1>1
<1>4. CASE j # p
  BY <1>1, <1>3, <1>4 DEF SortedBut
<1>5. CASE j = p
  <2>1. p > 1 /\ p - 1 \in DOMAIN s /\ i <= p - 1 /\ p - 1 <= n
    BY <1>1, <1>5
  <2>2. i # p - 1 => Fallback[s[i]] <= Fallback[s[p - 1]]
    BY <2>1 DEF SortedBut
  <2> QED
    BY <1>2, <1>5, <2>1, <2>2
<1> QED
  BY <1>4, <1>5

\* Moving one element of a sorted list to its front leaves the rest sorted.
LEMMA FrontSorted ==
    ASSUME NEW s \in Seq(Backend), NEW p \in DOMAIN s, Distinct(s),
           \A i, j \in DOMAIN s : i < j => Fallback[s[i]] <= Fallback[s[j]]
    PROVE  Distinct(MoveToFront(s, p)) /\ SortedTail(MoveToFront(s, p))
<1> DEFINE t == MoveToFront(s, p)
           From(i) == IF i = 1 THEN p ELSE IF i <= p THEN i - 1 ELSE i
<1>1. DOMAIN t = DOMAIN s /\ \A i \in DOMAIN s : t[i] = s[From(i)]
  BY DEF MoveToFront
<1>2. \A i \in DOMAIN s : From(i) \in DOMAIN s
  OBVIOUS
<1>3. \A i, j \in DOMAIN s : i < j => From(i) # From(j)
  OBVIOUS
<1>4. \A i, j \in DOMAIN s : 1 < i /\ i < j => From(i) < From(j)
  OBVIOUS
<1> HIDE DEF t, From
<1>5. Distinct(t)
  <2>1. \A i, j \in DOMAIN s : i # j => s[i] # s[j]
    BY DEF Distinct
  <2> QED
    BY <1>1, <1>2, <1>3, <2>1 DEF Distinct
<1>6. SortedTail(t)
  BY <1>1, <1>2, <1>4 DEF SortedTail
<1> QED
  BY <1>5, <1>6 DEF t

-----------------------------------------------------------------------------
(* The invariant is inductive.                                             *)

\* No request has a list at the start.
LEMMA OrderInit == Init => OrderInv
BY DEF Init, OrderInv, OrderOK, Distinct, Handling

\* A step that leaves the list alone within the attempts, or empties it.
LEMMA OrderKept ==
    ASSUME OrderInv, NEW r \in Request,
           \/ order'[r] = <<>> /\ pc'[r] \notin Handling
           \/ /\ order'[r] = order[r]
              /\ pc[r] \in {"attempt", "sent"}
              /\ pc'[r] \in {"attempt", "sent"}
           \/ /\ order'[r] = order[r]
              /\ pc[r] \notin Handling /\ pc'[r] \notin Handling
    PROVE  OrderOK(r)'
<1>1. OrderOK(r)
  BY DEF OrderInv
<1>2. CASE order'[r] = <<>> /\ pc'[r] \notin Handling
  BY <1>2 DEF OrderOK, Distinct, Handling
<1>3. CASE /\ order'[r] = order[r]
           /\ pc[r] \in {"attempt", "sent"}
           /\ pc'[r] \in {"attempt", "sent"}
  BY <1>1, <1>3 DEF OrderOK, Distinct, SortedTail, Handling
<1>4. CASE /\ order'[r] = order[r]
           /\ pc[r] \notin Handling /\ pc'[r] \notin Handling
  <2>1. order'[r] = <<>>
    BY <1>1, <1>4 DEF OrderOK
  <2> QED
    BY <1>2, <1>4, <2>1
<1> QED
  BY <1>2, <1>3, <1>4

\* The steps that build the list.
LEMMA OrderScan ==
    ASSUME IInv, OrderInv, NEW r \in Request, Scan(r)
    PROVE  OrderOK(r)'
<1>1. /\ order[r] \in Seq(Backend) /\ Distinct(order[r])
      /\ \A i \in DOMAIN order[r] : order[r][i] < next[r]
      /\ next[r] \in Backend /\ next[r] \in Nat
  BY DEF Scan, IInv, TypeOK, OrderInv, OrderOK
<1>2. /\ pc'[r] = "scan" /\ next'[r] = next[r] + 1
      /\ order'[r] \in {order[r], Append(order[r], next[r])}
  BY DEF Scan, IInv, TypeOK
<1>3. CASE order'[r] = order[r]
  <2>1. \A i \in DOMAIN order'[r] : order'[r][i] < next'[r]
    <3>1. \A i \in DOMAIN order[r] : order[r][i] \in Nat
      BY <1>1, BackendType
    <3> QED
      BY <1>1, <1>2, <1>3, <3>1
  <2> QED
    BY <1>1, <1>2, <1>3, <2>1 DEF OrderOK, Handling, Distinct
<1>4. CASE order'[r] = Append(order[r], next[r])
  <2>1. /\ Distinct(Append(order[r], next[r]))
        /\ \A i \in DOMAIN order'[r] : order'[r][i] < next'[r]
    BY <1>1, <1>2, <1>4, AppendDistinct
  <2> QED
    BY <1>2, <1>4, <2>1 DEF OrderOK, Handling, Distinct
<1> QED
  BY <1>2, <1>3, <1>4

\* A list of one element is sorted, up to the second one to be inserted.
LEMMA OrderStartSort ==
    ASSUME IInv, OrderInv, NEW r \in Request, StartSort(r)
    PROVE  OrderOK(r)'
<1>1. /\ order[r] \in Seq(Backend) /\ Distinct(order[r])
  BY DEF IInv, TypeOK, OrderInv, OrderOK
<1>2. /\ pc'[r] = "sort" /\ next'[r] = 2 /\ at'[r] = 2
      /\ order'[r] = order[r]
  BY DEF StartSort, Goto, IInv, TypeOK
<1>3. SortedBut(order[r], 2, 2)
  BY <1>1 DEF SortedBut
<1> QED
  BY <1>1, <1>2, <1>3 DEF OrderOK, Handling, Distinct, SortedBut

\* A comparison that swaps, or one that ends an insertion, by whatever the
\* counters are at that moment.
LEMMA OrderSort ==
    ASSUME IInv, OrderInv, NEW r \in Request, Sift(r) \/ Settle(r)
    PROVE  OrderOK(r)'
<1> DEFINE s == order[r]
           p == at[r]
           n == next[r]
<1>1. /\ s \in Seq(Backend) /\ Distinct(s) /\ SortedBut(s, n, p)
      /\ n \in Nat /\ n <= Len(s) /\ p <= n /\ pc[r] = "sort"
      /\ p \in DOMAIN s
  BY SortPositions DEF Sift, Settle, Sorting, IInv, TypeOK, Locals, LocalsOK,
     OrderInv, OrderOK
<1>2. \A k \in DOMAIN s : Fallback[s[k]] \in Nat /\ active[s[k]] \in Nat
  BY <1>1, TierType DEF IInv, TypeOK
<1>3. CASE Sift(r)
  <2>1. p > 1 /\ p - 1 \in DOMAIN s /\ Less(s[p], s[p - 1], active)
    BY <1>1, <1>3 DEF Sift, Precedes
  <2>2. Fallback[s[p]] <= Fallback[s[p - 1]]
    BY <1>1, <1>2, <2>1 DEF Less
  <2>3. /\ pc'[r] = "sort" /\ next'[r] = n /\ at'[r] = p - 1
        /\ order'[r] = Swap(s, p, p - 1)
    BY <1>1, <1>3 DEF Sift, IInv, TypeOK
  <2> HIDE DEF s, p, n
  <2>4. Distinct(Swap(s, p, p - 1)) /\ SortedBut(Swap(s, p, p - 1), n, p - 1)
    BY <1>1, <2>1, <2>2, SwapDistinct, SwapSorted
  <2>5. Len(Swap(s, p, p - 1)) = Len(s)
    BY <1>1 DEF Swap
  <2> QED
    BY <1>1, <2>3, <2>4, <2>5
       DEF OrderOK, Handling, Distinct, SortedBut
<1>4. CASE Settle(r)
  <2>1. p > 1 => p - 1 \in DOMAIN s /\ ~Less(s[p], s[p - 1], active)
    BY <1>1, <1>4 DEF Settle, Precedes
  <2>2. p > 1 => Fallback[s[p - 1]] <= Fallback[s[p]]
    BY <1>1, <1>2, <2>1 DEF Less
  <2>3. /\ pc'[r] = "sort" /\ next'[r] = n + 1 /\ at'[r] = n + 1
        /\ order'[r] = s
    BY <1>1, <1>4 DEF Settle, IInv, TypeOK
  <2> HIDE DEF s, p, n
  <2>4. SortedBut(s, n + 1, n + 1)
    BY <1>1, <2>2, SettleSorted
  <2> QED
    BY <1>1, <2>3, <2>4 DEF OrderOK, Handling, Distinct, SortedBut
<1> QED
  BY <1>3, <1>4

\* When the sort is over the list is sorted, and the pinned backend is moved.
LEMMA OrderLookup ==
    ASSUME IInv, OrderInv, NEW r \in Request, Lookup(r)
    PROVE  OrderOK(r)'
<1> DEFINE s == order[r]
<1>1. /\ s \in Seq(Backend) /\ Distinct(s)
      /\ SortedBut(s, next[r], at[r])
      /\ next[r] > Len(s) /\ at[r] = next[r] /\ next[r] \in Nat
      /\ PinPosition(r) \in DOMAIN s
  BY PinPositionType DEF Lookup, IInv, TypeOK, OrderInv, OrderOK
<1>2. \A i, j \in DOMAIN s : i < j => Fallback[s[i]] <= Fallback[s[j]]
  BY <1>1 DEF SortedBut
<1>3. /\ pc'[r] = "attempt"
      /\ order'[r] = MoveToFront(s, PinPosition(r))
  BY DEF Lookup, Goto, IInv, TypeOK
<1> HIDE DEF s
<1>4. /\ Distinct(MoveToFront(s, PinPosition(r)))
      /\ SortedTail(MoveToFront(s, PinPosition(r)))
  BY <1>1, <1>2, FrontSorted
<1> QED
  BY <1>3, <1>4 DEF OrderOK, Handling, Distinct, SortedTail

\* Every action keeps the list in order.
LEMMA OrderStep == IInv /\ OrderInv /\ [Next]_vars => OrderInv'
<1> SUFFICES ASSUME IInv, OrderInv, [Next]_vars PROVE OrderInv'
  OBVIOUS
<1> USE DEF shared, local, Goto
<1>1. ASSUME NEW r \in Request,
             \/ \E j \in Job : Arrive(r, j)
             \/ Route(r) \/ Headers(r) \/ Finish(r) \/ Release(r)
      PROVE  OrderInv'
  <2>1. ASSUME NEW q \in Request \ {r} PROVE OrderOK(q)'
    <3>1. OrderOK(q)
      BY DEF OrderInv
    <3>2. /\ pc'[q] = pc[q] /\ order'[q] = order[q] /\ next'[q] = next[q]
          /\ at'[q] = at[q]
      BY <1>1, Others
    <3> QED
      BY <3>1, <3>2 DEF OrderOK, Distinct, SortedBut, SortedTail
  <2>2. OrderOK(r)'
    <3>1. ASSUME NEW j \in Job, Arrive(r, j) PROVE OrderOK(r)'
      <4>1. order'[r] = order[r] /\ pc[r] = "idle"
            /\ pc'[r] \in {"answered", "scan"}
        BY <3>1 DEF Arrive, Unauthorized, BadRequest, Forbidden, RateLimited,
           Refuse, Admit, IInv, TypeOK
      <4>2. order[r] = <<>>
        BY <4>1 DEF OrderInv, OrderOK, Handling
      <4> QED
        BY <4>1, <4>2 DEF OrderOK, Distinct, Handling
    <3>2. CASE NoBackend(r) \/ Exhausted(r)
      <4>1. order'[r] = <<>> /\ pc'[r] = "answered"
        BY <3>2 DEF NoBackend, Exhausted, Fail, Leave, IInv, TypeOK
      <4> QED
        BY <4>1, OrderKept DEF Handling
    <3>3. CASE Skip(r) \/ Reserve(r) \/ NoAnswer(r)
      <4>1. /\ order'[r] = order[r] /\ pc[r] \in {"attempt", "sent"}
            /\ pc'[r] \in {"attempt", "sent"}
        BY <3>3 DEF Skip, Reserve, NoAnswer, Trying, IInv, TypeOK
      <4> QED
        BY <4>1, OrderKept
    <3>4. ASSUME NEW success \in BOOLEAN, Respond(r, success)
          PROVE OrderOK(r)'
      <4>1. order'[r] = <<>> /\ pc'[r] = "stream"
        BY <3>4 DEF Respond, Leave, IInv, TypeOK
      <4> QED
        BY <4>1, OrderKept DEF Handling
    <3>5. CASE LoseSlot(r)
      <4>1. order'[r] = <<>> /\ pc'[r] = "closing"
        BY <3>5 DEF LoseSlot, Leave, IInv, TypeOK
      <4> QED
        BY <4>1, OrderKept DEF Handling
    <3>6. CASE DropBody(r) \/ Release(r)
      <4>1. /\ order'[r] = order[r]
            /\ pc[r] \in {"stream", "closing", "dropped", "answered"}
            /\ pc'[r] \in {"dropped", "idle"}
        BY <3>6 DEF DropBody, Release, DropKey, DropSlot, Close, Reset,
           IInv, TypeOK
      <4> QED
        BY <4>1, OrderKept DEF Handling
    <3> QED
      BY <1>1, <3>1, <3>2, <3>3, <3>4, <3>5, <3>6, OrderScan, OrderStartSort,
         OrderSort, OrderLookup DEF Route, Headers, Finish
  <2> QED
    BY <2>1, <2>2 DEF OrderInv
<1>2. CASE Environment \/ UNCHANGED vars
  <2>1. UNCHANGED local
    BY <1>2 DEF Environment, ProbeBackend, RefreshModels, ForgetPin, vars
  <2> QED
    BY <2>1 DEF OrderInv, OrderOK
<1> QED
  BY <1>1, <1>2 DEF Next

-----------------------------------------------------------------------------
\* The list every request works through names no backend twice and is ordered
\* by tier behind its head, for any number of requests that change the counters
\* while ordered_candidates sorts by them.
THEOREM OrderCorrect == Spec => []CandidatesInOrder
<1>1. OrderInv => CandidatesInOrder
  BY DEF OrderInv, OrderOK, CandidatesInOrder, Distinct, SortedTail
<1>2. IInv /\ IInv' /\ OrderInv /\ [Next]_vars => OrderInv'
  BY OrderStep
<1> QED
  BY OrderInit, <1>1, <1>2, Invariance, PTL DEF Spec

-----------------------------------------------------------------------------
(* The list of a request nothing has disturbed since its admission.        *)

\* b is in the list of r, at position n or later.
Ahead(r, b, n) == \E i \in DOMAIN order[r] : n <= i /\ order[r][i] = b

\* The list of r holds candidates only, and all of those the scan has passed.
AllListed(r) ==
    LET all == Candidates(job[r].model) IN
    /\ \A i \in DOMAIN order[r] : order[r][i] \in all
    /\ \A b \in all : (pc[r] = "scan" => b < next[r]) => Ahead(r, b, 1)

\* The elements of s stand in the order of the configuration after position n.
Rising(s, n) == \A i, j \in DOMAIN s : n < j /\ i < j => s[i] < s[j]

\* Up to position n, s is in the order a lone request expects, save that the
\* element at position p may be too far back; it comes later in the
\* configuration than the others up to n.
Sifted(s, n, p) ==
    /\ \A i, j \in DOMAIN s : i < j /\ j <= n /\ j # p => Before(s[i], s[j])
    /\ \A i \in DOMAIN s : p \in DOMAIN s /\ i <= n /\ i # p => s[i] < s[p]

\* The pinned backend first, if it is a candidate, and the rest in order.
Arranged(r) ==
    LET s == order[r]
        p == pin[job[r]]
        first == IF p \in Candidates(job[r].model) THEN 2 ELSE 1
    IN  /\ first = 2 => s[1] = p
        /\ \A i, j \in DOMAIN s : first <= i /\ i < j => Before(s[i], s[j])

\* What the list of a request that nothing has disturbed looks like while it
\* is made.
Undisturbed(r) ==
    /\ pc[r] = "scan" => AllListed(r) /\ Rising(order[r], 0)
    /\ pc[r] = "sort" => /\ AllListed(r)
                         /\ Rising(order[r], next[r])
                         /\ Sifted(order[r], next[r], at[r])
    /\ pc[r] = "attempt" /\ next[r] = 1 => AllListed(r) /\ Arranged(r)

QuietInv == \A r \in Request : past[r].quiet => Undisturbed(r)

-----------------------------------------------------------------------------
(* The order of a lone request, over a comparison.                         *)

\* Two candidates stand in one order or the other, the counters being numbers.
LEMMA BeforeOrder ==
    ASSUME TypeOK, NEW a \in Backend, NEW b \in Backend
    PROVE  /\ Less(a, b, active) => Before(a, b)
           /\ ~Less(b, a, active) /\ a < b => Before(a, b)
           /\ \A c \in Backend : Before(a, b) /\ Before(b, c) => Before(a, c)
<1>1. \A x \in Backend :
          Fallback[x] \in Nat /\ active[x] \in Nat /\ x \in Nat
  BY TierType, BackendType DEF TypeOK
<1> QED
  BY <1>1 DEF Less, Before

\* A comparison that swaps.
LEMMA SwapSifted ==
    ASSUME TypeOK, NEW s \in Seq(Backend), NEW n \in Nat, NEW p \in DOMAIN s,
           p > 1, p <= n, Sifted(s, n, p), Rising(s, n),
           Less(s[p], s[p - 1], active)
    PROVE  Sifted(Swap(s, p, p - 1), n, p - 1) /\ Rising(Swap(s, p, p - 1), n)
<1> DEFINE t == Swap(s, p, p - 1)
           From(i) == IF i = p THEN p - 1 ELSE IF i = p - 1 THEN p ELSE i
<1>1. /\ p - 1 \in DOMAIN s /\ DOMAIN t = DOMAIN s /\ p \in Nat
      /\ \A i \in DOMAIN s : t[i] = s[From(i)] /\ From(i) \in DOMAIN s
      /\ \A i \in DOMAIN s : i \in Nat
  BY DEF Swap
<1>2. Before(s[p], s[p - 1])
  BY <1>1, BeforeOrder
<1>3. ASSUME NEW i \in DOMAIN s, NEW j \in DOMAIN s,
             i < j, j <= n, j # p - 1
      PROVE  Before(t[i], t[j])
  <2>1. CASE i = p - 1 /\ j = p
    BY <1>1, <1>2, <2>1
  <2>2. CASE ~(i = p - 1 /\ j = p)
    <3>1. From(i) < From(j) /\ From(j) <= n /\ From(j) # p
      <4>1. i \in Nat /\ j \in Nat /\ p \in Nat
        BY <1>1
      <4> QED
        BY <1>3, <2>2, <4>1
    <3> HIDE DEF From, t
    <3> QED
      BY <1>1, <1>3, <3>1 DEF Sifted
  <2> QED
    BY <2>1, <2>2
<1>4. ASSUME NEW i \in DOMAIN s, i <= n, i # p - 1
      PROVE  t[i] < t[p - 1]
  <2>1. From(i) <= n /\ From(i) # p /\ From(p - 1) = p
    BY <1>1, <1>4
  <2> HIDE DEF From, t
  <2> QED
    BY <1>1, <1>4, <2>1 DEF Sifted
<1>5. ASSUME NEW i \in DOMAIN s, NEW j \in DOMAIN s, n < j, i < j
      PROVE  t[i] < t[j]
  <2>1. From(i) < j /\ From(j) = j
    <3>1. i \in Nat /\ j \in Nat /\ p \in Nat
      BY <1>1
    <3> QED
      BY <1>5, <3>1
  <2> HIDE DEF From, t
  <2> QED
    BY <1>1, <1>5, <2>1 DEF Rising
<1> HIDE DEF t
<1> QED
  BY <1>1, <1>3, <1>4, <1>5 DEF Sifted, Rising, t

\* A comparison that ends an insertion.
LEMMA SettleSifted ==
    ASSUME TypeOK, NEW s \in Seq(Backend), NEW n \in Nat, NEW p \in DOMAIN s,
           p <= n, Sifted(s, n, p), Rising(s, n),
           p > 1 => ~Less(s[p], s[p - 1], active)
    PROVE  Sifted(s, n + 1, n + 1) /\ Rising(s, n + 1)
<1>1. \A i \in DOMAIN s : i \in Nat /\ s[i] \in Backend
  OBVIOUS
<1>2. ASSUME NEW i \in DOMAIN s, i < p
      PROVE  Before(s[i], s[p])
  <2>1. p - 1 \in DOMAIN s /\ p > 1 /\ p - 1 # p /\ p - 1 <= n
    BY <1>1, <1>2
  <2>2. Before(s[p - 1], s[p])
    <3>1. s[p - 1] < s[p]
      BY <2>1 DEF Sifted
    <3> QED
      BY <1>1, <2>1, <3>1, BeforeOrder
  <2>3. CASE i = p - 1
    BY <2>2, <2>3
  <2>4. CASE i # p - 1
    <3>1. i < p - 1
      BY <1>1, <1>2, <2>4
    <3>2. Before(s[i], s[p - 1])
      BY <2>1, <3>1 DEF Sifted
    <3> QED
      BY <1>1, <2>1, <2>2, <3>2, BeforeOrder
  <2> QED
    BY <2>3, <2>4
<1>3. ASSUME NEW i \in DOMAIN s, NEW j \in DOMAIN s,
             i < j, j <= n + 1, j # n + 1
      PROVE  Before(s[i], s[j])
  <2>1. j <= n
    BY <1>1, <1>3
  <2>2. CASE j = p
    BY <1>2, <1>3, <2>2
  <2>3. CASE j # p
    BY <1>3, <2>1, <2>3 DEF Sifted
  <2> QED
    BY <2>2, <2>3
<1>4. ASSUME NEW i \in DOMAIN s, n + 1 \in DOMAIN s, i <= n + 1, i # n + 1
      PROVE  s[i] < s[n + 1]
  <2>1. i < n + 1 /\ n < n + 1
    BY <1>1, <1>4
  <2> QED
    BY <1>4, <2>1 DEF Rising
<1>5. \A j \in DOMAIN s : n + 1 < j => n < j
  BY <1>1
<1> QED
  BY <1>3, <1>4, <1>5 DEF Sifted, Rising

\* No request remembers a quiet time at the start.
LEMMA QuietInit == HInit => QuietInv
BY DEF HInit, QuietInv, NoPast

\* A memory that is quiet after a step within the handler was quiet before it,
\* and the step changed nothing shared.
LEMMA StaysQuiet ==
    ASSUME Remember, NEW r \in Request, past'[r].quiet,
           pc[r] \in Handling, pc'[r] \in Handling
    PROVE  /\ past[r].quiet
           /\ UNCHANGED <<healthy, raw, active, pin>>
<1>1. Remembered(r)' /\ pc[r] # "idle" /\ pc[r] # "answered"
  BY DEF Remembered, Handling
<1>2. past'[r] = Extended(r)
  BY <1>1 DEF Remember
<1>3. Extended(r).quiet =
          (past[r].quiet /\ UNCHANGED <<healthy, raw, active, pin>>)
  BY DEF Extended
<1> QED
  BY <1>2, <1>3

\* What is said of a list only depends on what is quiet.
LEMMA SameQuestions ==
    ASSUME UNCHANGED <<healthy, raw, active, pin>>
    PROVE  /\ \A m : Candidates(m)' = Candidates(m)
           /\ \A a, b : Before(a, b)' <=> Before(a, b)
BY DEF Candidates, IsCandidate, Before

\* A step that leaves the request and the shared state alone.
LEMMA UndisturbedKept ==
    ASSUME NEW r \in Request, Undisturbed(r),
           UNCHANGED <<healthy, raw, active, pin>>,
           pc'[r] = pc[r], job'[r] = job[r], order'[r] = order[r],
           next'[r] = next[r], at'[r] = at[r]
    PROVE  Undisturbed(r)'
BY SameQuestions DEF Undisturbed, AllListed, Ahead, Rising, Sifted, Arranged

\* The list is empty when a request is admitted.
LEMMA QuietAdmit ==
    ASSUME IInv, OrderInv, NEW r \in Request, NEW j \in Job, Admit(r, j)
    PROVE  Undisturbed(r)'
<1>1. /\ pc[r] = "idle" /\ pc'[r] = "scan" /\ next'[r] = 1
      /\ order'[r] = order[r]
  BY DEF Admit, Goto, IInv, TypeOK
<1>2. order'[r] = <<>>
  BY <1>1 DEF OrderInv, OrderOK, Handling
<1>3. AllListed(r)'
  <2>1. \A b \in Backend : ~(b < 1)
    BY DEF Backend
  <2> QED
    BY <1>1, <1>2, <2>1 DEF AllListed, Candidates
<1> QED
  BY <1>1, <1>2, <1>3 DEF Undisturbed, Rising

\* The scan adds the backend it looks at if and only if it is a candidate.
LEMMA QuietScan ==
    ASSUME IInv, OrderInv, NEW r \in Request, Undisturbed(r), Scan(r)
    PROVE  Undisturbed(r)'
<1> DEFINE s == order[r]
           n == next[r]
           all == Candidates(job[r].model)
<1>1. /\ pc[r] = "scan" /\ pc'[r] = "scan" /\ next'[r] = n + 1
      /\ n \in Backend /\ n \in Nat /\ s \in Seq(Backend)
      /\ job' = job /\ UNCHANGED <<healthy, raw, active, pin>>
      /\ order'[r] = IF n \in all THEN Append(s, n) ELSE s
  BY DEF Scan, shared, IInv, TypeOK, Candidates
<1>2. Candidates(job[r].model)' = all
  BY <1>1, SameQuestions
<1>3. /\ \A i \in DOMAIN s : s[i] \in all
      /\ \A b \in all : b < n => \E i \in DOMAIN s : 1 <= i /\ s[i] = b
      /\ Rising(s, 0)
  BY <1>1 DEF Undisturbed, AllListed, Ahead
<1>4. /\ \A i \in DOMAIN s : s[i] < n /\ i \in Nat
      /\ \A b \in all : b \in Backend /\ b \in Nat
  BY <1>1, BackendType DEF OrderInv, OrderOK, Candidates
<1> HIDE DEF s, n, all
<1>5. CASE n \notin all
  <2>1. order'[r] = s
    BY <1>1, <1>5
  <2>2. \A b \in all : b < n + 1 => b < n
    BY <1>1, <1>4, <1>5
  <2>3. AllListed(r)'
    BY <1>1, <1>2, <1>3, <2>1, <2>2 DEF AllListed, Ahead
  <2> QED
    BY <1>1, <1>3, <2>1, <2>3 DEF Undisturbed, Rising
<1>6. CASE n \in all
  <2> DEFINE t == Append(s, n)
  <2>1. /\ DOMAIN t = 1..(Len(s) + 1) /\ DOMAIN s = 1..Len(s)
        /\ Len(s) \in Nat /\ t[Len(s) + 1] = n
        /\ \A i \in DOMAIN s : t[i] = s[i] /\ i \in DOMAIN t
    BY <1>1
  <2>2. order'[r] = t
    BY <1>1, <1>6
  <2> HIDE DEF t
  <2>3. ASSUME NEW b \in all, b < n + 1
        PROVE  \E i \in DOMAIN t : 1 <= i /\ t[i] = b
    <3>1. CASE b < n
      BY <1>3, <2>1, <3>1
    <3>2. CASE b = n
      <4>1. Len(s) + 1 \in DOMAIN t /\ 1 <= Len(s) + 1
        BY <2>1
      <4> QED
        BY <2>1, <3>2, <4>1
    <3> QED
      BY <1>1, <1>4, <2>3, <3>1, <3>2
  <2>4. \A i \in DOMAIN t : t[i] \in all
    <3>1. \A i \in DOMAIN t : i \in DOMAIN s \/ i = Len(s) + 1
      BY <2>1
    <3> QED
      BY <1>3, <1>6, <2>1, <3>1
  <2>5. Rising(t, 0)
    <3>1. ASSUME NEW i \in DOMAIN t, NEW j \in DOMAIN t, 0 < j, i < j
          PROVE  t[i] < t[j]
      <4>1. i \in DOMAIN s
        BY <2>1, <3>1
      <4>2. CASE j = Len(s) + 1
        BY <1>4, <2>1, <4>1, <4>2
      <4>3. CASE j \in DOMAIN s
        BY <1>3, <2>1, <3>1, <4>1, <4>3 DEF Rising
      <4> QED
        BY <2>1, <4>2, <4>3
    <3> QED
      BY <3>1 DEF Rising
  <2>6. AllListed(r)'
    BY <1>1, <1>2, <2>2, <2>3, <2>4 DEF AllListed, Ahead
  <2> QED
    BY <1>1, <2>2, <2>5, <2>6 DEF Undisturbed, Rising
<1> QED
  BY <1>5, <1>6

\* The scan has passed every backend when the sort starts.
LEMMA QuietStartSort ==
    ASSUME IInv, NEW r \in Request, Undisturbed(r), StartSort(r)
    PROVE  Undisturbed(r)'
<1> DEFINE s == order[r]
<1>1. /\ pc[r] = "scan" /\ pc'[r] = "sort" /\ next'[r] = 2 /\ at'[r] = 2
      /\ order'[r] = s /\ s \in Seq(Backend) /\ job' = job
      /\ UNCHANGED <<healthy, raw, active, pin>>
      /\ next[r] \in Nat /\ next[r] > 0 /\ next[r] \notin Backend
  BY DEF StartSort, Goto, shared, IInv, TypeOK, Locals, LocalsOK
<1>2. \A m : Candidates(m)' = Candidates(m)
  BY <1>1, SameQuestions
<1>3. \A b \in Backend : b < next[r]
  BY <1>1, BackendAssumption DEF Backend
<1>4. AllListed(r)'
  BY <1>1, <1>2, <1>3 DEF Undisturbed, AllListed, Ahead, Candidates
<1>5. Rising(s, 0) /\ \A i \in DOMAIN s : i \in Nat /\ i > 0
  BY <1>1 DEF Undisturbed
<1>6. Rising(s, 2)
  BY <1>5 DEF Rising
<1>7. /\ \A i, j \in DOMAIN s : ~(i < j /\ j <= 2 /\ j # 2)
      /\ \A i \in DOMAIN s : 2 \in DOMAIN s /\ i <= 2 /\ i # 2 => s[i] < s[2]
  <2>1. \A i \in DOMAIN s : i <= 2 /\ i # 2 => i < 2 /\ 0 < 2
    BY <1>5
  <2> QED
    BY <1>5, <2>1 DEF Rising
<1> QED
  BY <1>1, <1>4, <1>6, <1>7 DEF Undisturbed, Rising, Sifted

\* A swap keeps the elements of the list.
LEMMA SwapElements ==
    ASSUME NEW s \in Seq(Backend), NEW p \in DOMAIN s, NEW q \in DOMAIN s
    PROVE  /\ \A i \in DOMAIN Swap(s, p, q) :
                 \E k \in DOMAIN s : Swap(s, p, q)[i] = s[k]
           /\ \A i \in DOMAIN s : \E k \in DOMAIN Swap(s, p, q) :
                 1 <= k /\ Swap(s, p, q)[k] = s[i]
<1> DEFINE t == Swap(s, p, q)
<1>1. /\ DOMAIN t = DOMAIN s /\ t[p] = s[q] /\ t[q] = s[p]
      /\ \A i \in DOMAIN s : 1 <= i /\ (i # p /\ i # q => t[i] = s[i])
  BY DEF Swap
<1> HIDE DEF t
<1>2. \A i \in DOMAIN t : \E k \in DOMAIN s : t[i] = s[k]
  BY <1>1
<1>3. \A i \in DOMAIN s : \E k \in DOMAIN t : 1 <= k /\ t[k] = s[i]
  <2> TAKE i \in DOMAIN s
  <2>1. CASE i = p
    BY <1>1, <2>1
  <2>2. CASE i = q
    BY <1>1, <2>2
  <2>3. CASE i # p /\ i # q
    BY <1>1, <2>3
  <2> QED
    BY <2>1, <2>2, <2>3
<1> QED
  BY <1>2, <1>3 DEF t

\* The sort, as the insertion it is.
LEMMA QuietSort ==
    ASSUME IInv, NEW r \in Request, Undisturbed(r), Sift(r) \/ Settle(r)
    PROVE  Undisturbed(r)'
<1> DEFINE s == order[r]
           n == next[r]
           p == at[r]
<1>1. /\ pc[r] = "sort" /\ pc'[r] = "sort" /\ s \in Seq(Backend)
      /\ job' = job /\ UNCHANGED <<healthy, raw, active, pin>>
      /\ n \in Nat /\ p \in DOMAIN s /\ p <= n /\ TypeOK
  BY SortPositions DEF Sift, Settle, Sorting, shared, IInv, TypeOK, Locals,
     LocalsOK
<1>2. /\ \A m : Candidates(m)' = Candidates(m)
      /\ \A a, b : Before(a, b)' <=> Before(a, b)
  BY <1>1, SameQuestions
<1>3. AllListed(r) /\ Sifted(s, n, p) /\ Rising(s, n)
  BY <1>1 DEF Undisturbed
<1>4. CASE Sift(r)
  <2> DEFINE t == Swap(s, p, p - 1)
  <2>1. /\ p > 1 /\ p - 1 \in DOMAIN s /\ Less(s[p], s[p - 1], active)
        /\ next'[r] = n /\ at'[r] = p - 1 /\ order'[r] = t
    BY <1>1, <1>4, SortPositions DEF Sift, Precedes, IInv, TypeOK
  <2>2. Sifted(t, n, p - 1) /\ Rising(t, n)
    BY <1>1, <1>3, <2>1, SwapSifted
  <2>3. /\ \A i \in DOMAIN t : \E k \in DOMAIN s : t[i] = s[k]
        /\ \A i \in DOMAIN s : \E k \in DOMAIN t : 1 <= k /\ t[k] = s[i]
    BY <1>1, <2>1, SwapElements
  <2> DEFINE all == Candidates(job[r].model)
  <2>4. /\ \A i \in DOMAIN s : s[i] \in all
        /\ \A b \in all : \E i \in DOMAIN s : s[i] = b
    BY <1>1, <1>3 DEF AllListed, Ahead
  <2>5. order'[r] = t /\ Candidates(job[r].model)' = all /\ pc'[r] # "scan"
    BY <1>1, <1>2, <2>1
  <2> HIDE DEF t, s, all
  <2>6. AllListed(r)'
    BY <2>3, <2>4, <2>5 DEF AllListed, Ahead, all
  <2> QED
    BY <1>1, <1>2, <2>1, <2>2, <2>6 DEF Undisturbed, Sifted, Rising
<1>5. CASE Settle(r)
  <2>1. /\ p > 1 => ~Less(s[p], s[p - 1], active)
        /\ next'[r] = n + 1 /\ at'[r] = n + 1 /\ order'[r] = s
    BY <1>1, <1>5 DEF Settle, Precedes, IInv, TypeOK
  <2>2. Sifted(s, n + 1, n + 1) /\ Rising(s, n + 1)
    BY <1>1, <1>3, <2>1, SettleSifted
  <2>3. AllListed(r)'
    BY <1>1, <1>2, <1>3, <2>1 DEF AllListed, Ahead
  <2> QED
    BY <1>1, <1>2, <2>1, <2>2, <2>3 DEF Undisturbed, Sifted, Rising
<1> QED
  BY <1>4, <1>5

\* What MoveToFront takes from where.
LEMMA FrontElements ==
    ASSUME NEW s \in Seq(Backend), NEW p \in DOMAIN s
    PROVE  /\ DOMAIN MoveToFront(s, p) = DOMAIN s
           /\ MoveToFront(s, p)[1] = s[p]
           /\ \A i \in DOMAIN s : \E k \in DOMAIN s :
                 MoveToFront(s, p)[i] = s[k]
           /\ \A i \in DOMAIN s : \E k \in DOMAIN s :
                 1 <= k /\ MoveToFront(s, p)[k] = s[i]
           /\ \A i, j \in DOMAIN s : 1 < i /\ i < j =>
                 \E k, l \in DOMAIN s :
                    /\ k < l /\ MoveToFront(s, p)[i] = s[k]
                    /\ MoveToFront(s, p)[j] = s[l]
           /\ p = 1 => \A i \in DOMAIN s : MoveToFront(s, p)[i] = s[i]
<1> DEFINE t == MoveToFront(s, p)
           From(i) == IF i = 1 THEN p ELSE IF i <= p THEN i - 1 ELSE i
           To(i) == IF i = p THEN 1 ELSE IF i < p THEN i + 1 ELSE i
<1>1. /\ DOMAIN t = DOMAIN s /\ 1 \in DOMAIN s
      /\ \A i \in DOMAIN s : t[i] = s[From(i)]
  BY DEF MoveToFront
<1>2. /\ \A i \in DOMAIN s : From(i) \in DOMAIN s /\ To(i) \in DOMAIN s
      /\ \A i \in DOMAIN s : 1 <= To(i) /\ From(To(i)) = i
      /\ \A i, j \in DOMAIN s : 1 < i /\ i < j => From(i) < From(j)
      /\ p = 1 => \A i \in DOMAIN s : From(i) = i
      /\ From(1) = p
  OBVIOUS
<1> HIDE DEF t, From, To
<1>3. \A i \in DOMAIN s : t[To(i)] = s[i]
  BY <1>1, <1>2
<1>4. \A i \in DOMAIN s : \E k \in DOMAIN s : 1 <= k /\ t[k] = s[i]
  BY <1>2, <1>3
<1>5. \A i, j \in DOMAIN s : 1 < i /\ i < j =>
          \E k, l \in DOMAIN s : k < l /\ t[i] = s[k] /\ t[j] = s[l]
  BY <1>1, <1>2
<1>6. p = 1 => \A i \in DOMAIN s : t[i] = s[i]
  BY <1>1, <1>2
<1>7. \A i \in DOMAIN s : \E k \in DOMAIN s : t[i] = s[k]
  BY <1>1, <1>2
<1>8. DOMAIN t = DOMAIN s /\ t[1] = s[p]
  BY <1>1, <1>2
<1> QED
  BY <1>4, <1>5, <1>6, <1>7, <1>8 DEF t

\* When the sort is over every element has been inserted, and the lookup moves
\* the pinned backend, if it is in the list, which is: if it is a candidate.
LEMMA QuietLookup ==
    ASSUME IInv, OrderInv, NEW r \in Request, Undisturbed(r), Lookup(r)
    PROVE  Undisturbed(r)'
<1> DEFINE s == order[r]
           p == PinPosition(r)
           t == MoveToFront(s, p)
           b == pin[job[r]]
           all == Candidates(job[r].model)
<1>1. /\ pc[r] = "sort" /\ pc'[r] = "attempt" /\ next'[r] = 1
      /\ order'[r] = t /\ s \in Seq(Backend) /\ p \in DOMAIN s
      /\ job' = job /\ UNCHANGED <<healthy, raw, active, pin>>
      /\ next[r] \in Nat /\ next[r] > Len(s) /\ at[r] = next[r]
  BY PinPositionType
     DEF Lookup, Goto, shared, IInv, TypeOK, OrderInv, OrderOK
<1>2. /\ \A m : Candidates(m)' = Candidates(m)
      /\ \A x, y : Before(x, y)' <=> Before(x, y)
  BY <1>1, SameQuestions
<1>3. AllListed(r) /\ Sifted(s, next[r], at[r])
  BY <1>1 DEF Undisturbed
<1>4. \A i, j \in DOMAIN s : i < j => Before(s[i], s[j])
  <2>1. \A j \in DOMAIN s : j <= next[r] /\ j # at[r]
    BY <1>1
  <2> QED
    BY <1>3, <2>1 DEF Sifted
<1>5. /\ DOMAIN t = DOMAIN s /\ t[1] = s[p]
      /\ \A i \in DOMAIN s : \E k \in DOMAIN s : t[i] = s[k]
      /\ \A i \in DOMAIN s : \E k \in DOMAIN s : 1 <= k /\ t[k] = s[i]
      /\ \A i, j \in DOMAIN s : 1 < i /\ i < j =>
            \E k, l \in DOMAIN s : k < l /\ t[i] = s[k] /\ t[j] = s[l]
      /\ p = 1 => \A i \in DOMAIN s : t[i] = s[i]
  BY <1>1, FrontElements
<1>6. (\E i \in DOMAIN s : s[i] = b) <=> b \in all
  BY <1>1, <1>3 DEF AllListed, Ahead
<1>7. IF b \in all THEN s[p] = b ELSE p = 1
  <2>1. CASE b \in all
    <3>1. \E i \in DOMAIN s : s[i] = b
      BY <1>6, <2>1
    <3>2. p = Position(s, b)
      BY <3>1 DEF PinPosition
    <3> QED
      BY <2>1, <3>1, <3>2 DEF Position
  <2>2. CASE b \notin all
    BY <1>6, <2>2 DEF PinPosition
  <2> QED
    BY <2>1, <2>2
<1> HIDE DEF s, p, t, b, all
<1>8. \A i, j \in DOMAIN t : 1 < i /\ i < j => Before(t[i], t[j])
  BY <1>4, <1>5
<1>9. Arranged(r)'
  <2>1. order'[r] = t /\ pin'[job'[r]] = b /\ Candidates(job[r].model)' = all
    BY <1>1, <1>2 DEF b, all
  <2>2. CASE b \in all
    <3>1. \A i \in DOMAIN t : 2 <= i => 1 < i
      BY <1>1, <1>5
    <3> QED
      BY <1>2, <1>5, <1>7, <1>8, <2>1, <2>2, <3>1 DEF Arranged
  <2>3. CASE b \notin all
    BY <1>2, <1>4, <1>5, <1>7, <2>1, <2>3 DEF Arranged
  <2> QED
    BY <2>2, <2>3
<1>10. AllListed(r)'
  <2>1. /\ order'[r] = t /\ pc'[r] # "scan" /\ job' = job
        /\ Candidates(job[r].model)' = all
    BY <1>1, <1>2 DEF all
  <2>2. /\ \A i \in DOMAIN s : s[i] \in all
        /\ \A x \in all : \E i \in DOMAIN s : s[i] = x
    BY <1>1, <1>3 DEF AllListed, Ahead, s, all
  <2>3. \A i \in DOMAIN t : t[i] \in all
    BY <1>5, <2>2
  <2>4. ASSUME NEW x \in all
        PROVE  \E i \in DOMAIN t : 1 <= i /\ t[i] = x
    <3>1. PICK i \in DOMAIN s : s[i] = x
      BY <2>2
    <3>2. PICK k \in DOMAIN s : 1 <= k /\ t[k] = s[i]
      BY <1>5
    <3> QED
      BY <1>5, <3>1, <3>2
  <2> QED
    BY <2>1, <2>3, <2>4 DEF AllListed, Ahead
<1> QED
  BY <1>1, <1>9, <1>10 DEF Undisturbed

\* Every step keeps the lists of the undisturbed requests as they should be.
LEMMA QuietStep ==
    IInv /\ OrderInv /\ QuietInv /\ [HNext]_hvars => QuietInv'
<1> SUFFICES ASSUME IInv, OrderInv, QuietInv, [HNext]_hvars,
                    NEW q \in Request, past'[q].quiet
             PROVE  Undisturbed(q)'
  BY DEF QuietInv
<1>1. past[q].quiet => Undisturbed(q)
  BY DEF QuietInv
<1>2. CASE UNCHANGED hvars
  BY <1>1, <1>2, UndisturbedKept DEF hvars, vars, shared, local
<1>3. CASE pc'[q] \notin {"scan", "sort", "attempt"}
  BY <1>3 DEF Undisturbed
<1>4. ASSUME Remember, pc'[q] \in {"scan", "sort", "attempt"},
             pc[q] \in Handling
      PROVE  Undisturbed(q) /\ UNCHANGED <<healthy, raw, active, pin>>
  BY <1>1, <1>4, StaysQuiet DEF Handling
<1>5. ASSUME Remember, pc'[q] \in {"scan", "sort", "attempt"}, Environment
      PROVE  Undisturbed(q)'
  <2>1. UNCHANGED local
    BY <1>5 DEF Environment, ProbeBackend, RefreshModels, ForgetPin
  <2>2. pc[q] \in Handling
    BY <1>5, <2>1 DEF local, Handling
  <2> QED
    BY <1>4, <1>5, <2>1, <2>2, UndisturbedKept DEF local
<1>6. ASSUME Remember, pc'[q] \in {"scan", "sort", "attempt"},
             NEW r \in Request,
             \/ \E j \in Job : Arrive(r, j)
             \/ Route(r) \/ Headers(r) \/ Finish(r) \/ Release(r)
      PROVE  Undisturbed(q)'
  <2>1. CASE q # r
    <3>1. /\ pc'[q] = pc[q] /\ job'[q] = job[q] /\ order'[q] = order[q]
          /\ next'[q] = next[q] /\ at'[q] = at[q]
      BY <1>6, <2>1, Others
    <3> QED
      BY <1>4, <1>6, <3>1, UndisturbedKept DEF Handling
  <2>2. CASE q = r
    <3>1. ASSUME NEW j \in Job, Arrive(q, j) PROVE Undisturbed(q)'
      <4>1. Admit(q, j)
        BY <1>6, <3>1 DEF Arrive, Unauthorized, BadRequest, Forbidden,
           RateLimited, Refuse, Goto, IInv, TypeOK
      <4> QED
        BY <4>1, QuietAdmit
    <3>2. CASE Scan(q) \/ StartSort(q) \/ Sift(q) \/ Settle(q) \/ Lookup(q)
      <4>1. pc[q] \in Handling
        BY <3>2 DEF Scan, StartSort, Sift, Settle, Sorting, Lookup, Handling
      <4> QED
        BY <1>4, <1>6, <3>2, <4>1, QuietScan, QuietStartSort, QuietSort,
           QuietLookup
    <3>3. CASE Skip(q) \/ NoAnswer(q)
      <4>1. /\ pc[q] \in {"attempt", "sent"} /\ pc'[q] = "attempt"
            /\ next'[q] = next[q] + 1
        BY <3>3 DEF Skip, Trying, NoAnswer, Goto, IInv, TypeOK
      <4>2. next[q] \in Nat /\ next[q] > 0
        BY <4>1 DEF IInv, TypeOK, Locals, LocalsOK
      <4> QED
        BY <4>1, <4>2 DEF Undisturbed
    <3>4. CASE \/ NoBackend(q) \/ Exhausted(q) \/ Reserve(q)
               \/ \E success \in BOOLEAN : Respond(q, success)
               \/ Finish(q) \/ Release(q)
      <4>1. pc'[q] \notin {"scan", "sort", "attempt"}
        BY <3>4 DEF NoBackend, Exhausted, Fail, Reserve, Respond, Finish,
           LoseSlot, DropBody, Release, DropKey, DropSlot, Close, Reset,
           Leave, Goto, IInv, TypeOK
      <4> QED
        BY <4>1 DEF Undisturbed
    <3> QED
      BY <1>6, <2>2, <3>1, <3>2, <3>3, <3>4 DEF Route, Headers
  <2> QED
    BY <2>1, <2>2
<1> QED
  BY <1>2, <1>3, <1>5, <1>6 DEF HNext, Next

\* A list that names every element of a set once is as long as the set is
\* large.
LEMMA ListLength ==
    ASSUME NEW s \in Seq(Backend), NEW B, Distinct(s),
           \A i \in DOMAIN s : s[i] \in B,
           \A b \in B : \E i \in DOMAIN s : s[i] = b
    PROVE  Len(s) = Cardinality(B)
<1>1. \A i, j \in 1..Len(s) : i # j => s[i] # s[j]
  BY DEF Distinct
<1>2. s \in [1..Len(s) -> B] /\ Len(s) \in Nat
  OBVIOUS
<1>3. s \in Bijection(1..Len(s), B)
  BY <1>1, <1>2 DEF Bijection, Injection, Surjection, IsInjective
<1> QED
  BY <1>2, <1>3, FS_CountingElements DEF ExistsBijection

\* The candidate list of a request that nothing disturbs while it is made is
\* the documented one: exactly the candidates, the pinned one first, the rest
\* by tier, load and position.
THEOREM DocumentedOrder == HSpec => []QuietOrder
<1>1. ASSUME IInv, OrderInv, QuietInv PROVE QuietOrder
  <2> SUFFICES ASSUME NEW r \in Request, pc[r] = "attempt", next[r] = 1,
                      past[r].quiet
               PROVE  LET s == order[r]
                          all == Candidates(job[r].model)
                          p == pin[job[r]]
                          first == IF p \in all THEN 2 ELSE 1
                      IN  /\ {s[i] : i \in DOMAIN s} = all
                          /\ Len(s) = Cardinality(all)
                          /\ p \in all => s[1] = p
                          /\ \A i, j \in first..Len(s) :
                                i < j => Before(s[i], s[j])
    BY DEF QuietOrder
  <2> DEFINE s == order[r]
             all == Candidates(job[r].model)
             p == pin[job[r]]
             first == IF p \in all THEN 2 ELSE 1
  <2>1. AllListed(r) /\ Arranged(r) /\ s \in Seq(Backend) /\ Distinct(s)
    BY <1>1 DEF QuietInv, Undisturbed, IInv, TypeOK, OrderInv, OrderOK
  <2>2. /\ \A i \in DOMAIN s : s[i] \in all
        /\ \A b \in all : \E i \in DOMAIN s : s[i] = b
    BY <2>1 DEF AllListed, Ahead
  <2>3. /\ p \in all => s[1] = p
        /\ \A i, j \in DOMAIN s : first <= i /\ i < j => Before(s[i], s[j])
    BY <2>1 DEF Arranged
  <2>4. first \in {1, 2} /\ \A i \in first..Len(s) :
            i \in DOMAIN s /\ first <= i
    BY <2>1
  <2> HIDE DEF s, all, p, first
  <2>5. {s[i] : i \in DOMAIN s} = all
    BY <2>2
  <2>6. Len(s) = Cardinality(all)
    BY <2>1, <2>2, ListLength
  <2>7. \A i, j \in first..Len(s) : i < j => Before(s[i], s[j])
    BY <2>3, <2>4
  <2> QED
    BY <2>3, <2>5, <2>6, <2>7 DEF s, all, p, first
<1>2. HInit => Init
  BY DEF HInit
<1>3. [HNext]_hvars => [Next]_vars
  BY DEF HNext, hvars
<1>4. IInv /\ OrderInv /\ QuietInv /\ [HNext]_hvars
         => IInv' /\ OrderInv' /\ QuietInv'
  BY <1>3, TypeStep, LocalsStep, ExactStep, OrderStep, QuietStep DEF IInv
<1> QED
  BY <1>1, <1>2, <1>4, InitInv, OrderInit, QuietInit, PTL DEF HSpec

-----------------------------------------------------------------------------
(* The rules of failover.                                                  *)

\* b is in the list of r, before position n.
Behind(r, b, n) == \E i \in DOMAIN order[r] : i < n /\ order[r][i] = b

\* The first position of the list that r has not contacted or given up.
FirstAhead(r) == IF pc[r] = "sent" THEN next[r] + 1 ELSE next[r]

TierSorted(s) ==
    \A i, j \in DOMAIN s : i < j => Fallback[s[i]] <= Fallback[s[j]]

\* Until the attempts, the backends that stayed candidates are in the list, as
\* far as it has been made, and nothing has been contacted.
Listed(r) ==
    /\ pc[r] \in {"scan", "sort"} => past[r].tried = {}
    /\ pc[r] = "scan" =>
          \A b \in past[r].steady : b < next[r] => Ahead(r, b, 1)
    /\ pc[r] = "sort" => \A b \in past[r].steady : Ahead(r, b, 1)

\* During the attempts, what was contacted lies behind, and a backend that
\* stayed a candidate was contacted or lies ahead.
Worked(r) ==
    pc[r] \in {"attempt", "sent"} =>
        /\ \A b \in past[r].tried : Behind(r, b, FirstAhead(r))
        /\ \A b \in past[r].steady \ BadHeader :
              b \in past[r].tried \/ Ahead(r, b, FirstAhead(r))
        /\ pc[r] = "sent" => slot[r] \in past[r].tried

\* The pin stands first until a backend is contacted, and only a pin disturbs
\* the order of the tiers.
PinFirst(r) ==
    /\ pc[r] = "attempt" =>
          /\ past[r].pinned \in Backend /\ Ahead(r, past[r].pinned, 1) =>
                order[r][1] = past[r].pinned
          /\ next[r] = 1 =>
                order[r][1] = past[r].pinned \/ TierSorted(order[r])
    /\ pc[r] = "sent" => past[r].pinned = NoBackendId

\* A request that gave up has contacted whatever stayed a candidate.
GaveUp(r) ==
    answer[r] \in Unavailable =>
        /\ pc[r] = "answered"
        /\ past[r].steady \ BadHeader \subseteq past[r].tried

HistoryOK(r) ==
    /\ past[r].steady \subseteq Backend
    /\ Listed(r) /\ Worked(r) /\ PinFirst(r) /\ GaveUp(r)

HistoryInv == \A r \in Request : HistoryOK(r)

-----------------------------------------------------------------------------
(* The memory of one request over one step.                                *)

\* No request remembers anything at the start.
LEMMA HistoryInit == HInit => HistoryInv
BY DEF HInit, Init, HistoryInv, HistoryOK, Listed, Worked, PinFirst, GaveUp,
       NoPast, Unavailable

\* Within the handler, and on leaving it with an answer, the memory grows by
\* what this step shows.
LEMMA Grows ==
    ASSUME Remember, NEW r \in Request, pc[r] \in Handling,
           pc'[r] \in Handling \cup {"answered"}
    PROVE  /\ past'[r].steady =
                 past[r].steady \cap Candidates(job[r].model)'
           /\ past'[r].tried =
                 past[r].tried \cup ({slot'[r]} \ {NoBackendId})
           /\ past'[r].pinned = PinnedNow(r)
<1>1. Remembered(r)' /\ pc[r] # "idle" /\ pc[r] # "answered"
  BY DEF Remembered, Handling
<1>2. past'[r] = Extended(r)
  BY <1>1 DEF Remember
<1> QED
  BY <1>2 DEF Extended

\* A request outside the handler remembers nothing that matters.
LEMMA Outside ==
    ASSUME Remember, NEW r \in Request,
           pc'[r] \notin Handling \cup {"answered"},
           answer'[r] \notin Unavailable
    PROVE  HistoryOK(r)'
<1>1. past'[r] = NoPast
  BY DEF Remember, Remembered
<1> QED
  BY <1>1 DEF HistoryOK, Listed, Worked, PinFirst, GaveUp, NoPast, Handling

\* A step that changes nothing of r's own keeps what is known of r, since its
\* memory can only lose backends that are no candidates any more.
LEMMA HistoryKept ==
    ASSUME IInv, Remember, NEW r \in Request, HistoryOK(r),
           pc'[r] = pc[r], order'[r] = order[r], next'[r] = next[r],
           slot'[r] = slot[r], answer'[r] = answer[r]
    PROVE  HistoryOK(r)'
<1>1. CASE pc[r] \in Handling
  <2>1. /\ past'[r].steady \subseteq past[r].steady
        /\ past'[r].tried =
              past[r].tried \cup ({slot[r]} \ {NoBackendId})
        /\ past'[r].pinned =
              IF pc[r] = "sent" THEN NoBackendId ELSE past[r].pinned
    <3>1. /\ past'[r].steady =
                past[r].steady \cap Candidates(job[r].model)'
          /\ past'[r].tried =
                past[r].tried \cup ({slot'[r]} \ {NoBackendId})
          /\ past'[r].pinned = PinnedNow(r)
      BY <1>1, Grows
    <3> QED
      BY <3>1 DEF PinnedNow
  <2>2. past'[r].tried = past[r].tried
    <3>1. pc[r] # "sent" => slot[r] = NoBackendId
      BY <1>1 DEF IInv, Locals, LocalsOK, Owning, Handling
    <3>2. pc[r] = "sent" => slot[r] \in past[r].tried
      BY DEF HistoryOK, Worked
    <3> QED
      BY <2>1, <3>1, <3>2
  <2>3. answer[r] \notin Unavailable
    BY <1>1 DEF HistoryOK, GaveUp, Handling
  <2>4. Listed(r)'
    BY <2>1, <2>2 DEF HistoryOK, Listed, Ahead
  <2>5. Worked(r)'
    BY <2>1, <2>2 DEF HistoryOK, Worked, Ahead, Behind, FirstAhead
  <2>6. PinFirst(r)'
    BY <2>1 DEF HistoryOK, PinFirst, Ahead, TierSorted
  <2> QED
    BY <2>1, <2>3, <2>4, <2>5, <2>6 DEF HistoryOK, GaveUp
<1>2. CASE pc[r] = "answered"
  <2>1. past'[r] = past[r]
    BY <1>2 DEF Remember, Remembered
  <2> QED
    BY <1>2, <2>1 DEF HistoryOK, Listed, Worked, PinFirst, GaveUp
<1>3. CASE pc[r] \notin Handling \cup {"answered"}
  <2>1. answer[r] \notin Unavailable
    BY <1>3 DEF HistoryOK, GaveUp
  <2> QED
    BY <1>3, <2>1, Outside
<1> QED
  BY <1>1, <1>2, <1>3

-----------------------------------------------------------------------------
(* The steps of the request itself.                                        *)

\* An admission, or a refusal, starts the memory.
LEMMA HistoryArrive ==
    ASSUME IInv, Remember, NEW r \in Request, HistoryOK(r),
           NEW j \in Job, Arrive(r, j)
    PROVE  HistoryOK(r)'
<1>1. /\ pc[r] = "idle" /\ pc'[r] \in {"answered", "scan"}
      /\ pc'[r] = "scan" => next'[r] = 1
      /\ answer'[r] \notin Unavailable
  <2>1. pc[r] = "idle" /\ answer[r] \notin Unavailable
    BY DEF Arrive, Unauthorized, BadRequest, Forbidden, RateLimited, Refuse,
           Admit, HistoryOK, GaveUp
  <2> QED
    BY <2>1 DEF Arrive, Unauthorized, BadRequest, Forbidden, RateLimited,
                Refuse, Admit, Goto, IInv, TypeOK, Unavailable
<1>2. past'[r] = AtAdmission(r)
  BY <1>1 DEF Remember, Remembered, Handling
<1>3. /\ past'[r].steady = Candidates(job[r].model)'
      /\ past'[r].tried = {}
  BY <1>2 DEF AtAdmission
<1>4. past'[r].steady \subseteq Backend
  BY <1>3 DEF Candidates, Backend
<1>5. pc'[r] = "scan" => \A b \in past'[r].steady : ~(b < next'[r])
  BY <1>1, <1>4 DEF Backend
<1> QED
  BY <1>1, <1>3, <1>4, <1>5 DEF HistoryOK, Listed, Worked, PinFirst, GaveUp

\* The scan lists the backend it looks at, if that one is a candidate now.
LEMMA HistoryScan ==
    ASSUME IInv, Remember, NEW r \in Request, HistoryOK(r), Scan(r)
    PROVE  HistoryOK(r)'
<1> DEFINE n == next[r]
<1>1. /\ pc[r] = "scan" /\ pc'[r] = "scan" /\ n \in Backend
      /\ next'[r] = n + 1 /\ slot'[r] = slot[r] /\ slot[r] = NoBackendId
      /\ answer'[r] = answer[r] /\ job' = job
      /\ order[r] \in Seq(Backend)
      /\ order'[r] = IF IsCandidate(n, job[r].model)
                     THEN Append(order[r], n) ELSE order[r]
  BY DEF Scan, IInv, TypeOK, Locals, LocalsOK, Owning, local
<1>2. /\ past'[r].steady = past[r].steady \cap Candidates(job[r].model)'
      /\ past'[r].tried = {}
  BY <1>1, Grows DEF Handling, HistoryOK, Listed
<1>3. n \in past'[r].steady => IsCandidate(n, job[r].model)
  BY <1>1, <1>2 DEF Candidates, IsCandidate, Scan, shared
<1>4. ASSUME NEW b \in past'[r].steady, b < n + 1
      PROVE  Ahead(r, b, 1)'
  <2>1. b \in Backend /\ b \in past[r].steady
    BY <1>2, <1>4 DEF HistoryOK
  <2>2. CASE b < n
    <3>1. PICK i \in DOMAIN order[r] : 1 <= i /\ order[r][i] = b
      BY <1>1, <2>1, <2>2 DEF HistoryOK, Listed, Ahead
    <3>2. i \in DOMAIN order'[r] /\ order'[r][i] = b
      BY <1>1, <3>1
    <3> QED
      BY <3>1, <3>2 DEF Ahead
  <2>3. CASE b = n
    <3>1. order'[r] = Append(order[r], n)
      BY <1>1, <1>3, <1>4, <2>3
    <3>2. /\ Len(order[r]) + 1 \in DOMAIN order'[r]
          /\ order'[r][Len(order[r]) + 1] = b
          /\ 1 <= Len(order[r]) + 1
      BY <1>1, <2>3, <3>1
    <3> QED
      BY <3>2 DEF Ahead
  <2>4. b < n \/ b = n
    BY <1>1, <1>4, <2>1 DEF Backend
  <2> QED
    BY <2>2, <2>3, <2>4
<1>5. Listed(r)'
  BY <1>1, <1>2, <1>4 DEF Listed
<1>6. answer'[r] \notin Unavailable
  BY <1>1 DEF HistoryOK, GaveUp
<1> QED
  BY <1>1, <1>2, <1>5, <1>6 DEF HistoryOK, Worked, PinFirst, GaveUp

\* When the scan is over, it has passed every backend.
LEMMA ScanOver ==
    ASSUME IInv, NEW r \in Request, HistoryOK(r), pc[r] = "scan",
           next[r] \notin Backend
    PROVE  \A b \in past[r].steady : Ahead(r, b, 1)
<1>1. next[r] \in Nat /\ next[r] > 0 /\ NumBackends \in Nat
  BY BackendAssumption DEF IInv, TypeOK, Locals, LocalsOK
<1>2. next[r] > NumBackends
  BY <1>1 DEF Backend
<1>3. \A b \in Backend : b < next[r]
  BY <1>1, <1>2 DEF Backend
<1> QED
  BY <1>3 DEF HistoryOK, Listed

\* The sort keeps the elements of the list.
LEMMA HistorySort ==
    ASSUME IInv, Remember, NEW r \in Request, HistoryOK(r),
           StartSort(r) \/ Sift(r) \/ Settle(r)
    PROVE  HistoryOK(r)'
<1>1. /\ pc[r] \in {"scan", "sort"} /\ pc'[r] = "sort"
      /\ slot'[r] = slot[r] /\ slot[r] = NoBackendId
      /\ answer'[r] = answer[r]
  BY DEF StartSort, Sift, Settle, Sorting, Goto, IInv, TypeOK, Locals,
         LocalsOK, Owning
<1>2. /\ past'[r].steady \subseteq past[r].steady
      /\ past'[r].tried = {}
  BY <1>1, Grows DEF Handling, HistoryOK, Listed
<1>3. \A b \in past[r].steady : Ahead(r, b, 1)
  <2>1. CASE pc[r] = "scan"
    BY <2>1, ScanOver DEF StartSort, Sift, Settle, Sorting
  <2>2. CASE pc[r] = "sort"
    BY <2>2 DEF HistoryOK, Listed
  <2> QED
    BY <1>1, <2>1, <2>2
<1>4. \A i \in DOMAIN order[r] : \E k \in DOMAIN order'[r] :
          1 <= k /\ order'[r][k] = order[r][i]
  <2>1. order[r] \in Seq(Backend)
    BY DEF IInv, TypeOK
  <2>2. CASE order'[r] = order[r]
    BY <2>1, <2>2
  <2>3. CASE Sift(r)
    <3> DEFINE p == at[r]
    <3>1. /\ p \in DOMAIN order[r] /\ p - 1 \in DOMAIN order[r]
          /\ order'[r] = Swap(order[r], p, p - 1)
      BY <2>3, SortPositions DEF Sift, Precedes, IInv, TypeOK
    <3>2. /\ DOMAIN order'[r] = DOMAIN order[r]
          /\ order'[r][p - 1] = order[r][p]
          /\ order'[r][p] = order[r][p - 1]
          /\ \A i \in DOMAIN order[r] : i # p /\ i # p - 1 =>
                order'[r][i] = order[r][i]
      BY <2>1, <3>1 DEF Swap
    <3>3. \A i \in DOMAIN order[r] : 1 <= i
      BY <2>1
    <3> HIDE DEF p
    <3>4. TAKE i \in DOMAIN order[r]
    <3>5. CASE i = p
      BY <3>1, <3>2, <3>3, <3>5
    <3>6. CASE i = p - 1
      BY <3>1, <3>2, <3>3, <3>6
    <3>7. CASE i # p /\ i # p - 1
      BY <3>2, <3>3, <3>7
    <3> QED
      BY <3>5, <3>6, <3>7
  <2>4. StartSort(r) \/ Settle(r) => order'[r] = order[r]
    BY DEF StartSort, Settle
  <2> QED
    BY <2>2, <2>3, <2>4
<1>5. \A b \in past'[r].steady : Ahead(r, b, 1)'
  BY <1>2, <1>3, <1>4 DEF Ahead
<1>6. answer'[r] \notin Unavailable
  BY <1>1 DEF HistoryOK, GaveUp, StartSort, Sift, Settle, Sorting
<1> QED
  BY <1>1, <1>2, <1>5, <1>6
     DEF HistoryOK, Listed, Worked, PinFirst, GaveUp

\* The lookup moves the pinned backend to the front and loses no element.
LEMMA HistoryLookup ==
    ASSUME IInv, OrderInv, Remember, NEW r \in Request, HistoryOK(r),
           Lookup(r)
    PROVE  HistoryOK(r)'
<1> DEFINE s == order[r]
           p == PinPosition(r)
           t == MoveToFront(s, p)
<1>1. /\ pc[r] = "sort" /\ pc'[r] = "attempt" /\ next'[r] = 1
      /\ slot'[r] = slot[r] /\ slot[r] = NoBackendId
      /\ answer'[r] = answer[r] /\ order'[r] = t
      /\ s \in Seq(Backend) /\ p \in DOMAIN s
  BY PinPositionType DEF Lookup, Goto, IInv, TypeOK, Locals, LocalsOK, Owning
<1>2. /\ past'[r].steady \subseteq past[r].steady
      /\ past'[r].tried = {}
      /\ past'[r].pinned = pin[job[r]]
  BY <1>1, Grows DEF Handling, HistoryOK, Listed, PinnedNow
<1>3. /\ DOMAIN t = DOMAIN s /\ t[1] = s[p]
      /\ \A i \in DOMAIN s : 1 < i /\ i <= p => t[i] = s[i - 1]
      /\ \A i \in DOMAIN s : p < i => t[i] = s[i]
  BY <1>1 DEF MoveToFront
<1>4. \A i \in DOMAIN s : \E k \in DOMAIN t : 1 <= k /\ t[k] = s[i]
  <2>1. TAKE i \in DOMAIN s
  <2>2. i \in 1..Len(s) /\ p \in 1..Len(s) /\ Len(s) \in Nat
    BY <1>1
  <2>3. ASSUME i < p PROVE \E k \in DOMAIN s : 1 <= k /\ t[k] = s[i]
    <3> DEFINE k == i + 1
    <3>1. k \in DOMAIN s /\ 1 < k /\ k <= p /\ k - 1 = i /\ 1 <= k
      BY <1>1, <2>2, <2>3
    <3> HIDE DEF k, s, p, t
    <3>2. t[k] = s[k - 1]
      BY <1>3, <3>1
    <3> QED
      BY <3>1, <3>2
  <2> HIDE DEF s, p, t
  <2>4. CASE i = p
    <3>1. 1 \in DOMAIN s
      BY <1>1, <2>2
    <3> QED
      BY <1>3, <2>4, <3>1
  <2>5. CASE p < i
    BY <1>3, <2>2, <2>5
  <2>6. CASE i < p
    BY <1>3, <2>2, <2>3, <2>6
  <2> QED
    BY <2>2, <2>4, <2>5, <2>6
<1>5. \A b \in past'[r].steady : Ahead(r, b, 1)'
  <2>1. \A b \in past[r].steady : Ahead(r, b, 1)
    BY <1>1 DEF HistoryOK, Listed
  <2> QED
    BY <1>1, <1>2, <1>4, <2>1 DEF Ahead
<1>6. CASE \E i \in DOMAIN s : s[i] = pin[job[r]]
  <2>1. s[p] = pin[job[r]]
    BY <1>6 DEF PinPosition, Position
  <2>2. order'[r][1] = past'[r].pinned
    BY <1>1, <1>2, <1>3, <2>1
  <2> QED
    BY <1>1, <1>2, <1>5, <2>2
       DEF HistoryOK, Listed, Worked, PinFirst, GaveUp, FirstAhead
<1>7. CASE ~\E i \in DOMAIN s : s[i] = pin[job[r]]
  <2>1. p = 1
    BY <1>7 DEF PinPosition
  <2>2. \A i \in DOMAIN s : t[i] = s[i]
    <3>1. \A i \in DOMAIN s : i = 1 \/ 1 < i
      BY <1>1
    <3> QED
      BY <1>3, <2>1, <3>1
  <2>3. TierSorted(t)
    <3>1. /\ SortedBut(s, next[r], at[r]) /\ at[r] = next[r]
          /\ next[r] > Len(s) /\ next[r] \in Nat
      BY <1>1 DEF OrderInv, OrderOK, Lookup, IInv, TypeOK
    <3>2. TierSorted(s)
      BY <1>1, <3>1 DEF SortedBut, TierSorted
    <3> HIDE DEF s, t
    <3> QED
      BY <1>3, <2>2, <3>2 DEF TierSorted
  <2>4. ~\E i \in DOMAIN order'[r] : order'[r][i] = past'[r].pinned
    BY <1>1, <1>2, <1>3, <1>7, <2>2
  <2>5. PinFirst(r)'
    <3> HIDE DEF t
    <3> QED
      BY <1>1, <2>3, <2>4 DEF PinFirst, Ahead, TierSorted
  <2> QED
    BY <1>1, <1>2, <1>5, <2>5
       DEF HistoryOK, Listed, Worked, GaveUp, FirstAhead
<1> QED
  BY <1>6, <1>7

\* A candidate that is passed over was full, so it is no candidate now, or it
\* can never be sent to.
LEMMA HistorySkip ==
    ASSUME IInv, Remember, NEW r \in Request, HistoryOK(r), Skip(r)
    PROVE  HistoryOK(r)'
<1> DEFINE n == next[r]
<1>1. /\ pc[r] = "attempt" /\ pc'[r] = "attempt" /\ next'[r] = n + 1
      /\ slot'[r] = slot[r] /\ slot[r] = NoBackendId
      /\ answer'[r] = answer[r] /\ order'[r] = order[r]
      /\ n \in Nat /\ n > 0 /\ n \in DOMAIN order[r]
      /\ order[r] \in Seq(Backend)
  <2>1. /\ n \in Nat /\ n > 0 /\ n <= Len(order[r])
        /\ order[r] \in Seq(Backend) /\ pc[r] = "attempt"
    BY DEF Skip, Trying, IInv, TypeOK, Locals, LocalsOK
  <2>2. n \in DOMAIN order[r]
    BY <2>1
  <2>3. slot[r] = NoBackendId
    BY <2>1 DEF IInv, Locals, LocalsOK, Owning
  <2> QED
    BY <2>1, <2>2, <2>3 DEF Skip, IInv, TypeOK
<1>2. /\ past'[r].steady = past[r].steady \cap Candidates(job[r].model)'
      /\ past'[r].tried = past[r].tried
      /\ past'[r].pinned = past[r].pinned
  BY <1>1, Grows DEF Handling, PinnedNow
<1>3. Current(r) \in BadHeader \/ Current(r) \notin past'[r].steady
  BY <1>2 DEF Skip, Candidates, IsCandidate, Candidate, BackendFull, shared
<1>4. /\ \A b \in past[r].tried : Behind(r, b, n)
      /\ \A b \in past[r].steady \ BadHeader :
            b \in past[r].tried \/ Ahead(r, b, n)
      /\ answer[r] \notin Unavailable
  BY <1>1 DEF HistoryOK, Worked, GaveUp, FirstAhead
<1>5. \A i \in DOMAIN order[r] : i \in Nat
  BY <1>1
<1>6. \A b \in past'[r].tried : Behind(r, b, next[r])'
  <2>1. \A i \in DOMAIN order[r] : i < n => i < n + 1
    BY <1>1, <1>5
  <2> QED
    BY <1>1, <1>2, <1>4, <2>1 DEF Behind
<1>7. ASSUME NEW b \in past'[r].steady \ BadHeader
      PROVE  b \in past'[r].tried \/ Ahead(r, b, next[r])'
  <2>1. b \in past[r].steady \ BadHeader /\ b # Current(r)
    BY <1>2, <1>3, <1>7
  <2>2. CASE b \in past[r].tried
    BY <1>2, <2>2
  <2>3. CASE b \notin past[r].tried
    <3>1. PICK i \in DOMAIN order[r] : n <= i /\ order[r][i] = b
      BY <1>4, <2>1, <2>3 DEF Ahead
    <3>2. i # n
      BY <2>1, <3>1 DEF Current
    <3>3. n + 1 <= i
      BY <1>1, <1>5, <3>1, <3>2
    <3> QED
      BY <1>1, <3>1, <3>3 DEF Ahead
  <2> QED
    BY <2>2, <2>3
<1>8. Worked(r)'
  BY <1>1, <1>6, <1>7 DEF Worked, FirstAhead
<1>9. PinFirst(r)'
  <2>1. next'[r] # 1
    BY <1>1
  <2> QED
    BY <1>1, <1>2, <2>1 DEF HistoryOK, PinFirst, Ahead
<1> QED
  BY <1>1, <1>2, <1>4, <1>8, <1>9 DEF HistoryOK, Listed, GaveUp

\* The backend that is contacted is remembered, and now lies behind.
LEMMA HistoryReserve ==
    ASSUME IInv, Remember, NEW r \in Request, HistoryOK(r), Reserve(r)
    PROVE  HistoryOK(r)'
<1> DEFINE n == next[r]
<1>1. /\ pc[r] = "attempt" /\ pc'[r] = "sent" /\ next'[r] = n
      /\ slot'[r] = Current(r) /\ Current(r) # NoBackendId
      /\ answer'[r] = answer[r] /\ order'[r] = order[r]
      /\ n \in Nat /\ n \in DOMAIN order[r]
      /\ order[r] \in Seq(Backend)
  <2>1. /\ pc[r] = "attempt" /\ n \in Nat /\ n \in DOMAIN order[r]
        /\ order[r] \in Seq(Backend)
    BY DEF Reserve, Trying, IInv, TypeOK, Locals, LocalsOK
  <2>2. Current(r) \in Backend
    BY <2>1 DEF Current
  <2> QED
    BY <2>1, <2>2 DEF Reserve, TakeSlot, Goto, IInv, TypeOK, Backend,
       NoBackendId
<1>2. /\ past'[r].steady \subseteq past[r].steady
      /\ past'[r].tried = past[r].tried \cup {Current(r)}
      /\ past'[r].pinned = NoBackendId
  BY <1>1, Grows DEF Handling, PinnedNow
<1>3. /\ \A b \in past[r].tried : Behind(r, b, n)
      /\ \A b \in past[r].steady \ BadHeader :
            b \in past[r].tried \/ Ahead(r, b, n)
      /\ answer[r] \notin Unavailable
  BY <1>1 DEF HistoryOK, Worked, GaveUp, FirstAhead
<1>4. \A i \in DOMAIN order[r] : i \in Nat
  BY <1>1
<1>5. \A b \in past'[r].tried : Behind(r, b, n + 1)'
  <2>1. \A i \in DOMAIN order[r] : i < n \/ i = n => i < n + 1
    BY <1>1, <1>4
  <2> QED
    BY <1>1, <1>2, <1>3, <2>1 DEF Behind, Current
<1>6. \A b \in past'[r].steady \ BadHeader :
          b \in past'[r].tried \/ Ahead(r, b, n + 1)'
  <2>1. \A i \in DOMAIN order[r] : n <= i => i = n \/ n + 1 <= i
    BY <1>1, <1>4
  <2> QED
    BY <1>1, <1>2, <1>3, <2>1 DEF Ahead, Current
<1>7. Worked(r)'
  BY <1>1, <1>2, <1>5, <1>6 DEF Worked, FirstAhead
<1> QED
  BY <1>1, <1>2, <1>3, <1>7 DEF HistoryOK, Listed, PinFirst, GaveUp

\* After a failed attempt nothing is ahead but the rest of the list.
LEMMA HistoryNoAnswer ==
    ASSUME IInv, Remember, NEW r \in Request, HistoryOK(r), NoAnswer(r)
    PROVE  HistoryOK(r)'
<1>1. /\ pc[r] = "sent" /\ pc'[r] = "attempt" /\ next'[r] = next[r] + 1
      /\ slot'[r] = NoBackendId /\ next[r] \in Nat /\ next[r] > 0
      /\ answer'[r] = answer[r] /\ order'[r] = order[r]
  BY DEF NoAnswer, GiveBackSlot, Goto, IInv, TypeOK, Locals, LocalsOK
<1>2. /\ past'[r].steady \subseteq past[r].steady
      /\ past'[r].tried = past[r].tried
      /\ past'[r].pinned = past[r].pinned
  BY <1>1, Grows DEF Handling, PinnedNow
<1>3. Worked(r)'
  BY <1>1, <1>2 DEF HistoryOK, Worked, FirstAhead, Ahead, Behind
<1> QED
  BY <1>1, <1>2, <1>3, BackendType
     DEF HistoryOK, Listed, PinFirst, GaveUp, Backend, NoBackendId

\* Giving up: the list is empty, or at its end.
LEMMA HistoryFail ==
    ASSUME IInv, Remember, NEW r \in Request, HistoryOK(r),
           NoBackend(r) \/ Exhausted(r)
    PROVE  HistoryOK(r)'
<1>1. /\ pc[r] \in {"scan", "attempt"} /\ pc'[r] = "answered"
      /\ slot'[r] = slot[r]
  BY DEF NoBackend, Exhausted, Fail, Leave, Goto, IInv, TypeOK
<1>2. /\ past'[r].steady \subseteq past[r].steady
      /\ past[r].tried \subseteq past'[r].tried
  BY <1>1, Grows DEF Handling
<1>3. past[r].steady \ BadHeader \subseteq past[r].tried
  <2>1. CASE NoBackend(r)
    <3>1. \A b \in past[r].steady : Ahead(r, b, 1)
      BY <2>1, ScanOver DEF NoBackend
    <3>2. DOMAIN order[r] = {}
      BY <2>1 DEF NoBackend
    <3> QED
      BY <3>1, <3>2 DEF Ahead
  <2>2. CASE Exhausted(r)
    <3>1. \A i \in DOMAIN order[r] : ~(next[r] <= i)
      BY <2>2 DEF Exhausted, IInv, TypeOK
    <3> QED
      BY <2>2, <3>1 DEF Exhausted, HistoryOK, Worked, Ahead, FirstAhead
  <2> QED
    BY <2>1, <2>2
<1> QED
  BY <1>1, <1>2, <1>3
     DEF HistoryOK, Listed, Worked, PinFirst, GaveUp

\* Headers, the end of a stream, hang-ups and the release of the guards.
LEMMA HistoryLeave ==
    ASSUME IInv, Remember, NEW r \in Request, HistoryOK(r),
           \/ \E success \in BOOLEAN : Respond(r, success)
           \/ Finish(r) \/ Release(r)
    PROVE  HistoryOK(r)'
<1>1. CASE \E success \in BOOLEAN : Respond(r, success)
  <2>1. pc'[r] = "stream" /\ answer'[r] \notin Unavailable
    BY <1>1 DEF Respond, Leave, Goto, IInv, TypeOK, Unavailable
  <2> QED
    BY <2>1, Outside DEF Handling
<1>2. CASE Finish(r)
  <2>1. /\ pc[r] \in {"sent", "stream"} /\ pc'[r] \in {"closing", "dropped"}
        /\ answer'[r] = answer[r]
    BY <1>2 DEF Finish, LoseSlot, DropBody, Leave, Goto, IInv, TypeOK
  <2>2. answer[r] \notin Unavailable
    BY <2>1 DEF HistoryOK, GaveUp
  <2> QED
    BY <2>1, <2>2, Outside DEF Handling
<1>3. CASE Release(r)
  <2>1. pc'[r] = "idle" /\ answer'[r] \notin Unavailable
    BY <1>3 DEF Release, DropKey, DropSlot, Close, Reset, Goto, IInv, TypeOK,
                Unavailable
  <2> QED
    BY <2>1, Outside DEF Handling
<1> QED
  BY <1>1, <1>2, <1>3

\* A step of one request leaves the answers of the others alone.
LEMMA OthersAnswer ==
    ASSUME IInv, NEW r \in Request, NEW q \in Request \ {r},
           \/ \E j \in Job : Arrive(r, j)
           \/ Route(r) \/ Headers(r) \/ Finish(r) \/ Release(r)
    PROVE  answer'[q] = answer[q]
<1>1. answer \in [Request -> Answer]
  BY DEF IInv, TypeOK
<1>2. CASE \E j \in Job : Arrive(r, j)
  BY <1>1, <1>2 DEF Arrive, Unauthorized, BadRequest, Forbidden, RateLimited,
                    Refuse, Admit
<1>3. CASE Route(r)
  BY <1>1, <1>3 DEF Route, Scan, NoBackend, StartSort, Sift, Settle, Lookup,
                    Skip, Reserve, Exhausted, Fail
<1>4. CASE Headers(r) \/ Finish(r)
  BY <1>1, <1>4 DEF Headers, NoAnswer, Respond, Finish, LoseSlot, DropBody
<1>5. CASE Release(r)
  BY <1>1, <1>5 DEF Release, DropKey, DropSlot, Close, Reset
<1> QED
  BY <1>2, <1>3, <1>4, <1>5

\* Every step keeps what the memories say.
LEMMA HistoryStep ==
    IInv /\ OrderInv /\ HistoryInv /\ [HNext]_hvars => HistoryInv'
<1> SUFFICES ASSUME IInv, OrderInv, HistoryInv, [HNext]_hvars,
                    NEW q \in Request
             PROVE  HistoryOK(q)'
  BY DEF HistoryInv
<1>1. HistoryOK(q)
  BY DEF HistoryInv
<1>2. CASE UNCHANGED hvars
  BY <1>1, <1>2 DEF hvars, vars, shared, local, HistoryOK, Listed, Worked,
     PinFirst, GaveUp, Ahead, Behind, FirstAhead, TierSorted
<1>3. ASSUME Remember, Environment PROVE HistoryOK(q)'
  <2>1. UNCHANGED local
    BY <1>3 DEF Environment, ProbeBackend, RefreshModels, ForgetPin
  <2> QED
    BY <1>1, <1>3, <2>1, HistoryKept DEF local
<1>4. ASSUME Remember, NEW r \in Request,
             \/ \E j \in Job : Arrive(r, j)
             \/ Route(r) \/ Headers(r) \/ Finish(r) \/ Release(r)
      PROVE  HistoryOK(q)'
  <2>1. CASE q # r
    BY <1>1, <1>4, <2>1, Others, OthersAnswer, HistoryKept
  <2>2. CASE q = r
    BY <1>1, <1>4, <2>2, HistoryArrive, HistoryScan, HistorySort,
       HistoryLookup, HistorySkip, HistoryReserve, HistoryNoAnswer,
       HistoryFail, HistoryLeave DEF Route, Headers
  <2> QED
    BY <2>1, <2>2
<1> QED
  BY <1>2, <1>3, <1>4 DEF HNext, Next

\* The memory only watches: the router's own invariants hold with it.
THEOREM HistoryInvariance == HSpec => [](IInv /\ OrderInv /\ HistoryInv)
<1>1. HInit => Init /\ HistoryInv
  BY HistoryInit DEF HInit
<1>2. [HNext]_hvars => [Next]_vars
  BY DEF HNext, hvars
<1>3. IInv /\ OrderInv /\ HistoryInv /\ [HNext]_hvars
         => IInv' /\ OrderInv' /\ HistoryInv'
  BY <1>2, TypeStep, LocalsStep, ExactStep, OrderStep, HistoryStep DEF IInv
<1> QED
  BY <1>1, <1>3, InitInv, OrderInit, PTL DEF HSpec

-----------------------------------------------------------------------------
(* What a reservation shows.                                               *)

\* A reservation is the step Reserve of its request, at its current position.
LEMMA ReservesCurrent ==
    ASSUME IInv, [Next]_vars, NEW r \in Request, NEW b \in Backend,
           Reserves(r, b)
    PROVE  /\ pc[r] = "attempt" /\ next[r] \in DOMAIN order[r]
           /\ order[r][next[r]] = b /\ b \notin BadHeader
<1>1. slot[r] = NoBackendId /\ slot'[r] = b /\ b # NoBackendId
  BY DEF Reserves, Backend, NoBackendId
<1>2. PICK q \in Request : Reserve(q) /\ slot'[q] # slot[q]
  <2>1. slot \in [Request -> Backend \cup {NoBackendId}]
    BY DEF IInv, TypeOK
  <2>2. ASSUME Environment \/ UNCHANGED vars PROVE FALSE
    BY <1>1, <2>2 DEF Environment, ProbeBackend, RefreshModels, ForgetPin,
       vars, local
  <2>3. ASSUME NEW q \in Request, NEW j \in Job, Arrive(q, j) PROVE FALSE
    BY <1>1, <2>3 DEF Arrive, Unauthorized, BadRequest, Forbidden,
       RateLimited, Refuse, Admit
  <2>4. ASSUME NEW q \in Request, Route(q), ~Reserve(q) PROVE FALSE
    BY <1>1, <2>4 DEF Route, Scan, NoBackend, StartSort, Sift, Settle, Lookup,
       Skip, Exhausted, Fail
  <2>5. ASSUME NEW q \in Request, Headers(q) \/ Finish(q) \/ Release(q)
        PROVE FALSE
    BY <1>1, <2>1, <2>5 DEF Headers, NoAnswer, Respond, Finish, LoseSlot,
       DropBody, Release, DropKey, DropSlot, Close, GiveBackSlot
  <2>6. PICK q \in Request : Reserve(q)
    BY <2>2, <2>3, <2>4, <2>5 DEF Next
  <2>7. q = r
    BY <1>1, <2>1, <2>6 DEF Reserve, TakeSlot
  <2> QED
    BY <1>1, <2>6, <2>7
<1>3. q = r
  BY <1>1, <1>2 DEF Reserve, TakeSlot, IInv, TypeOK
<1>4. /\ pc[r] = "attempt" /\ next[r] \in Nat /\ next[r] > 0
      /\ next[r] <= Len(order[r]) /\ order[r] \in Seq(Backend)
      /\ slot'[r] = Current(r) /\ Current(r) \notin BadHeader
  BY <1>2, <1>3 DEF Reserve, Trying, TakeSlot, IInv, TypeOK, Locals, LocalsOK
<1>5. next[r] \in DOMAIN order[r]
  BY <1>4
<1> QED
  BY <1>1, <1>4, <1>5 DEF Current

\* No request contacts a backend a second time, in any run of any number of
\* requests: the loop over the candidates passes each entry of the list once,
\* and the list names no backend twice.
THEOREM NoSecondContact == HSpec => ContactOnce
<1>1. ASSUME IInv, OrderInv, HistoryInv, [Next]_vars, NEW r \in Request,
             NEW b \in Backend, Reserves(r, b)
      PROVE  b \notin past[r].tried
  <2>1. /\ pc[r] = "attempt" /\ next[r] \in DOMAIN order[r]
        /\ order[r][next[r]] = b
    BY <1>1, ReservesCurrent
  <2>2. Distinct(order[r])
    BY <1>1 DEF OrderInv, OrderOK
  <2>3. \A x \in past[r].tried : Behind(r, x, next[r])
    BY <1>1, <2>1 DEF HistoryInv, HistoryOK, Worked, FirstAhead
  <2> QED
    BY <2>1, <2>2, <2>3 DEF Behind, Distinct
<1>2. [HNext]_hvars => [Next]_vars
  BY DEF HNext, hvars
<1>3. IInv /\ OrderInv /\ HistoryInv /\ [HNext]_hvars =>
        \A r \in Request, b \in Backend :
            Reserves(r, b) => b \notin past[r].tried
  BY <1>1, <1>2
<1> QED
  BY <1>3, HistoryInvariance, PTL DEF HSpec, ContactOnce

\* No spurious 503: the backends that could have served the request all the
\* time were all contacted before it was given up.
THEOREM NoSpuriousError == HSpec => []UnavailableJustified
<1>1. HistoryInv => UnavailableJustified
  BY DEF HistoryInv, HistoryOK, GaveUp, UnavailableJustified
<1> QED
  BY <1>1, HistoryInvariance, PTL

\* The pinned backend is contacted first, whatever its tier, if it stays a
\* candidate until then.
THEOREM PinnedFirst == HSpec => AffinityFirst
<1>1. ASSUME IInv, OrderInv, HistoryInv, [Next]_vars, NEW r \in Request,
             NEW b \in Backend, Reserves(r, b), past[r].tried = {},
             past[r].pinned \in past[r].steady \ BadHeader
      PROVE  b = past[r].pinned
  <2>1. /\ pc[r] = "attempt" /\ next[r] \in DOMAIN order[r]
        /\ order[r][next[r]] = b
    BY <1>1, ReservesCurrent
  <2>2. HistoryOK(r)
    BY <1>1 DEF HistoryInv
  <2>3. PICK i \in DOMAIN order[r] :
            next[r] <= i /\ order[r][i] = past[r].pinned
    BY <1>1, <2>1, <2>2 DEF HistoryOK, Worked, Ahead, FirstAhead
  <2>4. order[r] \in Seq(Backend) /\ past[r].pinned \in Backend
    BY <1>1, <2>2 DEF HistoryOK, IInv, TypeOK
  <2>5. 1 <= i /\ 1 \in DOMAIN order[r]
    BY <2>3, <2>4
  <2>6. order[r][1] = past[r].pinned
    BY <2>1, <2>2, <2>3, <2>4, <2>5 DEF HistoryOK, PinFirst, Ahead
  <2>7. i = 1
    <3>1. ~(1 < i)
      BY <1>1, <2>3, <2>5, <2>6 DEF OrderInv, OrderOK, Distinct
    <3> QED
      BY <2>3, <2>4, <2>5, <3>1
  <2>8. next[r] = 1
    BY <2>1, <2>3, <2>4, <2>7
  <2> QED
    BY <2>1, <2>6, <2>8
<1>2. [HNext]_hvars => [Next]_vars
  BY DEF HNext, hvars
<1>3. IInv /\ OrderInv /\ HistoryInv /\ [HNext]_hvars =>
        \A r \in Request, b \in Backend :
            (/\ Reserves(r, b)
             /\ past[r].tried = {}
             /\ past[r].pinned \in past[r].steady \ BadHeader)
            => b = past[r].pinned
  BY <1>1, <1>2
<1> QED
  BY <1>3, HistoryInvariance, PTL DEF HSpec, AffinityFirst

\* A higher tier is used only after every backend of a lower tier that stayed
\* available has been contacted; the pinned backend is the only exception.
THEOREM TiersRespected == HSpec => FallbackDiscipline
<1>1. ASSUME IInv, OrderInv, HistoryInv, [Next]_vars, NEW r \in Request,
             NEW b \in Backend, Reserves(r, b), b # past[r].pinned,
             NEW c \in past[r].steady \ BadHeader, Fallback[c] < Fallback[b]
      PROVE  c \in past[r].tried
  <2>1. /\ pc[r] = "attempt" /\ next[r] \in DOMAIN order[r]
        /\ order[r][next[r]] = b
    BY <1>1, ReservesCurrent
  <2>2. HistoryOK(r)
    BY <1>1 DEF HistoryInv
  <2>3. c \in Backend /\ Fallback[c] \in Nat /\ Fallback[b] \in Nat
    BY <1>1, <2>2, TierType DEF HistoryOK
  <2>4. SUFFICES ASSUME c \notin past[r].tried PROVE FALSE
    OBVIOUS
  <2>5. PICK i \in DOMAIN order[r] : next[r] <= i /\ order[r][i] = c
    BY <1>1, <2>1, <2>2, <2>4 DEF HistoryOK, Worked, Ahead, FirstAhead
  <2>6. order[r] \in Seq(Backend)
    BY <1>1 DEF IInv, TypeOK
  <2>7. b # c
    BY <1>1, <2>3
  <2>8. i # next[r]
    BY <2>1, <2>5, <2>7
  <2>9. next[r] < i
    BY <2>1, <2>5, <2>6, <2>8
  <2>10. ~(Fallback[b] <= Fallback[c])
    BY <1>1, <2>3
  <2>11. CASE next[r] = 1
    <3>1. order[r][1] = past[r].pinned \/ TierSorted(order[r])
      BY <2>1, <2>2, <2>11 DEF HistoryOK, PinFirst
    <3>2. TierSorted(order[r])
      BY <1>1, <2>1, <2>11, <3>1
    <3> QED
      BY <2>1, <2>5, <2>9, <2>10, <3>2 DEF TierSorted
  <2>12. CASE next[r] # 1
    <3>1. 1 < next[r]
      BY <2>1, <2>6, <2>12
    <3>2. SortedTail(order[r])
      BY <1>1, <2>1 DEF OrderInv, OrderOK
    <3> QED
      BY <2>1, <2>5, <2>9, <2>10, <3>1, <3>2 DEF SortedTail
  <2> QED
    BY <2>11, <2>12
<1>2. [HNext]_hvars => [Next]_vars
  BY DEF HNext, hvars
<1>3. IInv /\ OrderInv /\ HistoryInv /\ [HNext]_hvars =>
        \A r \in Request, b \in Backend :
            Reserves(r, b) /\ b # past[r].pinned =>
                \A c \in past[r].steady \ BadHeader :
                    Fallback[c] < Fallback[b] => c \in past[r].tried
  BY <1>1, <1>2
<1> QED
  BY <1>3, HistoryInvariance, PTL DEF HSpec, FallbackDiscipline
=============================================================================
