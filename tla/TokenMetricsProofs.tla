------------------------- MODULE TokenMetricsProofs -------------------------
(***************************************************************************)
(* The streams of TokenMetrics, for any number of them and any bodies.     *)
(*                                                                         *)
(* The average, the gauge and what a scrape shows never leave the range of *)
(* the speeds that went into them, however many updates overwrite each     *)
(* other; a lost update leaves out a stream and does nothing worse; the    *)
(* counter loses nothing; and what a stream adds to it does not depend on  *)
(* where the network cut its body, save for up to two tokens for each      *)
(* character that was cut.                                                 *)
(***************************************************************************)
EXTENDS TokenTrackerProofs

(* The average, for streams that count any number of tokens.               *)

\* What a stream is about to store, or to export, lies between the speeds of
\* the streams that stored one and its own.
PrevWithin ==
    \A s \in Stream :
        pc[s] \in {"loaded", "stored"} => Within(prev[s], Stored \cup {s})

Inv == TypeOK /\ ZeroMeansNone /\ AverageWithin /\ PrevWithin

-----------------------------------------------------------------------------
\* A weighted mean of two positive numbers is positive and lies between any
\* bounds of the two (TPS_EMA_ALPHA).
LEMMA BlendBetween ==
    ASSUME NEW a \in Nat, NEW b \in Nat, a # 0, b # 0,
           NEW lo \in Nat, NEW hi \in Nat,
           lo <= a, lo <= b, a <= hi, b <= hi
    PROVE  /\ Blend(a, b) \in Nat
           /\ Blend(a, b) # 0
           /\ lo <= Blend(a, b)
           /\ Blend(a, b) <= hi
    BY DEF Blend

\* A value stays within range when more streams have stored their speeds.
LEMMA WithinGrows ==
    ASSUME NEW v, NEW S \in SUBSET Stream, NEW T \in SUBSET Stream,
           S \subseteq T,
           \A s \in S : inst'[s] = inst[s],
           Within(v, S)
    PROVE  \E a, b \in T : inst'[a] <= v /\ v <= inst'[b]
    BY DEF Within

\* Initially no stream has stored anything.
LEMMA InitInv == Init => Inv
    BY DEF Init, Inv, TypeOK, PC, ZeroMeansNone, AverageWithin, PrevWithin,
           Stored, Within

\* Count with the speed it computed named.
LEMMA CountStep ==
    ASSUME TypeOK, NEW s \in Stream, NEW n \in TokenCount,
           NEW secs \in Duration, Count(s, n, secs)
    PROVE  /\ pc[s] = "open"
           /\ counter' \in Nat
           /\ \/ /\ \E v \in Nat \ {0} : inst' = [inst EXCEPT ![s] = v]
                 /\ pc' = [pc EXCEPT ![s] = "counted"]
              \/ /\ inst' = inst
                 /\ pc' = [pc EXCEPT ![s] = "ended"]
<1>1. counter' \in Nat
    <2>1. n \in Nat /\ counter \in Nat
        BY SpeedAssumption DEF TypeOK
    <2>2. counter' = counter + n
        BY DEF Count
    <2> QED BY <2>1, <2>2
<1>2. CASE Measured(n, secs)
    <2>1. Speed(n, secs) \in Nat \ {0}
        BY <1>2, SpeedAssumption DEF Measured
    <2> QED BY <1>1, <1>2, <2>1 DEF Count, Goto
<1>3. CASE ~Measured(n, secs)
    BY <1>1, <1>3 DEF Count, Goto
<1> QED BY <1>2, <1>3

\* Every step keeps the types.
LEMMA TypeStep == TypeOK /\ [Next]_avars => TypeOK'
<1> SUFFICES ASSUME TypeOK, [Next]_avars
             PROVE  TypeOK'
    OBVIOUS
<1>1. ASSUME NEW s \in Stream, NEW n \in TokenCount,
             NEW secs \in Duration, Count(s, n, secs)
      PROVE  TypeOK'
    <2>1. /\ UNCHANGED <<prev, average, gauge, scrape>>
        BY <1>1 DEF Count
    <2>2. CASE \E v \in Nat \ {0} : /\ inst' = [inst EXCEPT ![s] = v]
                                    /\ pc' = [pc EXCEPT ![s] = "counted"]
        <3>1. PICK v \in Nat \ {0} : /\ inst' = [inst EXCEPT ![s] = v]
                                     /\ pc' = [pc EXCEPT ![s] = "counted"]
            BY <2>2
        <3> QED BY <1>1, <2>1, <3>1, CountStep DEF TypeOK, PC, scrape
    <2>3. CASE inst' = inst /\ pc' = [pc EXCEPT ![s] = "ended"]
        BY <1>1, <2>1, <2>3, CountStep DEF TypeOK, PC, scrape
    <2> QED BY <1>1, <2>2, <2>3, CountStep
<1>2. ASSUME NEW s \in Stream, Abandon(s)
      PROVE  TypeOK'
    BY <1>2 DEF Abandon, Goto, TypeOK, PC, scrape
<1>3. ASSUME NEW s \in Stream, Load(s)
      PROVE  TypeOK'
    BY <1>3 DEF Load, Goto, TypeOK, PC, scrape
<1>4. ASSUME NEW s \in Stream, Store(s)
      PROVE  TypeOK'
    <2>1. inst[s] \in Nat /\ prev[s] \in Nat /\ inst[s] # 0 /\ prev[s] # 0
        BY <1>4 DEF Store, TypeOK
    <2>2. average' \in Nat /\ average' # 0
        BY <1>4, <2>1, BlendBetween DEF Store, Blend
    <2>3. /\ prev' = [prev EXCEPT ![s] = average']
          /\ pc' = [pc EXCEPT ![s] = "stored"]
          /\ UNCHANGED <<inst, counter, gauge, scrape>>
        BY <1>4 DEF Store, Goto
    <2> QED BY <2>1, <2>2, <2>3 DEF TypeOK, PC, scrape
<1>5. ASSUME NEW s \in Stream, SetGauge(s)
      PROVE  TypeOK'
    BY <1>5 DEF SetGauge, Goto, TypeOK, PC, scrape
<1>6. CASE Scrape
    BY <1>6 DEF Scrape, ScrapeLoad, ScrapeSet, ScrapeRender, TypeOK, PC,
                recorders
<1>7. CASE UNCHANGED avars
    BY <1>7 DEF avars, recorders, scrape, TypeOK, PC
<1> QED BY <1>1, <1>2, <1>3, <1>4, <1>5, <1>6, <1>7 DEF Next, Update

\* What a step that neither stores a speed nor changes a stored one preserves.
LEMMA RangeKept ==
    ASSUME Inv, Stored' = Stored, average' = average,
           \A s \in Stored : inst'[s] = inst[s],
           \A v \in {gauge', seen', shown'} :
              v \in {0, average, gauge, seen, shown}
    PROVE  ZeroMeansNone' /\ AverageWithin'
<1>1. Stored \in SUBSET Stream
    BY DEF Stored
<1>2. ASSUME NEW v \in {average', gauge', seen', shown'}, v # 0
      PROVE  \E a, b \in Stored' : inst'[a] <= v /\ v <= inst'[b]
    <2>1. Within(v, Stored)
        BY <1>2 DEF Inv, AverageWithin
    <2> QED BY <2>1, <1>1, WithinGrows
<1> QED BY <1>2 DEF ZeroMeansNone, AverageWithin, Within, Inv

-----------------------------------------------------------------------------
\* The inductive step.
LEMMA InvStep == Inv /\ [Next]_avars => Inv'
<1> SUFFICES ASSUME Inv, [Next]_avars
             PROVE  Inv'
    OBVIOUS
<1>0. TypeOK /\ TypeOK'
    BY TypeStep DEF Inv
<1>a. Stored \in SUBSET Stream /\ Stored' \in SUBSET Stream
    BY DEF Stored
<1>1. ASSUME NEW s \in Stream, NEW n \in TokenCount,
             NEW secs \in Duration, Count(s, n, secs)
      PROVE  Inv'
    <2>1. /\ UNCHANGED <<prev, average, gauge, seen, shown>>
          /\ pc[s] = "open"
        BY <1>1 DEF Count, scrape
    <2>2. /\ pc'[s] \in {"counted", "ended"}
          /\ \A r \in Stream \ {s} : pc'[r] = pc[r] /\ inst'[r] = inst[r]
        BY <1>0, <1>1, CountStep DEF TypeOK
    <2>3. Stored' = Stored /\ s \notin Stored
        BY <2>1, <2>2 DEF Stored
    <2>4. ZeroMeansNone' /\ AverageWithin'
        BY <1>a, <2>1, <2>2, <2>3, RangeKept
    <2>5. PrevWithin'
        BY <2>1, <2>2, <2>3 DEF PrevWithin, Within, Inv, Stored
    <2> QED BY <1>0, <2>4, <2>5 DEF Inv
<1>2. ASSUME NEW s \in Stream, Abandon(s)
      PROVE  Inv'
    <2>1. /\ UNCHANGED <<inst, prev, average, gauge, seen, shown>>
          /\ Stored' = Stored
          /\ \A r \in Stream : pc'[r] \in {"loaded", "stored"} => pc'[r] = pc[r]
        BY <1>0, <1>2 DEF Abandon, Goto, TypeOK, Stored, scrape
    <2>2. ZeroMeansNone' /\ AverageWithin'
        BY <2>1, RangeKept
    <2>3. PrevWithin'
        BY <2>1 DEF PrevWithin, Within, Inv
    <2> QED BY <1>0, <2>2, <2>3 DEF Inv
<1>3. ASSUME NEW s \in Stream, Load(s)
      PROVE  Inv'
    <2>1. /\ UNCHANGED <<inst, average, gauge, seen, shown>>
          /\ Stored' = Stored
          /\ \A r \in Stream \ {s} : pc'[r] = pc[r] /\ prev'[r] = prev[r]
          /\ prev'[s] = IF average = 0 THEN inst[s] ELSE average
        BY <1>0, <1>3 DEF Load, Goto, TypeOK, Stored, scrape
    <2>2. ZeroMeansNone' /\ AverageWithin'
        BY <2>1, RangeKept
    <2>3. Within(prev'[s], Stored \cup {s})
        <3>1. CASE average = 0
            BY <1>0, <2>1, <3>1 DEF Within, TypeOK
        <3>2. CASE average # 0
            BY <2>1, <3>2 DEF Within, Inv, AverageWithin
        <3> QED BY <3>1, <3>2
    <2>4. PrevWithin'
        BY <2>1, <2>3 DEF PrevWithin, Within, Inv
    <2> QED BY <1>0, <2>2, <2>4 DEF Inv
<1>4. ASSUME NEW s \in Stream, Store(s)
      PROVE  Inv'
    <2>1. /\ UNCHANGED <<inst, gauge, seen, shown>>
          /\ average' = Blend(inst[s], prev[s])
          /\ Stored' = Stored \cup {s}
          /\ pc[s] = "loaded"
          /\ prev'[s] = average'
          /\ \A r \in Stream \ {s} : pc'[r] = pc[r] /\ prev'[r] = prev[r]
        BY <1>0, <1>4 DEF Store, Goto, TypeOK, Stored, scrape
    <2>2. inst[s] \in Nat /\ prev[s] \in Nat /\ inst[s] # 0 /\ prev[s] # 0
        BY <1>0, <2>1 DEF TypeOK
    <2>3. PICK a, b \in Stored \cup {s} :
              inst[a] <= prev[s] /\ prev[s] <= inst[b]
        BY <2>1 DEF Inv, PrevWithin, Within
    <2>4. inst[a] \in Nat /\ inst[b] \in Nat
        BY <1>0, <1>a DEF TypeOK
    <2>5. \E l, h \in Stored \cup {s} :
              inst[l] <= average' /\ average' <= inst[h]
        <3>1. PICK l \in {a, s} : inst[l] <= inst[s] /\ inst[l] <= prev[s]
            BY <2>2, <2>3, <2>4
        <3>2. PICK h \in {b, s} : inst[s] <= inst[h] /\ prev[s] <= inst[h]
            BY <2>2, <2>3, <2>4
        <3>3. inst[l] \in Nat /\ inst[h] \in Nat
            BY <2>2, <2>4
        <3>4. inst[l] <= average' /\ average' <= inst[h]
            BY <2>1, <2>2, <3>1, <3>2, <3>3, BlendBetween
        <3> QED BY <3>4
    <2>6. average' # 0
        BY <2>1, <2>2, BlendBetween DEF Blend
    <2>7. ZeroMeansNone'
        BY <2>1, <2>6 DEF ZeroMeansNone
    <2>8. AverageWithin'
        <3> SUFFICES ASSUME NEW v \in {average', gauge', seen', shown'}, v # 0
                     PROVE  \E c, d \in Stored' : inst'[c] <= v /\ v <= inst'[d]
            BY DEF AverageWithin, Within
        <3>1. CASE v = average'
            BY <2>1, <2>5, <3>1
        <3>2. CASE v \in {gauge, seen, shown}
            BY <2>1, <3>2 DEF Inv, AverageWithin, Within
        <3> QED BY <2>1, <3>1, <3>2
    <2>9. PrevWithin'
        BY <2>1, <2>5 DEF PrevWithin, Within, Inv
    <2> QED BY <1>0, <2>7, <2>8, <2>9 DEF Inv
<1>5. ASSUME NEW s \in Stream, SetGauge(s)
      PROVE  Inv'
    <2>1. /\ UNCHANGED <<inst, prev, average, seen, shown>>
          /\ gauge' = prev[s]
          /\ Stored' = Stored /\ s \in Stored
          /\ pc[s] = "stored"
          /\ \A r \in Stream : pc'[r] \in {"loaded", "stored"} => pc'[r] = pc[r]
        BY <1>0, <1>5 DEF SetGauge, Goto, TypeOK, Stored, scrape
    <2>2. Within(gauge', Stored)
        BY <2>1 DEF Inv, PrevWithin, Within
    <2>3. ZeroMeansNone' /\ AverageWithin'
        BY <2>1, <2>2 DEF ZeroMeansNone, AverageWithin, Within, Inv
    <2>4. PrevWithin'
        BY <2>1 DEF PrevWithin, Within, Inv
    <2> QED BY <1>0, <2>3, <2>4 DEF Inv
<1>6. CASE Scrape
    <2>1. /\ UNCHANGED <<pc, inst, prev, average>>
          /\ Stored' = Stored
          /\ \A v \in {gauge', seen', shown'} :
                v \in {0, average, gauge, seen, shown}
        BY <1>6 DEF Scrape, ScrapeLoad, ScrapeSet, ScrapeRender, recorders,
                    Stored
    <2>2. ZeroMeansNone' /\ AverageWithin'
        BY <2>1, RangeKept
    <2>3. PrevWithin'
        BY <2>1 DEF PrevWithin, Within, Inv
    <2> QED BY <1>0, <2>2, <2>3 DEF Inv
<1>7. CASE UNCHANGED avars
    BY <1>0, <1>7 DEF avars, recorders, scrape, Inv, ZeroMeansNone,
                      AverageWithin, PrevWithin, Within, Stored
<1> QED BY <1>1, <1>2, <1>3, <1>4, <1>5, <1>6, <1>7 DEF Next, Update

\* Inv holds in every state.
THEOREM Invariance == Spec => []Inv
    BY InitInv, InvStep, PTL DEF Spec

\* All state keeps its type, and no stream blends with a missing average.
THEOREM TypeCorrect == Spec => []TypeOK
<1>1. Inv => TypeOK
    BY DEF Inv
<1> QED BY <1>1, Invariance, PTL

\* The bits 0 of AVG_TOKENS_PER_SECOND_BITS mean exactly that no stream has
\* stored an average, for any number of streams.
THEOREM ZeroIsNone == Spec => []ZeroMeansNone
<1>1. Inv => ZeroMeansNone
    BY DEF Inv
<1> QED BY <1>1, Invariance, PTL

\* The average and what is exported of it stay between the slowest and the
\* fastest stream that stored one, however many updates are lost.
THEOREM AverageBounded == Spec => []AverageWithin
<1>1. Inv => AverageWithin
    BY DEF Inv
<1> QED BY <1>1, Invariance, PTL

-----------------------------------------------------------------------------
(* The streams, and that they do what TokenAverage says.                   *)

\* No tracker counts more than it has seen.
StreamsOK ==
    /\ body \in [Stream -> Body]
    /\ got \in [Stream -> Nat]
    /\ track \in [Stream -> Tracker]
    /\ splits \in [Stream -> Nat]
    /\ tokens \in [Stream -> TokenCount]
    /\ writers \in Seq(Stream)
    /\ \A s \in Stream :
          /\ got[s] <= Len(body[s])
          /\ Held(track[s]) <= got[s]

\* At first nothing has arrived of any stream.
LEMMA StreamsInit == MInit => StreamsOK
<1> SUFFICES ASSUME MInit PROVE StreamsOK
  OBVIOUS
<1>1. <<>> \in Seq(Atom) /\ <<>> \in Seq(Stream)
  OBVIOUS
<1>2. NewTracker \in Tracker /\ Held(NewTracker) <= 0
  BY <1>1 DEF NewTracker, Tracker, Held
<1>3. \A b \in Body : Len(b) \in Nat /\ 0 \in TokenCount
  <2>1. \A b \in Body : Len(b) \in Nat /\ 0 \in 0..Len(b)
    BY BodyType
  <2> QED
    BY <2>1, CountAssumption
<1>4. \A s \in Stream : 0 \in TokenCount /\ 0 <= Len(body[s])
  <2>1. \A s \in Stream : body[s] \in Body
    BY DEF MInit
  <2>2. \A b \in Body : Len(b) >= 0
    BY <1>3
  <2> QED
    BY <1>3, <2>1, <2>2
<1> QED
  BY <1>1, <1>2, <1>4 DEF MInit, StreamsOK

\* What Receive does, its chunk named.
LEMMA ReceiveStep ==
    ASSUME StreamsOK, NEW s \in Stream, Receive(s)
    PROVE  \E n \in got[s] + 1..Len(body[s]) :
              LET q == SubSeq(body[s], got[s] + 1, n) IN
              /\ q \in Seq(Atom) /\ Len(q) = n - got[s]
              /\ n \in Nat /\ got[s] \in Nat /\ n <= Len(body[s])
              /\ track' = [track EXCEPT ![s] = ObserveChunk(track[s], q)]
              /\ got' = [got EXCEPT ![s] = n]
              /\ splits' \in [Stream -> Nat]
<1>1. PICK n \in got[s] + 1..Len(body[s]) :
          /\ track' = [track EXCEPT ![s] =
                          ObserveChunk(@, SubSeq(body[s], got[s] + 1, n))]
          /\ got' = [got EXCEPT ![s] = n]
          /\ splits' = [splits EXCEPT ![s] = @ + Split(body[s], got[s], n)]
  BY DEF Receive
<1>2. got[s] \in Nat /\ body[s] \in Body
  BY DEF StreamsOK
<1>3. body[s] \in Seq(Atom) /\ Len(body[s]) \in Nat
  BY <1>2, BodyType
<1>4. n \in Nat /\ n <= Len(body[s])
  BY <1>2, <1>3
<1>5. /\ SubSeq(body[s], got[s] + 1, n) \in Seq(Atom)
      /\ Len(SubSeq(body[s], got[s] + 1, n)) = n - got[s]
  <2>1. got[s] + 1 \in 1..Len(body[s]) + 1 /\ n \in got[s]..Len(body[s])
    BY <1>2, <1>3
  <2> HIDE DEF Atom
  <2> QED
    BY <1>2, <1>3, <2>1
<1>6. splits' \in [Stream -> Nat]
  <2>1. Split(body[s], got[s], n) \in Nat
    BY DEF Split
  <2> QED
    BY <1>1, <2>1 DEF StreamsOK
<1> QED
  BY <1>1, <1>2, <1>4, <1>5, <1>6

\* What Complete does, its count named.
LEMMA CompleteStep ==
    ASSUME StreamsOK, NEW s \in Stream, Complete(s)
    PROVE  \E n \in TokenCount, secs \in Duration :
              /\ n = TotalTokens(Finished(s))
              /\ Count(s, n, secs)
              /\ tokens' = [tokens EXCEPT ![s] = n]
              /\ track' = [track EXCEPT ![s] = Finished(s)]
              /\ Finished(s) \in Tracker
              /\ Held(Finished(s)) <= got[s]
<1>0. /\ track[s] \in Tracker /\ body[s] \in Body /\ got[s] = Len(body[s])
      /\ Held(track[s]) <= got[s]
  BY DEF StreamsOK, Complete
<1>1. /\ Finished(s) \in Tracker /\ Finished(s).buf = <<>>
      /\ Finished(s).acc <= Held(track[s])
  BY <1>0, FinishBound DEF Finished
<1>2. /\ Held(track[s]) \in Nat /\ Finished(s).acc \in Nat /\ got[s] \in Nat
      /\ Len(Finished(s).buf) = 0
  BY <1>0, <1>1, HeldType DEF Tracker, StreamsOK
<1>3. Finished(s).acc <= Len(body[s])
  BY <1>0, <1>1, <1>2
<1>4. TotalTokens(Finished(s)) \in TokenCount
  BY <1>0, <1>1, <1>3, TotalBound
<1>5. PICK first, whole \in Duration :
          Count(s, TotalTokens(Finished(s)), Took(Finished(s), first, whole))
  BY DEF Complete
<1>6. Took(Finished(s), first, whole) \in Duration
  BY DEF Took
<1>7. track' = [track EXCEPT ![s] = Finished(s)] /\ track'[s] = Finished(s)
  BY DEF Complete, StreamsOK
<1>8. tokens' = [tokens EXCEPT ![s] = TotalTokens(Finished(s))]
  BY <1>7 DEF Complete
<1>9. Held(Finished(s)) <= got[s]
  BY <1>0, <1>1, <1>2 DEF Held
<1> QED
  BY <1>1, <1>4, <1>5, <1>6, <1>7, <1>8, <1>9

\* No step makes a tracker count more than has arrived.
LEMMA StreamsStep == StreamsOK /\ [MNext]_mvars => StreamsOK'
<1> SUFFICES ASSUME StreamsOK, [MNext]_mvars PROVE StreamsOK'
  OBVIOUS
<1>1. ASSUME NEW s \in Stream, Receive(s) PROVE StreamsOK'
  <2>1. PICK n \in got[s] + 1..Len(body[s]) :
              LET q == SubSeq(body[s], got[s] + 1, n) IN
              /\ q \in Seq(Atom) /\ Len(q) = n - got[s]
              /\ n \in Nat /\ got[s] \in Nat /\ n <= Len(body[s])
              /\ track' = [track EXCEPT ![s] = ObserveChunk(track[s], q)]
              /\ got' = [got EXCEPT ![s] = n]
              /\ splits' \in [Stream -> Nat]
    BY <1>1, ReceiveStep
  <2> DEFINE q == SubSeq(body[s], got[s] + 1, n)
             u == ObserveChunk(track[s], q)
  <2>2. q \in Seq(Atom) /\ Len(q) = n - got[s] /\ n \in Nat /\ got[s] \in Nat
    BY <2>1
  <2>3. track' = [track EXCEPT ![s] = u]
    BY <2>1
  <2>4. track[s] \in Tracker /\ Held(track[s]) <= got[s]
    BY DEF StreamsOK
  <2> HIDE DEF q
  <2>5. u \in Tracker /\ Held(u) <= Held(track[s]) + Len(q)
    BY <2>2, <2>4, ChunkBound
  <2> HIDE DEF u
  <2>6. Held(track[s]) \in Nat /\ Held(u) \in Nat
    BY <2>4, <2>5, HeldType
  <2>7. Held(u) <= n
    BY <2>2, <2>4, <2>5, <2>6
  <2>8. UNCHANGED <<body, tokens, writers>>
    BY <1>1 DEF Receive
  <2> QED
    BY <2>1, <2>3, <2>5, <2>7, <2>8 DEF StreamsOK
<1>2. ASSUME NEW s \in Stream, Complete(s) PROVE StreamsOK'
  <2>1. PICK n \in TokenCount, secs \in Duration :
              /\ tokens' = [tokens EXCEPT ![s] = n]
              /\ track' = [track EXCEPT ![s] = Finished(s)]
              /\ Finished(s) \in Tracker
              /\ Held(Finished(s)) <= got[s]
    BY <1>2, CompleteStep
  <2>2. UNCHANGED <<body, got, splits, writers>>
    BY <1>2 DEF Complete
  <2> QED
    BY <2>1, <2>2 DEF StreamsOK
<1>3. ASSUME NEW s \in Stream, Write(s) PROVE StreamsOK'
  BY <1>3 DEF Write, StreamsOK
<1>4. CASE UNCHANGED tvars
  BY <1>4 DEF tvars, StreamsOK
<1> QED
  BY <1>1, <1>2, <1>3, <1>4 DEF MNext, mvars, Cut

\* A step of TokenMetrics is one of TokenAverage, or does not concern it.
LEMMA AverageStep == StreamsOK /\ [MNext]_mvars => [Next]_avars
<1> SUFFICES ASSUME StreamsOK, [MNext]_mvars PROVE [Next]_avars
  OBVIOUS
<1>1. ASSUME NEW s \in Stream, Complete(s) PROVE Next
  BY <1>1, CompleteStep DEF Next
<1>2. ASSUME NEW s \in Stream, Receive(s) PROVE UNCHANGED avars
  BY <1>2 DEF Receive
<1>3. ASSUME NEW s \in Stream, Cut(s) PROVE Next
  BY <1>3 DEF Cut, Next
<1>4. ASSUME NEW s \in Stream, Write(s) \/ Load(s) \/ SetGauge(s) PROVE Next
  BY <1>4 DEF Write, Next, Update
<1>5. CASE Scrape
  BY <1>5 DEF Next
<1> QED
  BY <1>1, <1>2, <1>3, <1>4, <1>5 DEF MNext, mvars

\* Whatever arrives, the trackers keep their type, and none of them has
\* counted more tokens than the atoms that arrived (TokenTracker).
THEOREM StreamsTyped == MSpec => []StreamsOK
  BY StreamsInit, StreamsStep, PTL DEF MSpec

\* The streams, seen through what their trackers count, do what TokenAverage
\* says of streams that count any number of tokens (record_token_generation).
THEOREM ImplementsAverage == MSpec => Spec
<1>1. MInit => Init
  BY DEF MInit
<1> QED
  BY <1>1, AverageStep, StreamsTyped, PTL DEF MSpec, Spec

-----------------------------------------------------------------------------
(* The counter of generated tokens.                                        *)

\* So the invariant of the average holds of the streams too.
LEMMA AverageInv == MSpec => []Inv
  BY ImplementsAverage, Invariance, PTL

\* Whatever the trackers count, the average and everything exported of it lie
\* between the slowest and the fastest stream that stored one
\* (record_token_generation).
THEOREM StreamsWithin == MSpec => []AverageWithin
<1>1. Inv => AverageWithin
  BY DEF Inv
<1> QED
  BY <1>1, AverageInv, PTL

\* What only a stream that ended adds.
CounterInv ==
    /\ CounterExact
    /\ \A s \in Stream : pc[s] \in {"open", "cut"} => tokens[s] = 0

\* At first nothing is counted.
LEMMA CounterInit == MInit => CounterInv
<1> SUFFICES ASSUME MInit PROVE CounterInv
  OBVIOUS
<1>1. SumFunction([s \in Stream |-> 0]) = 0
  BY StreamAssumption, SumZero
<1> QED
  BY <1>1 DEF MInit, Init, CounterInv, CounterExact

\* Only the end of a stream adds to the counter, once and what it counted.
LEMMA CounterStep ==
    StreamsOK /\ Inv /\ CounterInv /\ [MNext]_mvars => CounterInv'
<1> SUFFICES ASSUME StreamsOK, Inv, CounterInv, [MNext]_mvars
             PROVE  CounterInv'
  OBVIOUS
<1>0. /\ pc \in [Stream -> PC] /\ counter \in Nat
      /\ tokens \in [Stream -> Nat] /\ TokenCount \subseteq Nat
  BY SpeedAssumption DEF Inv, TypeOK, StreamsOK
<1>1. ASSUME NEW s \in Stream, Complete(s) PROVE CounterInv'
  <2>1. PICK n \in TokenCount, secs \in Duration :
            Count(s, n, secs) /\ tokens' = [tokens EXCEPT ![s] = n]
    BY <1>1, CompleteStep
  <2>2. /\ pc[s] = "open" /\ counter' = counter + n
        /\ \E l \in {"counted", "ended"} : pc' = [pc EXCEPT ![s] = l]
    BY <2>1 DEF Count, Goto
  <2>3. tokens[s] = 0
    BY <2>2 DEF CounterInv
  <2>4. SumFunction(tokens') = SumFunction(tokens) + n
    BY <1>0, <2>1, <2>3, StreamAssumption, SumChanged
  <2>5. CounterExact'
    BY <2>2, <2>4 DEF CounterInv, CounterExact
  <2>6. \A r \in Stream : pc'[r] \in {"open", "cut"} => tokens'[r] = 0
    BY <1>0, <2>1, <2>2 DEF CounterInv
  <2> QED
    BY <2>5, <2>6 DEF CounterInv
<1>2. ASSUME UNCHANGED <<counter, tokens>>,
             \A s \in Stream : pc'[s] \in {"open", "cut"} =>
                                  pc[s] \in {"open", "cut"}
      PROVE  CounterInv'
  BY <1>2 DEF CounterInv, CounterExact
<1>3. ASSUME NEW s \in Stream, Receive(s) PROVE CounterInv'
  BY <1>2, <1>3 DEF Receive, avars, recorders
<1>4. ASSUME NEW s \in Stream, Cut(s) PROVE CounterInv'
  BY <1>0, <1>2, <1>4 DEF Cut, Abandon, Goto, tvars
<1>5. ASSUME NEW s \in Stream, Write(s) PROVE CounterInv'
  BY <1>0, <1>2, <1>5 DEF Write, Store, Goto
<1>6. ASSUME NEW s \in Stream, Load(s) \/ SetGauge(s), UNCHANGED tvars
      PROVE  CounterInv'
  BY <1>0, <1>2, <1>6 DEF Load, SetGauge, Goto, tvars
<1>7. CASE Scrape /\ UNCHANGED tvars
  BY <1>2, <1>7 DEF Scrape, ScrapeLoad, ScrapeSet, ScrapeRender, recorders,
                    tvars
<1>8. CASE UNCHANGED mvars
  BY <1>2, <1>8 DEF mvars, avars, recorders, tvars
<1> QED
  BY <1>1, <1>3, <1>4, <1>5, <1>6, <1>7, <1>8 DEF MNext

\* No concurrent end of two streams loses tokens: the counter is the sum of
\* what the streams that ended have counted (record_token_generation).
THEOREM CounterSum == MSpec => []CounterExact
<1>1. CounterInv => CounterExact
  BY DEF CounterInv
<1> QED
  BY <1>1, AverageInv, CounterInit, CounterStep, StreamsTyped, PTL DEF MSpec

-----------------------------------------------------------------------------
(* The average after serial updates.                                       *)

\* One stream's part in SerialAverage.
Blended(speed, S, avg, s) ==
    IF s \notin S THEN avg
    ELSE IF avg = 0 THEN speed[s]
    ELSE (speed[s] + 4 * avg) \div 5

Follows(h, speed, q, S) ==
    /\ h[0] = 0
    /\ \A i \in 1..Len(q) : h[i] = Blended(speed, S, h[i - 1], q[i])

\* SerialAverage is what comes out after the last stream, step by step.
LEMMA AverageTaken ==
    ASSUME NEW speed \in [Stream -> Nat], NEW q \in Seq(Stream), NEW S
    PROVE  \E h \in [0..Len(q) -> Nat] :
              Follows(h, speed, q, S) /\ SerialAverage(speed, q, S) = h[Len(q)]
<1> DEFINE D == 1..Len(q)
           Op(avg, s) == IF s \notin S THEN avg
                         ELSE IF avg = 0 THEN speed[s]
                         ELSE (speed[s] + 4 * avg) \div 5
           step == [p \in D \X Nat |-> Op(p[2], q[p[1]])]
           last == [T \in SUBSET D |-> Max(T)]
           Eq(g) == g = [T \in SUBSET D |->
                           IF T = {} THEN 0
                           ELSE LET x == Max(T)
                                IN  Op(g[T \ {x}], q[x])]
           iter == CHOOSE g : Eq(g)
<1>1. Len(q) \in Nat /\ DOMAIN q = D /\ \A i \in D : q[i] \in Stream
  OBVIOUS
<1>2. \A avg \in Nat, s \in Stream : Op(avg, s) \in Nat
  OBVIOUS
<1>3. step \in [D \X Nat -> Nat]
  BY <1>1, <1>2
<1>4. \A i \in D, avg \in Nat : step[<<i, avg>>] = Op(avg, q[i])
  OBVIOUS
<1>5. SerialAverage(speed, q, S) = iter[D]
  BY <1>1 DEF SerialAverage, FoldLeft, MapThenFoldSet
<1> HIDE DEF step, Op
<1>6. PICK g \in [SUBSET D -> Nat] : Takes(g, D, 0, last, step)
  BY <1>1, <1>3, LastTaken DEF HasFold
<1>7. ASSUME NEW T \in SUBSET D
      PROVE  g[T] = IF T = {} THEN 0 ELSE Op(g[T \ {Max(T)}], q[Max(T)])
  <2>1. CASE T = {}
    BY <1>6, <2>1 DEF Takes
  <2>2. CASE T # {}
    <3>1. g[T] = step[<<Max(T), g[T \ {Max(T)}]>>]
      BY <1>6, <2>2 DEF Takes
    <3>2. Max(T) \in D /\ g[T \ {Max(T)}] \in Nat
      BY <1>1, <2>2, MaxIn
    <3> QED
      BY <1>4, <2>2, <3>1, <3>2
  <2> QED
    BY <2>1, <2>2
<1>8. Eq(iter)
  <2>1. Eq(g)
    BY <1>7
  <2> HIDE DEF Eq
  <2> QED
    BY <2>1
<1>9. \A T \in SUBSET D :
          iter[T] = IF T = {} THEN 0
                    ELSE Op(iter[T \ {Max(T)}], q[Max(T)])
  <2> HIDE DEF iter
  <2> QED
    BY <1>8
<1> HIDE DEF iter
<1>10. ASSUME NEW i \in D, iter[1..i - 1] \in Nat
       PROVE  iter[1..i] = step[<<i, iter[1..i - 1]>>]
  <2>1. Max(1..i) = i /\ (1..i) \ {i} = 1..i - 1
    BY <1>1, MaxOfPrefix
  <2>2. 1..i \in SUBSET D /\ i \in 1..i
    BY <1>1
  <2>3. iter[1..i] = Op(iter[1..i - 1], q[i])
    BY <1>9, <2>1, <2>2
  <2> QED
    BY <1>4, <1>10, <2>3
<1>11. TakesLast(iter, Len(q), Nat, 0, step)
  BY <1>9, <1>10 DEF TakesLast
<1>a. 0 \in Nat
  OBVIOUS
<1>b. HasSteps(iter[D], Len(q), Nat, 0, step)
  BY <1>a, <1>1, <1>3, <1>11, LastToSteps
<1>12. PICK h \in [0..Len(q) -> Nat] :
            Steps(h, Len(q), 0, step) /\ iter[D] = h[Len(q)]
  BY <1>b DEF HasSteps
<1>13. ASSUME NEW i \in D
       PROVE  h[i] = Blended(speed, S, h[i - 1], q[i])
  <2>0. i - 1 \in 0..Len(q)
    BY <1>1
  <2>1. h[i] = step[<<i, h[i - 1]>>] /\ h[i - 1] \in Nat
    BY <1>12, <2>0 DEF Steps
  <2>2. h[i] = Op(h[i - 1], q[i])
    BY <1>4, <2>1
  <2> QED
    BY <2>2 DEF Blended, Op
<1>14. Follows(h, speed, q, S)
  BY <1>12, <1>13 DEF Follows, Steps
<1> QED
  BY <1>5, <1>12, <1>14

\* The streams of q begin q2, and are in S and have a speed as they have there.
Alike(q, q2, S, S2, speed, speed2) ==
    /\ Len(q) <= Len(q2)
    /\ \A i \in 1..Len(q) :
          /\ q[i] = q2[i]
          /\ q[i] \in S <=> q[i] \in S2
          /\ speed[q[i]] = speed2[q[i]]

\* Only the streams of the sequence matter, their speeds and whether they are
\* in the set.
LEMMA FollowsSame ==
    ASSUME NEW speed, NEW speed2, NEW S, NEW S2,
           NEW q \in Seq(Stream), NEW q2 \in Seq(Stream),
           NEW h, NEW h2, Follows(h, speed, q, S), Follows(h2, speed2, q2, S2),
           Alike(q, q2, S, S2, speed, speed2)
    PROVE  h[Len(q)] = h2[Len(q)]
<1> DEFINE G == {n \in Nat : n <= Len(q) => h[n] = h2[n]}
<1>0. Len(q) \in Nat /\ Len(q2) \in Nat
  OBVIOUS
<1>1. 0 \in G
  BY DEF Follows
<1>2. ASSUME NEW n \in Nat, n \in G PROVE n + 1 \in G
  <2>1. CASE n + 1 <= Len(q)
    <3>1. n + 1 \in 1..Len(q) /\ n + 1 \in 1..Len(q2) /\ n + 1 - 1 = n
      BY <1>0, <2>1 DEF Alike
    <3>2. h[n] = h2[n]
      BY <1>0, <1>2, <2>1
    <3>3. /\ h[n + 1] = Blended(speed, S, h[n + 1 - 1], q[n + 1])
          /\ h2[n + 1] = Blended(speed2, S2, h2[n + 1 - 1], q2[n + 1])
      BY <3>1 DEF Follows
    <3>4. h[n + 1] = h2[n + 1]
      BY <1>0, <3>1, <3>2, <3>3 DEF Blended, Alike
    <3> QED
      BY <3>4
  <2> QED
    BY <2>1
<1>3. Nat \subseteq G
  <2> HIDE DEF G
  <2> QED
    BY <1>1, <1>2, NumberInduction
<1> QED
  BY <1>0, <1>3

SameFor(q, S, S2, speed, speed2) ==
    \A s \in ToSet(q) : (s \in S <=> s \in S2) /\ speed[s] = speed2[s]

\* SerialAverage depends on the speeds and choices along q only.
LEMMA AverageSame ==
    ASSUME NEW speed \in [Stream -> Nat], NEW speed2 \in [Stream -> Nat],
           NEW S, NEW S2, NEW q \in Seq(Stream),
           SameFor(q, S, S2, speed, speed2)
    PROVE  SerialAverage(speed, q, S) = SerialAverage(speed2, q, S2)
<1>1. PICK h \in [0..Len(q) -> Nat] :
          Follows(h, speed, q, S) /\ SerialAverage(speed, q, S) = h[Len(q)]
  BY AverageTaken
<1>2. PICK h2 \in [0..Len(q) -> Nat] :
          /\ Follows(h2, speed2, q, S2)
          /\ SerialAverage(speed2, q, S2) = h2[Len(q)]
  BY AverageTaken
<1>3. \A i \in 1..Len(q) : q[i] \in ToSet(q)
  BY DEF ToSet
<1>4. Alike(q, q, S, S2, speed, speed2)
  BY <1>3 DEF Alike, SameFor
<1>5. h[Len(q)] = h2[Len(q)]
  BY <1>1, <1>2, <1>3, <1>4, FollowsSame
<1> QED
  BY <1>1, <1>2, <1>5

\* One more stream blends its speed with the average of those before it.
LEMMA AverageAppend ==
    ASSUME NEW speed \in [Stream -> Nat], NEW S, NEW q \in Seq(Stream),
           NEW s \in Stream
    PROVE  SerialAverage(speed, Append(q, s), S)
              = Blended(speed, S, SerialAverage(speed, q, S), s)
<1> DEFINE r == Append(q, s)
<1>0. /\ r \in Seq(Stream) /\ Len(r) = Len(q) + 1 /\ Len(q) \in Nat
      /\ r[Len(r)] = s
      /\ \A i \in 1..Len(q) : q[i] = r[i]
  OBVIOUS
<1> HIDE DEF r
<1>1. PICK h \in [0..Len(q) -> Nat] :
          Follows(h, speed, q, S) /\ SerialAverage(speed, q, S) = h[Len(q)]
  BY AverageTaken
<1>2. PICK h2 \in [0..Len(r) -> Nat] :
          Follows(h2, speed, r, S) /\ SerialAverage(speed, r, S) = h2[Len(r)]
  BY <1>0, AverageTaken
<1>3. Alike(q, r, S, S, speed, speed)
  BY <1>0 DEF Alike
<1>7. r \in Seq(Stream)
  BY <1>0
<1>8. Follows(h, speed, q, S) /\ Follows(h2, speed, r, S)
  BY <1>1, <1>2
<1>4. h[Len(q)] = h2[Len(q)]
  BY <1>3, <1>7, <1>8, FollowsSame
<1>5. Len(r) \in 1..Len(r) /\ Len(r) - 1 = Len(q)
  BY <1>0
<1>6. h2[Len(r)] = Blended(speed, S, h2[Len(r) - 1], r[Len(r)])
  BY <1>2, <1>5 DEF Follows
<1> QED
  BY <1>0, <1>1, <1>2, <1>4, <1>5, <1>6 DEF r

\* Of no stream there is no average.
LEMMA AverageNone ==
    ASSUME NEW speed \in [Stream -> Nat], NEW q \in Seq(Stream)
    PROVE  SerialAverage(speed, q, {}) = 0
<1>1. PICK h \in [0..Len(q) -> Nat] :
          Follows(h, speed, q, {}) /\ SerialAverage(speed, q, {}) = h[Len(q)]
  BY AverageTaken
<1> DEFINE G == {n \in Nat : n <= Len(q) => h[n] = 0}
<1>0. Len(q) \in Nat
  OBVIOUS
<1>2. 0 \in G
  BY <1>1 DEF Follows
<1>3. ASSUME NEW n \in Nat, n \in G PROVE n + 1 \in G
  <2>1. CASE n + 1 <= Len(q)
    <3>1. n + 1 \in 1..Len(q) /\ n + 1 - 1 = n
      BY <1>0, <2>1
    <3>2. h[n] = 0
      BY <1>0, <1>3, <2>1
    <3>3. h[n + 1] = Blended(speed, {}, h[n + 1 - 1], q[n + 1])
      BY <1>1, <3>1 DEF Follows
    <3>4. h[n + 1] = 0
      BY <3>1, <3>2, <3>3 DEF Blended
    <3> QED
      BY <3>4
  <2> QED
    BY <2>1
<1>4. Nat \subseteq G
  <2> HIDE DEF G
  <2> QED
    BY <1>2, <1>3, NumberInduction
<1> QED
  BY <1>0, <1>1, <1>4

-----------------------------------------------------------------------------
(* Lost updates.                                                           *)

\* What a stream is about to store blends its speed with what some of those
\* that stored before would have produced one after the other.
SerialInv ==
    /\ ToSet(writers) = Stored
    /\ writers = <<>> => average = 0
    /\ SerialSubset
    /\ \A s \in Stream : pc[s] = "loaded" =>
          \/ prev[s] = inst[s]
          \/ \E S \in SUBSET ToSet(writers) :
                prev[s] = SerialAverage(inst, writers, S)

\* At first nothing is stored.
LEMMA SerialInit == MInit => SerialInv
<1> SUFFICES ASSUME MInit PROVE SerialInv
  OBVIOUS
<1>1. ToSet(<<>>) = {}
  BY DEF ToSet
<1> QED
  BY <1>1 DEF MInit, Init, SerialInv, SerialSubset, Stored

\* A step that stores nothing and changes no stored speed.
LEMMA SerialKept ==
    ASSUME StreamsOK, TypeOK, TypeOK', SerialInv,
           UNCHANGED <<writers, average>>, Stored' = Stored,
           \A s \in Stored : inst'[s] = inst[s],
           \A s \in Stream : pc'[s] = "loaded" =>
              \/ pc[s] = "loaded" /\ prev'[s] = prev[s] /\ inst'[s] = inst[s]
              \/ prev'[s] = inst'[s]
              \/ average # 0 /\ prev'[s] = average
    PROVE  SerialInv'
<1>0. /\ writers \in Seq(Stream)
      /\ inst \in [Stream -> Nat] /\ inst' \in [Stream -> Nat]
  BY DEF StreamsOK, TypeOK
<1>1. \A s \in ToSet(writers) : inst'[s] = inst[s]
  BY DEF SerialInv
<1>2. ASSUME NEW S
      PROVE  SerialAverage(inst', writers, S) = SerialAverage(inst, writers, S)
  <2>1. SameFor(writers, S, S, inst', inst)
    BY <1>1 DEF SameFor
  <2> QED
    BY <1>0, <2>1, AverageSame
<1>3. SerialSubset'
  BY <1>2 DEF SerialInv, SerialSubset
<1>4. ASSUME NEW s \in Stream, pc'[s] = "loaded"
      PROVE  \/ prev'[s] = inst'[s]
             \/ \E S \in SUBSET ToSet(writers) :
                   prev'[s] = SerialAverage(inst', writers, S)
  <2>1. CASE pc[s] = "loaded" /\ prev'[s] = prev[s] /\ inst'[s] = inst[s]
    BY <1>2, <2>1 DEF SerialInv
  <2>2. CASE average # 0 /\ prev'[s] = average
    <3>1. writers # <<>>
      BY <2>2 DEF SerialInv
    <3>2. PICK S \in SUBSET ToSet(writers) :
              average = SerialAverage(inst, writers, S)
      BY <3>1 DEF SerialInv, SerialSubset
    <3> QED
      BY <1>2, <2>2, <3>2
  <2> QED
    BY <1>4, <2>1, <2>2
<1> QED
  BY <1>3, <1>4 DEF SerialInv

\* The stream that stores is the last of those whose speeds went in.
LEMMA SerialWrite ==
    ASSUME StreamsOK, Inv, TypeOK', SerialInv, NEW s \in Stream, Write(s)
    PROVE  SerialInv'
<1>0. /\ writers \in Seq(Stream) /\ inst \in [Stream -> Nat]
      /\ pc \in [Stream -> PC] /\ prev \in [Stream -> Nat]
  BY DEF StreamsOK, TypeOK, Inv
<1>1. /\ pc[s] = "loaded" /\ inst' = inst /\ writers' = Append(writers, s)
      /\ average' = Blend(inst[s], prev[s])
      /\ pc' = [pc EXCEPT ![s] = "stored"]
      /\ \A r \in Stream \ {s} : prev'[r] = prev[r]
  BY <1>0 DEF Write, Store, Goto
<1>2. s \notin ToSet(writers)
  BY <1>1 DEF SerialInv, Stored
<1>3. /\ ToSet(writers') = ToSet(writers) \cup {s}
      /\ writers' # <<>> /\ Last(writers') = s
  <2>1. /\ DOMAIN writers = 1..Len(writers) /\ Len(writers) \in Nat
        /\ Len(writers') = Len(writers) + 1
        /\ DOMAIN writers' = 1..Len(writers) + 1
        /\ writers'[Len(writers) + 1] = s
        /\ \A i \in 1..Len(writers) : writers'[i] = writers[i]
    BY <1>0, <1>1
  <2>2. DOMAIN writers' = DOMAIN writers \cup {Len(writers) + 1}
    BY <2>1
  <2>3. ToSet(writers') = ToSet(writers) \cup {s}
    BY <2>1, <2>2 DEF ToSet
  <2> QED
    BY <2>1, <2>3 DEF Last
<1>4. ToSet(writers') = Stored'
  BY <1>0, <1>1, <1>3 DEF SerialInv, Stored
<1>5. ASSUME NEW S \in SUBSET ToSet(writers)
      PROVE  /\ SerialAverage(inst, writers', S)
                   = SerialAverage(inst, writers, S)
             /\ SerialAverage(inst, writers', S \cup {s})
                   = Blended(inst, S \cup {s},
                             SerialAverage(inst, writers, S), s)
  <2>1. s \notin S
    BY <1>2
  <2>2. SerialAverage(inst, writers', S)
           = Blended(inst, S, SerialAverage(inst, writers, S), s)
    BY <1>0, <1>1, AverageAppend
  <2>4. SerialAverage(inst, writers, S \cup {s})
           = SerialAverage(inst, writers, S)
    <3> DEFINE T == S \cup {s}
    <3>1. SameFor(writers, T, S, inst, inst)
      BY <1>2 DEF SameFor
    <3> HIDE DEF T
    <3>2. SerialAverage(inst, writers, T) = SerialAverage(inst, writers, S)
      <4>1. writers \in Seq(Stream) /\ inst \in [Stream -> Nat]
        BY <1>0
      <4> QED
        BY <3>1, <4>1, AverageSame
    <3> QED
      BY <3>2 DEF T
  <2>5. SerialAverage(inst, writers', S \cup {s})
           = Blended(inst, S \cup {s},
                     SerialAverage(inst, writers, S \cup {s}), s)
    BY <1>0, <1>1, AverageAppend
  <2> QED
    BY <2>1, <2>2, <2>4, <2>5 DEF Blended
<1>6. \E S \in SUBSET ToSet(writers') :
          /\ s \in S
          /\ average' = SerialAverage(inst, writers', S)
  <2>1. inst[s] \in Nat /\ prev[s] \in Nat /\ prev[s] # 0
    BY <1>0, <1>1 DEF Inv, TypeOK
  <2>2. CASE prev[s] = inst[s]
    <3>1. SerialAverage(inst, writers, {}) = 0
      BY <1>0, AverageNone
    <3>2. SerialAverage(inst, writers', {} \cup {s}) = inst[s]
      BY <1>5, <3>1 DEF Blended
    <3>3. Blend(inst[s], inst[s]) = inst[s]
      BY <2>1 DEF Blend
    <3> QED
      BY <1>1, <1>3, <2>2, <3>2, <3>3
  <2>3. CASE \E S \in SUBSET ToSet(writers) :
                prev[s] = SerialAverage(inst, writers, S)
    <3>1. PICK S \in SUBSET ToSet(writers) :
                prev[s] = SerialAverage(inst, writers, S)
      BY <2>3
    <3>2. SerialAverage(inst, writers', S \cup {s}) = Blend(inst[s], prev[s])
      BY <1>5, <2>1, <3>1 DEF Blended, Blend
    <3>3. S \cup {s} \in SUBSET ToSet(writers')
      BY <1>3
    <3> QED
      BY <1>1, <3>2, <3>3
  <2> QED
    BY <1>1, <2>2, <2>3 DEF SerialInv
<1>7. SerialSubset'
  BY <1>1, <1>3, <1>6 DEF SerialSubset
<1>8. ASSUME NEW r \in Stream, pc'[r] = "loaded"
      PROVE  \/ prev'[r] = inst'[r]
             \/ \E S \in SUBSET ToSet(writers') :
                   prev'[r] = SerialAverage(inst', writers', S)
  <2>1. r # s /\ pc[r] = "loaded"
    BY <1>0, <1>1, <1>8
  <2>2. prev'[r] = prev[r]
    BY <1>1, <2>1
  <2>3. CASE prev[r] = inst[r]
    BY <1>1, <2>2, <2>3
  <2>4. CASE \E S \in SUBSET ToSet(writers) :
                prev[r] = SerialAverage(inst, writers, S)
    BY <1>1, <1>3, <1>5, <2>2, <2>4
  <2> QED
    BY <2>1, <2>3, <2>4 DEF SerialInv
<1> QED
  BY <1>3, <1>4, <1>7, <1>8 DEF SerialInv

\* Every step keeps what is stored, and what is about to be, a serial average.
LEMMA SerialStep ==
    StreamsOK /\ Inv /\ SerialInv /\ [MNext]_mvars => SerialInv'
<1> SUFFICES ASSUME StreamsOK, Inv, SerialInv, [MNext]_mvars
             PROVE  SerialInv'
  OBVIOUS
<1>0. TypeOK /\ TypeOK'
  BY AverageStep, TypeStep DEF Inv
<1>a. /\ pc \in [Stream -> PC]
      /\ inst \in [Stream -> Nat] /\ prev \in [Stream -> Nat]
  BY <1>0 DEF TypeOK
<1>1. ASSUME NEW s \in Stream, Complete(s) PROVE SerialInv'
  <2>1. PICK n \in TokenCount, secs \in Duration : Count(s, n, secs)
    BY <1>1, CompleteStep
  <2>2. /\ pc[s] = "open" /\ writers' = writers
        /\ \E l \in {"counted", "ended"} : pc' = [pc EXCEPT ![s] = l]
        /\ \A r \in Stream \ {s} : inst'[r] = inst[r]
        /\ UNCHANGED <<prev, average>>
    BY <1>1, <1>a, <2>1 DEF Count, Goto, Complete
  <2>3. Stored' = Stored
    BY <1>a, <2>2 DEF Stored
  <2>4. \A r \in Stored : inst'[r] = inst[r]
    BY <2>2 DEF Stored
  <2>5. \A r \in Stream : pc'[r] = "loaded" =>
            pc[r] = "loaded" /\ prev'[r] = prev[r] /\ inst'[r] = inst[r]
    BY <1>a, <2>2
  <2> QED
    BY <1>0, <2>2, <2>3, <2>4, <2>5, SerialKept
<1>2. ASSUME NEW s \in Stream,
             Receive(s) \/ Cut(s) \/ (SetGauge(s) /\ UNCHANGED tvars)
      PROVE SerialInv'
  <2>1. UNCHANGED <<writers, average, inst>>
    BY <1>2 DEF Receive, Cut, Abandon, SetGauge, tvars, avars, recorders
  <2>2. Stored' = Stored
    BY <1>a, <1>2 DEF Stored, Receive, Cut, Abandon, SetGauge, Goto, avars,
                      recorders
  <2>3. \A r \in Stream : pc'[r] = "loaded" =>
            pc[r] = "loaded" /\ prev'[r] = prev[r] /\ inst'[r] = inst[r]
    BY <1>a, <1>2 DEF Receive, Cut, Abandon, SetGauge, Goto, avars, recorders
  <2> QED
    BY <1>0, <2>1, <2>2, <2>3, SerialKept
<1>3. ASSUME NEW s \in Stream, Load(s), UNCHANGED tvars PROVE SerialInv'
  <2>1. UNCHANGED <<writers, average, inst>>
    BY <1>3 DEF Load, tvars
  <2>2. Stored' = Stored
    BY <1>a, <1>3 DEF Load, Goto, Stored
  <2>3. \A r \in Stream : pc'[r] = "loaded" =>
              \/ pc[r] = "loaded" /\ prev'[r] = prev[r] /\ inst'[r] = inst[r]
              \/ prev'[r] = inst'[r]
              \/ average # 0 /\ prev'[r] = average
    BY <1>a, <1>3 DEF Load, Goto
  <2> QED
    BY <1>0, <2>1, <2>2, <2>3, SerialKept
<1>4. ASSUME NEW s \in Stream, Write(s) PROVE SerialInv'
  BY <1>0, <1>4, SerialWrite
<1>5. CASE (Scrape /\ UNCHANGED tvars) \/ UNCHANGED mvars
  <2>1. UNCHANGED <<writers, average, inst, pc, prev>>
    BY <1>5 DEF Scrape, ScrapeLoad, ScrapeSet, ScrapeRender, recorders, tvars,
                mvars, avars
  <2>2. Stored' = Stored
    BY <2>1 DEF Stored
  <2> QED
    BY <1>0, <2>1, <2>2, SerialKept
<1> QED
  BY <1>1, <1>2, <1>3, <1>4, <1>5 DEF MNext

\* Whatever updates of the average overwrite each other, what is stored is
\* what some of the streams, up to the last that stored, would have produced
\* one after the other (record_token_generation).
THEOREM LostUpdates == MSpec => []SerialSubset
<1>1. SerialInv => SerialSubset
  BY DEF SerialInv
<1> QED
  BY <1>1, AverageInv, SerialInit, SerialStep, StreamsTyped, PTL DEF MSpec

-----------------------------------------------------------------------------
(* What a stream counted when it ended.                                    *)

\* The characters in the values of b that chunks which ended after C cut.
Cuts(b, C) == {k \in Severed(b, C) : InValue(b, k)}

\* What has arrived of a stream that is open was cut inside some characters,
\* split has one for each of them that is in a value, and the tracker has
\* followed.
OpenCounts(s) ==
    \E C \in SUBSET Inside(body[s]) :
        /\ CutUpTo(body[s], C, got[s])
        /\ splits[s] = Cardinality(Cuts(body[s], C))
        /\ Tracked(track[s], body[s], C, got[s])

EndCounts(s) ==
    IF Reports(body[s]) # {}
    THEN tokens[s] = Reported(body[s])
    ELSE tokens[s] \in Estimate(body[s])..Estimate(body[s]) + 2 * splits[s]

CountsInv ==
    \A s \in Stream :
        /\ pc[s] = "open" => OpenCounts(s)
        /\ pc[s] \notin {"open", "cut"} => EndCounts(s)

\* Nothing has arrived of a stream that has just started.
LEMMA NewTracked ==
    ASSUME NEW b \in Body
    PROVE  CutUpTo(b, {}, 0) /\ Tracked(NewTracker, b, {}, 0)
<1>0. Len(b) \in Nat /\ DOMAIN b = 1..Len(b)
  BY BodyType
<1>1. ReportsTo(b, 0) = {} /\ ValuesTo(b, 0) = {} /\ CutsTo(b, {}, 0) = {}
  <2>1. \A l \in Values(b) : ~(l[2] <= 0)
    BY <1>0, ValueBounds
  <2>2. \A k \in DOMAIN b : ~(k <= 0)
    BY <1>0
  <2>3. Severed(b, {}) = {}
    BY DEF Severed
  <2> QED
    BY <2>1, <2>2, <2>3 DEF ReportsTo, ValuesTo, CutsTo, Reports
<1>2. PartSum(b, {}) = 0
  <2>1. SumFunction([l \in {} |-> 0]) = 0
    BY FS_EmptySet, SumZero
  <2>2. [l \in {} |-> (Bytes(b, l) + 3) \div 4] = [l \in {} |-> 0]
    OBVIOUS
  <2> QED
    BY <2>1, <2>2 DEF PartSum
<1>3. Cardinality({}) = 0
  BY FS_EmptySet
<1>4. Counted(NewTracker, b, {}, 0)
  <2>1. NewTracker.usage = {} /\ NewTracker.acc = 0
    BY DEF NewTracker
  <2>2. 0 \in 0..2 * 0 /\ 0 = 0 + 0
    OBVIOUS
  <2> QED
    BY <1>1, <1>2, <1>3, <2>1, <2>2 DEF Counted
<1>5. ArrivedLine(<<>>, b, {}, 0, 0)
  <2>1. 0 - 0 = 0 /\ 1..0 = {} /\ 0 + 1..0 = {} /\ 0 \in Nat /\ 0 \in 0..Len(b)
    BY <1>0
  <2>2. <<>> \in Seq(Atom) /\ Len(<<>>) = 0
    OBVIOUS
  <2> QED
    BY <2>1, <2>2 DEF ArrivedLine, Boundary
<1>6. NewTracker.buf = <<>>
  BY DEF NewTracker
<1>7. CutUpTo(b, {}, 0)
  BY <1>0 DEF CutUpTo, Inside, Byte
<1> QED
  BY <1>4, <1>5, <1>6, <1>7 DEF Tracked

\* At first every stream has counted nothing of nothing.
LEMMA CountsInit == MInit => CountsInv
<1> SUFFICES ASSUME MInit, NEW s \in Stream
             PROVE  /\ pc[s] = "open" => OpenCounts(s)
                    /\ pc[s] \notin {"open", "cut"} => EndCounts(s)
  BY DEF CountsInv
<1>1. /\ body[s] \in Body /\ got[s] = 0 /\ track[s] = NewTracker
      /\ splits[s] = 0 /\ pc[s] = "open"
  BY DEF MInit, Init
<1>2. CutUpTo(body[s], {}, 0) /\ Tracked(NewTracker, body[s], {}, 0)
  BY <1>1, NewTracked
<1>3. Cardinality(Cuts(body[s], {})) = 0
  <2>1. Cuts(body[s], {}) = {}
    BY DEF Cuts, Severed
  <2> QED
    BY <2>1, FS_EmptySet
<1>4. {} \in SUBSET Inside(body[s])
  OBVIOUS
<1>5. OpenCounts(s)
  BY <1>1, <1>2, <1>3, <1>4 DEF OpenCounts
<1> QED
  BY <1>1, <1>5

\* What the end of a chunk cuts, it adds to the characters cut before.
LEMMA SplitCounted ==
    ASSUME NEW b \in Body, NEW C, NEW g \in Nat, NEW m \in g + 1..Len(b),
           CutUpTo(b, C, g)
    PROVE  Cardinality(Cuts(b, CutAlso(b, C, m)))
              = Cardinality(Cuts(b, C)) + Split(b, g, m)
<1> DEFINE X == Cuts(b, C)
           Y == Cuts(b, CutAlso(b, C, m))
           k == Start(b, m)
<1>0. C \in SUBSET Inside(b) /\ m \in DOMAIN b
  BY BodyType DEF CutUpTo
<1>1. IsFiniteSet(X) /\ Cardinality(X) \in Nat
  <2>1. IsFiniteSet(1..Len(b))
    BY BodyType, FS_Interval
  <2>2. X \subseteq 1..Len(b)
    BY <1>0, BodyType, SeveredIn DEF Cuts, Byte
  <2> QED
    BY <2>1, <2>2, FS_Subset, FS_CardinalityType
<1>2. SplitAfter(b, g, m) <=> m \in Inside(b) /\ k > g /\ InValue(b, k)
  BY <1>0 DEF SplitAfter, Inside, Byte, At, Of
<1>3. /\ \A i \in Severed(b, C) : i \in Nat /\ i <= g
      /\ Severed(b, CutAlso(b, C, m)) = Severed(b, C) \cup
            (IF m \in Inside(b) /\ k > g THEN {k} ELSE {})
  BY SeveredMore
<1>4. SplitAfter(b, g, m) => k \notin X
  BY <1>2, <1>3 DEF Cuts
<1>5. Y = IF SplitAfter(b, g, m) THEN X \cup {k} ELSE X
  BY <1>2, <1>3 DEF Cuts
<1> HIDE DEF X, Y, k
<1>6. Cardinality(Y) = Cardinality(X) + Split(b, g, m)
  <2>1. CASE SplitAfter(b, g, m)
    <3>1. Cardinality(Y) = Cardinality(X) + 1
      BY <1>1, <1>4, <1>5, <2>1, FS_AddElement
    <3> QED
      BY <2>1, <3>1 DEF Split
  <2>2. CASE ~SplitAfter(b, g, m)
    BY <1>1, <1>5, <2>2 DEF Split
  <2> QED
    BY <2>1, <2>2
<1> QED
  BY <1>6 DEF X, Y

\* A chunk, wherever it ends, keeps a stream counting right.
LEMMA ReceiveCounts ==
    ASSUME StreamsOK, NEW s \in Stream, Receive(s), OpenCounts(s)
    PROVE  OpenCounts(s)'
<1> DEFINE b == body[s]
<1>1. PICK n \in got[s] + 1..Len(b) :
          /\ track' = [track EXCEPT
                         ![s] = ObserveChunk(@, SubSeq(b, got[s] + 1, n))]
          /\ got' = [got EXCEPT ![s] = n]
          /\ splits' = [splits EXCEPT ![s] = @ + Split(b, got[s], n)]
  BY DEF Receive
<1>2. /\ b \in Body /\ got[s] \in Nat /\ track[s] \in Tracker
      /\ body' = body
      /\ track'[s] = ObserveChunk(track[s], SubSeq(b, got[s] + 1, n))
      /\ got'[s] = n
      /\ splits'[s] = splits[s] + Split(b, got[s], n)
  BY <1>1 DEF StreamsOK, Receive
<1>3. PICK C \in SUBSET Inside(b) :
          /\ CutUpTo(b, C, got[s])
          /\ splits[s] = Cardinality(Cuts(b, C))
          /\ Tracked(track[s], b, C, got[s])
  BY DEF OpenCounts
<1> DEFINE D == CutAlso(b, C, n)
<1> HIDE DEF b
<1>4. CutUpTo(b, D, n) /\ Tracked(track'[s], b, D, n)
  BY <1>2, <1>3, ChunkTracks
<1>5. splits'[s] = Cardinality(Cuts(b, D))
  BY <1>2, <1>3, SplitCounted
<1>6. D \in SUBSET Inside(b)
  BY <1>4 DEF CutUpTo
<1>7. body'[s] = b
  BY <1>2 DEF b
<1> HIDE DEF D
<1> QED
  BY <1>2, <1>4, <1>5, <1>6, <1>7 DEF OpenCounts

\* The estimate of a body is a number.
LEMMA EstimateType ==
    ASSUME NEW b \in Body
    PROVE  Estimate(b) \in Nat
<1> DEFINE f == [l \in Values(b) |-> (Bytes(b, l) + 3) \div 4]
<1>1. IsFiniteSet(Values(b)) /\ \A l \in Values(b) : Bytes(b, l) \in Nat
  BY ValueBounds
<1>2. f \in [Values(b) -> Nat]
  BY <1>1
<1>3. Estimate(b) = SumFunction(f)
  BY DEF Estimate
<1> HIDE DEF f
<1>4. PICK g \in [SUBSET Values(b) -> Nat] :
          Summed(g, f, Values(b)) /\ SumFunction(f) = g[Values(b)]
  BY <1>1, <1>2, SumTaken
<1>5. Values(b) \in SUBSET Values(b)
  OBVIOUS
<1> QED
  BY <1>3, <1>4, <1>5

\* A stream that ends has counted its whole body.
LEMMA CompleteCounts ==
    ASSUME StreamsOK, NEW s \in Stream, Complete(s), OpenCounts(s)
    PROVE  EndCounts(s)'
<1> DEFINE b == body[s]
<1>1. PICK n \in TokenCount, secs \in Duration :
          /\ n = TotalTokens(Finished(s))
          /\ tokens' = [tokens EXCEPT ![s] = n]
  BY CompleteStep
<1>2. /\ b \in Body /\ track[s] \in Tracker /\ got[s] = Len(b)
      /\ body' = body /\ splits' = splits
      /\ tokens'[s] = TotalTokens(Finished(s))
  BY <1>1 DEF StreamsOK, Complete
<1>3. PICK C \in SUBSET Inside(b) :
          /\ splits[s] = Cardinality(Cuts(b, C))
          /\ Tracked(track[s], b, C, got[s])
  BY DEF OpenCounts
<1> HIDE DEF b
<1>4. Counted(Finished(s), b, C, Len(b))
  BY <1>2, <1>3, FinishCounts DEF Finished
<1>5. Finished(s) \in Tracker
  BY <1>2, FinishBound DEF Finished
<1>a. CutsTo(b, C, Len(b)) = Cuts(b, C)
  <2>1. \A k \in Severed(b, C) : k <= Len(b)
    BY <1>2, SeveredIn, BodyType DEF Byte
  <2> QED
    BY <2>1 DEF CutsTo, Cuts
<1>b. IF Reports(b) # {} THEN TotalTokens(Finished(s)) = Reported(b)
      ELSE \E e \in 0..2 * splits[s] :
              TotalTokens(Finished(s)) = Estimate(b) + e
  BY <1>2, <1>3, <1>4, <1>5, <1>a, TotalCounts
<1>c. splits[s] \in Nat /\ Estimate(b) \in Nat
  BY <1>2, EstimateType DEF StreamsOK
<1>6. IF Reports(b) # {} THEN TotalTokens(Finished(s)) = Reported(b)
      ELSE TotalTokens(Finished(s))
              \in Estimate(b)..Estimate(b) + 2 * splits[s]
  BY <1>b, <1>c
<1>7. body'[s] = b /\ splits'[s] = splits[s]
  BY <1>2 DEF b
<1> QED
  BY <1>2, <1>6, <1>7 DEF EndCounts


\* A stream that receives nothing, or has ended, keeps its count.
LEMMA CountsKept ==
    ASSUME CountsInv, NEW s \in Stream,
           pc'[s] = "open" => pc[s] = "open",
           pc'[s] \notin {"open", "cut"} => pc[s] \notin {"open", "cut"},
           body'[s] = body[s], got'[s] = got[s], track'[s] = track[s],
           splits'[s] = splits[s], tokens'[s] = tokens[s]
    PROVE  /\ pc'[s] = "open" => OpenCounts(s)'
           /\ pc'[s] \notin {"open", "cut"} => EndCounts(s)'
<1>1. ASSUME OpenCounts(s) PROVE OpenCounts(s)'
  BY <1>1 DEF OpenCounts
<1>2. ASSUME EndCounts(s) PROVE EndCounts(s)'
  BY <1>2 DEF EndCounts
<1>3. /\ pc[s] = "open" => OpenCounts(s)
      /\ pc[s] \notin {"open", "cut"} => EndCounts(s)
  BY DEF CountsInv
<1> QED
  BY <1>1, <1>2, <1>3

\* Every step keeps every stream counting right.
LEMMA CountsStep ==
    StreamsOK /\ Inv /\ CountsInv /\ [MNext]_mvars => CountsInv'
<1> SUFFICES ASSUME StreamsOK, Inv, CountsInv, [MNext]_mvars,
                    NEW r \in Stream
             PROVE  /\ pc'[r] = "open" => OpenCounts(r)'
                    /\ pc'[r] \notin {"open", "cut"} => EndCounts(r)'
  BY DEF CountsInv
<1>0. /\ pc \in [Stream -> PC] /\ got \in [Stream -> Nat]
      /\ track \in [Stream -> Tracker] /\ splits \in [Stream -> Nat]
      /\ tokens \in [Stream -> TokenCount]
  BY DEF Inv, TypeOK, StreamsOK
<1>1. ASSUME NEW s \in Stream, Receive(s)
      PROVE  /\ pc'[r] = "open" => OpenCounts(r)'
             /\ pc'[r] \notin {"open", "cut"} => EndCounts(r)'
  <2>1. /\ pc[s] = "open" /\ pc' = pc /\ body' = body /\ tokens' = tokens
    BY <1>1 DEF Receive, avars, recorders
  <2>2. CASE r = s
    <3>1. OpenCounts(s)
      BY <2>1 DEF CountsInv
    <3>2. OpenCounts(s)'
      BY <1>1, <3>1, ReceiveCounts
    <3> QED
      BY <2>1, <2>2, <3>2
  <2>3. CASE r # s
    <3>1. got'[r] = got[r] /\ track'[r] = track[r] /\ splits'[r] = splits[r]
      BY <1>0, <1>1, <2>3 DEF Receive
    <3> QED
      BY <2>1, <3>1, CountsKept
  <2> QED
    BY <2>2, <2>3
<1>2. ASSUME NEW s \in Stream, Complete(s)
      PROVE  /\ pc'[r] = "open" => OpenCounts(r)'
             /\ pc'[r] \notin {"open", "cut"} => EndCounts(r)'
  <2>1. /\ pc[s] = "open"
        /\ \E l \in {"counted", "ended"} : pc' = [pc EXCEPT ![s] = l]
    <3>1. PICK n \in TokenCount, secs \in Duration : Count(s, n, secs)
      BY <1>2, CompleteStep
    <3> QED
      BY <3>1 DEF Count, Goto
  <2>2. CASE r = s
    <3>1. OpenCounts(s)
      BY <2>1 DEF CountsInv
    <3>2. EndCounts(s)'
      BY <1>2, <3>1, CompleteCounts
    <3>3. pc'[s] # "open"
      BY <1>0, <2>1
    <3> QED
      BY <2>2, <3>2, <3>3
  <2>3. CASE r # s
    <3>1. /\ pc'[r] = pc[r]
      BY <1>0, <2>1, <2>3
    <3>2. /\ body'[r] = body[r] /\ got'[r] = got[r] /\ splits'[r] = splits[r]
          /\ track'[r] = track[r] /\ tokens'[r] = tokens[r]
      BY <1>0, <1>2, <2>3 DEF Complete
    <3> QED
      BY <3>1, <3>2, CountsKept
  <2> QED
    BY <2>2, <2>3
<1>3. ASSUME UNCHANGED tvars,
             pc'[r] = pc[r] \/ pc'[r] = "cut" \/ pc[r] \notin {"open", "cut"},
             pc'[r] = "open" => pc[r] = "open"
      PROVE  /\ pc'[r] = "open" => OpenCounts(r)'
             /\ pc'[r] \notin {"open", "cut"} => EndCounts(r)'
  BY <1>3, CountsKept DEF tvars
<1>4. ASSUME NEW s \in Stream, Cut(s)
      PROVE  /\ pc'[r] = "open" => OpenCounts(r)'
             /\ pc'[r] \notin {"open", "cut"} => EndCounts(r)'
  BY <1>0, <1>3, <1>4 DEF Cut, Abandon, Goto
<1>5. ASSUME NEW s \in Stream, Write(s)
      PROVE  /\ pc'[r] = "open" => OpenCounts(r)'
             /\ pc'[r] \notin {"open", "cut"} => EndCounts(r)'
  <2>1. /\ body' = body /\ got' = got /\ track' = track /\ splits' = splits
        /\ tokens' = tokens
    BY <1>5 DEF Write
  <2>2. /\ pc'[r] = "open" => pc[r] = "open"
        /\ pc'[r] \notin {"open", "cut"} => pc[r] \notin {"open", "cut"}
    BY <1>0, <1>5 DEF Write, Store, Goto
  <2> QED
    BY <2>1, <2>2, CountsKept
<1>6. ASSUME NEW s \in Stream, Load(s) \/ SetGauge(s), UNCHANGED tvars
      PROVE  /\ pc'[r] = "open" => OpenCounts(r)'
             /\ pc'[r] \notin {"open", "cut"} => EndCounts(r)'
  BY <1>0, <1>3, <1>6 DEF Load, SetGauge, Goto
<1>7. CASE Scrape /\ UNCHANGED tvars
  BY <1>3, <1>7 DEF Scrape, ScrapeLoad, ScrapeSet, ScrapeRender, recorders
<1>8. CASE UNCHANGED mvars
  BY <1>3, <1>8 DEF mvars, avars, recorders
<1> QED
  BY <1>1, <1>2, <1>4, <1>5, <1>6, <1>7, <1>8 DEF MNext

\* However the network cuts a body, a stream that ended counted what its
\* upstream reported last; or else the estimate of the whole body at least, and
\* at most two tokens more for each character that was cut.
THEOREM CutsCounted == MSpec => []ChunkingCounts
<1>1. CountsInv => ChunkingCounts
  BY DEF CountsInv, EndCounts, ChunkingCounts
<1> QED
  BY <1>1, AverageInv, CountsInit, CountsStep, StreamsTyped, PTL DEF MSpec
=============================================================================
