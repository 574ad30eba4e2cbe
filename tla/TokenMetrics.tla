---------------------------- MODULE TokenMetrics ----------------------------
(***************************************************************************)
(* The streams of forward_once as metrics.rs sees them: each chunk is      *)
(* observed by the tracker of its stream before it is passed on, and a     *)
(* stream whose upstream ended records what it counted (src/proxy.rs       *)
(* 341-430).                                                               *)
(***************************************************************************)
EXTENDS TokenAverage, TokenTracker

CONSTANT Body  \* the bodies upstreams may send

ASSUME StreamAssumption == IsFiniteSet(Stream)

\* A stream counts at most one token for each atom it received, or what its
\* upstream reported.
ASSUME CountAssumption ==
    /\ \A b \in Body : b \in Seq(ToSet(b)) /\ 0..Len(b) \subseteq TokenCount
    /\ \A a \in DOMAIN UsageOf : UsageOf[a] \in TokenCount

\* Where the character begins of which b[k] is a byte.
Start(b, k) == k + 1 - ByteOf[b[k]].at

\* Bodies are UTF-8, with all the bytes of a character next to each other, and
\* a line reports one usage.
ASSUME BodyAssumption ==
    \A b \in Body : \A i \in DOMAIN b :
       /\ b[i] \notin {"replaced", "merged"}
       /\ b[i] \in DOMAIN ByteOf =>
             \A d \in 1..ByteOf[b[i]].of :
                /\ Start(b, i) + d - 1 \in DOMAIN b
                /\ b[Start(b, i) + d - 1] \in DOMAIN ByteOf
                /\ ByteOf[b[Start(b, i) + d - 1]]
                      = [at |-> d, of |-> ByteOf[b[i]].of]
       /\ \A j \in i + 1..Len(b) :
             {b[i], b[j]} \subseteq DOMAIN UsageOf =>
                 \E k \in i..j : b[k] = "nl"

VARIABLES body,   \* body[s]: what the upstream of s sends
          got,    \* got[s]: how many atoms of it have arrived
          track,  \* track[s]: the tracker of s
          splits, \* splits[s]: characters of it cut by the end of a chunk
          tokens, \* tokens[s]: what s counted, when it ended
          writers \* the streams in the order they stored an average

tvars == <<body, got, track, splits, tokens, writers>>
mvars == <<avars, tvars>>

MInit ==
    /\ Init
    /\ body \in [Stream -> Body]
    /\ got = [s \in Stream |-> 0]
    /\ track = [s \in Stream |-> NewTracker]
    /\ splits = [s \in Stream |-> 0]
    /\ tokens = [s \in Stream |-> 0]
    /\ writers = <<>>

\* A chunk that goes on after the first g atoms and ends after the nth cuts a
\* character of some text, which no chunk has cut before.
SplitAfter(b, g, n) ==
    /\ b[n] \in DOMAIN ByteOf
    /\ ByteOf[b[n]].at < ByteOf[b[n]].of
    /\ Start(b, n) > g
    /\ InValue(b, Start(b, n))
Split(b, g, n) == IF SplitAfter(b, g, n) THEN 1 ELSE 0

Receive(s) ==
    /\ pc[s] = "open"
    /\ \E n \in got[s] + 1..Len(body[s]) :
          /\ track' = [track EXCEPT
                         ![s] = ObserveChunk(@, SubSeq(body[s], got[s] + 1, n))]
          /\ got' = [got EXCEPT ![s] = n]
          /\ splits' = [splits EXCEPT
                          ![s] = @ + Split(body[s], got[s], n)]
    /\ UNCHANGED <<avars, body, tokens, writers>>

\* The duration is taken from the first text on, if that took any time.
Took(t, first, whole) == IF t.started /\ first # 0 THEN first ELSE whole

\* The rest of the buffer is not looked at.
Finished_unflushed(s) == track[s]

Finished(s) == FinishTracker(track[s])

Complete(s) ==
    /\ got[s] = Len(body[s])
    /\ \E first, whole \in Duration :
          /\ first <= whole
          /\ Count(s, TotalTokens(Finished(s)),
                   Took(Finished(s), first, whole))
    /\ track' = [track EXCEPT ![s] = Finished(s)]
    /\ tokens' = [tokens EXCEPT ![s] = TotalTokens(track'[s])]
    /\ UNCHANGED <<body, got, splits, writers>>

\* A timeout, an error of the upstream, or the client hanging up: the last
\* lines of the generator, which record, are not reached.
Cut(s) == Abandon(s) /\ UNCHANGED tvars

Write(s) ==
    /\ Store(s)
    /\ writers' = Append(writers, s)
    /\ UNCHANGED <<body, got, track, splits, tokens>>

MNext ==
    \/ \E s \in Stream :
          \/ Receive(s) \/ Complete(s) \/ Cut(s) \/ Write(s)
          \/ (Load(s) \/ SetGauge(s)) /\ UNCHANGED tvars
    \/ Scrape /\ UNCHANGED tvars

MSpec == MInit /\ [][MNext]_mvars

\* A scrape is made again and again, and each runs to its end.
MFairSpec == MSpec /\ WF_mvars(Scrape /\ UNCHANGED tvars)

-----------------------------------------------------------------------------
\* However the network cuts a body, the upstream's own count is the result if
\* it reports one.  An estimate is at least that of the whole body, and at most
\* two tokens more for each character that is cut: what is left of one of n
\* bytes cut after the cth takes 3 + 2n - 3c bytes more than the character.
ChunkingCounts ==
    \A s \in Stream : pc[s] \notin {"open", "cut"} =>
        IF Reports(body[s]) # {}
        THEN tokens[s] = Reported(body[s])
        ELSE tokens[s] \in Estimate(body[s])..Estimate(body[s]) + 2 * splits[s]

\* However the ends of streams interleave, the counter is the sum of what each
\* recorded when it ended: nothing is lost, and nothing is counted twice.
CounterExact == counter = SumFunction(tokens)

\* What the help of the counter says: "Completion/output tokens observed in
\* proxied LLM responses".  A response that was cut off has been observed, and
\* passed on, up to there.
Observed(s) == IF pc[s] = "open" THEN 0 ELSE TotalTokens(track[s])
ObservedCounted == SumFunction([s \in Stream |-> Observed(s)]) <= counter

\* The average after serial updates by the streams of a sequence that are in S.
SerialAverage(speed, q, S) ==
    FoldLeft(LAMBDA avg, s : IF s \notin S THEN avg
                             ELSE IF avg = 0 THEN speed[s]
                             ELSE (speed[s] + 4 * avg) \div 5,
             0, q)

\* A lost update leaves out a stream and does nothing worse: the average is
\* what some of the streams, in the order they stored and up to the last one
\* that did, would have produced one after the other.
SerialSubset ==
    writers # <<>> =>
        \E S \in SUBSET ToSet(writers) :
            /\ Last(writers) \in S
            /\ average = SerialAverage(inst, writers, S)
=============================================================================
