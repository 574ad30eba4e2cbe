---------------------------- MODULE TokenAverage ----------------------------
(***************************************************************************)
(* What the threads that finish a stream share (src/metrics.rs 69-139):    *)
(* the counter of generated tokens, the moving average kept as the bits of *)
(* a float, and the exported gauge; and the scrape that reads them.        *)
(*                                                                         *)
(* The average is loaded and stored separately, so that two streams that   *)
(* end together overwrite each other.  An average is a natural number of   *)
(* some small unit; 0 stands for the bits of 0.0, which the code reads as  *)
(* "no average yet".                                                       *)
(***************************************************************************)
EXTENDS Naturals

CONSTANTS Stream,     \* the upstream streams; each ends once
          TokenCount, \* how many tokens a stream may have generated
          Duration,   \* how long it may have taken, 0 included
          Speed(_, _) \* tokens per unit of time

ASSUME SpeedAssumption ==
    /\ TokenCount \subseteq Nat
    /\ Duration \subseteq Nat
    /\ \A tokens \in TokenCount \ {0}, secs \in Duration \ {0} :
          Speed(tokens, secs) \in Nat \ {0}

VARIABLES pc,      \* where stream s is in record_token_generation
          inst,    \* inst[s]: its tokens per second, 0 until known
          prev,    \* prev[s]: the average it loaded
          counter, \* llama_scale_tokens_generated_total
          average, \* AVG_TOKENS_PER_SECOND_BITS, 0 for none
          gauge,   \* llama_scale_tokens_per_second_avg, 0 while not exported
          scraper, \* where the scrape is
          seen,    \* the average the scrape loaded
          shown    \* the gauge of the last scrape

recorders == <<pc, inst, prev, counter>>
scrape == <<scraper, seen, shown>>
avars == <<recorders, average, gauge, scrape>>

Init ==
    /\ pc = [s \in Stream |-> "open"]
    /\ inst = [s \in Stream |-> 0]
    /\ prev = [s \in Stream |-> 0]
    /\ counter = 0
    /\ average = 0
    /\ gauge = 0
    /\ scraper = "idle"
    /\ seen = 0
    /\ shown = 0

Goto(s, l) == pc' = [pc EXCEPT ![s] = l]

-----------------------------------------------------------------------------
(* record_token_generation.                                                *)

\* A stream that generated nothing goes into the average all the same.
Measured_empty(tokens, secs) == secs # 0

Measured(tokens, secs) == tokens # 0 /\ secs # 0

\* The counter is set to what the last stream generated, as a gauge is.
Count_set(s, tokens, secs) ==
    /\ pc[s] = "open"
    /\ counter' = tokens
    /\ IF Measured(tokens, secs)
       THEN /\ inst' = [inst EXCEPT ![s] = Speed(tokens, secs)]
            /\ Goto(s, "counted")
       ELSE /\ Goto(s, "ended")
            /\ UNCHANGED inst
    /\ UNCHANGED <<prev, average, gauge, scrape>>

\* The counter is incremented in one step; only a stream that took some time
\* goes on to the average.
Count(s, tokens, secs) ==
    /\ pc[s] = "open"
    /\ counter' = counter + tokens
    /\ IF Measured(tokens, secs)
       THEN /\ inst' = [inst EXCEPT ![s] = Speed(tokens, secs)]
            /\ Goto(s, "counted")
       ELSE /\ Goto(s, "ended")
            /\ UNCHANGED inst
    /\ UNCHANGED <<prev, average, gauge, scrape>>

\* The first average starts from nothing instead of from the first speed.
Load_zero(s) ==
    /\ pc[s] = "counted"
    /\ prev' = [prev EXCEPT ![s] = average]
    /\ Goto(s, "loaded")
    /\ UNCHANGED <<inst, counter, average, gauge, scrape>>

Load(s) ==
    /\ pc[s] = "counted"
    /\ prev' = [prev EXCEPT ![s] = IF average = 0 THEN inst[s] ELSE average]
    /\ Goto(s, "loaded")
    /\ UNCHANGED <<inst, counter, average, gauge, scrape>>

\* The weights given the other way round.
Blend_swapped(speed, old) == (4 * speed + old) \div 5

\* TPS_EMA_ALPHA is 0.2.
Blend(speed, old) == (speed + 4 * old) \div 5

Store(s) ==
    /\ pc[s] = "loaded"
    /\ average' = Blend(inst[s], prev[s])
    /\ prev' = [prev EXCEPT ![s] = average']
    /\ Goto(s, "stored")
    /\ UNCHANGED <<inst, counter, gauge, scrape>>

SetGauge(s) ==
    /\ pc[s] = "stored"
    /\ gauge' = prev[s]
    /\ Goto(s, "done")
    /\ UNCHANGED <<inst, prev, counter, average, scrape>>

\* A stream that is cut off is dropped before it records anything.
Abandon(s) ==
    /\ pc[s] = "open"
    /\ Goto(s, "cut")
    /\ UNCHANGED <<inst, prev, counter, average, gauge, scrape>>

-----------------------------------------------------------------------------
(* The handler of /metrics.                                                *)

ScrapeLoad ==
    /\ scraper = "idle"
    /\ seen' = average
    /\ scraper' = "loaded"
    /\ UNCHANGED <<recorders, average, gauge, shown>>

\* The gauge is rendered as the recorders left it.
ScrapeSet_not ==
    /\ scraper = "loaded"
    /\ scraper' = "set"
    /\ UNCHANGED <<recorders, average, gauge, seen, shown>>

ScrapeSet ==
    /\ scraper = "loaded"
    /\ gauge' = IF seen # 0 THEN seen ELSE gauge
    /\ scraper' = "set"
    /\ UNCHANGED <<recorders, average, seen, shown>>

ScrapeRender ==
    /\ scraper = "set"
    /\ shown' = gauge
    /\ scraper' = "idle"
    /\ UNCHANGED <<recorders, average, gauge, seen>>

Update(s) == Load(s) \/ Store(s) \/ SetGauge(s)
Scrape == ScrapeLoad \/ ScrapeSet \/ ScrapeRender

Next ==
    \/ \E s \in Stream :
          \/ \E tokens \in TokenCount, secs \in Duration :
                Count(s, tokens, secs)
          \/ Abandon(s)
          \/ Update(s)
    \/ Scrape

Spec == Init /\ [][Next]_avars

-----------------------------------------------------------------------------
\* The streams whose average was stored.
Stored == {s \in Stream : pc[s] \in {"stored", "done"}}

Within(v, S) == \E a, b \in S : inst[a] <= v /\ v <= inst[b]

PC == {"open", "cut", "ended", "counted", "loaded", "stored", "done"}

\* Types; and a stream that goes on to the average has a speed, and an average
\* to blend it with, that are not zero.
TypeOK ==
    /\ pc \in [Stream -> PC]
    /\ inst \in [Stream -> Nat]
    /\ prev \in [Stream -> Nat]
    /\ counter \in Nat
    /\ average \in Nat
    /\ gauge \in Nat
    /\ scraper \in {"idle", "loaded", "set"}
    /\ seen \in Nat
    /\ shown \in Nat
    /\ \A s \in Stream :
          /\ pc[s] \in {"counted", "loaded", "stored", "done"} => inst[s] # 0
          /\ pc[s] \in {"loaded", "stored"} => prev[s] # 0

\* The bits 0 mean that no stream has stored an average, and nothing else: an
\* average, once there, is never mistaken for none and started anew.
ZeroMeansNone == average = 0 <=> Stored = {}

\* Whatever updates are lost, the average and everything exported of it lie
\* between the slowest and the fastest stream that stored one.
AverageWithin ==
    \A v \in {average, gauge, seen, shown} : v # 0 => Within(v, Stored)

\* Two streams that end together may leave the gauge at the older of their two
\* averages.  Once no stream is recording, the scrapes show the average.
Quiet == \A s \in Stream : pc[s] \in {"cut", "ended", "done"}
StaleGaugeRepaired == [](Quiet => <>(shown = average))
=============================================================================
