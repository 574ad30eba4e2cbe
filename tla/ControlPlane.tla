---------------------------- MODULE ControlPlane ----------------------------
(***************************************************************************)
(* The control plane (src/health.rs, src/models.rs and the start of        *)
(* src/main.rs): one pass of probes and one refresh of the model lists     *)
(* before the server listens, and from then on a loop of each, running     *)
(* side by side.  Both visit the backends one after the other, and both    *)
(* store what an upstream answered some time after it answered.            *)
(***************************************************************************)
EXTENDS Routing

CONSTANTS Report,  \* what GET /models of an upstream may yield
          Failed,  \* the one that is no list: an error or a timeout
          Pending  \* no outcome yet

ASSUME ReportAssumption ==
    /\ Report \ {Failed} \subseteq SUBSET Model
    /\ Pending \notin Report \cup {Failed}

VARIABLES up,         \* up[b]: upstream b answers a probe in time, with a 2xx
          report,     \* report[b]: what a GET /models of upstream b yields
          stage,      \* what the process is at: its boot, or serving
          healthy,    \* healthy[b]: the flag routing reads
          raw,        \* raw[b]: the cached model ids of b
          published,  \* the merged list: a set of [id, owner]
          probed,     \* the backend check_all is at, 0 when it sleeps
          verdict,    \* the outcome of that probe, once it is known
          fetched,    \* the backend refresh_once is at, 0 when it sleeps
          ids,        \* the outcome of that fetch, once it is known
          infos       \* the entries refresh_once has collected

upstream == <<up, report>>
health == <<healthy, probed, verdict>>
models == <<raw, published, fetched, ids, infos>>
vars == <<upstream, stage, health, models>>

Entry == [id : Model, owner : Backend]

Display(b, list) == IF Aliases[b] # {} THEN Aliases[b] ELSE list

Init ==
    /\ up \in [Backend -> BOOLEAN]
    /\ report \in [Backend -> Report]
    /\ stage = "probing"
    /\ healthy = [b \in Backend |-> FALSE]
    /\ raw = [b \in Backend |-> {}]
    /\ published = {}
    /\ probed = 1 /\ verdict = Pending
    /\ fetched = 0 /\ ids = Pending
    /\ infos = {}

-----------------------------------------------------------------------------
(* The upstreams.                                                          *)

Flip(b) ==
    /\ up' = [up EXCEPT ![b] = ~@]
    /\ UNCHANGED <<report, stage, health, models>>

ChangeReport(b) ==
    /\ \E new \in Report : report' = [report EXCEPT ![b] = new]
    /\ UNCHANGED <<up, stage, health, models>>

-----------------------------------------------------------------------------
(* check_all and its loop.                                                 *)

\* The loop is spawned before the first refresh is over.
WakeHealth_early ==
    /\ probed = 0
    /\ probed' = 1
    /\ UNCHANGED <<upstream, stage, healthy, verdict, models>>

WakeHealth ==
    /\ stage = "serving" /\ probed = 0
    /\ probed' = 1
    /\ UNCHANGED <<upstream, stage, healthy, verdict, models>>

\* The answer to a probe.  An upstream that is not up may answer with an
\* error, or never.
ProbeAnswered ==
    /\ probed \in Backend /\ verdict = Pending
    /\ verdict' = IF up[probed] THEN "up" ELSE "down"
    /\ UNCHANGED <<upstream, stage, healthy, probed, models>>

\* A probe without a timeout.
ProbeTimesOut_never == FALSE

\* The timeout of a probe that was not answered.
ProbeTimesOut ==
    /\ probed \in Backend /\ verdict = Pending /\ ~up[probed]
    /\ verdict' = "down"
    /\ UNCHANGED <<upstream, stage, healthy, probed, models>>

SetHealthy(b, ok) == healthy' = [healthy EXCEPT ![b] = ok]

\* The flag is stored and the pass goes on; after the last backend the loop
\* sleeps, except at boot, when the first refresh follows.
StoreVerdict ==
    /\ verdict # Pending
    /\ SetHealthy(probed, verdict = "up")
    /\ verdict' = Pending
    /\ IF probed < NumBackends
       THEN probed' = probed + 1 /\ UNCHANGED <<stage, fetched>>
       ELSE /\ probed' = 0
            /\ stage' = IF stage = "probing" THEN "refreshing" ELSE stage
            /\ fetched' = IF stage = "probing" THEN 1 ELSE fetched
    /\ UNCHANGED <<upstream, raw, published, ids, infos>>

-----------------------------------------------------------------------------
(* refresh_once and its loop.                                              *)

WakeRefresh ==
    /\ stage = "serving" /\ fetched = 0
    /\ fetched' = 1
    /\ UNCHANGED <<upstream, stage, health, raw, published, ids, infos>>

\* The answer to a GET /models.  An upstream that has no list may answer with
\* an error, or never.
FetchAnswered ==
    /\ fetched \in Backend /\ ids = Pending
    /\ ids' = report[fetched]
    /\ UNCHANGED <<upstream, stage, health, raw, published, fetched, infos>>

\* The timeout of a fetch that was not answered.
FetchTimesOut ==
    /\ fetched \in Backend /\ ids = Pending /\ report[fetched] = Failed
    /\ ids' = Failed
    /\ UNCHANGED <<upstream, stage, health, raw, published, fetched, infos>>

\* The entries are collected from the list cached before this fetch.
StoreModels_before ==
    /\ ids \notin {Pending, Failed}
    /\ raw' = [raw EXCEPT ![fetched] = ids]
    /\ infos' = infos \cup
          [id : Display(fetched, raw[fetched]), owner : {fetched}]
    /\ ids' = Pending
    /\ fetched' = fetched + 1
    /\ UNCHANGED <<upstream, stage, health, published>>

StoreModels ==
    /\ ids \notin {Pending, Failed}
    /\ raw' = [raw EXCEPT ![fetched] = ids]
    /\ infos' = infos \cup [id : Display(fetched, ids), owner : {fetched}]
    /\ ids' = Pending
    /\ fetched' = fetched + 1
    /\ UNCHANGED <<upstream, stage, health, published>>

\* A refresh that gives up the pass at the first upstream that fails.
KeepModels_abort ==
    /\ ids = Failed
    /\ ids' = Pending /\ infos' = {}
    /\ fetched' = 0 /\ stage' = "serving"
    /\ UNCHANGED <<upstream, health, raw, published>>

\* A failed fetch wipes the cached list.
KeepModels_wipe ==
    /\ ids = Failed
    /\ raw' = [raw EXCEPT ![fetched] = {}]
    /\ ids' = Pending
    /\ fetched' = fetched + 1
    /\ UNCHANGED <<upstream, stage, health, published, infos>>

\* The cached list is kept, but adds nothing to this pass.
KeepModels ==
    /\ ids = Failed
    /\ ids' = Pending
    /\ fetched' = fetched + 1
    /\ UNCHANGED <<upstream, stage, health, raw, published, infos>>

\* Of the entries with one id, the one of the first backend.
FirstWins(entries) ==
    {e \in entries : \A f \in entries : f.id = e.id => e.owner <= f.owner}

\* The merged list is published, and after the boot's refresh the server
\* listens.
Publish ==
    /\ fetched = NumBackends + 1
    /\ published' = FirstWins(infos)
    /\ infos' = {}
    /\ fetched' = 0
    /\ stage' = "serving"
    /\ UNCHANGED <<upstream, health, raw, ids>>

Next ==
    \/ \E b \in Backend : Flip(b) \/ ChangeReport(b)
    \/ WakeHealth \/ ProbeAnswered \/ ProbeTimesOut \/ StoreVerdict
    \/ WakeRefresh \/ FetchAnswered \/ FetchTimesOut \/ StoreModels
    \/ KeepModels \/ Publish

Spec == Init /\ [][Next]_vars

\* Each loop is a task: its sleeps end, what comes in is handled and timers go
\* off.  An upstream that is up, or has a list, answers in time; of the others
\* nothing is assumed, so that only the timeout is sure to end the wait.
HealthLoop ==
    \/ WakeHealth \/ StoreVerdict \/ ProbeTimesOut
    \/ ProbeAnswered /\ up[probed]

RefreshLoop ==
    \/ WakeRefresh \/ StoreModels \/ KeepModels \/ Publish \/ FetchTimesOut
    \/ FetchAnswered /\ report[fetched] # Failed

FairSpec == Spec /\ WF_vars(HealthLoop) /\ WF_vars(RefreshLoop)

-----------------------------------------------------------------------------
\* Types; and the two passes overlap only once the server listens.
TypeOK ==
    /\ up \in [Backend -> BOOLEAN]
    /\ report \in [Backend -> Report]
    /\ stage \in {"probing", "refreshing", "serving"}
    /\ healthy \in [Backend -> BOOLEAN]
    /\ raw \in [Backend -> SUBSET Model]
    /\ published \subseteq Entry
    /\ probed \in 0..NumBackends
    /\ verdict \in {Pending, "up", "down"}
    /\ fetched \in 0..NumBackends + 1
    /\ ids \in Report \cup {Pending}
    /\ infos \subseteq Entry
    /\ probed # 0 /\ fetched # 0 => stage = "serving"

\* Between two refreshes the merged list names every model once, and only
\* names that the cache routing reads has for their owner: no entry is older
\* than that cache.  (Whether the owner is healthy is another question.)
ListedIsServed ==
    fetched = 0 => \A e \in published :
        /\ Serves(e.owner, e.id, raw[e.owner])
        /\ \A f \in published : f.id = e.id => f = e

\* The flag follows the upstream: one that stays up is eventually marked up for
\* good, and one that stays down is marked down, whatever the others do, also
\* if they never answer a probe.
HealthFollows ==
    \A b \in Backend :
        /\ <>[]up[b] => <>[]healthy[b]
        /\ <>[](~up[b]) => <>[](~healthy[b])

\* The model cache follows the upstream, whichever of the others fail to answer.
ModelsFollow ==
    \A b \in Backend : \A list \in Report \ {Failed} :
        <>[](report[b] = list) => <>[](raw[b] = list)

\* A failed fetch costs nothing that was known: once an upstream yields one
\* list or fails, and its list is fetched again and again, the cache routing
\* reads holds that list for good.
CacheSurvives ==
    \A b \in Backend : \A list \in Report \ {Failed} :
        /\ <>[](report[b] \in {list, Failed})
        /\ []<>(fetched = b /\ ids = list)
        => <>[](raw[b] = list)
=============================================================================
