----------------------------- MODULE ProxyDocs -----------------------------
(***************************************************************************)
(* A sentence about routing that leaves saturation out.  serving[r] are    *)
(* the backends that were up and served the model of request r at every    *)
(* moment since its admission, however many requests they had in flight.   *)
(***************************************************************************)
EXTENDS ProxyHistory

VARIABLE serving

dvars == <<hvars, serving>>

Serving(m) == {b \in Backend : healthy[b] /\ Serves(b, m, raw[b])}

DInit == HInit /\ serving = [r \in Request |-> {}]

DNext ==
    /\ HNext
    /\ serving' = [r \in Request |->
           CASE ~Remembered(r)' -> {}
             [] pc[r] = "idle" /\ pc'[r] # "idle" -> Serving(job[r].model)'
             [] pc[r] = "answered" -> serving[r]
             [] OTHER -> serving[r] \cap Serving(job[r].model)']

DSpec == DInit /\ [][DNext]_dvars

\* What the text of RouteError::NoBackendForModel tells the client: "no healthy
\* backend serves model".  The code also says it when they are saturated.
NoBackendMeansUnhealthy ==
    \A r \in Request : answer[r] = "no_backend" => serving[r] = {}
=============================================================================
