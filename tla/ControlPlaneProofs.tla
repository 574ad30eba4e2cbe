------------------------- MODULE ControlPlaneProofs -------------------------
(***************************************************************************)
(* ControlPlane for any number of backends and any lists their upstreams   *)
(* report: the passes overlap only once the server listens, and between    *)
(* refreshes the merged list names only what the cache routing reads has.  *)
(***************************************************************************)
EXTENDS ControlPlane, TLAPS

\* Where each pass may be at each stage of the process.
StageInv ==
    /\ verdict # Pending => probed \in Backend
    /\ ids # Pending => fetched \in Backend
    /\ stage = "probing" => probed # 0 /\ fetched = 0
    /\ stage = "refreshing" => probed = 0 /\ fetched # 0

\* The entries collected so far belong to backends the refresh has passed, and
\* agree with the caches it stored on its way.
CollectedInv ==
    /\ fetched = 0 => infos = {}
    /\ \A e \in infos : e.owner < fetched /\ Serves(e.owner, e.id, raw[e.owner])

Inv == TypeOK /\ StageInv /\ CollectedInv /\ ListedIsServed

-----------------------------------------------------------------------------
\* Backends are positive numbers up to their count.
LEMMA BackendType ==
    /\ NumBackends \in Nat \ {0}
    /\ \A b : b \in Backend <=> b \in Nat /\ b # 0 /\ b <= NumBackends
    BY BackendAssumption DEF Backend

\* What a backend contributes are models it serves with that cache.
LEMMA DisplayServed ==
    ASSUME NEW b \in Backend, NEW list \in SUBSET Model
    PROVE  /\ Display(b, list) \subseteq Model
           /\ \A m \in Display(b, list) : Serves(b, m, list)
    BY BackendAssumption DEF Display, Serves

\* An entry has an id and an owner, and nothing else.
LEMMA EntryFields ==
    ASSUME NEW e \in Entry
    PROVE  /\ e.id \in Model /\ e.owner \in Backend
           /\ e = [id |-> e.id, owner |-> e.owner]
    BY DEF Entry

\* Of two entries with one id, only one can be of the first backend.
LEMMA FirstIsOne ==
    ASSUME NEW entries \in SUBSET Entry, NEW e \in FirstWins(entries),
           NEW f \in FirstWins(entries), e.id = f.id
    PROVE  e = f
<1>1. e \in Entry /\ f \in Entry
    BY DEF FirstWins
<1>2. e.owner <= f.owner /\ f.owner <= e.owner
    BY DEF FirstWins
<1>3. e.owner \in Nat /\ f.owner \in Nat
    BY <1>1, EntryFields, BackendType
<1>4. e.owner = f.owner
    BY <1>2, <1>3
<1> QED BY <1>1, <1>4, EntryFields

\* Nothing is listed or collected when the process starts.
LEMMA InitInv == Init => Inv
<1> SUFFICES ASSUME Init PROVE Inv
    OBVIOUS
<1>1. probed \in 0..NumBackends /\ fetched \in 0..NumBackends + 1
      /\ probed \in Backend
    BY BackendType DEF Init
<1>2. TypeOK
    BY <1>1 DEF Init, TypeOK
<1> QED BY <1>1, <1>2 DEF Init, Inv, StageInv, CollectedInv, ListedIsServed

-----------------------------------------------------------------------------
\* The inductive step.
LEMMA InvStep == Inv /\ [Next]_vars => Inv'
<1> SUFFICES ASSUME Inv, [Next]_vars
             PROVE  Inv'
    OBVIOUS
<1> USE DEF upstream, health, models
<1>0. TypeOK /\ StageInv /\ CollectedInv /\ ListedIsServed
    BY DEF Inv
<1>1. ASSUME NEW b \in Backend, Flip(b) \/ ChangeReport(b)
      PROVE  Inv'
    <2>1. TypeOK'
        BY <1>0, <1>1 DEF Flip, ChangeReport, TypeOK
    <2>2. UNCHANGED <<stage, health, models>>
        BY <1>1 DEF Flip, ChangeReport
    <2> QED BY <1>0, <2>1, <2>2 DEF Inv, StageInv, CollectedInv, ListedIsServed
<1>2. CASE WakeHealth
    <2>1. /\ stage = "serving" /\ probed' = 1 /\ probed' \in Backend
          /\ UNCHANGED <<upstream, stage, healthy, verdict, models>>
        BY <1>2, BackendType DEF WakeHealth
    <2>2. TypeOK'
        BY <1>0, <2>1, BackendType DEF TypeOK
    <2> QED BY <1>0, <2>1, <2>2 DEF Inv, StageInv, CollectedInv, ListedIsServed
<1>3. CASE ProbeAnswered \/ ProbeTimesOut
    <2>1. TypeOK'
        BY <1>0, <1>3 DEF ProbeAnswered, ProbeTimesOut, TypeOK
    <2> QED BY <1>0, <1>3, <2>1 DEF ProbeAnswered, ProbeTimesOut, Inv, StageInv,
                                    CollectedInv, ListedIsServed
<1>4. CASE StoreVerdict
    <2>1. /\ probed \in Backend /\ verdict' = Pending
          /\ healthy' = [healthy EXCEPT ![probed] = (verdict = "up")]
          /\ UNCHANGED <<upstream, raw, published, ids, infos>>
        BY <1>0, <1>4 DEF StoreVerdict, SetHealthy, StageInv
    <2>2. CASE probed < NumBackends
        <3>1. probed' = probed + 1 /\ UNCHANGED <<stage, fetched>>
            BY <1>4, <2>2 DEF StoreVerdict
        <3>2. probed' \in 0..NumBackends /\ probed # 0 /\ probed' # 0
            BY <2>1, <2>2, <3>1, BackendType
        <3>3. TypeOK'
            BY <1>0, <2>1, <3>1, <3>2 DEF TypeOK
        <3> QED BY <1>0, <2>1, <3>1, <3>2, <3>3
                DEF Inv, StageInv, CollectedInv, ListedIsServed
    <2>3. CASE ~(probed < NumBackends) /\ stage = "probing"
        <3>1. /\ probed' = 0 /\ stage' = "refreshing"
              /\ fetched' = 1 /\ fetched = 0
            BY <1>0, <1>4, <2>3 DEF StoreVerdict, StageInv
        <3>2. /\ probed' \in 0..NumBackends
              /\ fetched' \in 0..NumBackends + 1 /\ fetched' \in Backend
            BY <3>1, BackendType
        <3>3. TypeOK'
            BY <1>0, <2>1, <3>1, <3>2 DEF TypeOK
        <3>4. StageInv'
            BY <1>0, <2>1, <3>1, <3>2 DEF StageInv
        <3>5. CollectedInv' /\ ListedIsServed'
            BY <1>0, <2>1, <3>1, <3>2 DEF CollectedInv, ListedIsServed
        <3> QED BY <3>3, <3>4, <3>5 DEF Inv
    <2>4. CASE ~(probed < NumBackends) /\ stage # "probing"
        <3>1. probed' = 0 /\ UNCHANGED <<stage, fetched>> /\ stage = "serving"
            BY <1>0, <1>4, <2>1, <2>4, BackendType
            DEF StoreVerdict, StageInv, TypeOK
        <3>2. probed' \in 0..NumBackends
            BY <3>1, BackendType
        <3>3. TypeOK'
            BY <1>0, <2>1, <3>1, <3>2 DEF TypeOK
        <3> QED BY <1>0, <2>1, <3>1, <3>3
                DEF Inv, StageInv, CollectedInv, ListedIsServed
    <2> QED BY <2>2, <2>3, <2>4
<1>5. CASE WakeRefresh
    <2>1. /\ stage = "serving" /\ fetched = 0 /\ fetched' = 1
          /\ UNCHANGED <<upstream, stage, health, raw, published, ids, infos>>
        BY <1>5 DEF WakeRefresh
    <2>2. fetched' \in 0..NumBackends + 1 /\ fetched' \in Backend
        BY <2>1, BackendType
    <2>3. TypeOK'
        BY <1>0, <2>1, <2>2 DEF TypeOK
    <2> QED BY <1>0, <2>1, <2>2, <2>3
            DEF Inv, StageInv, CollectedInv, ListedIsServed
<1>6. CASE FetchAnswered \/ FetchTimesOut
    <2>1. TypeOK'
        BY <1>0, <1>6 DEF FetchAnswered, FetchTimesOut, TypeOK
    <2> QED BY <1>0, <1>6, <2>1 DEF FetchAnswered, FetchTimesOut, Inv, StageInv,
                                    CollectedInv, ListedIsServed
<1>7. CASE StoreModels
    <2>1. /\ fetched \in Backend /\ fetched' = fetched + 1
          /\ raw' = [raw EXCEPT ![fetched] = ids]
          /\ infos' = infos \cup [id : Display(fetched, ids), owner : {fetched}]
          /\ ids' = Pending
          /\ UNCHANGED <<upstream, stage, health, published>>
        BY <1>0, <1>7 DEF StoreModels, StageInv
    <2>2. ids \in SUBSET Model
        BY <1>0, <1>7, ReportAssumption DEF StoreModels, TypeOK
    <2>3. /\ fetched' \in 0..NumBackends + 1 /\ fetched' # 0 /\ fetched # 0
          /\ fetched \in Nat /\ fetched < fetched'
        BY <2>1, BackendType
    <2>4. [id : Display(fetched, ids), owner : {fetched}] \subseteq Entry
        BY <2>1, <2>2, DisplayServed DEF Entry
    <2>5. TypeOK'
        BY <1>0, <2>1, <2>2, <2>3, <2>4 DEF TypeOK
    <2>6. ASSUME NEW e \in infos'
          PROVE  e.owner < fetched' /\ Serves(e.owner, e.id, raw'[e.owner])
        <3>1. CASE e \in infos
            <4>1. e.owner \in Nat /\ e.owner \in Backend
                BY <1>0, <3>1, EntryFields, BackendType DEF TypeOK
            <4>2. e.owner < fetched /\ Serves(e.owner, e.id, raw[e.owner])
                BY <1>0, <3>1 DEF CollectedInv
            <4>3. raw'[e.owner] = raw[e.owner]
                BY <1>0, <2>1, <2>3, <4>1, <4>2 DEF TypeOK
            <4> QED BY <2>3, <4>1, <4>2, <4>3, <2>1
        <3>2. CASE e \in [id : Display(fetched, ids), owner : {fetched}]
            <4>1. e.owner = fetched /\ e.id \in Display(fetched, ids)
                BY <3>2
            <4>2. raw'[fetched] = ids
                BY <1>0, <2>1 DEF TypeOK
            <4> QED BY <2>1, <2>2, <2>3, <4>1, <4>2, DisplayServed
        <3> QED BY <2>1, <3>1, <3>2
    <2>7. CollectedInv'
        BY <2>3, <2>6 DEF CollectedInv
    <2>8. StageInv' /\ ListedIsServed'
        BY <1>0, <2>1, <2>3 DEF StageInv, ListedIsServed
    <2> QED BY <2>5, <2>7, <2>8 DEF Inv
<1>8. CASE KeepModels
    <2>1. /\ fetched' = fetched + 1 /\ ids' = Pending
          /\ UNCHANGED <<upstream, stage, health, raw, published, infos>>
        BY <1>8 DEF KeepModels
    <2>2. fetched \in Backend
        BY <1>0, <1>8, ReportAssumption DEF KeepModels, StageInv, TypeOK
    <2>3. /\ fetched' \in 0..NumBackends + 1 /\ fetched' # 0 /\ fetched # 0
          /\ fetched \in Nat
        BY <2>1, <2>2, BackendType
    <2>4. TypeOK'
        BY <1>0, <2>1, <2>3 DEF TypeOK
    <2>5. \A e \in infos : e.owner < fetched'
        BY <1>0, <2>1, <2>3, EntryFields, BackendType DEF CollectedInv, TypeOK
    <2> QED BY <1>0, <2>1, <2>3, <2>4, <2>5
            DEF Inv, StageInv, CollectedInv, ListedIsServed
<1>9. CASE Publish
    <2>1. /\ fetched = NumBackends + 1 /\ fetched' = 0
          /\ published' = FirstWins(infos) /\ infos' = {}
          /\ stage' = "serving"
          /\ UNCHANGED <<upstream, health, raw, ids>>
        BY <1>9 DEF Publish
    <2>2. infos \in SUBSET Entry /\ FirstWins(infos) \subseteq infos
        BY <1>0 DEF TypeOK, FirstWins
    <2>3. fetched' \in 0..NumBackends + 1 /\ fetched \notin Backend
        BY <2>1, BackendType
    <2>4. TypeOK'
        BY <1>0, <2>1, <2>2, <2>3 DEF TypeOK
    <2>5. ListedIsServed'
        BY <1>0, <2>1, <2>2, FirstIsOne DEF ListedIsServed, CollectedInv
    <2> QED BY <1>0, <2>1, <2>3, <2>4, <2>5 DEF Inv, StageInv, CollectedInv
<1>10. CASE UNCHANGED vars
    BY <1>0, <1>10 DEF vars, Inv, TypeOK, StageInv, CollectedInv,
                       ListedIsServed
<1> QED BY <1>1, <1>2, <1>3, <1>4, <1>5, <1>6, <1>7, <1>8, <1>9, <1>10 DEF Next

\* Inv holds in every state.
THEOREM Invariance == Spec => []Inv
    BY InitInv, InvStep, PTL DEF Spec

\* All state keeps its type, and the two passes overlap only once the server
\* listens, for any number of backends.
THEOREM TypeCorrect == Spec => []TypeOK
<1>1. Inv => TypeOK
    BY DEF Inv
<1> QED BY <1>1, Invariance, PTL

\* Between two refreshes the merged list names every model once, and only names
\* that the cache routing reads has for their owner, for any number of backends.
THEOREM ListCorrect == Spec => []ListedIsServed
<1>1. Inv => ListedIsServed
    BY DEF Inv
<1> QED BY <1>1, Invariance, PTL

-----------------------------------------------------------------------------
(* What the requests see of the control plane.                             *)

\* Proxy without requests: what is left is what may change around them.
Router == INSTANCE Proxy WITH
    Request <- {}, Bearer <- {}, ApiKey <- {}, Conv <- {},
    KeyMax <- <<>>, Allowed <- <<>>, BadHeader <- {}, AlwaysUp <- {},
    RawModels <- SUBSET Model,
    active <- [b \in Backend |-> 0], keyActive <- [k \in {} |-> 0],
    pin <- [s \in [bearer : {}, model : Model, conv : {}] |-> 0],
    pc <- [r \in {} |-> "idle"], order <- [r \in {} |-> <<>>],
    job <- [r \in {} |-> [bearer |-> "none", model |-> "none",
                          conv |-> "none"]],
    next <- [r \in {} |-> 0], at <- [r \in {} |-> 0],
    slot <- [r \in {} |-> 0], keyed <- [r \in {} |-> FALSE],
    answer <- [r \in {} |-> "none"]

\* Flags and caches as the boot pass finds them.
LEMMA RouterInit == Init => Router!Init
<1> SUFFICES ASSUME Init PROVE Router!Init
    OBVIOUS
<1>1. /\ healthy \in {h \in [Router!Backend -> BOOLEAN] : \A b \in {} : h[b]}
      /\ raw \in [Router!Backend -> SUBSET Model]
    BY DEF Init, Backend, Router!Backend
<1> QED BY <1>1 DEF Router!Init, Router!Backend, Backend, Router!Job,
                    Router!NoJob, Router!NoBackendId

\* A stored verdict is a probe to the router, a stored list is a refresh, and
\* nothing else is seen.
LEMMA RouterStep == Inv /\ [Next]_vars => [Router!Next]_(Router!vars)
<1> SUFFICES ASSUME Inv, [Next]_vars
             PROVE  Router!Next \/ UNCHANGED <<healthy, raw>>
    BY DEF Router!vars, Router!shared, Router!local
<1> USE DEF upstream, health, models
<1>1. CASE StoreVerdict
    <2>1. /\ probed \in Router!Backend /\ raw' = raw
          /\ healthy' = [healthy EXCEPT ![probed] = (verdict = "up")]
        BY <1>1 DEF Inv, StageInv, StoreVerdict, SetHealthy, Backend,
                    Router!Backend
    <2>2. \E ok \in BOOLEAN : healthy' = [healthy EXCEPT ![probed] = ok]
        BY <2>1
    <2>3. Router!ProbeBackend(probed)
        BY <2>1, <2>2 DEF Router!ProbeBackend, Router!local
    <2> QED BY <2>1, <2>3 DEF Router!Next, Router!Environment
<1>2. CASE StoreModels
    <2>1. /\ fetched \in Router!Backend /\ healthy' = healthy
          /\ raw' = [raw EXCEPT ![fetched] = ids] /\ ids \in SUBSET Model
        BY <1>2, ReportAssumption DEF Inv, TypeOK, StageInv, StoreModels,
                    Backend, Router!Backend
    <2>2. Router!RefreshModels(fetched)
        BY <2>1 DEF Router!RefreshModels, Router!local
    <2> QED BY <2>1, <2>2 DEF Router!Next, Router!Environment
<1>3. CASE ~StoreVerdict /\ ~StoreModels
    BY <1>3 DEF Next, Flip, ChangeReport, WakeHealth, ProbeAnswered,
       ProbeTimesOut, WakeRefresh, FetchAnswered, FetchTimesOut, KeepModels,
       Publish, vars
<1> QED BY <1>1, <1>2, <1>3

\* Each step of the two loops, and of the boot, is one that Proxy allows to
\* happen around its requests, or one that requests cannot see.
THEOREM DrivesRouter == Spec => Router!Spec
    BY RouterInit, RouterStep, Invariance, PTL DEF Router!Spec, Spec
=============================================================================
