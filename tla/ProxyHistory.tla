---------------------------- MODULE ProxyHistory ----------------------------
(***************************************************************************)
(* Proxy with a memory of what happened to each request since it was       *)
(* admitted, for the properties that compare a decision of the router with *)
(* the states the decision was made from.  The memory never changes what   *)
(* the router does.                                                        *)
(***************************************************************************)
EXTENDS Proxy

VARIABLE past  \* past[r]: the memory of request r

(* steady   candidates at every moment since the admission
   tried    backends the request has contacted
   pinned   the pin the lookup found, until some backend is contacted
   quiet    nothing shared has changed since the admission                 *)
NoPast == [steady |-> {}, tried |-> {}, pinned |-> NoBackendId,
           quiet |-> FALSE]

hvars == <<vars, past>>

Candidates(m) == {b \in Backend : IsCandidate(b, m)}

Remembered(r) == pc[r] \in Handling \cup {"answered"}

AtAdmission(r) ==
    [steady |-> Candidates(job[r].model)', tried |-> {},
     pinned |-> NoBackendId, quiet |-> TRUE]

PinnedNow(r) ==
    IF pc[r] = "sort" /\ pc'[r] = "attempt" THEN pin[job[r]]
    ELSE IF pc'[r] = "sent" THEN NoBackendId
    ELSE past[r].pinned

Extended(r) ==
    [steady |-> past[r].steady \cap Candidates(job[r].model)',
     tried |-> past[r].tried \cup ({slot'[r]} \ {NoBackendId}),
     pinned |-> PinnedNow(r),
     quiet |-> past[r].quiet /\ UNCHANGED <<healthy, raw, active, pin>>]

\* Once a request is answered its memory stays as it is until it is over.
Remember ==
    past' = [r \in Request |->
        IF ~Remembered(r)' THEN NoPast
        ELSE IF pc[r] = "idle" THEN AtAdmission(r)
        ELSE IF pc[r] = "answered" THEN past[r]
        ELSE Extended(r)]

HInit == Init /\ past = [r \in Request |-> NoPast]
HNext == Next /\ Remember
HSpec == HInit /\ [][HNext]_hvars

-----------------------------------------------------------------------------
Reserves(r, b) == slot[r] = NoBackendId /\ slot'[r] = b

\* The order a lone request would expect: by tier, then by load, then by
\* position in the configuration.
Before(a, b) ==
    \/ Fallback[a] < Fallback[b]
    \/ Fallback[a] = Fallback[b] /\ active[a] < active[b]
    \/ Fallback[a] = Fallback[b] /\ active[a] = active[b] /\ a < b

\* When nothing shared changed while the list was built, the list is the one
\* the documentation of ordered_candidates describes: the candidates, each
\* once, the pinned one first and the rest in the order above.
QuietOrder ==
    \A r \in Request :
        pc[r] = "attempt" /\ next[r] = 1 /\ past[r].quiet =>
            LET s == order[r]
                all == Candidates(job[r].model)
                p == pin[job[r]]
                first == IF p \in all THEN 2 ELSE 1
            IN  /\ {s[i] : i \in DOMAIN s} = all
                /\ Len(s) = Cardinality(all)
                /\ p \in all => s[1] = p
                /\ \A i, j \in first..Len(s) : i < j => Before(s[i], s[j])

\* "Higher tiers are only used when every backend at a lower tier is unhealthy,
\* saturated, or fails to connect during the request" (README): a request that
\* contacts a backend other than its pinned one has already contacted every
\* backend of a lower tier that was a candidate all the time.
FallbackDiscipline ==
    [][\A r \in Request, b \in Backend :
          Reserves(r, b) /\ b # past[r].pinned =>
              \A c \in past[r].steady \ BadHeader :
                  Fallback[c] < Fallback[b] => c \in past[r].tried]_hvars

\* "A pinned backend is tried first when it is still healthy and not saturated,
\* regardless of its tier" (README): the first backend a request contacts is
\* the one pinned at lookup, if that one was a candidate all the time.
AffinityFirst ==
    [][\A r \in Request, b \in Backend :
          (/\ Reserves(r, b)
           /\ past[r].tried = {}
           /\ past[r].pinned \in past[r].steady \ BadHeader)
          => b = past[r].pinned]_hvars

\* A 503 is never spurious: every backend that was a candidate from admission
\* to answer has been contacted, and gave no answer.
UnavailableJustified ==
    \A r \in Request : answer[r] \in Unavailable =>
        past[r].steady \ BadHeader \subseteq past[r].tried

\* No request contacts a backend a second time, whatever its failures.
ContactOnce ==
    [][\A r \in Request, b \in Backend :
          Reserves(r, b) => b \notin past[r].tried]_hvars

=============================================================================
