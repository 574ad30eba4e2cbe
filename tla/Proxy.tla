------------------------------- MODULE Proxy -------------------------------
(***************************************************************************)
(* The data plane (src/proxy.rs, src/routing.rs): requests that run the    *)
(* proxy handler concurrently and share the counters of the backends, the  *)
(* counters of the API keys, and the session cache.                        *)
(*                                                                         *)
(* One action is one step between two accesses to the shared state, or one *)
(* side of an await.  try_acquire and the drop of its guard are one step   *)
(* each, which ConnGuard shows them to be.  What the environment decides   *)
(* (health, model lists, cache expiry, the upstream's answer, the client   *)
(* hanging up) may happen at any moment.                                   *)
(***************************************************************************)
EXTENDS Routing, FiniteSets

CONSTANTS Request,   \* request slots of the server: each serves one at a time
          Bearer,    \* bearer tokens clients send; one may stand for none
          ApiKey,    \* the configured keys, {} when authentication is off
          Conv,      \* first messages of conversations
          KeyMax,    \* KeyMax[k]: concurrent_requests of k, 0 for unlimited
          Allowed,   \* Allowed[k]: the models the patterns of k match
          BadHeader, \* backends whose api_key is no legal header value
          RawModels, \* the lists of ids a backend may report
          AlwaysUp   \* a bound: backends whose probes never fail, {} for none

ASSUME RequestAssumption == IsFiniteSet(Request)
ASSUME KeyAssumption ==
    /\ ApiKey \subseteq Bearer
    /\ KeyMax \in [ApiKey -> Nat]
    /\ Allowed \in [ApiKey -> SUBSET Model]
ASSUME UpstreamAssumption ==
    /\ BadHeader \subseteq Backend
    /\ RawModels \subseteq SUBSET Model

\* What a request is, to the router.  It is also the session of the request:
\* session_id hashes these three with a zero byte after the first two.  The
\* first contains none, and the third is JSON text, which contains none, or one
\* zero byte, so that the separators can be told from a zero byte in a model.
Job == [bearer : Bearer, model : Model, conv : Conv]
NoJob == [bearer |-> "none", model |-> "none", conv |-> "none"]

VARIABLES healthy,   \* healthy[b]: the flag the health checker stores
          raw,       \* raw[b]: the cached ids of the upstream's models
          active,    \* active[b]: the in-flight counter of backend b
          keyActive, \* keyActive[k]: the in-flight counter of key k
          pin,       \* pin[s]: the backend cached for session s, 0 for none
          pc,        \* pc[r]: where request r is
          job,       \* job[r]: what r asks for
          order,     \* order[r]: its candidate list
          next,      \* next[r]: the backend or list position it works on
          at,        \* at[r]: where the sort holds the element it inserts
          slot,      \* slot[r]: the backend whose guard r owns, 0 for none
          keyed,     \* keyed[r]: r owns a guard of its key
          answer     \* answer[r]: the status the client got

shared == <<healthy, raw, active, keyActive, pin>>
local == <<pc, job, order, next, at, slot, keyed, answer>>
vars == <<shared, local>>

PC == {"idle", "scan", "sort", "attempt", "sent", "stream",
       "closing", "dropped", "answered"}

Refusal == {"bad_request", "unauthorized", "forbidden", "rate_limited"}
Unavailable == {"no_backend", "all_failed"}
Answer == Refusal \cup Unavailable \cup {"none", "success", "upstream_error"}

Goto(r, l) == pc' = [pc EXCEPT ![r] = l]

Init ==
    /\ healthy \in {h \in [Backend -> BOOLEAN] : \A b \in AlwaysUp : h[b]}
    /\ raw \in [Backend -> RawModels]
    /\ active = [b \in Backend |-> 0]
    /\ keyActive = [k \in ApiKey |-> 0]
    /\ pin = [s \in Job |-> NoBackendId]
    /\ pc = [r \in Request |-> "idle"]
    /\ job = [r \in Request |-> NoJob]
    /\ order = [r \in Request |-> <<>>]
    /\ next = [r \in Request |-> 0]
    /\ at = [r \in Request |-> 0]
    /\ slot = [r \in Request |-> NoBackendId]
    /\ keyed = [r \in Request |-> FALSE]
    /\ answer = [r \in Request |-> "none"]

AuthEnabled == ApiKey # {}
Authenticated(j) == AuthEnabled => j.bearer \in ApiKey
Permitted(j) == AuthEnabled => j.model \in Allowed[j.bearer]
KeyFull(k) == Full(keyActive[k], KeyMax[k])

-----------------------------------------------------------------------------
(* Before routing: the auth middleware and the checks of the handler.      *)

Refuse(r, status) ==
    /\ pc[r] = "idle"
    /\ Goto(r, "answered")
    /\ answer' = [answer EXCEPT ![r] = status]
    /\ UNCHANGED <<shared, job, order, next, at, slot, keyed>>

Unauthorized(r, j) == ~Authenticated(j) /\ Refuse(r, "unauthorized")

\* An unknown path, a body that is not JSON, or no model in it.
BadRequest(r, j) == Authenticated(j) /\ Refuse(r, "bad_request")

Forbidden(r, j) ==
    Authenticated(j) /\ ~Permitted(j) /\ Refuse(r, "forbidden")

RateLimited(r, j) ==
    /\ AuthEnabled /\ Authenticated(j) /\ Permitted(j)
    /\ KeyFull(j.bearer)
    /\ Refuse(r, "rate_limited")

\* The key's slot is taken, when there is a key, and routing begins.
Admit(r, j) ==
    /\ pc[r] = "idle"
    /\ Authenticated(j) /\ Permitted(j)
    /\ AuthEnabled => ~KeyFull(j.bearer)
    /\ keyActive' = IF AuthEnabled
                    THEN [keyActive EXCEPT ![j.bearer] = @ + 1]
                    ELSE keyActive
    /\ keyed' = [keyed EXCEPT ![r] = AuthEnabled]
    /\ job' = [job EXCEPT ![r] = j]
    /\ next' = [next EXCEPT ![r] = 1]
    /\ Goto(r, "scan")
    /\ UNCHANGED <<healthy, raw, active, pin, order, at, slot, answer>>

-----------------------------------------------------------------------------
(* ordered_candidates: filter, sort, move the pinned backend to the front. *)

IsCandidate(b, m) == Candidate(healthy[b], active[b], b, m, raw[b])

Scan(r) ==
    /\ pc[r] = "scan" /\ next[r] \in Backend
    /\ order' = IF IsCandidate(next[r], job[r].model)
                THEN [order EXCEPT ![r] = Append(@, next[r])]
                ELSE order
    /\ next' = [next EXCEPT ![r] = @ + 1]
    /\ UNCHANGED <<shared, pc, job, at, slot, keyed, answer>>

\* The drop of the request's key guard, if it has one.
GiveBackKey(r) ==
    /\ keyActive' = IF keyed[r]
                    THEN [keyActive EXCEPT ![job[r].bearer] = @ - 1]
                    ELSE keyActive
    /\ keyed' = [keyed EXCEPT ![r] = FALSE]

\* The handler is over, and the candidate list with it.
Leave(r, l) ==
    /\ Goto(r, l)
    /\ order' = [order EXCEPT ![r] = <<>>]
    /\ next' = [next EXCEPT ![r] = 0]

\* The handler returns an error, dropping the key's guard.
Fail(r, status) ==
    /\ Leave(r, "answered")
    /\ answer' = [answer EXCEPT ![r] = status]
    /\ GiveBackKey(r)
    /\ UNCHANGED <<healthy, raw, active, pin, job, at, slot>>

NoBackend(r) ==
    /\ pc[r] = "scan" /\ next[r] \notin Backend /\ order[r] = <<>>
    /\ Fail(r, "no_backend")

\* The sort of short slices is an insertion sort: the head is sorted, and the
\* second element is the first to be inserted.
StartSort(r) ==
    /\ pc[r] = "scan" /\ next[r] \notin Backend /\ order[r] # <<>>
    /\ next' = [next EXCEPT ![r] = 2]
    /\ at' = [at EXCEPT ![r] = 2]
    /\ Goto(r, "sort")
    /\ UNCHANGED <<shared, job, order, slot, keyed, answer>>

\* The element being inserted is less than the one before it, the counters
\* being read anew for every comparison.
Precedes(r) ==
    at[r] > 1 /\ Less(order[r][at[r]], order[r][at[r] - 1], active)

Sorting(r) == pc[r] = "sort" /\ next[r] <= Len(order[r])

Sift(r) ==
    /\ Sorting(r) /\ Precedes(r)
    /\ order' = [order EXCEPT ![r] = Swap(@, at[r], at[r] - 1)]
    /\ at' = [at EXCEPT ![r] = @ - 1]
    /\ UNCHANGED <<shared, pc, job, next, slot, keyed, answer>>

Settle(r) ==
    /\ Sorting(r) /\ ~Precedes(r)
    /\ next' = [next EXCEPT ![r] = @ + 1]
    /\ at' = [at EXCEPT ![r] = next[r] + 1]
    /\ UNCHANGED <<shared, pc, job, order, slot, keyed, answer>>

\* The pinned backend's index taken for its position in the list.
PinPosition_index(r) == IF pin[job[r]] \in DOMAIN order[r]
                        THEN pin[job[r]] ELSE 1

PinPosition(r) ==
    IF \E i \in DOMAIN order[r] : order[r][i] = pin[job[r]]
    THEN Position(order[r], pin[job[r]])
    ELSE 1

\* A pin that is no candidate (or is none) leaves the list as it is.
Lookup(r) ==
    /\ pc[r] = "sort" /\ next[r] > Len(order[r])
    /\ order' = [order EXCEPT ![r] = MoveToFront(@, PinPosition(r))]
    /\ next' = [next EXCEPT ![r] = 1]
    /\ at' = [at EXCEPT ![r] = 0]
    /\ Goto(r, "attempt")
    /\ UNCHANGED <<shared, job, slot, keyed, answer>>

-----------------------------------------------------------------------------
(* The loop over the candidates, and forward_once.                         *)

Trying(r) == pc[r] = "attempt" /\ next[r] <= Len(order[r])
Current(r) == order[r][next[r]]
BackendFull(b) == Full(active[b], MaxConn[b])

TakeSlot(r, b) ==
    /\ active' = [active EXCEPT ![b] = @ + 1]
    /\ slot' = [slot EXCEPT ![r] = b]

GiveBackSlot(r) ==
    /\ active' = [active EXCEPT ![slot[r]] = @ - 1]
    /\ slot' = [slot EXCEPT ![r] = NoBackendId]

\* Waiting for a full backend instead of failing over.
Skip_wait(r) ==
    /\ Trying(r)
    /\ Current(r) \in BadHeader \/ BackendFull(Current(r))
    /\ next' = [next EXCEPT ![r] = IF Current(r) \in BadHeader THEN @ + 1
                                                               ELSE @]
    /\ UNCHANGED <<shared, pc, job, order, at, slot, keyed, answer>>

\* forward_once fails before it owns a slot: the backend's own header cannot
\* be built, or it filled up since the pre-screen.
Skip(r) ==
    /\ Trying(r)
    /\ Current(r) \in BadHeader \/ BackendFull(Current(r))
    /\ next' = [next EXCEPT ![r] = @ + 1]
    /\ UNCHANGED <<shared, pc, job, order, at, slot, keyed, answer>>

Reserve(r) ==
    /\ Trying(r)
    /\ Current(r) \notin BadHeader /\ ~BackendFull(Current(r))
    /\ TakeSlot(r, Current(r))
    /\ Goto(r, "sent")
    /\ UNCHANGED <<healthy, raw, keyActive, pin, job, order, next, at, keyed,
                   answer>>

\* The attempt's guard survives the failed attempt.
NoAnswer_leak(r) ==
    /\ pc[r] = "sent"
    /\ slot' = [slot EXCEPT ![r] = NoBackendId]
    /\ next' = [next EXCEPT ![r] = @ + 1]
    /\ Goto(r, "attempt")
    /\ UNCHANGED <<shared, job, order, at, keyed, answer>>

\* A failed attempt that starts over on the same backend.
NoAnswer_again(r) ==
    /\ pc[r] = "sent"
    /\ GiveBackSlot(r)
    /\ Goto(r, "attempt")
    /\ UNCHANGED <<healthy, raw, keyActive, pin, job, order, next, at, keyed,
                   answer>>

\* No response came: the connection failed, or the header timeout fired.
NoAnswer(r) ==
    /\ pc[r] = "sent"
    /\ GiveBackSlot(r)
    /\ next' = [next EXCEPT ![r] = @ + 1]
    /\ Goto(r, "attempt")
    /\ UNCHANGED <<healthy, raw, keyActive, pin, job, order, at, keyed, answer>>

\* The key's guard is not attached to the body and ends with the handler.
Respond_detached(r, success) ==
    /\ pc[r] = "sent"
    /\ pin' = IF success THEN [pin EXCEPT ![job[r]] = slot[r]] ELSE pin
    /\ answer' = [answer EXCEPT ![r] = IF success THEN "success"
                                                  ELSE "upstream_error"]
    /\ Leave(r, "stream")
    /\ GiveBackKey(r)
    /\ UNCHANGED <<healthy, raw, active, job, at, slot>>

\* Headers came, of whatever status: both guards now belong to the body.
Respond(r, success) ==
    /\ pc[r] = "sent"
    /\ pin' = IF success THEN [pin EXCEPT ![job[r]] = slot[r]] ELSE pin
    /\ answer' = [answer EXCEPT ![r] = IF success THEN "success"
                                                  ELSE "upstream_error"]
    /\ Leave(r, "stream")
    /\ UNCHANGED <<healthy, raw, active, keyActive, job, at, slot, keyed>>

Exhausted(r) ==
    /\ pc[r] = "attempt" /\ next[r] > Len(order[r])
    /\ Fail(r, "all_failed")

-----------------------------------------------------------------------------
(* The end of a request.  Two guards are dropped one after the other.      *)

\* The client hangs up while the handler waits for headers (the handler's
\* future is dropped), or the upstream's stream ends and the inner generator
\* completes: the backend's guard goes first.
LoseSlot(r) ==
    /\ pc[r] \in {"sent", "stream"}
    /\ GiveBackSlot(r)
    /\ Leave(r, "closing")
    /\ UNCHANGED <<healthy, raw, keyActive, pin, job, at, keyed, answer>>

\* The body is dropped unfinished (the client hangs up, or the stream reports
\* an error): the outer generator's guard, the key's, goes first.
DropBody(r) ==
    /\ pc[r] = "stream"
    /\ GiveBackKey(r)
    /\ Goto(r, "dropped")
    /\ UNCHANGED <<healthy, raw, active, pin, job, order, next, at, slot,
                   answer>>

Reset(r) ==
    /\ Goto(r, "idle")
    /\ job' = [job EXCEPT ![r] = NoJob]
    /\ answer' = [answer EXCEPT ![r] = "none"]
    /\ UNCHANGED <<healthy, raw, pin, order, next, at>>

DropKey(r) ==
    /\ pc[r] = "closing"
    /\ GiveBackKey(r)
    /\ Reset(r)
    /\ UNCHANGED <<active, slot>>

\* The end of the inner generator gives the key's slot back once more.
DropSlot_both(r) ==
    /\ pc[r] = "dropped"
    /\ GiveBackSlot(r)
    /\ Reset(r)
    /\ keyActive' = IF AuthEnabled
                    THEN [keyActive EXCEPT ![job[r].bearer] = @ - 1]
                    ELSE keyActive
    /\ UNCHANGED keyed

DropSlot(r) ==
    /\ pc[r] = "dropped"
    /\ GiveBackSlot(r)
    /\ Reset(r)
    /\ UNCHANGED <<keyActive, keyed>>

Close(r) ==
    /\ pc[r] = "answered"
    /\ Reset(r)
    /\ UNCHANGED <<active, slot, keyActive, keyed>>

-----------------------------------------------------------------------------
(* What changes around the requests.                                       *)

\* The health checker stores the outcome of a probe.
ProbeBackend(b) ==
    /\ b \notin AlwaysUp
    /\ \E up \in BOOLEAN : healthy' = [healthy EXCEPT ![b] = up]
    /\ UNCHANGED <<raw, active, keyActive, pin, local>>

\* The models refresh stores the ids an upstream reported.
RefreshModels(b) ==
    /\ \E ids \in RawModels : raw' = [raw EXCEPT ![b] = ids]
    /\ UNCHANGED <<healthy, active, keyActive, pin, local>>

\* An entry of the session cache expires, or is evicted or not admitted.
ForgetPin(s) ==
    /\ pin' = [pin EXCEPT ![s] = NoBackendId]
    /\ UNCHANGED <<healthy, raw, active, keyActive, local>>

Arrive(r, j) ==
    \/ Unauthorized(r, j) \/ BadRequest(r, j) \/ Forbidden(r, j)
    \/ RateLimited(r, j) \/ Admit(r, j)

\* The steps the router takes by itself once it has admitted a request.
Route(r) ==
    \/ Scan(r) \/ NoBackend(r) \/ StartSort(r) \/ Sift(r) \/ Settle(r)
    \/ Lookup(r) \/ Skip(r) \/ Reserve(r) \/ Exhausted(r)

\* The header timeout sees to it that one of them comes.
Headers(r) == NoAnswer(r) \/ \E success \in BOOLEAN : Respond(r, success)

Finish(r) == LoseSlot(r) \/ DropBody(r)

Release(r) == DropKey(r) \/ DropSlot(r) \/ Close(r)

Environment ==
    \/ \E b \in Backend : ProbeBackend(b) \/ RefreshModels(b)
    \/ \E s \in Job : ForgetPin(s)

Next ==
    \/ \E r \in Request :
          \/ \E j \in Job : Arrive(r, j)
          \/ Route(r) \/ Headers(r) \/ Finish(r) \/ Release(r)
    \/ Environment

Spec == Init /\ [][Next]_vars

\* A task that can run is eventually polled, and every attempt has a header
\* timeout.  Nothing makes a stream end, a client arrive or hang up.
Fairness == \A r \in Request :
    WF_vars(Route(r)) /\ WF_vars(Headers(r)) /\ WF_vars(Release(r))

FairSpec == Spec /\ Fairness

-----------------------------------------------------------------------------
(* Who holds what.                                                         *)

Users(b) == {r \in Request : slot[r] = b}
Keyholders(k) == {r \in Request : keyed[r] /\ job[r].bearer = k}

\* Requests in the handler after their admission, before their answer.
Handling == {"scan", "sort", "attempt", "sent"}

\* Types of the shared counters, the caches, and every request's locals; in
\* particular no counter goes below zero.
TypeOK ==
    /\ healthy \in [Backend -> BOOLEAN]
    /\ raw \in [Backend -> RawModels]
    /\ active \in [Backend -> Nat]
    /\ keyActive \in [ApiKey -> Nat]
    /\ pin \in [Job -> Backend \cup {NoBackendId}]
    /\ pc \in [Request -> PC]
    /\ job \in [Request -> Job \cup {NoJob}]
    /\ order \in [Request -> Seq(Backend)]
    /\ next \in [Request -> Nat]
    /\ at \in [Request -> Nat]
    /\ slot \in [Request -> Backend \cup {NoBackendId}]
    /\ keyed \in [Request -> BOOLEAN]
    /\ answer \in [Request -> Answer]

\* Every counter equals the number of requests that own a guard of it, whatever
\* the interleaving of admissions, failovers, hang-ups and stream ends; and a
\* request that is over owns none, so that no path loses a slot for good.
SlotsExact ==
    /\ \A b \in Backend : active[b] = Cardinality(Users(b))
    /\ \A k \in ApiKey : keyActive[k] = Cardinality(Keyholders(k))
    /\ \A r \in Request : pc[r] \in {"idle", "answered"} =>
          slot[r] = NoBackendId /\ ~keyed[r]

\* The key's slot "is held for as long as the body is being streamed" (the
\* comment on attach_key_guard): a key with limit n never has more than n
\* requests that use a backend, except those whose bodies are being dropped.
KeyLimitsBackendUse ==
    \A k \in ApiKey : KeyMax[k] > 0 =>
        Cardinality({r \in Request : /\ slot[r] # NoBackendId
                                     /\ job[r].bearer = k
                                     /\ pc[r] # "dropped"}) <= KeyMax[k]

\* The list a request works through names no backend twice, and all of it but
\* its head (the pinned backend, possibly) is ordered by tier, even when other
\* requests change the counters in the middle of the sort.
CandidatesInOrder ==
    \A r \in Request : pc[r] \in {"attempt", "sent"} =>
        \A i, j \in DOMAIN order[r] : i < j =>
            /\ order[r][i] # order[r][j]
            /\ i > 1 => Fallback[order[r][i]] <= Fallback[order[r][j]]

\* The counters of the backends implement bounded pools, and so do the
\* counters of the keys: no backend and no key is ever oversubscribed, and only
\* the owner of a slot gives it back.
BackendPools == INSTANCE Slots WITH Client <- Request, Pool <- Backend,
    Cap <- MaxConn, holders <- [b \in Backend |-> Users(b)]
KeyPools == INSTANCE Slots WITH Client <- Request, Pool <- ApiKey,
    Cap <- KeyMax, holders <- [k \in ApiKey |-> Keyholders(k)]

ImplementsBackendPools == BackendPools!Spec
ImplementsKeyPools == KeyPools!Spec

\* Every admitted request leaves the handler: a full, dead or silent candidate
\* is given up after a bounded wait, and the list is finite.
EveryRequestAnswered ==
    \A r \in Request : pc[r] \in Handling ~> pc[r] \notin Handling
=============================================================================
