# llama-scale in TLA+

llama-scale is an OpenAI-compatible router: it accepts `/v1/*` requests, finds
the backends that serve the requested model, forwards the request to one of them
(failing over to the next when no response comes), and streams the answer back.
This directory models its concurrent core, its streams, its metrics and its
access rules, checks them with TLC on small instances and proves most of the
safety results with TLAPS for every value of the constants. Line numbers are
those of `src/src/*.rs`.

## 1. The system

### Components, their state and operations

| component | source | state | operations |
|---|---|---|---|
| connection guards | `proxy.rs` 20-57 | an `AtomicU64` per backend and per API key; one guard per owner | `try_acquire` (load, compare-exchange loop), `drop` (`fetch_sub`) |
| routing | `routing.rs`, `state.rs` 71-115 | none of its own; reads health flags, counters, model caches, session cache | `session_id`, `healthy_candidates`, `sort_by_fallback_and_connections`, `ordered_candidates` |
| proxy handler | `proxy.rs` 138-452 | locals of the request's future, the two guards, then the body's generators | admission checks, candidate loop, `forward_once`, body streaming, `attach_key_guard` |
| authentication, keys | `auth.rs`, `state.rs` 14-23, `config.rs` 108-175 | the key map (immutable), `ApiKeyInfo.active` | `require_api_key`, `require_admin`, `bearer_token`, `model_allowed` |
| session cache | `state.rs` 205-208 (moka) | session hash to backend index | `get`, `insert`, expiry by TTL, eviction |
| health checks | `health.rs` | `Backend.healthy` | `probe_backend`, `check_all`, the loop |
| model lists | `models.rs` | `Backend.raw_models`, the merged list | `fetch_models`, `refresh_once`, the loop, `render` |
| start-up | `main.rs` 76-180 | the tasks | boot pass, spawn of the loops, listening |
| stream body timeouts | `proxy.rs` 302-433 | deadline and idle timeout of one attempt, a buffer of what arrived | the wait for headers, the loop of the inner generator |
| metrics, token tracker | `metrics.rs`, `proxy.rs` 341-430 | token counter, the average's bits, the gauge, the line buffer of a stream | `observe_chunk`, `finish`, `record_token_generation`, the scrape |
| configuration | `config.rs` | immutable after the start | parse, expand, validate, `api_key_map` |
| access log, errors | `access_log.rs`, `error.rs` | none | one line per response, with the user a handler attached to it |

### Interactions

Every request is a task of a multi-threaded runtime, so handlers interleave at
every access to shared state, not only at awaits. They share the backends'
counters, the keys' counters and the session cache, and read flags and model
caches that two background tasks write. A handler talks to an upstream over HTTP
and can be dropped at any await: by the client hanging up before the headers
came, or by the server dropping the body afterwards. What outlives the handler
is the body, two nested generators that own one guard each.

### What is hard here

* Three threads in the compare-exchange loop and a drop between their steps.
* `ordered_candidates` reads one flag, one counter or one cache at a time, and
  its sort reads *live* counters in every comparison, so that the comparison is
  not an order.
* A slot seen free by the pre-screen may be gone when it is reserved.
* Each failure path must release exactly the guards it owns, wherever it leaves.
* The key's guard moves from the handler into the body; which guard is dropped
  first depends on how the body ends.
* Flags, caches and the merged list are each written at their own moment, after
  an await.
* Liveness rests on timeouts only: there is no retry bound except the length of
  the list, and no bound on a stream unless one is configured.
* Two stream limits share one timer, which is armed and read only while the
  client reads; the clock moves between the check of the deadline and the
  computation of the wait.
* The network cuts a body anywhere, within lines and within characters, and a
  stream can end in four ways of which one records its tokens.
* The moving average is loaded and stored apart, and the value 0 has a meaning
  of its own in it.
* The same pattern decides what is listed and what is forwarded, in two files;
  keys come as a list or a map, and only values are expanded from the
  environment.

`PROJECT.json` lists these as hazards, line by line, with the properties that
cover them and a note on the three that no property covers.

### What makes each component correct

* Guards: the counter equals the live guards, never exceeds the limit, refusal
  only when full, and the loop is lock-free.
* Routing: no candidate twice, tiers in order, the documented list when nothing
  interferes, the pinned backend first if it stays a candidate.
* Handler: no slot lost or given back twice on any path, no backend or key
  oversubscribed, a key's slot covers its stream, a higher tier only after the
  lower one, no spurious 503, every request leaves the handler.
* Control plane: flags and caches follow the upstreams, one upstream never
  starves another even if it never answers, a failed fetch costs nothing that
  was known, the merged list advertises only names that the cache has.
* Streams: an idle timeout means silence, at most one chunk passes after the
  deadline, a polled body with a limit ends.
* Metrics: the count hardly depends on where chunks end, no end of a stream is
  counted twice or lost, the average stays within the speeds it averages.
* Access: only the holder of a key that allows the model is routed, every
  written key that can be sent works, list and permission agree, the log names
  the right user.

## 2. The modules

| module | what it is | extends |
|---|---|---|
| `Slots` | abstract: a family of bounded pools, who holds a slot of which | |
| `ConnGuard` | `try_acquire`/`drop` at the grain of atomic operations | |
| `ConnGuardProofs` | its invariants and its refinement of `Slots`, proved | `ConnGuard` |
| `Routing` | configuration of the backends, pure operators of routing | |
| `Proxy` | the data plane: all requests, counters, session cache | `Routing` |
| `ProxyProofs` | exact counters, key limits, both refinements of `Slots`, proved | `Proxy` |
| `ProxyHistory` | `Proxy` with a memory of each request, for decisions judged by past states | `Proxy` |
| `ProxyDocs` | a sentence of an error message the code does not keep | `ProxyHistory` |
| `ProxyHistoryProofs` | the order of the candidate list and the rules of failover, proved over that memory | `ProxyHistory`, `ProxyProofs` |
| `ControlPlane` | boot pass, health loop, refresh loop, upstreams that change | `Routing` |
| `ControlPlaneProofs` | types, the merged list, and that the loops implement the environment of `Proxy`, proved | `ControlPlane` |
| `StreamBody` | one attempt in discrete time, from the request to the end of the body | |
| `StreamBodyProofs` | its safety properties, proved | `StreamBody` |
| `StreamBodyDocs` | a sentence on the total timeout the code does not keep | `StreamBody` |
| `TokenTracker` | counting the tokens of a body cut into chunks, pure operators | |
| `TokenAverage` | counter, average and gauge at the grain of atomic accesses | |
| `TokenMetrics` | composes the two: streams whose chunks are observed and whose end is recorded | `TokenAverage`, `TokenTracker` |
| `TokenTrackerProofs` | lemmas: induction, folds and sums; what a tracker has counted after any part of a body | `TokenMetrics` |
| `TokenMetricsProofs` | the safety properties of average, streams and counter, proved | `TokenTrackerProofs` |
| `Access` | configuration of keys, middleware, router table, handlers, access log | |
| `AccessProofs` | its four properties, proved | `Access` |
| `MC*` | the instances for TLC | |

The two levels compose through `Slots`. `ConnGuard` implements one bounded pool,
in which taking and giving back a slot are single steps; that is why `Proxy` may
take `try_acquire` and `drop` as one step each. `Proxy` in turn implements one
pool per backend and one per key at the same time.

The parts of a request meet at their ends. `Access` ends where `Proxy` begins
its routing: what `Proxy` takes as `Authenticated` and `Permitted` is computed
there from texts. `StreamBody` looks into one attempt of `Proxy`, from `Reserve`
to the release of the guards; its `HeaderWaitEnds` is what lets `Proxy` assume
that `Headers` comes. `TokenMetrics` looks at the same generator for what it
counts. `ControlPlane` is the environment of `Proxy`: `ControlPlaneProofs` shows
that each of its steps is one `Proxy` allows there.

### ConnGuard and the code

`active` is the `AtomicU64`, `cur` the local of the loop, `pc` the place of a
thread. `Load` is line 33 with the early return of 34-36; `CasOk` and `CasFail`
are the two outcomes of `compare_exchange_weak`, which may fail spuriously;
`Drop` is the `fetch_sub`. `SaturatingAdd` and `WrappingSub` keep the width of
the integer (`MaxU64`).

### Proxy and the code

| action | code |
|---|---|
| `Unauthorized`, `BadRequest`, `Forbidden`, `RateLimited` | the early returns of `require_api_key` and `proxy` 146-187 |
| `Admit` | the key's slot is taken (174-187), routing starts |
| `Scan` | `healthy_candidates` looks at one backend |
| `NoBackend` | the empty list, 197-199; the key's guard is dropped |
| `StartSort`, `Sift`, `Settle` | insertion sort, one comparison per step |
| `Lookup` | the session cache is read, the pinned backend moved to the front |
| `Skip` | `forward_once` returns before it owns a slot (bad header, full) |
| `Reserve` | `try_acquire` on the backend, the request is sent |
| `NoAnswer` | `send` failed or the header timeout fired: guard dropped, next candidate |
| `Respond` | headers came: pin on 2xx, both guards move into the body |
| `Exhausted` | all candidates failed, 250-252 |
| `LoseSlot`, `DropBody`, `DropKey`, `DropSlot`, `Close` | the ends of a request, one guard dropped per step |
| `ProbeBackend`, `RefreshModels`, `ForgetPin` | what changes flags, caches and pins at any moment |

A request that ends becomes idle and its slot serves another one.

The grain, and what is abstracted:

* Looking at one backend in `healthy_candidates` is one step (flag, counter and
  cache), and so is one comparison of the sort (two counters); different
  backends and different comparisons are separate steps.
* The standard library sorts short slices (up to 20) by insertion; longer lists
  are outside the model.
* A session is the triple its hash is taken from (key, model, first messages). A
  header value contains no zero byte; a model name may, decoded from an escape,
  but what follows its separator is JSON text, which has none, or one zero byte.
  So the second separator is found from the end and the first from the
  beginning: distinct triples have distinct pre-images. Collisions of the hash
  are not modelled.
* Expiry, eviction and refused admission of a session entry are `ForgetPin`.
* The upstream's status matters as success or not, since that decides the pin.
* Header and body contents, URLs and log lines are left out.

### ControlPlane and the code

`probed`/`verdict` and `fetched`/`ids` are where the two loops are and what the
current answer was; an answer is decided (`ProbeAnswered`, `FetchAnswered`) and
stored (`StoreVerdict`, `StoreModels`) in different steps, so that the upstream
can change between them. An upstream that is not up, or has no list, may answer
with an error or never; `ProbeTimesOut` and `FetchTimesOut` are the timers of
the two requests. `KeepModels` is the branch of a failed fetch: the cache stays,
the pass goes on, and the backend adds nothing to this list. `stage` is the
boot: all probes, one refresh, then both loops and the listener. `Publish`
deduplicates by model id, the first backend of the configuration winning. `Flip`
and `ChangeReport` are the upstreams.

`Proxy` lets flags and lists change at any moment to any value, which includes
everything `ControlPlane` does (`DrivesRouter`).

### StreamBody and the code

| action | code |
|---|---|
| `Request` | the start is taken (302), from which the deadline is counted (334); the request is sent under `timeout_secs` |
| `Headers`, `NoHeaders`, `SendFails` | the three outcomes of that wait (313-327): an answer, the timer, a connection that fails |
| `Check`, `Arm` | the test of the deadline at the top of the loop, then the wait computed from a second reading of the clock |
| `PassOn`, `End`, `UpstreamError`, `Expire` | the outcomes of the wait: a chunk, the end, an error, the timer |
| `CloseFailed` | the server drops a body that yielded an error |
| `HangUp`, `StopReading`, `ReadAgain` | the client |
| `Send`, `Finish`, `Stall` | the upstream |
| `Tick` | time passes |

Time is kept as what is *left* of each limit, so that the state is finite
without a bound on the clock. A tick may come between any two steps: no property
rests on a task being woken promptly. `PassOn` comes before `Expire` when
something has arrived, since `tokio::time::timeout` polls its future before its
timer; this is why a chunk may pass after the deadline, and why at most one may.
The body's bytes do not matter here.

### TokenTracker, TokenAverage, TokenMetrics and the code

A body is a sequence of atoms, the places where a chunk may end: what opens and
closes a line's JSON, the bytes of a text, a text of none, a usage, the end of a
line. `ByteOf` says which byte of how many of its character an atom is; a
character of two, three or four bytes is as many atoms. `Lossy` is
`from_utf8_lossy` on one chunk: of a character that is not whole in it, the
bytes from its first on become one U+FFFD together ("replaced", then "merged"),
and every byte that comes without the first becomes one of its own. `Feed` is
the splitting of `line_buf` into lines, `ObserveLine` the reading of one line (a
value without content or text changes nothing, `HasText`), `FinishTracker` the
rest at the end. `Lines`, `Estimate` and `Reported` are the reference: they read
the whole body at once.

`Count` is the increment of the counter, `Load`, `Store` and `SetGauge` the
three accesses to the average and the gauge, each a step; `ScrapeLoad`,
`ScrapeSet`, `ScrapeRender` are those of `/metrics`. Speeds and averages are
naturals of a small unit: the rounding of the blend (`Blend`, one fifth new) is
downwards, which the properties do not notice. `Complete` is an end the upstream
made, `Cut` every other one, which never reaches the lines that record.

### Access and the code

| definition | code |
|---|---|
| `Value`, `Expand`, `Allowed`, `Expands`, `Validates`, `ApiKeyMap` | `config.rs`: variables in string values (items of a list, ids, patterns, admin token), validation, the key map |
| `BearerToken`, `IsPublic`, `IsAdmin`, `Passes`, `Holder` | `auth.rs`: header, path classes, the middleware's decision, the entry it attaches |
| `Routes`, `HandlerLines` | `main.rs`: the router table, with the method fallback and the proxy as the fallback route |
| `Render` | `models.rs`: the merged list filtered for a key |
| `ProxyLines`, `HandledLines` | `proxy.rs`: the body is read or refused as too large; the checks before routing, in their order |
| `Line`, `Named`, `Plain` | `access_log.rs`: what is logged of which response |
| `Start`, `Stop`, `Publish`, `Serve` | the process, a refresh, one request through all layers |

A text is a core and whether blanks surround it, a pattern a stem and whether a
star follows: that is what trimming and matching tell apart. A core may be the
name of a variable, and may be outside `Visible`, as the header of such a token
is not read. The checks of addresses, files, names and aliases are one verdict
(`sound`).

The properties do not use the code's own reading. `Meant` is the token a client
sent, in any spelling of the scheme (`Spellings`, of which the code knows two)
and any alphabet. `Written`, `WrittenAdmin` and `Lets` are what the
configuration says, read off its text by a relation (`Says`) and not by the
expansion of the code: an item of a list stands for the value of its variable, a
key of a map for itself. An id is `NoId` where none is given, which is not the
empty id. `client`, `seen` and `hidden` are a memory of one client's lists, for
`ListMatchesPermission`.

## 3. What is checked

| run | instance | properties |
|---|---|---|
| `conn_guard` | 3 threads, limit 2 | `TypeOK`, `CountMatchesGuards`, `NeverOversubscribed`, `RefusalJustified`, `ImplementsSlots`, `LockFree` |
| `proxy_keys` | 3 requests, 1 backend with limit 2, a key with limit 1 and one allowed model, an unlimited key, a stranger | `TypeOK`, `SlotsExact`, `KeyLimitsBackendUse`, `ImplementsKeyPools` |
| `proxy_live` | 2 requests, 2 backends with limit 1, one with an alias and an unusable header | `EveryRequestAnswered` |
| `proxy_order` | 2 requests, 3 backends in two tiers, limits 1, 1, 2; the fallback backend stays up | `QuietOrder`, `CandidatesInOrder`, `FallbackDiscipline` |
| `proxy_decisions` | 2 requests, 2 backends in two tiers, one with an alias, one with limit 1, changing model lists | `UnavailableJustified`, `AffinityFirst`, `ContactOnce`, `ImplementsBackendPools` |
| `control_plane` | 2 backends, one with an alias the other may report too, reports of 0 (failure), 1 or 2 models | `TypeOK`, `ListedIsServed`, `HealthFollows`, `ModelsFollow`, `CacheSurvives` |
| `stream_body` | idle timeout 0 (off), 2 or 4, total timeout 0 or 3, header timeout 3, a window of 2 chunks | `TypeOK`, `AtMostOneLate`, `IdleMeansSilence`, `HeaderWaitEnds`, `DeadlineEnds`, `SilenceEnds` |
| `token_metrics` | 2 streams, 6 bodies cut anywhere, a scraper | `TypeOK`, `ZeroMeansNone`, `AverageWithin`, `ChunkingCounts`, `CounterExact`, `SerialSubset`, `StaleGaugeRepaired` |
| `access` | 24 configurations, 7 headers, 2 models, every path and method | `OnlyHoldersRoute`, `KeysWork`, `ListMatchesPermission`, `UserIsHolder` |

What they show:

* **`SlotsExact`**: on every path, each counter equals the requests that own a
  guard of it, and a finished request owns none.
* **`KeyLimitsBackendUse`**: a key's limit bounds the requests of that key that
  use a backend, because the key's guard lives as long as the body. The
  exception is real: a body dropped unfinished loses the outer guard, the key's,
  one step before the inner one.
* **`ImplementsBackendPools`, `ImplementsKeyPools`**: nobody but its owner gives
  a slot back, and no pool is ever above its capacity.
* **`CandidatesInOrder`**: interference within the sort can disturb the order by
  load, never the order by tier, and never loses or doubles a candidate.
* **`QuietOrder`**: with no interference the list is exactly the documented one.
* **`FallbackDiscipline`**, **`AffinityFirst`**, **`UnavailableJustified`**: the
  README's routing rules, each stated for backends that stayed candidates from
  the admission on; for a backend that came or went meanwhile the code promises
  nothing. `ProxyHistory` keeps the set `steady` for this.
* **`ContactOnce`**: a timed-out backend is not tried again by the same request.
* **`ListedIsServed`**: whatever fails in a pass, between refreshes a listed
  name is one that the cache routing reads has for its owner. (It says nothing
  of the owner's health, which the refresh does not look at.)
* **`HealthFollows`**, **`ModelsFollow`**, **`CacheSurvives`**: flag and cache
  follow an upstream once it settles, though others never answer; and a list
  that was fetched outlives every fetch that fails.
* **`AtMostOneLate`**, **`IdleMeansSilence`**: however the client pauses, a body
  is late by one chunk at most, and an idle timeout is never the client's fault.
* **`DeadlineEnds`**, **`SilenceEnds`**: a polled body with a limit ends,
  against an upstream that sends for ever or stalls.
* **`ChunkingCounts`**: a usage is reported whatever the cuts; an estimate
  depends on the cuts only by nought to two tokens for each character that is
  cut. One of n bytes, cut after c of them (and perhaps again later), becomes
  one replacement character and n - c others, of three bytes each: 3 + 2n - 3c
  bytes more than it had, between one and eight.
* **`CounterExact`**, **`SerialSubset`**, **`AverageWithin`**,
  **`ZeroMeansNone`**: no tokens are lost by concurrent ends. An update of the
  average may be; the result is then that of fewer streams, never a value no
  serial order could give, and never a fresh start.
* **`StaleGaugeRepaired`**: two ends may leave the gauge at the older average;
  the next scrape sets it right.
* **`OnlyHoldersRoute`**, **`KeysWork`**: from the text of the configuration to
  the routing, no path, method, header form or variable lets a request through
  that no written key covers, and none stops one that is covered, if it is sent
  in visible ASCII with one of the two spellings the code knows.
* **`UserIsHolder`**: the user of a log line is the id written for the key, from
  a variable or empty as it may be, or else the first characters of the key.
* **`ListMatchesPermission`**: `render` and `proxy` never disagree, also when
  the list changes between two requests.

Bounds, and why they suffice. Two requests are enough for one to interfere with
every step of the other, since requests interact only through counters and pins;
the key run uses three so that a limit of two has a loser and that two holders
of one key meet a third. Three backends in two tiers, listed with the fallback
tier first, make configuration order, tier and load disagree, and two of the
same tier are what the sort can get wrong. `AlwaysUp` keeps the probes of the
listed backends from failing; it is used once, to keep the three-backend run
small, and the two-backend runs leave every flag free. `MaxU64` is above the
number of threads, which stands for fewer than 2^64 connections. Requests
recycle, so no run bounds their number. No run stops, and deadlock is checked in
all.

The limits of `stream_body` put the idle timeout below and above the total one,
leave each off in turn, and let a header wait use up the deadline before the
body begins; two chunks in the window let one be late and one be refused. Two
streams are enough to lose an update. The six bodies of `token_metrics` have
texts whose lengths lie on both sides of a token's four bytes, characters of one
to four bytes, an empty text, a usage beside a text, repeated, zero or followed
by a text, junk, and an end without a newline. The configurations of `access`
have both forms of keys, texts, ids and patterns from variables that are set and
from one that is not, an empty id, blanks, a key beyond ASCII, patterns with and
without star, an admin token or none, and one configuration for each reason to
refuse; the headers have three spellings of the scheme and another scheme.

An unlimited counter (limit 0) is covered by the proofs, for every limit, and by
the unlimited key and backend of the runs.

### Fairness

* `ConnGuard`: weak fairness of each thread's next instruction, and strong
  fairness of "some exchange succeeds", which is what hardware promises of
  store-conditional. No fairness between threads.
* `Proxy`: weak fairness of the router's own steps (a ready task is polled), of
  `Headers` (the attempt runs under `timeout_secs`, line 313) and of the release
  of guards (drops are synchronous). None for streams to end, clients to arrive,
  or probes.
* `ControlPlane`: weak fairness of each loop: its sleeps end, what came in is
  handled, timers go off, and an upstream that is up (or has a list) answers in
  time, which is what being up means. An upstream that is not may stay silent:
  nothing but the timeout is sure to end the wait for it.
* `StreamBody`: weak fairness of `Tick` (time passes), of `Poll` (a woken task
  runs), of `NoHeaders` (an expired timer wakes the handler) and of
  `CloseFailed` (the server drops what failed). None for the client, which may
  stop reading for ever, and none for the upstream. The liveness of a body is
  stated for clients that go on reading (`<>[]polling`); nothing bounds a body
  nobody reads.
* `TokenMetrics`: weak fairness of the scrape, as Prometheus asks again and
  again. None for the streams; `StaleGaugeRepaired` speaks of times when no
  stream is recording.

### Disagreements between the code and its words

Three have a run that TLC refutes:

* `no_backend_message`: a client is told "no healthy backend serves model ..."
  (`error.rs` 67) when healthy backends serve it and are merely saturated. The
  comment at `config.rs` 216 leaves saturation out in the same way; the README
  states that rule correctly and `FallbackDiscipline` is the README's version.
* `total_timeout`: the total limit is described as counted "after headers"
  (`config.rs` 205, README 409), but the deadline is counted from before the
  request is sent (302, 334), so that a body whose headers came late is ended
  before its time. `StreamBodyDocs` adds to `StreamBody` the age of a body.
* `observed_tokens`: the help of the token counter says tokens "observed in
  proxied LLM responses" (`metrics.rs` 57, README 632); those observed in a
  stream that broke, timed out or was dropped by the client are never counted.

Others were seen while modelling, each visible in the named definition:

* README 224 has `/v1/models` list the models "from all healthy backends". The
  refresh does not read the flag (`StoreModels`), so models of a backend that is
  down are listed; and a healthy backend whose last fetch failed adds no name to
  the list, its aliases included, though it serves them (`KeepModels`).
* The name of a test says that the scheme's prefix is "case insensitive"
  (`auth.rs` 140); two spellings are known, and a client that sends `BEARER`
  with a written key is refused (`BearerToken`, `KeysWork`).
* README 299 describes `api_keys` as the tokens clients "must send". A key with
  a character beyond visible ASCII passes validation and is refused whenever it
  is sent, since the header is not read as text (`BearerToken`). So is a key
  written with blanks around it, as the header is trimmed and the key is not.
  `KeysWork` names both exceptions.
* README 588 has stream timeouts retried; after the headers nothing is
  (`Respond` leaves the loop). The idle timeout applies before the first chunk
  too (`Arm`).
* `metrics.rs` 61 calls the average one "across finished streams"; concurrent
  ends can leave some out, as `SerialSubset` says.
* README 331: the user of a log line is the key's id. Errors that the proxy
  handler returns (400, 404, 413, 503) and the model list are logged with "-"
  for a known key: `HandledLines`, `ProxyLines`.

## 4. What is proved

All for any number of threads, requests, backends and keys and any limits,
tiers, aliases and model lists, from the named assumptions on the constants:
`Client` and `Request` are finite, limits, tiers and timeouts are naturals (the
header timeout and the window not 0), keys are bearers, what an upstream lists
are models, at most `MaxU64` threads exist, the speed of a counted stream is
positive, and in `Access` only that texts are texts, that a variable that is set
is one, and that a model name begins with itself.

* `ConnGuardProofs`: `TypeCorrect`, `ExactCount`, `CapacityRespected`,
  `Refusals`, `Refinement`. The invariant `IInv` joins the exact count and the
  limit with `ReadBelowLimit`: what a thread is about to exchange was read below
  the limit. With the exchange's own test (the counter still has that value) the
  limit survives the step.
* `ProxyProofs`: `TypeCorrect`, `NoSlotLost`, `KeyLimits`, `BackendRefinement`,
  `KeyRefinement`. `IInv` joins the types, the exact counts and `Locals`: the
  guards a request owns are a function of where it is. The exact counts alone
  are not inductive: a drop keeps a counter natural only if the dropping request
  owns a guard, which only its place says. Two lemmas carry all results:
  `SlotStep` and `KeyStep` reduce every action to "nothing happens to the
  guards, one is taken where there is room, or an owned one is given back".
* `ProxyHistoryProofs`, on the list: `OrderCorrect`, `DocumentedOrder`.
  `OrderInv` follows the list through its making: while it is scanned its
  elements are distinct and below the next backend; during the sort it is
  ordered by tier up to the element being inserted; after the lookup all but its
  head is ordered. The tiers are constants, so that one comparison tells enough
  whatever the counters were: a swap implies the tiers do not increase, a stop
  that they do not decrease. `QuietInv` is the same for a request nothing
  interferes with, with the whole documented order in the place of the tiers:
  the backends left out are exactly those that are not routable, a list sorted
  up to the element being inserted stays so under a comparison of unchanged
  counters, and moving the pinned backend to the front leaves the rest in order.
  It needs `OrderInv`, since a list without duplicates that holds all routable
  backends has as many elements as there are.
* `ProxyHistoryProofs`, on failover: `NoSecondContact`, `NoSpuriousError`,
  `PinnedFirst`, `TiersRespected`. `HistoryInv` ties the memory of a request to
  its place: a backend that stayed a candidate is in the list as far as it has
  been made, later it has been contacted or lies ahead, and what has been
  contacted lies behind. A backend is passed over only if it is full now, hence
  no candidate any more. With `OrderInv` (no duplicates, tiers in order) this
  gives all four.
* `ControlPlaneProofs`: `TypeCorrect`, `ListCorrect`, `DrivesRouter`. `StageInv`
  says where each pass can be at each stage; `CollectedInv` that the entries
  collected so far agree with the caches stored on the way, which is what makes
  the list right when it is published. `DrivesRouter` is a refinement:
  `ControlPlane` implements `Proxy` without requests, that is, its environment.
* `StreamBodyProofs`: `TypeCorrect`, `OneLateAtMost`, `IdleIsSilence`.
  `TimerInv` says that an armed wait runs out with the deadline, or after the
  idle time of silence, whichever is first; `LateInv` that a late chunk leaves
  the generator before the test of the deadline, with the deadline passed, so
  that no second one can follow.
* `TokenMetricsProofs`, on the average: `TypeCorrect`, `ZeroIsNone` and
  `AverageBounded`, for any number of streams, of the specification of
  `TokenAverage`. `PrevWithin` says that what a stream loaded lies between the
  speeds of those that stored and its own. `ImplementsAverage` shows that the
  streams of `TokenMetrics` implement that specification, so that all three hold
  of them (`StreamsWithin`). Its one difficulty is that what a stream counted is
  a number `TokenAverage` allows; `StreamsTyped` has the reason, that a tracker
  never holds more tokens and unread atoms than atoms have arrived.
* `TokenMetricsProofs`, on concurrent ends: `CounterSum`, `LostUpdates`.
  `CounterInv` adds to the sum that a stream that has not ended contributes
  nothing. `SerialInv` adds to `SerialSubset` what a stream is about to store:
  what it loaded is its own speed, or the serial average of some of the streams
  that had stored by then, so that storing appends it to those.
* `TokenMetricsProofs`, on cuts: `CutsCounted`, for every body with characters
  of one to four bytes and every way to cut it. `CountsInv` names, for a stream
  that is open, the set of places where a character was cut, and says that its
  tracker has followed (`Tracked`): what is in its buffer is what those cuts
  left of the last line, and what it counted is right for all lines before
  (`Counted`). Of a character that was cut at most two bytes are merged, into a
  first one that is replaced (`MergedAfter`, `TwoShifts`), and at most four are
  replaced (`ReplacedIn`), so that the text of a line is never shorter, and
  longer by at most eight bytes for each (`ExtraTokens`, `LineLength`). A cut
  never leaves its line, and never changes whether the line is JSON or what
  usage it reports (`LineValue`, `LineUsages`).
* `AccessProofs`: `RoutedHoldAKey`, `WrittenKeysWork`, `ListAgrees`,
  `LoggedUser`, for every configuration, environment, pattern and header. The
  invariant says that the key map is that of the running configuration, and that
  the client's lists are what its entry allows. `LineMeans` reads off a log line
  what the request was. That the code's expansion yields what the text says
  (`Says`) is the heart of the argument, as the properties do not use it.

The folds and sums of the metrics (`FoldLeft`, `SumFunction`) are defined by a
`CHOOSE` of a function that satisfies a recursive equation. Induction over a
predicate is not available to the provers, so `TokenTrackerProofs` begins with
induction over sets: the numbers are well-ordered (`LeastNumber`), hence a set
that holds 0 and all successors holds every number (`NumberInduction`), and a
family of sets that grows by single elements holds every part of a finite set
(`SetInduction`). With these, `FoldExists` shows that the equation has a
solution, `SumTaken`, `AverageTaken` and `FedTaken` that the folds of the model
compute it step by step, and `SumAny` that the order of the summands does not
matter. The library's theorems state the same over predicates, which is why they
are not used.

Five assumptions stand behind the results on metrics. `StreamAssumption`:
finitely many streams are ever opened. `CountAssumption`: a body is a finite
sequence, and `TokenCount` has the numbers up to its length and those upstreams
report, which is no restriction, as the code counts with `u64`; the run takes
the numbers up to its longest body. `BodyAssumption`: a body is UTF-8, as JSON
has to be, with the bytes of a character next to each other, so that a part of
one comes only from a cut; and one JSON object has one `completion_tokens`.
`ByteAssumption`: a character has two to four bytes, or is one atom, and a byte
of it is not a usage. `UsageAssumption`: a usage is a number and no mark of the
text. TLC evaluates all five.

Only model-checked: liveness (`LockFree`, `EveryRequestAnswered`,
`HealthFollows`, `ModelsFollow`, `CacheSurvives`, `HeaderWaitEnds`,
`DeadlineEnds`, `SilenceEnds`, `StaleGaugeRepaired`), which is beyond the
prover, as is `ENABLED`. Every safety property of a run is a theorem.

## 5. Not modelled

* The algorithm the standard library sorts more than 20 candidates with. Its
  behaviour on comparisons that are no order is a property of the library, not
  of this code.
* Histograms, the outcome counters and the access log's timings: single atomic
  increments that nothing reads back. (A request's duration is taken when the
  headers come, not at the end of its body.)
* The hash of a session id, taken as injective on the pre-images.
* The checks of addresses, files, names and aliases of the configuration,
  sequential and once, before anything runs; they are one verdict in `Access`.
* Header stripping and the rewriting of bodies, wording and layout of errors and
  log lines (no state).
* TLS, daemonizing, argument parsing and logging set-up (I/O); install scripts,
  guides and CI (no program state).

Possible continuations: a composition of `Proxy` and `StreamBody` over many
requests, showing when the guards of a stalled client come free; and a body that
is not UTF-8, whose replacement characters do not come from cuts alone.
