# Verification of the tail-based tracing test service

The repository is a small Go service and the configuration of the two tiers of
OpenTelemetry collectors it sends its traces to.  Its purpose is to show that
tail-based sampling works: every failing and every slow request is stored, and
1% of the rest.  This project models the path of a trace from the calls of a
handler to the store, the middleware chain that decides what a trace says of
its request, the memory of the sampler, and the life of the process with the
key cache that its authentication depends on.  TLC checks the models on small
instances and TLAPS proves the main properties for every value of their
constants.

## 1. The system

| Part | State it keeps | Operations | Where |
| --- | --- | --- | --- |
| request chain | per request: writers, span, log lines | ten middlewares, routing, two validators, JWT, panics | `internal/routes/main_router.go`, `internal/middleware/*` |
| users and health handlers | none | fixed answers (the database is disabled) | `internal/handler/user_handler.go`, `health_handler.go` |
| trace-test handlers | none; the spans they have open | `/success`, `/failure`, `/latency`, `/heavy` | `internal/handler/trace_test_handler.go` |
| tracing setup | the SDK's span queue | install exporter and batch processor, flush | `internal/tracing/tracing.go` |
| log handler | none | adds the trace id of the context | `internal/logging/logging.go` |
| configuration | none after `Load` | read and validate the environment | `internal/config/config.go` |
| process | where start-up is, its listener | start, discover, fetch keys, serve, end | `main.go` |
| kubelet | age and failed probes of the container | start, probe, kill, restart | `k8s/test-deployment.yaml` |
| JWKS discovery and cache | the cached key set | discover, register, refresh, look up | `internal/middleware/jwt_auth.go` |
| route printer | none | describe each route from the OpenAPI documents | `internal/routes/routes_printer.go` |
| otel-lb | batches, the hash ring | batch, route by trace id, retry, follow the pods | `k8s/otel-lb.yaml` |
| otel-tail-sampler | undecided traces, decisions | gather, decide after `decision_wait`, evict | `k8s/otel-tail-sampler.yaml`, `k8s/otel-operator/otel-sampler.yaml` |

`PROJECT.json` lists the remaining parts, with the reasons why they are left out.

How they interact: a request passes the chain; otelchi opens a server span and
the handlers open children of it.  An ended span goes into the SDK's queue.
A timer exports the queue to otel-lb over gRPC; otel-lb batches, hashes the
trace id over the pods that its Kubernetes resolver knows, and sends each trace
to one sampler pod.  The pod holds the spans of a trace for `decision_wait`
after the first of them, applies the policies to what it then has, and from
then on treats late spans like the rest.  Nothing travels back except
acknowledgements.  Beside this, `main` needs the identity provider once at
start, if OIDC is on, and the middleware reads the cached keys with each bearer
token while the cache refreshes them.

What is hard:

* **ordering**: the spans of one trace reach the sampler in several batches,
  each from its own timers, and the one that failed may come last; the listener
  must not open before the first key set is there;
* **concurrency**: requests share the queue and the sampler's memory; the ring
  changes while spans are on their way; keys change while a token is parsed;
* **failure**: the process is killed, an export fails, memory limiters refuse
  spans, a pod is replaced, an acknowledgement is lost and spans arrive twice,
  the provider is away when the process starts;
* **limits**: the queue, `num_traces`, the captured part of an error body;
* **layers**: three layers keep a status of the same response, and panics and
  early answers skip some of them;
* **time**: `decision_wait` against the hops before it, the latency threshold
  against the sleeps of the handlers, the discovery's timeout against the probe.

What makes each part correct:

* trace-test handlers: spans leave in the order in which calls return, an error
  is on enough of them to survive losses, and only slow requests look slow;
* pipeline: a settled trace is stored, whole, exactly when it should be, unless
  an identifiable incident damaged it; one verdict by one pod on all spans;
* sampler memory: nothing is evicted undecided at the expected rate;
* chain: client, span and log tell the same story about every response, panics
  are answered, and no handler behind JWT runs without a validated token;
* process: what serves is what the environment asks for, whatever happened on
  the way; a start that hangs is repeated; a verdict on a token was right at
  some moment since the last fetch of the keys.

## 2. The modules

| Module | Models | Builds on |
| --- | --- | --- |
| `TailSampling` | the promise: each ended trace is kept or dropped, as a whole, once | |
| `SpanGroups` | the hand-over: the three groups of a trace end, and leave the process, one after the other, or the trace is hurt | |
| `TracePipeline` | handlers, SDK queue, otel-lb, sampler pods, clock, faults | `TailSampling`, `SpanGroups` (INSTANCE, refinements) |
| `Scripts` | the bodies of the four trace-test handlers, as data | |
| `TraceTest` | concurrent requests as trees of spans, the SDK's queue in front of the collector | `SpanGroups` (INSTANCE, refinement); constants, given by `Scripts` in `MCTraceTest` |
| `SamplerMemory` | one pod's `num_traces` against rate and `decision_wait` | |
| `ResponseWriters` | the two wrappers around net/http's writer | |
| `AnyHandler` | any sequence of calls a handler may make on them | `ResponseWriters` |
| `RequestChain` | one request through the whole chain | `ResponseWriters`; `AnyHandler` (INSTANCE, refinement) |
| `Configuration` | `config.Load`, `Validate`, and what `tracing.Init` reads | |
| `RoutePrinter` | which operation a route is described with | |
| `Process` | start-up, probes, restarts, provider, key cache, tokens | `Configuration`, `RoutePrinter` |
| `*Proofs` | theorems about the module they are named after | that module |
| `MC*` | constants for TLC | that module |

### 2.1 TracePipeline

One clock, in units of which only the order matters.  The history variables
`judged` and `hurt` are not in the code: the first records verdicts, and `hurt`
collects the traces that an *incident* damaged.  Every property about stored
traces says "unless `hurt`", so what the runs and proofs show is that the
incidents, each marked in the one action where it happens, are the only ways
for the system to break its promise.

| Action | Code |
| --- | --- |
| `Begin` | otelchi opens the server span (`main_router.go:28-30`) |
| `EndSpan` | `span.End()` in `child` and in the handlers (`trace_test_handler.go:30-182`), the SDK's queue or its overflow |
| `Export`, `ExportFails` | the batch processor and the error handler (`tracing.go:53-86`) |
| `Kill` | the end of the process (`main.go:46-120`) |
| `Forward` | the loadbalancing exporter (`otel-lb.yaml:104-117`), acknowledged or not; it contains the pod's reaction `Admit`, `Gather` or `FollowVerdict` |
| `ForwardFails` | memory limiter and exhausted retries |
| `Decide` | the policies after `decision_wait` (`otel-tail-sampler.yaml:86-104`) |
| `PodDown`, `PodUp`, `Resolve` | the StatefulSet and the resolver |
| `Tick` | time, which never passes a timer's deadline unless a stall is allowed |

Abstractions: one application process and one otel-lb.  Under the default
topology (a DaemonSet) the spans of a request come from one process and enter
one otel-lb, so a second one would never meet the same trace.  The spans of a
trace are the three groups that the policies tell apart; `/heavy` is to them a
success.  That three groups are a fair picture of up to eleven spans is shown by a common
abstraction: `SpanGroups` says how groups end and leave the process, and both
`TraceTest`, where a group has ended (or left) when all of its spans have, and
`TracePipeline` implement it (`GroupsInOrder` of each module).  The queue is
exported as a whole (512 spans at a time in the SDK), which is one of the
batches that `SpanGroups` allows.
The hash is the operator `Owner`, assumed consistent (`OwnerAssumption`).  Only
the three trace-test kinds of request are modelled: any other traced request is
one of them to the sampler.  A handler's response and the export to the store
are in `RequestChain` and left out, respectively.

### 2.2 TraceTest and Scripts

`Scripts` writes down what each handler calls: `Body` is its sequence of
`child` calls with their sleeps in milliseconds, `Calls` adds the nested call
of `/heavy` and the two spans above, `Errs` is the one call that fails.  From
these it derives the tree (`Ancestors`, `Earlier`), the sleeps and their sum,
and `GroupOf` names the group of each span.  `TraceTest` takes all of this as
constants and runs any number of requests over it.  What the proofs need of
the constants are assumptions that TLC evaluates for the repository's
handlers: sums add up (`TotalAssumption`), the sleeps of a slow handler reach
the threshold and those of the others stay below it with `Jitter` for each
span (`LatencyAssumption`), and each group ends before the next
(`GroupAssumption`).

| Action | Code |
| --- | --- |
| `Begin` | otelchi opens the server span (`main_router.go:26-30`) |
| `Enter` | the handler's `tracer.Start`, or `child` up to the end of its sleep (`trace_test_handler.go:30-36`) |
| `Respond` | `writeJSON`, while the handler's span is open (`51-55`) |
| `Leave` | `span.End()` with the status that `child`, the handler or TraceErrors has set (`42-46`, `120-126`), and the hand-over to the batch processor, which drops when full |
| `Export`, `ExportFails`, `Kill` | as in `TracePipeline`, but the oldest `BatchSize` spans only |

Left out: attributes and events of the spans.  `lost` is a history variable.
The SDK drops spans without limit; `MaxLost` bounds that, so at the bound a
span that finds the queue full waits for an export.  `Kill` is not bounded by
it, and the theorems hold for every `MaxLost`.
`elapsed` adds up the sleeps; what the machine adds to them is `Jitter` per
span, in the property `SlowAreSlow` only.

### 2.3 Process, Configuration, RoutePrinter

`Configuration` translates the readers and their fallbacks: a text that is no
Boolean, number or level counts as not set, but one that is empty is set.
`Process` runs `main` from the environment to the listener, again and again,
beside a kubelet and a provider.

| Action | Code |
| --- | --- |
| `Load` | `config.Load`, which panics (`config.go:42-116`) |
| `InitTracing` | `tracing.Init` (`tracing.go:38-95`), called at `main.go:47` |
| `InitAuth` | the checks before `NewJWTAuth` (`main.go:74-80`) |
| `Discover`, `DiscoveryFails` | `discoverJWKSURL`, with its 10s timeout (`jwt_auth.go:72-103`) |
| `Register`, `FetchFails`, `RegisterFails` | `cache.Register` under `context.Background()`, which returns for want of a usable URL only (`jwt_auth.go:53-70`) |
| `PrintRoute` | `PrintRoutes`, in debug mode (`routes_printer.go:28-94`) |
| `Route`, `Listen`, `ListenFails` | `NewRouter` and `ListenAndServe` (`main.go:90-119`) |
| `Tick`, `Probe`, `Start`, `Terminate` | the clock and the kubelet (`k8s/test-deployment.yaml:88-93`) |
| `ComeAndGo`, `Rotate`, `Refresh` | the provider and `jwk.Cache`'s background refresh (external) |
| `Arrive`, `Look`, `Judge`, `Leave` | `JWTAuth.Middleware` (`jwt_auth.go:105-156`) |

The unit of time is five seconds, the greatest that divides the discovery's
timeout and the probe's times; the manifest gives no `failureThreshold`, and 3
is what Kubernetes then takes.  The clock counts only while `main` waits for
the network; everything else it does takes none.  A fetch of the key set is one
step: it finds the provider up, with its present keys, or fails.  `since` and
`window` are history variables, the key sets that were published since the last
successful fetch and since a request's arrival.  A request brings a token here
or is left to `RequestChain`, which also has lookups that fail.  Of a token's
`exp`, `nbf` and `iat` the model keeps what they say together at the moment of
the verdict: no `exp`, one that has passed, an `nbf` or `iat` still to come, or
all in order.  The parser asks for the last: that there is an `exp` by an
option, the rest by its default validation.

Left out: the merge of `.env` into the environment (`env` is what results),
certificates, headers and the endpoint's form in the tracing setup, the lists
of CORS, the error of `resource.New`, a lookup whose client has gone, and in
the printer parameters, sorting and colours.

### 2.4 SamplerMemory

The tracked traces in order of arrival with their ages in ticks.  At most
`Rate` traces arrive between two ticks of the decision timer.  The module
isolates one question, whether `num_traces` is large enough for the other two
settings, which the two sampler files of the repository answer differently.

### 2.5 ResponseWriters, AnyHandler, RequestChain

`ResponseWriters` has the value `w` of the three layers and the pure operators
`WriteHeader` and `Write` on it, as a handler's call passes through them:
logger's wrapper (`logger.go:26-46`, overrides `WriteHeader` only), TraceErrors'
wrapper (`trace_errors.go:16-46`), net/http (external).  `AnyHandler` calls them
in any order.  `RequestChain` uses them for one request under one
configuration: the stage names the place in the chain, the way down is one
action per middleware that may answer, the way out is `Recover`, `LogRequest`,
`Annotate`, `Close` in the order in which the deferred parts run.  A request
shares no mutable state with another one, so one request at a time loses
nothing; all configurations and all requests are checked.

`AnyHandler` has `plain` beside the writers, the response as it would be had
the handler been given net/http's writer itself: `Transparent` compares the two.
`RequestChain` is related to it by `IsAHandler`: with the chain's capture limit
and body lengths, the writers of any request go through a behaviour of
`AnyHandler`, so what is proved of any handler holds of what the middlewares,
the validators, the Recoverer and the handlers together do to a response.

The Recoverer writes no status for a request that says `Connection: Upgrade`, as
chi has it, and `Recover` with it: the response is then completed with a 200,
and the client, the log and the span all say so.

Left out: log level filtering (what `StatusAgree` and `ErrorsVisible` say of the
log holds for `LOG_LEVEL` INFO or DEBUG), the wording of bodies, the status that otelchi
itself puts on the span of a 5xx response (it agrees with TraceErrors').  The
three probe paths are the route "health".

Observations that no run carries: a panic while an upgrade is asked for would be
a 200 to everyone, though no handler of the repository panics; a ring that changes between two batches of a
trace sends them to two pods (`Resolve` marks the trace as hurt), which
`k8s/otel-tail-sampler.yaml:4-6` grants and `README.md:22` does not; with OIDC
on, `/user` answers 401 without credentials because JWT is mounted on the whole
group, although `docs/users.openapi.yaml:116,177` says `security: []`; `GetUser` marks its child span as an Error
for a malformed id although TraceErrors counts a 400 as the client's error, so
such traces are kept by the error policy; and the request logger would report a
wrong status for a handler that writes before it sets a status (`LoggedIsSent`
says so by its premise), which no handler of the repository does.  Nor does one
send an informational status: both wrappers would take a 1xx for the final one
and drop the status that follows (`logger.go:37-41`, `trace_errors.go:24-28`),
where net/http sends both, so `HandlerAssumption` of `AnyHandler` leaves 1xx out.  Three more are about
words: otelchi filters `/healthz` out (`main_router.go:29`), so it has no span, though `README.md:232-233` looks for one; `OIDC_ENABLED=yes`
silently serves without authentication (`config.go:127`), while the switch for
insecure export takes `yes` for true (`tracing.go:100`); and that switch is
documented as "gRPC only" (`tracing.go:36`) though an HTTP endpoint without a
scheme honours it (`tracing.go:134`).

## 3. The runs

| Run | Instance | Properties | Shows |
| --- | --- | --- | --- |
| `pipeline_stable` | 2 traces (one baseline), 1 pod, queue of 6, `num_traces` 2, retry | `OnlyFaultsHarm`, `EventuallyJudged`, `PromiseKept` | no harm where there is just enough room; liveness, and refinement of `TailSampling` |
| `pipeline_app` | 2 traces, 1 pod, queue of 2, `num_traces` 1, kill, outage, reject | `RightlyStored`, `FailuresAndSlowStored`, `AllOrNothing`, `WholeDecisions`, `GroupsInOrder` | shared queue and memory, failing application side; refinement of `SpanGroups` |
| `pipeline_cluster` | 1 trace, 3 addresses for 2 pods; pod, retry, kill, outage, reject | `TypeOK`, `IInv`, `OneJudge`, `ShrinkingRingCutsNothing` | rings and pods changing under a trace; the inductive invariant |
| `trace_test` | any request beside a failing one, queue of 2, batches of 1, 2 losses | `IInv`, `NoOvertaking`, `FailureSurvives`, `SlowAreSlow`, `EveryRequestEnds`, `GroupsInOrder` | the handlers' span trees over a lossy queue; refinement of `SpanGroups` |
| `memory_tight` | rate 3, wait 4, memory 12 | `NothingLost`, `IInv` | the least sufficient memory |
| `any_handler` | 3 statuses, limit 3, writes of 0 to 4 bytes | `TracedIsSent`, `LoggedIsSent`, `OneHeader`, `KeptIsPrefix`, `Transparent`, `IInv` | any handler |
| `request_chain` | all configurations, all requests that differ | `StatusAgree`, `ErrorsVisible`, `PanicsAnswered`, `UsersProtected`, `IsAHandler`, `IInv` | the chain; refinement of `AnyHandler` |
| `process` | the deployment's environment and variations of it, 2 keys, 1 request, 1 incident | `ServesAsConfigured`, `VerdictsWereTrue`, `LookupsSucceed`, `StartsAreExplained`, `PrintedTruly`, `EventuallyServes`, `IInv` | start-up, restarts, key rotation |

Runs that find a disagreement of the code with what the repository says:

| Run | Property | Disagreement |
| --- | --- | --- |
| `pipeline_kill` | `FailuresStored` | the flush at exit never runs (`main.go:52-61`, `115`) |
| `memory_operator` | `NothingLost` | `num_traces: 2500` is a third of what rate and wait need |
| `chain_lines` | `LinesCorrelate` | one log call has no context |
| `chain_open` | `OpenWithoutOidc` | `GET /users` is refused with OIDC off |

Bounds of the pipeline.  `LastStart` and `MaxTime` end a behaviour: requests
start at 0 and the clock runs until every deadline that follows has passed (a
request, two hops, `decision_wait` and, where pods come and go, room for a
second judge).  Two traces are enough for competition over queue, memory and
the baseline sample; `pipeline_stable` has exactly the room that `Roomy` asks for
(six places in the queue, two in a pod) and loses acknowledgements, so that
redelivery meets a queue and a memory without a place to spare; three addresses
let a replacement pod take a trace from a survivor; the queue of
`pipeline_kill` has room for the whole trace, so only the kill can lose it.  The constants keep the
order of the real times, not their length: the slowest handler takes up to one
unit, each hop none or one, and `decision_wait` exceeds all of them together, as
`WaitAssumption` demands.  The liveness of `pipeline_stable` is the costliest
question, so its otel-lb forwards within the same moment (`LbDelay` 0) and
`decision_wait` is 3, still one more than the rest; the others have both hops.
The fault "stall", time that passes a deadline, is in no run: its states are too
many beside the others, and the theorems cover it.

Bounds of `trace_test`.  `Offered` lets the first request call any endpoint and
the second only `/failure`, which is there to take places in the queue.
`QueueCap` 2 makes it overflow, `MaxLost` 2 lets a request lose as many spans
as `FailureSurvives` allows, and `Jitter` allows each of the eleven spans of
`/heavy` 50 ms more than it sleeps, several times what the longest of the fast
ones take.

Bounds of `process`.  `Environments` has the deployment's and those that differ
from it in one variable, or in the variables of tracing or OIDC together, with
all spellings that the code tells apart.  `MaxIncidents` 1 allows one
termination, one port in use or one unusable key set URL; restarts after other
ends are not bounded, nor is the provider's coming and going.  One request at a time is enough, because
requests only read the cache; the theorems have any number.

Deadlock is not checked where the clock, the request or the handler ends.

Fairness, in `FairSpec` only.  `TracePipeline`: weak fairness of span ends
(handlers only sleep for a fixed time), of exports, forwarding and decisions
(timers), of pod restarts and the resolver (Kubernetes' control loops) and of
the clock.  `TraceTest`: of each request's next step (sleeps end) and of the
export (a timer).  `Process`: of what `main` does on its own, of the kubelet's
start and probe, and of the clock.  Nothing is assumed about the cache's retry:
`EventuallyServes` holds because the probe ends the process that waits for it.
No request has to come, no fault has to happen, and nothing is assumed about
the order of any two of these.

## 4. The proofs

All theorems hold for any value of the constants that satisfies the module's
named assumptions: any set of traces and pods, any ring function and delays;
any handlers written with `child`; any environments, keys and times.

* `TracePipelineProofs`: `IInv` is inductive (`Inductive`); from it
  `RightStorage`, `SingleJudge`, `StoredWholeOrNot` and `DecisionsAreWhole`.
  `FailuresAndSlowAreStored` names no policy: a failing or slow request is
  stored by what was called.  It adds `Tardy` to the invariant, that /latency
  has spent the threshold when its slow call has ended, to which the policy's
  comparison must say yes at the edge too (`PoliciesKeep`).
  The properties are not inductive: that a verdict is on all spans needs that
  every ended span is upstream or held (`Undecided`), that what is upstream is
  not late (`OnTime`, which `Tick` keeps), that the judge's deadline is later
  than that (`SoleJudge` with `WaitAssumption`), and that the ring still names
  the judge while spans are to come.  `Intact` is the conjunction of these for
  one undamaged trace.  `ShrinkingIsHarmless` is the one use of the second half
  of `OwnerAssumption`.
* The refinement, in the same module: `PromiseToUndamaged` says of any set of
  traces that stays undamaged, while all faults may happen to the others: every
  step is, for this set, a step of `TailSampling` or a stutter.  The step that
  judges uses `IInv` (the verdict is what `Keep` says of the whole trace); the
  others leave verdicts and ended traces as they are.
* What "unless `hurt`" costs, in the same module.  All of the above speaks of
  undamaged traces only, which would say little if `hurt` grew by itself.
  `RedeliveryIsHarmless`: where queue and memories have room for all traces
  (`Roomy`) and the only fault is a lost acknowledgement with its redelivery,
  no trace is ever hurt.  Its invariant is `Calm`: the ring is that of the
  pods, of which none is missing, and only ended spans are queued; so the span
  that ends is not in the queue and there is a place for it (`RoomInQueue`, by
  cardinalities), and a pod has one for a trace that it does not know
  (`RoomInMemory`).  With `PromiseToUndamaged` this gives `PromiseIsKept`: the
  safety part of `TailSampling` for all traces, with no premise on them.
* Two levels of detail, one hand-over: `SpansMoveInGroups` (`TraceTestProofs`)
  and `GroupsMoveInOrder` (`TracePipelineProofs`) show that both modules
  implement `SpanGroups`.  The first rests on `NoOvertaking` and
  `GroupAssumption`: what has ended, or left, is always a beginning of the
  trace, and one span completes at most one group.
* `TraceTestProofs`: the open spans are a path of the tree and what has ended
  has ended from below (`Nested`), each ended span is queued, exported or lost
  (`Accounted`), the queue keeps the order of the ends (`InOrder`), and a span
  has its final status when it ends (`Marked`).  `NoOvertaking` needs the first
  three.  `SlowStandOut` needs `Timed`: at any moment a request has slept the
  sum over the spans it has entered, so one that has ended has slept
  `Total(k, SpansOf(k))`, which `LatencyAssumption` compares with the
  threshold.  `FailuresSurvive` needs the last and that the server span, the
  handler's and the failing one are three, of which two losses leave one.
* `SamplerMemoryProofs`: under `Roomy == NumTraces >= Rate * DecisionWait`, the
  invariant `Aged` (a trace has seen a tick for each `Rate` traces behind it)
  is inductive, so the front of a full memory is decided.  The run
  `memory_operator` shows that without `Roomy` this fails.
* `ResponseWritersProofs` states what each call does to each field;
  `AnyHandlerProofs` uses it for any handler (`OneStatusLine`,
  `CaptureIsPrefix` among the results).  `WrappersTransparent`: whatever a handler
  calls, and for every capture limit, what goes out is what net/http would have
  sent without the wrappers.  `RequestChainProofs` uses the lemmas of
  `ResponseWritersProofs` for the chain, whose invariant says in which stages
  the response is untouched and in which all layers agree (`Answered`), what
  has passed the guards (`Guarded`) and what has been reported so far
  (`Reported`).  The layers agree on `FinalStatus`, which is 200 for a response
  that ends without a status.  `ChainIsAHandler` maps each step of the chain to
  a call, to the return or to a stutter of `AnyHandler`.
* `ProcessProofs`: `Passed` says what each place in `main` has behind it,
  `Timely` that no probe is passed over and discovery ends in time, `Fresh`
  that the cached and the published keys are always among those that the
  history holds.  `VerdictsAreFresh` follows from the last one, since a request
  looks up a set that stays in its window; `StartsExplained` rests on
  `PatienceAssumption`, the relation of the discovery's timeout to the probe.
  `PrintsTruly` has the printer with the repository's documents and routes: each
  route of a document is found there and only there, and no path of a test
  route contains, or is contained in, a documented one, so the order in which
  the maps are walked does not matter.

Only model-checked: liveness (`EventuallyJudged`, `EveryRequestEnds`,
`EventuallyServes`) and the fairness part of `PromiseKept`, which the prover
cannot reach.  Every other property of a passing run is a theorem, or, of
`PromiseKept`, its safety part is (`PromiseIsKept`).  The sums over call trees
that `Scripts` computes are recursive, so `TotalAssumption` and
`LatencyAssumption` are evaluated by TLC for the four handlers.

## 5. Not modelled

The helpers for claims, scopes and roles, which nothing mounts; the span metrics
of the operator's manifest; the embedded OpenAPI documents of the generated
code; the database code, unreachable in this version; load tests, charts,
images, dashboards and workflows; net/http's write deadline, ten times longer
than the slowest handler.  The tracing setup is modelled in part: its TLS,
headers and endpoint have no effect on a state that any model has.

## 6. Plan

Done: `TailSampling` and `TracePipeline` (the purpose of the repository),
`SamplerMemory`, `ResponseWriters`, `AnyHandler`, `RequestChain`, `Scripts`,
`TraceTest` and `SpanGroups`, `Configuration`, `RoutePrinter` and `Process`,
their runs and proofs, and the four refinements (`TailSampling`, `SpanGroups`
twice, `AnyHandler`).

Next: theorems about `Configuration`'s readers for any text (a value that is
not understood counts as not set, in each of them), and the pipeline's promise
under a ring that only shrinks.  If the system grows that way: two otel-lb
instances with resolvers that differ, for a Deployment of otel-lb instead of
the DaemonSet, and with them requests whose spans come from two processes; the
database, when the handlers use it again.
