------------------------------- MODULE Process -------------------------------
(***************************************************************************)
(* The life of the process in its container: main from the environment to  *)
(* the listener, the exits on the way, the kubelet that probes, kills and  *)
(* starts it again, and the identity provider that it depends on at start  *)
(* and, through the key cache, at every request that brings a token.       *)
(*                                                                         *)
(* Time is counted in units of five seconds since the container started,   *)
(* and only while main waits for the network: its other steps take none.   *)
(***************************************************************************)
EXTENDS Configuration, RoutePrinter, FiniteSets

CONSTANTS
  Environments,      \* the environments the container may be given
  Keys,              \* the keys the provider may sign with
  Requests,          \* requests with a bearer token that may be served at once
  DiscoveryTimeout,  \* the timeout of the client of discoverJWKSURL
  ProbeDelay,        \* initialDelaySeconds of the liveness probe
  ProbePeriod,       \* its periodSeconds
  ProbeFailures,     \* failures in a row that the kubelet forgives not
  MaxIncidents       \* bound: terminations, ports in use, key set URLs of no use

ASSUME TimesAssumption ==
  /\ {DiscoveryTimeout, ProbeDelay, ProbePeriod, MaxIncidents} \subseteq Nat
  /\ ProbeFailures \in Nat \ {0}

\* A discovery that times out does so before the last probe that the kubelet waits for.
ASSUME PatienceAssumption == DiscoveryTimeout < ProbeDelay + (ProbeFailures - 1) * ProbePeriod

VARIABLES
  env,        \* the environment, after godotenv
  phase,      \* where main is
  cfg,        \* its configuration
  tracer,     \* a tracer provider with a batcher is installed
  auth,       \* main has a JWTAuth, so the router has its middleware
  ready,      \* the key cache has a key set
  cached,     \* that key set
  printed,    \* what PrintRoutes has said of the routes visited so far
  age,        \* time since the container started
  misses,     \* liveness probes that failed since then
  ended,      \* how the container ended, and where main was, while it is down
  incidents,  \* the incidents that MaxIncidents bounds, so far
  up,         \* the provider answers
  keys,       \* the key set that it publishes
  since,      \* history: its key sets since the last fetch that succeeded
  stage,      \* stage[r]: where request r is in the middleware
  token,      \* token[r]: the token it brings
  seen,       \* seen[r]: the key set it looked up
  window      \* window[r]: history: since at its arrival, and the key sets since then

world == <<up, keys>>
boot == <<cfg, tracer, auth, ready, cached, printed, since>>
container == <<age, misses, ended, incidents>>
checks == <<stage, token, seen, window>>
vars == <<env, phase, boot, container, world, checks>>

NoConfig == [port |-> ""]

\* A token: the key of its signature, what its exp, nbf and iat claims say of the moment
\* at which it is judged, and whether its audience is ours.
Tokens == [key : Keys, times : {"noExp", "expired", "notYet", "good"}, ours : BOOLEAN]
NoToken == [key |-> "none", times |-> "noExp", ours |-> FALSE]

KeySets == (SUBSET Keys) \ {{}}

NotEnded == [how |-> "not", where |-> "down"]

Init ==
  /\ env \in Environments
  /\ phase = "down"
  /\ cfg = NoConfig
  /\ tracer = FALSE /\ auth = FALSE
  /\ ready = FALSE /\ cached = {} /\ since = {}
  /\ printed = << >>
  /\ age = 0 /\ misses = 0 /\ incidents = 0
  /\ ended = NotEnded
  /\ up \in BOOLEAN
  /\ keys \in KeySets
  /\ stage = [r \in Requests |-> "none"]
  /\ token = [r \in Requests |-> NoToken]
  /\ seen = [r \in Requests |-> {}]
  /\ window = [r \in Requests |-> {}]

InFlight(r) == stage[r] \in {"arrived", "looked"}

\* The process is gone, and with it all that it had in memory.
End(how) ==
  /\ phase' = "down"
  /\ cfg' = NoConfig
  /\ tracer' = FALSE /\ auth' = FALSE
  /\ ready' = FALSE /\ cached' = {} /\ since' = {}
  /\ printed' = << >>
  /\ age' = 0 /\ misses' = 0
  /\ ended' = [how |-> how, where |-> phase]
  /\ stage' = [r \in Requests |-> "none"]
  /\ token' = [r \in Requests |-> NoToken]
  /\ seen' = [r \in Requests |-> {}]
  /\ window' = [r \in Requests |-> {}]
  /\ UNCHANGED <<env, world>>

\* main logs why and leaves, by os.Exit or by a panic.
Exit == End("exit") /\ UNCHANGED incidents

-----------------------------------------------------------------------------
\* main, in order.

\* The kubelet starts the container, again if it has ended.
Start ==
  /\ phase = "down"
  /\ phase' = "loading"
  /\ ended' = NotEnded
  /\ UNCHANGED <<env, boot, age, misses, incidents, world, checks>>

\* Mutant of Load: an invalid configuration is not turned away.
LoadAnything ==
  /\ phase = "loading"
  /\ cfg' = ConfigOf(env)
  /\ phase' = "tracing"
  /\ UNCHANGED <<env, tracer, auth, ready, cached, printed, since, container, world, checks>>

\* config.Load, which panics where Validate fails.
Load ==
  /\ phase = "loading"
  /\ \/ /\ Valid(ConfigOf(env))
        /\ cfg' = ConfigOf(env)
        /\ phase' = "tracing"
        /\ UNCHANGED <<env, tracer, auth, ready, cached, printed, since, container, world, checks>>
     \/ ~ Valid(ConfigOf(env)) /\ Exit

\* Without an endpoint there is no tracer, and no error either.
InitTracing ==
  /\ phase = "tracing"
  /\ \/ /\ NoEndpoint(env) \/ KnownProtocol(env)
        /\ tracer' = ~ NoEndpoint(env)
        /\ phase' = "auth"
        /\ UNCHANGED <<env, cfg, auth, ready, cached, printed, since, container, world, checks>>
     \/ ~ NoEndpoint(env) /\ ~ KnownProtocol(env) /\ Exit

InitAuth ==
  /\ phase = "auth"
  /\ \/ /\ cfg.oidc => cfg.issuer # ""
        /\ phase' = IF cfg.oidc THEN "discovering" ELSE "routing"
        /\ UNCHANGED <<env, boot, container, world, checks>>
     \/ cfg.oidc /\ cfg.issuer = "" /\ Exit

\* Mutant of Discover: the key set is fetched in the background.
DiscoverAndGoOn ==
  /\ phase = "discovering"
  /\ up
  /\ auth' = TRUE
  /\ phase' = "routing"
  /\ UNCHANGED <<env, cfg, tracer, ready, cached, printed, since, container, world, checks>>

Discover ==
  /\ phase = "discovering"
  /\ up
  /\ phase' = "registering"
  /\ UNCHANGED <<env, boot, container, world, checks>>

\* No answer, or none with a jwks_uri in it.
DiscoveryFails ==
  /\ phase = "discovering"
  /\ ~ up
  /\ Exit

\* cache.Register returns when the first fetch has succeeded.
Register(from) ==
  /\ phase = from
  /\ up
  /\ auth' = TRUE
  /\ ready' = TRUE
  /\ cached' = keys
  /\ since' = {keys}
  /\ phase' = "routing"
  /\ UNCHANGED <<env, cfg, tracer, printed, container, world, checks>>

\* The first fetch fails: Register waits until the cache tries again, under a context
\* that never ends.
FetchFails ==
  /\ phase = "registering"
  /\ ~ up
  /\ phase' = "waiting"
  /\ UNCHANGED <<env, boot, container, world, checks>>

\* The provider names a URL that the cache does not take: NewJWTAuth returns the error.
RegisterFails ==
  /\ phase = "registering"
  /\ incidents < MaxIncidents
  /\ incidents' = incidents + 1
  /\ End("exit")

\* With debug logging main prints the routes first, one after the other.
PrintRoute ==
  /\ phase = "routing"
  /\ cfg.logLevel = "debug"
  /\ Len(printed) < Len(Registered)
  /\ \E d \in Descriptions(Registered[Len(printed) + 1]) : printed' = Append(printed, d)
  /\ UNCHANGED <<env, phase, cfg, tracer, auth, ready, cached, since, container, world, checks>>

Route ==
  /\ phase = "routing"
  /\ cfg.logLevel = "debug" => Len(printed) = Len(Registered)
  /\ phase' = "listening"
  /\ UNCHANGED <<env, boot, container, world, checks>>

Listen ==
  /\ phase = "listening"
  /\ phase' = "serving"
  /\ UNCHANGED <<env, boot, container, world, checks>>

\* The port is in use.
ListenFails ==
  /\ phase = "listening"
  /\ incidents < MaxIncidents
  /\ incidents' = incidents + 1
  /\ End("exit")

-----------------------------------------------------------------------------
\* The kubelet and the clock.

NextProbe == ProbeDelay + misses * ProbePeriod

\* Mutant of Tick: discovery has no timeout.
TickForEver ==
  /\ phase \in {"discovering", "registering", "waiting"}
  /\ phase = "waiting" \/ ~ up
  /\ age < NextProbe
  /\ age' = age + 1
  /\ UNCHANGED <<env, phase, boot, misses, ended, incidents, world, checks>>

\* Time passes while main waits, for a provider that is silent or for the cache to try
\* again: for discovery no longer than its timeout.
Tick ==
  /\ phase \in {"discovering", "registering", "waiting"}
  /\ phase = "waiting" \/ ~ up
  /\ phase = "discovering" => age < DiscoveryTimeout
  /\ age < NextProbe
  /\ age' = age + 1
  /\ UNCHANGED <<env, phase, boot, misses, ended, incidents, world, checks>>

\* Mutant of Probe: it tells whether traffic may come, and nothing more.
ProbeReadiness ==
  /\ phase \notin {"down", "serving"}
  /\ age = NextProbe
  /\ misses + 1 < ProbeFailures
  /\ misses' = misses + 1
  /\ UNCHANGED <<env, phase, boot, age, ended, incidents, world, checks>>

\* A liveness probe finds no listener.  After the last one that it forgives, the kubelet
\* ends the container; it never does once main serves, for GET /livez always answers 200.
Probe ==
  /\ phase \notin {"down", "serving"}
  /\ age = NextProbe
  /\ \/ /\ misses + 1 < ProbeFailures
        /\ misses' = misses + 1
        /\ UNCHANGED <<env, phase, boot, age, ended, incidents, world, checks>>
     \/ misses + 1 = ProbeFailures /\ End("probe") /\ UNCHANGED incidents

\* A rollout or an eviction ends the container; main catches no signal.
Terminate ==
  /\ phase # "down"
  /\ incidents < MaxIncidents
  /\ incidents' = incidents + 1
  /\ End("signal")

-----------------------------------------------------------------------------
\* The provider and the key cache.

ComeAndGo ==
  /\ up' = ~ up
  /\ UNCHANGED <<env, phase, boot, container, keys, checks>>

\* The provider publishes another key set.
Rotate(K) ==
  /\ K # keys
  /\ keys' = K
  /\ since' = IF ready THEN since \cup {K} ELSE since
  /\ window' = [r \in Requests |-> IF InFlight(r) THEN window[r] \cup {K} ELSE window[r]]
  /\ UNCHANGED <<env, phase, cfg, tracer, auth, ready, cached, printed, container, up,
                 stage, token, seen>>

\* The cache fetches the key set anew.  A fetch that fails leaves the old one.
Refresh ==
  /\ ready /\ up
  /\ cached' = keys
  /\ since' = {keys}
  /\ UNCHANGED <<env, phase, cfg, tracer, auth, ready, printed, container, world, checks>>

-----------------------------------------------------------------------------
\* JWTAuth.Middleware, for requests with a bearer token.

Arrive(r, t) ==
  /\ phase = "serving" /\ auth
  /\ stage[r] = "none"
  /\ stage' = [stage EXCEPT ![r] = "arrived"]
  /\ token' = [token EXCEPT ![r] = t]
  /\ window' = [window EXCEPT ![r] = since]
  /\ UNCHANGED <<env, phase, boot, container, world, seen>>

\* The cache is asked for the key set of the provider's URL.
Look(r) ==
  /\ stage[r] = "arrived"
  /\ stage' = [stage EXCEPT ![r] = IF ready THEN "looked" ELSE "failed"]
  /\ seen' = [seen EXCEPT ![r] = cached]
  /\ UNCHANGED <<env, phase, boot, container, world, token, window>>

\* Mutant of Claims: the exp claim need not be there.
ClaimsIfAny(t) == t.times \in {"noExp", "good"} /\ (cfg.audience # "" => t.ours)

\* What the parser asks of the claims: an exp, by option, that lies ahead, and by its
\* default validation neither an nbf nor an iat that does; the issuer is not among it.
Claims(t) == t.times = "good" /\ (cfg.audience # "" => t.ours)

\* The token is parsed with the key set that was looked up, current or not.
Judge(r) ==
  /\ stage[r] = "looked"
  /\ stage' = [stage EXCEPT ![r] =
                 IF token[r].key \in seen[r] /\ Claims(token[r]) THEN "accepted" ELSE "refused"]
  /\ UNCHANGED <<env, phase, boot, container, world, token, seen, window>>

\* The request is passed on or answered; another may follow.
Leave(r) ==
  /\ stage[r] \in {"accepted", "refused", "failed"}
  /\ stage' = [stage EXCEPT ![r] = "none"]
  /\ token' = [token EXCEPT ![r] = NoToken]
  /\ seen' = [seen EXCEPT ![r] = {}]
  /\ window' = [window EXCEPT ![r] = {}]
  /\ UNCHANGED <<env, phase, boot, container, world>>

-----------------------------------------------------------------------------
\* What main does without delay once it can.
Proceed ==
  \/ Load \/ InitTracing \/ InitAuth
  \/ Discover \/ DiscoveryFails \/ Register("registering")
  \/ PrintRoute \/ Route \/ Listen

Next ==
  \/ Start
  \/ Proceed
  \/ Register("waiting")
  \/ FetchFails
  \/ RegisterFails
  \/ ListenFails
  \/ Tick
  \/ Probe
  \/ Terminate
  \/ ComeAndGo
  \/ \E K \in KeySets : Rotate(K)
  \/ Refresh
  \/ \E r \in Requests : (\E t \in Tokens : Arrive(r, t)) \/ Look(r) \/ Judge(r) \/ Leave(r)

\* main runs on, the kubelet probes and restarts, and time passes.  Nothing is assumed
\* about when the cache tries again.
Fairness ==
  /\ WF_vars(Proceed)
  /\ WF_vars(Start)
  /\ WF_vars(Tick)
  /\ WF_vars(Probe)

Spec == Init /\ [][Next]_vars

FairSpec == Spec /\ Fairness

-----------------------------------------------------------------------------
\* Properties.

Phases == {"down", "loading", "tracing", "auth", "discovering", "registering", "waiting",
           "routing", "listening", "serving"}
Stages == {"none", "arrived", "looked", "accepted", "refused", "failed"}

\* All that PrintRoutes may say of a route.
Summaries == UNION {Descriptions(Registered[i]) : i \in DOMAIN Registered}

\* Every variable stays in the set its field of the system has.
TypeOK ==
  /\ env \in Environments
  /\ phase \in Phases
  /\ cfg \in {NoConfig, ConfigOf(env)}
  /\ tracer \in BOOLEAN /\ auth \in BOOLEAN /\ ready \in BOOLEAN
  /\ cached \in SUBSET Keys
  /\ printed \in Seq(Summaries)
  /\ age \in Nat /\ misses \in Nat /\ incidents \in 0..MaxIncidents
  /\ ended \in [how : {"not", "exit", "probe", "signal"}, where : Phases]
  /\ up \in BOOLEAN
  /\ keys \in KeySets
  /\ since \in SUBSET KeySets
  /\ stage \in [Requests -> Stages]
  /\ token \in [Requests -> Tokens \cup {NoToken}]
  /\ seen \in [Requests -> SUBSET Keys]
  /\ window \in [Requests -> SUBSET KeySets]

\* An environment that main does not turn away.
Startable ==
  LET c == ConfigOf(env)
  IN /\ Valid(c)
     /\ NoEndpoint(env) \/ KnownProtocol(env)
     /\ c.oidc => c.issuer # ""

\* A process that serves is what its environment asks for, whatever it went through at
\* start and however often: it has a port, it traces exactly when it has an endpoint,
\* and it asks for tokens exactly when OIDC_ENABLED is one of Go's spellings of true.
ServesAsConfigured ==
  phase = "serving" =>
    /\ Startable
    /\ tracer <=> ~ NoEndpoint(env)
    /\ auth <=> env.OIDC_ENABLED \in Trues

\* No request is refused for want of a key set (jwt_auth.go:124): the listener opens
\* after the first fetch, and later ones that fail do no harm.
LookupsSucceed == \A r \in Requests : stage[r] # "failed"

\* Each verdict on a token is one that the provider's key set called for at some moment
\* since the last fetch before the request, although the set that is used may be one
\* refresh old and be replaced while the token is parsed.  A token whose times are not good,
\* or for another audience than the one configured, is refused, and no other is refused
\* for its claims.
VerdictsWereTrue ==
  \A r \in Requests :
    /\ stage[r] = "accepted" =>
         /\ token[r].times = "good" /\ (env.OIDC_AUDIENCE \notin {Unset, ""} => token[r].ours)
         /\ \E K \in window[r] : token[r].key \in K
    /\ stage[r] = "refused" =>
         \/ token[r].times # "good"
         \/ env.OIDC_AUDIENCE \notin {Unset, ""} /\ ~ token[r].ours
         \/ \E K \in window[r] : token[r].key \notin K

\* The liveness probe never ends a process that could still say in its log what is wrong:
\* what it ends waits for its first key set, or got it too late.
StartsAreExplained ==
  ended.how = "probe" => ended.where \in {"registering", "waiting", "routing", "listening"}

\* Debug mode prints each route with the summary of its own operation, and the test
\* routes, which no document has, without one, in whatever order maps are walked.
PrintedTruly ==
  \A i \in DOMAIN printed :
    printed[i] = IF Registered[i] \in Documented THEN Registered[i] ELSE Undescribed

\* A process that may start is serving again and again, if its provider is there in the
\* end: a start that hangs in Register is ended by the probe and repeated.
EventuallyServes ==
  <>[](Startable /\ (ConfigOf(env).oidc => up)) => []<>(phase = "serving")

-----------------------------------------------------------------------------
\* The inductive invariant, in parts.

\* What main has left behind it holds.
Passed ==
  /\ phase \notin {"down", "loading"} => cfg = ConfigOf(env) /\ Valid(cfg)
  /\ phase \notin {"down", "loading", "tracing"} =>
       /\ NoEndpoint(env) \/ KnownProtocol(env)
       /\ tracer <=> ~ NoEndpoint(env)
  /\ phase \in {"discovering", "registering", "waiting"} => cfg.oidc
  /\ phase \notin {"down", "loading", "tracing", "auth"} => (cfg.oidc => cfg.issuer # "")
  /\ IF phase \in {"routing", "listening", "serving"} THEN auth <=> cfg.oidc ELSE ~ auth
  /\ auth <=> ready

\* The clock of the start: before discovery no time has passed, discovery does not
\* outlast its timeout, and no probe is passed over.
Timely ==
  /\ phase \in {"down", "loading", "tracing", "auth"} => age = 0
  /\ phase = "discovering" => age <= DiscoveryTimeout
  /\ age <= NextProbe
  /\ misses < ProbeFailures

\* The cached and the published key set are among those since the last fetch, and among
\* those in the window of each request, and only a process that serves has requests.
\* The set that a request has looked up is in its window too.
Fresh ==
  /\ ready => {keys, cached} \subseteq since
  /\ \A r \in Requests : InFlight(r) => auth /\ phase = "serving" /\ {keys, cached} \subseteq window[r]
  /\ \A r \in Requests : stage[r] = "looked" => seen[r] \in window[r]

IInv ==
  /\ TypeOK
  /\ Passed
  /\ Timely
  /\ Fresh
  /\ LookupsSucceed
  /\ VerdictsWereTrue
  /\ StartsAreExplained
=============================================================================
