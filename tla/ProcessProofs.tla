---------------------------- MODULE ProcessProofs ----------------------------
(***************************************************************************)
(* Theorems about Process: what holds of a process that serves, of the     *)
(* verdicts on tokens and of the starts that the liveness probe ends, for  *)
(* every set of environments, keys and requests and all probe settings     *)
(* that leave discovery its timeout.                                       *)
(***************************************************************************)
EXTENDS Process, TLAPS

USE DEF world, boot, container, checks

-----------------------------------------------------------------------------
\* What ends a process.

\* No Exit, no probe and no termination makes anything worse, whatever the phase.
LEMMA EndType ==
  ASSUME TypeOK, NEW how \in {"exit", "probe", "signal"}, End(how),
         incidents' \in 0..MaxIncidents
  PROVE  TypeOK'
<1>1. phase' \in Phases /\ env' = env /\ up' = up /\ keys' = keys
  BY DEF End, Phases
<1>2. /\ cfg' \in {NoConfig, ConfigOf(env')} /\ tracer' = FALSE /\ auth' = FALSE
      /\ ready' = FALSE /\ cached' = {} /\ since' = {}
  BY DEF End
<1>3. printed' \in Seq(Summaries)
  <2>1. printed' = << >>
    BY DEF End
  <2> QED
    BY <2>1
<1>4. age' = 0 /\ misses' = 0
  BY DEF End
<1>5. ended' \in [how : {"not", "exit", "probe", "signal"}, where : Phases]
  BY DEF End, TypeOK
<1>6. /\ stage' \in [Requests -> Stages] /\ token' \in [Requests -> Tokens \cup {NoToken}]
      /\ seen' \in [Requests -> SUBSET Keys] /\ window' \in [Requests -> SUBSET KeySets]
  BY DEF End, Stages
<1> QED
  BY <1>1, <1>2, <1>3, <1>4, <1>5, <1>6 DEF TypeOK

\* What the phases promise is empty once the process is gone.
LEMMA EndRest ==
  ASSUME TypeOK, NEW how \in {"exit", "probe", "signal"}, End(how)
  PROVE  Passed' /\ Timely' /\ Fresh' /\ LookupsSucceed' /\ VerdictsWereTrue'
<1>1. phase' = "down" /\ auth' = FALSE /\ ready' = FALSE /\ age' = 0 /\ misses' = 0
  BY DEF End
<1>2. \A r \in Requests : stage'[r] = "none"
  BY DEF End
<1>3. Timely'
  BY <1>1, TimesAssumption DEF Timely, NextProbe
<1> QED
  BY <1>1, <1>2, <1>3 DEF Passed, Fresh, InFlight, LookupsSucceed, VerdictsWereTrue

\* A start that ends by itself, or is ended from outside, keeps the whole invariant.
LEMMA EndKeeps ==
  ASSUME IInv, NEW how \in {"exit", "signal"}, End(how), incidents' \in 0..MaxIncidents
  PROVE  IInv'
<1>1. StartsAreExplained'
  BY DEF End, StartsAreExplained
<1> QED
  BY <1>1, EndType, EndRest DEF IInv

LEMMA ExitKeeps ==
  ASSUME IInv, Exit
  PROVE  IInv'
<1>1. incidents' \in 0..MaxIncidents
  BY DEF Exit, IInv, TypeOK
<1> QED
  BY <1>1, EndKeeps DEF Exit

\* One incident more is within the bound.
LEMMA IncidentKeeps ==
  ASSUME IInv, NEW how \in {"exit", "signal"}, End(how),
         incidents < MaxIncidents, incidents' = incidents + 1
  PROVE  IInv'
<1>1. incidents' \in 0..MaxIncidents
  BY TimesAssumption DEF IInv, TypeOK
<1> QED
  BY <1>1, EndKeeps

-----------------------------------------------------------------------------
\* What does not touch keys and requests.

\* Steps of main and of the clock leave the requests, the cache and the provider alone.
LEMMA QuietKeeps ==
  ASSUME IInv, UNCHANGED <<env, ready, cached, since, keys, checks>>,
         \A r \in Requests : InFlight(r) => auth' /\ phase' = "serving"
  PROVE  Fresh' /\ LookupsSucceed' /\ VerdictsWereTrue'
BY DEF IInv, Fresh, InFlight, LookupsSucceed, VerdictsWereTrue

\* Before the listener is open no request is in flight.
LEMMA NobodyYet ==
  ASSUME IInv, phase # "serving"
  PROVE  \A r \in Requests : ~ InFlight(r)
BY DEF IInv, Fresh

\* A step of main that stays within its promise keeps the invariant.
LEMMA OnwardKeeps ==
  ASSUME IInv, phase # "serving", phase' \in Phases,
         UNCHANGED <<env, ready, cached, since, printed, age, misses, incidents, world, checks>>,
         cfg' \in {NoConfig, ConfigOf(env)}, tracer' \in BOOLEAN, auth' \in BOOLEAN,
         ended' \in {ended, NotEnded}, Passed', Timely'
  PROVE  IInv'
<1>1. Fresh' /\ LookupsSucceed' /\ VerdictsWereTrue'
  BY QuietKeeps, NobodyYet
<1>2. StartsAreExplained'
  BY DEF IInv, StartsAreExplained, NotEnded
<1>3. ended' \in [how : {"not", "exit", "probe", "signal"}, where : Phases]
  BY DEF IInv, TypeOK, NotEnded, Phases
<1>4. TypeOK'
  BY <1>3 DEF IInv, TypeOK
<1> QED
  BY <1>1, <1>2, <1>4 DEF IInv

LEMMA StartKeeps ==
  ASSUME IInv, Start
  PROVE  IInv'
<1>1. Passed'
  BY DEF IInv, Passed, Start
<1>2. Timely'
  BY DEF IInv, Timely, Start, NextProbe
<1> QED
  BY <1>1, <1>2, OnwardKeeps DEF Start, Phases, IInv, TypeOK

LEMMA LoadKeeps ==
  ASSUME IInv, Load
  PROVE  IInv'
<1>1. CASE ~ Valid(ConfigOf(env)) /\ Exit
  BY <1>1, ExitKeeps
<1>2. CASE /\ Valid(ConfigOf(env)) /\ cfg' = ConfigOf(env) /\ phase' = "tracing"
           /\ UNCHANGED <<env, tracer, auth, ready, cached, printed, since, container, world, checks>>
  <2>1. Passed'
    BY <1>2 DEF IInv, Passed, Load
  <2>2. Timely'
    BY <1>2 DEF IInv, Timely, Load, NextProbe
  <2> QED
    BY <1>2, <2>1, <2>2, OnwardKeeps DEF Load, Phases, IInv, TypeOK
<1> QED
  BY <1>1, <1>2 DEF Load

LEMMA TracingKeeps ==
  ASSUME IInv, InitTracing
  PROVE  IInv'
<1>1. CASE ~ NoEndpoint(env) /\ ~ KnownProtocol(env) /\ Exit
  BY <1>1, ExitKeeps
<1>2. CASE /\ NoEndpoint(env) \/ KnownProtocol(env)
           /\ tracer' = ~ NoEndpoint(env) /\ phase' = "auth"
           /\ UNCHANGED <<env, cfg, auth, ready, cached, printed, since, container, world, checks>>
  <2>1. Passed'
    BY <1>2 DEF IInv, Passed, InitTracing, NoEndpoint, KnownProtocol
  <2>2. Timely'
    BY <1>2 DEF IInv, Timely, InitTracing, NextProbe
  <2>3. tracer' \in BOOLEAN
    BY <1>2 DEF NoEndpoint
  <2> QED
    BY <1>2, <2>1, <2>2, <2>3, OnwardKeeps DEF InitTracing, Phases, IInv, TypeOK
<1> QED
  BY <1>1, <1>2 DEF InitTracing

LEMMA AuthKeeps ==
  ASSUME IInv, InitAuth
  PROVE  IInv'
<1>1. CASE cfg.oidc /\ cfg.issuer = "" /\ Exit
  BY <1>1, ExitKeeps
<1>2. CASE /\ cfg.oidc => cfg.issuer # ""
           /\ phase' = IF cfg.oidc THEN "discovering" ELSE "routing"
           /\ UNCHANGED <<env, boot, container, world, checks>>
  <2>1. Passed'
    BY <1>2 DEF IInv, Passed, InitAuth, NoEndpoint, KnownProtocol
  <2>2. Timely'
    <3>1. age = 0 /\ age' = 0 /\ misses' = misses
      BY <1>2 DEF IInv, Timely, InitAuth
    <3>2. 0 <= DiscoveryTimeout
      BY TimesAssumption
    <3> QED
      BY <3>1, <3>2, <1>2 DEF IInv, Timely, InitAuth, NextProbe
  <2> QED
    BY <1>2, <2>1, <2>2, OnwardKeeps DEF InitAuth, Phases, IInv, TypeOK
<1> QED
  BY <1>1, <1>2 DEF InitAuth

LEMMA DiscoverKeeps ==
  ASSUME IInv, Discover
  PROVE  IInv'
<1>1. Passed'
  BY DEF IInv, Passed, Discover, NoEndpoint, KnownProtocol
<1>2. Timely'
  BY DEF IInv, Timely, Discover, NextProbe
<1> QED
  BY <1>1, <1>2, OnwardKeeps DEF Discover, Phases, IInv, TypeOK

LEMMA FetchFailsKeeps ==
  ASSUME IInv, FetchFails
  PROVE  IInv'
<1>1. Passed'
  BY DEF IInv, Passed, FetchFails, NoEndpoint, KnownProtocol
<1>2. Timely'
  BY DEF IInv, Timely, FetchFails, NextProbe
<1> QED
  BY <1>1, <1>2, OnwardKeeps DEF FetchFails, Phases, IInv, TypeOK

LEMMA RouteKeeps ==
  ASSUME IInv, Route
  PROVE  IInv'
<1>1. Passed'
  BY DEF IInv, Passed, Route, NoEndpoint, KnownProtocol
<1>2. Timely'
  BY DEF IInv, Timely, Route, NextProbe
<1> QED
  BY <1>1, <1>2, OnwardKeeps DEF Route, Phases, IInv, TypeOK

LEMMA ListenKeeps ==
  ASSUME IInv, Listen
  PROVE  IInv'
<1>1. Passed'
  BY DEF IInv, Passed, Listen, NoEndpoint, KnownProtocol
<1>2. Timely'
  BY DEF IInv, Timely, Listen, NextProbe
<1> QED
  BY <1>1, <1>2, OnwardKeeps DEF Listen, Phases, IInv, TypeOK

\* The first fetch gives the cache the set that the provider publishes.
LEMMA RegisterKeeps ==
  ASSUME IInv, NEW from \in {"registering", "waiting"}, Register(from)
  PROVE  IInv'
<1>1. \A r \in Requests : ~ InFlight(r) /\ ~ InFlight(r)'
  BY NobodyYet DEF Register, InFlight
<1>2. Fresh'
  BY <1>1 DEF IInv, Fresh, Register, InFlight
<1>3. LookupsSucceed' /\ VerdictsWereTrue' /\ StartsAreExplained'
  BY DEF IInv, Register, LookupsSucceed, VerdictsWereTrue, StartsAreExplained
<1>4. Passed'
  BY DEF IInv, Passed, Register, NoEndpoint, KnownProtocol
<1>5. Timely'
  BY DEF IInv, Timely, Register, NextProbe
<1>6. TypeOK'
  BY DEF IInv, TypeOK, Register, Phases, KeySets
<1> QED
  BY <1>2, <1>3, <1>4, <1>5, <1>6 DEF IInv

LEMMA PrintKeeps ==
  ASSUME IInv, PrintRoute
  PROVE  IInv'
<1>1. PICK d \in Descriptions(Registered[Len(printed) + 1]) : printed' = Append(printed, d)
  BY DEF PrintRoute
<1>2. printed \in Seq(Summaries) /\ Len(printed) < Len(Registered)
  BY DEF IInv, TypeOK, PrintRoute
<1>3. Len(printed) + 1 \in DOMAIN Registered
  BY <1>2 DEF Registered, HealthRoutes, UserRoutes, TestRoutes
<1>4. d \in Summaries
  BY <1>3 DEF Summaries
<1>5. printed' \in Seq(Summaries)
  BY <1>1, <1>2, <1>4
<1>6. TypeOK'
  BY <1>5 DEF IInv, TypeOK, PrintRoute
<1>7. Fresh' /\ LookupsSucceed' /\ VerdictsWereTrue'
  BY QuietKeeps, NobodyYet DEF PrintRoute
<1>8. Passed' /\ Timely' /\ StartsAreExplained'
  BY DEF IInv, Passed, Timely, StartsAreExplained, PrintRoute, NextProbe, NoEndpoint, KnownProtocol
<1> QED
  BY <1>6, <1>7, <1>8 DEF IInv

-----------------------------------------------------------------------------
\* The clock and the probe.

LEMMA TickKeeps ==
  ASSUME IInv, Tick
  PROVE  IInv'
<1>1. Timely'
  <2>1. age \in Nat /\ age' = age + 1 /\ misses' = misses /\ age < NextProbe /\ phase' = phase
    BY DEF IInv, TypeOK, Tick
  <2>2. NextProbe \in Nat /\ NextProbe' = NextProbe
    BY <2>1, TimesAssumption DEF IInv, TypeOK, NextProbe
  <2>3. DiscoveryTimeout \in Nat
    BY TimesAssumption
  <2> QED
    BY <2>1, <2>2, <2>3 DEF IInv, Timely, Tick
<1>2. TypeOK'
  BY DEF IInv, TypeOK, Tick
<1>3. Fresh' /\ LookupsSucceed' /\ VerdictsWereTrue'
  BY QuietKeeps, NobodyYet DEF Tick
<1>4. Passed' /\ StartsAreExplained'
  BY DEF IInv, Passed, StartsAreExplained, Tick, NoEndpoint, KnownProtocol
<1> QED
  BY <1>1, <1>2, <1>3, <1>4 DEF IInv

\* When the last probe is due, discovery is over.
LEMMA LastProbe ==
  ASSUME IInv, age = NextProbe, misses + 1 = ProbeFailures
  PROVE  phase \notin {"loading", "tracing", "auth", "discovering"}
<1>1. misses = ProbeFailures - 1
  BY TimesAssumption DEF IInv, TypeOK
<1>2. DiscoveryTimeout < age
  BY <1>1, PatienceAssumption DEF NextProbe
<1>3. DiscoveryTimeout \in Nat /\ age \in Nat
  BY TimesAssumption DEF IInv, TypeOK
<1> QED
  BY <1>2, <1>3 DEF IInv, Timely

LEMMA ProbeKeeps ==
  ASSUME IInv, Probe
  PROVE  IInv'
<1>1. CASE misses + 1 = ProbeFailures /\ End("probe") /\ UNCHANGED incidents
  <2>1. incidents' \in 0..MaxIncidents
    BY <1>1 DEF IInv, TypeOK
  <2>2. phase \in {"registering", "waiting", "routing", "listening"}
    BY <1>1, LastProbe DEF Probe, IInv, TypeOK, Phases
  <2>3. StartsAreExplained'
    BY <1>1, <2>2 DEF End, StartsAreExplained
  <2> QED
    BY <1>1, <2>1, <2>3, EndType, EndRest DEF IInv
<1>2. CASE /\ misses + 1 < ProbeFailures /\ misses' = misses + 1
           /\ UNCHANGED <<env, phase, boot, age, ended, incidents, world, checks>>
  <2>1. Timely'
    <3>1. age \in Nat /\ misses \in Nat /\ ProbePeriod \in Nat /\ ProbeDelay \in Nat
      BY TimesAssumption DEF IInv, TypeOK
    <3>2. (misses + 1) * ProbePeriod = misses * ProbePeriod + ProbePeriod
      BY <3>1
    <3>3. misses * ProbePeriod \in Nat
      BY <3>1
    <3>4. age <= NextProbe'
      BY <1>2, <3>1, <3>2, <3>3 DEF Probe, NextProbe
    <3> QED
      BY <1>2, <3>4 DEF IInv, Timely, Probe
  <2>2. TypeOK'
    BY <1>2 DEF IInv, TypeOK, Probe
  <2>3. Fresh' /\ LookupsSucceed' /\ VerdictsWereTrue'
    BY <1>2, QuietKeeps, NobodyYet DEF Probe
  <2>4. Passed' /\ StartsAreExplained'
    BY <1>2 DEF IInv, Passed, StartsAreExplained, Probe, NoEndpoint, KnownProtocol
  <2> QED
    BY <2>1, <2>2, <2>3, <2>4 DEF IInv
<1> QED
  BY <1>1, <1>2 DEF Probe

-----------------------------------------------------------------------------
\* The provider, the cache and the requests.

\* Steps that are not main's, the clock's or the kubelet's.
LEMMA StartUntouched ==
  ASSUME IInv, UNCHANGED <<env, phase, cfg, tracer, auth, ready, container>>
  PROVE  Passed' /\ Timely' /\ StartsAreExplained'
<1>1. Passed'
  BY DEF IInv, Passed, NoEndpoint, KnownProtocol
<1>2. Timely'
  BY DEF IInv, Timely, NextProbe, container
<1>3. StartsAreExplained'
  BY DEF IInv, StartsAreExplained, container
<1> QED
  BY <1>1, <1>2, <1>3

LEMMA ComeAndGoKeeps ==
  ASSUME IInv, ComeAndGo
  PROVE  IInv'
<1>1. TypeOK'
  BY DEF IInv, TypeOK, ComeAndGo
<1>2. Fresh' /\ LookupsSucceed' /\ VerdictsWereTrue'
  BY DEF IInv, ComeAndGo, Fresh, InFlight, LookupsSucceed, VerdictsWereTrue
<1> QED
  BY <1>1, <1>2, StartUntouched DEF IInv, ComeAndGo

LEMMA RotateKeeps ==
  ASSUME IInv, NEW K \in KeySets, Rotate(K)
  PROVE  IInv'
<1>1. TypeOK'
  <2>1. window' \in [Requests -> SUBSET KeySets]
    BY DEF IInv, TypeOK, Rotate
  <2> QED
    BY <2>1 DEF IInv, TypeOK, Rotate
<1>2. \A r \in Requests : window'[r] = IF InFlight(r) THEN window[r] \cup {K} ELSE window[r]
  BY DEF Rotate
<1>3. \A r \in Requests : window[r] \subseteq window'[r]
  BY <1>2
<1>4. Fresh'
  <2>1. ready' => {keys', cached'} \subseteq since'
    BY DEF IInv, Fresh, Rotate
  <2>2. ASSUME NEW r \in Requests, InFlight(r)'
        PROVE  auth' /\ phase' = "serving" /\ {keys', cached'} \subseteq window'[r]
    <3>1. InFlight(r)
      BY <2>2 DEF InFlight, Rotate
    <3> QED
      BY <3>1, <1>2 DEF IInv, Fresh, Rotate
  <2>3. ASSUME NEW r \in Requests, stage'[r] = "looked"
        PROVE  seen'[r] \in window'[r]
    BY <2>3, <1>3 DEF IInv, Fresh, Rotate
  <2> QED
    BY <2>1, <2>2, <2>3 DEF Fresh
<1>5. LookupsSucceed'
  BY DEF IInv, LookupsSucceed, Rotate
<1>6. VerdictsWereTrue'
  BY <1>3 DEF IInv, VerdictsWereTrue, Rotate
<1> QED
  BY <1>1, <1>4, <1>5, <1>6, StartUntouched DEF IInv, Rotate

\* After a refresh only the published set is fresh; it is in every window already.
LEMMA RefreshKeeps ==
  ASSUME IInv, Refresh
  PROVE  IInv'
<1>1. TypeOK'
  BY DEF IInv, TypeOK, Refresh, KeySets
<1>2. Fresh'
  BY DEF IInv, Fresh, Refresh, InFlight
<1>3. LookupsSucceed' /\ VerdictsWereTrue'
  BY DEF IInv, Refresh, LookupsSucceed, VerdictsWereTrue
<1> QED
  BY <1>1, <1>2, <1>3, StartUntouched DEF IInv, Refresh

LEMMA ArriveKeeps ==
  ASSUME IInv, NEW r \in Requests, NEW t \in Tokens, Arrive(r, t)
  PROVE  IInv'
<1>1. TypeOK'
  BY DEF IInv, TypeOK, Arrive, Stages
<1>2. ready
  BY DEF IInv, Passed, Arrive
<1>3. Fresh'
  BY <1>2 DEF IInv, TypeOK, Fresh, Arrive, InFlight
<1>4. LookupsSucceed' /\ VerdictsWereTrue'
  BY DEF IInv, TypeOK, Arrive, LookupsSucceed, VerdictsWereTrue
<1> QED
  BY <1>1, <1>3, <1>4, StartUntouched DEF IInv, Arrive

LEMMA LookKeeps ==
  ASSUME IInv, NEW r \in Requests, Look(r)
  PROVE  IInv'
<1>1. InFlight(r)
  BY DEF Look, InFlight
<1>2. ready /\ cached \in window[r]
  BY <1>1 DEF IInv, Fresh, Passed
<1>3. stage' = [stage EXCEPT ![r] = "looked"]
  BY <1>2 DEF Look
<1>4. TypeOK'
  BY <1>3 DEF IInv, TypeOK, Look, Stages
<1>5. Fresh'
  BY <1>1, <1>2, <1>3 DEF IInv, TypeOK, Fresh, Look, InFlight
<1>6. LookupsSucceed' /\ VerdictsWereTrue'
  BY <1>3 DEF IInv, TypeOK, Look, LookupsSucceed, VerdictsWereTrue
<1> QED
  BY <1>4, <1>5, <1>6, StartUntouched DEF IInv, Look

\* An audience is configured when its variable is set to something.
LEMMA AudienceSet ==
  ASSUME cfg = ConfigOf(env)
  PROVE  cfg.audience # "" <=> env.OIDC_AUDIENCE \notin {Unset, ""}
BY DEF ConfigOf, GetEnv, Unset

LEMMA JudgeKeeps ==
  ASSUME IInv, NEW r \in Requests, Judge(r)
  PROVE  IInv'
<1> DEFINE good == token[r].key \in seen[r] /\ Claims(token[r])
<1>1. InFlight(r) /\ seen[r] \in window[r]
  BY DEF Judge, InFlight, IInv, Fresh
<1>2. cfg.audience # "" <=> env.OIDC_AUDIENCE \notin {Unset, ""}
  BY <1>1, AudienceSet DEF IInv, Fresh, Passed
<1>3. stage' = [stage EXCEPT ![r] = IF good THEN "accepted" ELSE "refused"]
  BY DEF Judge
<1>4. TypeOK'
  BY <1>3 DEF IInv, TypeOK, Judge, Stages
<1>5. Fresh' /\ LookupsSucceed'
  BY <1>3 DEF IInv, TypeOK, Fresh, Judge, InFlight, LookupsSucceed
<1>6. VerdictsWereTrue'
  <2>1. CASE good
    BY <2>1, <1>1, <1>2, <1>3 DEF IInv, TypeOK, Judge, VerdictsWereTrue, Claims
  <2>2. CASE ~ good
    <3>1. UNCHANGED <<env, token, window, seen, cfg>>
      BY DEF Judge, boot
    <3>2. ASSUME NEW q \in Requests, q # r PROVE stage'[q] = stage[q]
      BY <1>3, <3>2 DEF IInv, TypeOK
    <3>3. stage'[r] = "refused"
      BY <1>3, <2>2 DEF IInv, TypeOK
    <3>4. \/ token[r].times # "good"
          \/ env.OIDC_AUDIENCE \notin {Unset, ""} /\ ~ token[r].ours
          \/ \E K \in window[r] : token[r].key \notin K
      BY <1>1, <1>2, <2>2 DEF Claims
    <3> QED
      BY <3>1, <3>2, <3>3, <3>4 DEF IInv, VerdictsWereTrue
  <2> QED
    BY <2>1, <2>2
<1> QED
  BY <1>4, <1>5, <1>6, StartUntouched DEF IInv, Judge

LEMMA LeaveKeeps ==
  ASSUME IInv, NEW r \in Requests, Leave(r)
  PROVE  IInv'
<1>1. TypeOK'
  BY DEF IInv, TypeOK, Leave, Stages
<1>2. Fresh' /\ LookupsSucceed' /\ VerdictsWereTrue'
  BY DEF IInv, TypeOK, Leave, Fresh, InFlight, LookupsSucceed, VerdictsWereTrue
<1> QED
  BY <1>1, <1>2, StartUntouched DEF IInv, Leave

-----------------------------------------------------------------------------
LEMMA InitHolds ==
  ASSUME Init
  PROVE  IInv
<1>1. TypeOK
  <2>1. printed \in Seq(Summaries)
    <3>1. printed = << >>
      BY DEF Init
    <3> QED
      BY <3>1
  <2>2. incidents \in 0..MaxIncidents
    BY TimesAssumption DEF Init
  <2> QED
    BY <2>1, <2>2 DEF Init, TypeOK, Phases, NotEnded, Stages
<1>2. Passed /\ StartsAreExplained
  BY DEF Init, Passed, StartsAreExplained, NotEnded
<1>3. Timely
  BY TimesAssumption DEF Init, Timely, NextProbe
<1>4. Fresh /\ LookupsSucceed /\ VerdictsWereTrue
  BY DEF Init, Fresh, InFlight, LookupsSucceed, VerdictsWereTrue
<1> QED
  BY <1>1, <1>2, <1>3, <1>4 DEF IInv

LEMMA NextKeeps ==
  ASSUME IInv, [Next]_vars
  PROVE  IInv'
<1>1. CASE Start
  BY <1>1, StartKeeps
<1>2. CASE Proceed
  <2>1. CASE DiscoveryFails
    BY <2>1, ExitKeeps DEF DiscoveryFails
  <2> QED
    BY <1>2, <2>1, LoadKeeps, TracingKeeps, AuthKeeps, DiscoverKeeps, RegisterKeeps,
       PrintKeeps, RouteKeeps, ListenKeeps DEF Proceed
<1>3. CASE Register("waiting")
  BY <1>3, RegisterKeeps
<1>4. CASE FetchFails
  BY <1>4, FetchFailsKeeps
<1>5. CASE RegisterFails \/ ListenFails
  BY <1>5, IncidentKeeps DEF RegisterFails, ListenFails
<1>6. CASE Tick
  BY <1>6, TickKeeps
<1>7. CASE Probe
  BY <1>7, ProbeKeeps
<1>8. CASE Terminate
  BY <1>8, IncidentKeeps DEF Terminate
<1>9. CASE ComeAndGo
  BY <1>9, ComeAndGoKeeps
<1>10. ASSUME NEW K \in KeySets, Rotate(K)
       PROVE  IInv'
  BY <1>10, RotateKeeps
<1>11. CASE Refresh
  BY <1>11, RefreshKeeps
<1>12. ASSUME NEW r \in Requests,
              (\E t \in Tokens : Arrive(r, t)) \/ Look(r) \/ Judge(r) \/ Leave(r)
       PROVE  IInv'
  BY <1>12, ArriveKeeps, LookKeeps, JudgeKeeps, LeaveKeeps
<1>13. CASE UNCHANGED vars
  <2>1. TypeOK'
    BY <1>13 DEF vars, IInv, TypeOK
  <2>2. Fresh' /\ LookupsSucceed' /\ VerdictsWereTrue'
    BY <1>13 DEF vars, IInv, Fresh, InFlight, LookupsSucceed, VerdictsWereTrue
  <2> QED
    BY <1>13, <2>1, <2>2, StartUntouched DEF vars, IInv
<1> QED
  BY <1>1, <1>2, <1>3, <1>4, <1>5, <1>6, <1>7, <1>8, <1>9, <1>10, <1>11, <1>12, <1>13 DEF Next

\* The invariant of the process, its start and its key cache.
THEOREM LifeInductive == Spec => []IInv
<1>1. Init => IInv
  BY InitHolds
<1>2. IInv /\ [Next]_vars => IInv'
  BY NextKeeps
<1> QED
  BY <1>1, <1>2, PTL DEF Spec

\* Verdicts on tokens (jwt_auth.go:122-145) are never older than the last fetch of the
\* key set before their request.
THEOREM VerdictsAreFresh == Spec => []VerdictsWereTrue
<1>1. IInv => VerdictsWereTrue
  BY DEF IInv
<1> QED
  BY <1>1, LifeInductive, PTL

\* No lookup of the key set fails while the process serves (jwt_auth.go:123-128).
THEOREM LookupsNeverFail == Spec => []LookupsSucceed
<1>1. IInv => LookupsSucceed
  BY DEF IInv
<1> QED
  BY <1>1, LifeInductive, PTL

\* The liveness probe leaves discovery the time to report its error (main.go:82-85).
THEOREM StartsExplained == Spec => []StartsAreExplained
<1>1. IInv => StartsAreExplained
  BY DEF IInv
<1> QED
  BY <1>1, LifeInductive, PTL

\* What OIDC_ENABLED means: strconv.ParseBool's spellings of true, and nothing else.
LEMMA OidcMeans ==
  ConfigOf(env).oidc <=> env.OIDC_ENABLED \in Trues
BY DEF ConfigOf, GetEnvBool, Trues, Falses

\* A process that serves does so with a complete configuration, with tracing as asked
\* for, and with tokens demanded as asked for.
THEOREM ServesAsAsked == Spec => []ServesAsConfigured
<1>1. IInv => ServesAsConfigured
  BY OidcMeans DEF IInv, Passed, ServesAsConfigured, Startable
<1> QED
  BY <1>1, LifeInductive, PTL

-----------------------------------------------------------------------------
\* The routes that debug mode prints.

LEMMA DocumentPaths ==
  /\ Documents[1] = HealthDocument /\ Documents[2] = UsersDocument
  /\ Len(Documents) = 2 /\ DOMAIN Documents = {1, 2}
  /\ PathsOf(HealthDocument) = {"/healthz", "/livez", "/readyz"}
  /\ PathsOf(UsersDocument) = {"/users", "/user"}
<1>1. /\ Documents[1] = HealthDocument /\ Documents[2] = UsersDocument
      /\ Len(Documents) = 2 /\ DOMAIN Documents = {1, 2}
  BY DEF Documents
<1>2. PathsOf(HealthDocument) = {"/healthz", "/livez", "/readyz"}
  BY DEF PathsOf, HealthDocument
<1>3. PathsOf(UsersDocument) = {"/users", "/user"}
  BY DEF PathsOf, UsersDocument
<1> QED
  BY <1>1, <1>2, <1>3

\* With two documents: the first one's description, or the second one's if the first
\* passes, or none if both do.
LEMMA DescriptionsOfTwo ==
  ASSUME NEW route
  PROVE  Descriptions(route) =
           (Found(1, route) \cap HealthDocument)
           \cup {d \in Found(2, route) \cap UsersDocument : MayPass(1, route)}
           \cup {d \in {Undescribed} : MayPass(1, route) /\ MayPass(2, route)}
<1> DEFINE Reached(i) == \A j \in 1..(i - 1) : MayPass(j, route)
<1>1. Reached(1) /\ (Reached(2) <=> MayPass(1, route))
  <2>1. 1..(1 - 1) = {} /\ 1..(2 - 1) = {1}
    OBVIOUS
  <2> QED
    BY <2>1
<1>2. Reached(3) <=> MayPass(1, route) /\ MayPass(2, route)
  <2>1. 1..(3 - 1) = {1, 2}
    OBVIOUS
  <2> QED
    BY <2>1
<1> DEFINE Told == UNION {Found(i, route) \cap Documents[i] :
                 i \in {j \in DOMAIN Documents : \A m \in 1..(j - 1) : MayPass(m, route)}}
           Untold == {d \in {Undescribed} :
                      \A m \in 1..(Len(Documents) + 1 - 1) : MayPass(m, route)}
<1>3. Descriptions(route) = Told \cup Untold
  BY DEF Descriptions
<1>4. {j \in DOMAIN Documents : \A m \in 1..(j - 1) : MayPass(m, route)}
        = {1} \cup {j \in {2} : MayPass(1, route)}
  BY <1>1, DocumentPaths
<1>5. Told = (Found(1, route) \cap HealthDocument)
             \cup {d \in Found(2, route) \cap UsersDocument : MayPass(1, route)}
  BY <1>4, DocumentPaths
<1>6. Untold = {d \in {Undescribed} : MayPass(1, route) /\ MayPass(2, route)}
  <2>1. (\A m \in 1..(Len(Documents) + 1 - 1) : MayPass(m, route)) <=> Reached(3)
    BY DocumentPaths
  <2> QED
    BY <1>2, <2>1
<1> HIDE DEF Told, Untold
<1> QED
  BY <1>3, <1>5, <1>6, Zenon

\* A document that has the route's path is asked for that path alone.
LEMMA FoundExactly ==
  ASSUME NEW method, NEW path, NEW i \in {1, 2}, path \in PathsOf(Documents[i])
  PROVE  Found(i, <<method, path>>) = {<<method, path>>}
<1>1. Items(Documents[i], path) = {path}
  BY DEF Items
<1> QED
  BY <1>1 DEF Found

\* A document that has no path like the route's is not asked at all.
LEMMA FoundNothing ==
  ASSUME NEW method, NEW path, NEW i \in {1, 2},
         \A p \in PathsOf(Documents[i]) : ~ Contains(path, p) /\ ~ Contains(p, path)
  PROVE  Found(i, <<method, path>>) = {} /\ MayPass(i, <<method, path>>)
<1>1. path \notin PathsOf(Documents[i])
  BY DEF Contains
<1>2. Items(Documents[i], path) = {}
  BY <1>1 DEF Items
<1> QED
  BY <1>2 DEF Found, MayPass

LEMMA HealthDescribed ==
  ASSUME NEW route \in HealthDocument
  PROVE  Descriptions(route) = {route}
<1>1. PICK path \in PathsOf(HealthDocument) : route = <<"GET", path>>
  BY DEF HealthDocument, PathsOf
<1>2. Found(1, route) = {route}
  BY <1>1, DocumentPaths, FoundExactly
<1>3. ~ MayPass(1, route)
  BY <1>2, DocumentPaths DEF MayPass
<1> QED
  BY <1>2, <1>3, DescriptionsOfTwo

\* No path of the users document is like one of the health document.
LEMMA UsersUnlikeHealth ==
  ASSUME NEW path \in {"/users", "/user"}, NEW p \in {"/healthz", "/livez", "/readyz"}
  PROVE  ~ Contains(path, p) /\ ~ Contains(p, path)
  BY DEF Contains

LEMMA UsersDescribed ==
  ASSUME NEW route \in UsersDocument
  PROVE  Descriptions(route) = {route}
<1>1. PICK method \in {"GET", "POST"}, path \in {"/users", "/user"} : route = <<method, path>>
  BY DEF UsersDocument
<1>2. Found(1, route) = {} /\ MayPass(1, route)
  BY <1>1, DocumentPaths, UsersUnlikeHealth, FoundNothing
<1>3. Found(2, route) = {route}
  BY <1>1, DocumentPaths, FoundExactly
<1>4. ~ MayPass(2, route)
  BY <1>3, DocumentPaths DEF MayPass
<1> QED
  BY <1>2, <1>3, <1>4, DescriptionsOfTwo

TestPaths == {"/success", "/failure", "/latency", "/heavy"}

LEMMA TestsUnlikeAny ==
  ASSUME NEW path \in TestPaths,
         NEW p \in {"/healthz", "/livez", "/readyz", "/users", "/user"}
  PROVE  ~ Contains(path, p) /\ ~ Contains(p, path)
  BY DEF Contains, TestPaths

LEMMA TestsUndescribed ==
  ASSUME NEW path \in TestPaths
  PROVE  Descriptions(<<"GET", path>>) = {Undescribed}
<1> DEFINE route == <<"GET", path>>
<1>1. Found(1, route) = {} /\ MayPass(1, route)
  BY DocumentPaths, TestsUnlikeAny, FoundNothing
<1>2. Found(2, route) = {} /\ MayPass(2, route)
  BY DocumentPaths, TestsUnlikeAny, FoundNothing
<1> HIDE DEF route
<1>3. Descriptions(route) = {Undescribed}
  BY <1>1, <1>2, DescriptionsOfTwo
<1> QED
  BY <1>3 DEF route

\* What is in two lists one after the other is in one of them.
LEMMA Concatenated ==
  ASSUME NEW S, NEW a \in Seq(S), NEW b \in Seq(S), NEW i \in DOMAIN (a \o b)
  PROVE  \/ \E j \in DOMAIN a : (a \o b)[i] = a[j]
         \/ \E j \in DOMAIN b : (a \o b)[i] = b[j]
<1>1. i \in 1..(Len(a) + Len(b)) /\ Len(a) \in Nat /\ Len(b) \in Nat
  OBVIOUS
<1>2. CASE i <= Len(a)
  <2>1. i \in DOMAIN a /\ (a \o b)[i] = a[i]
    BY <1>1, <1>2
  <2> QED
    BY <2>1
<1>3. CASE i > Len(a)
  <2>1. i - Len(a) \in DOMAIN b /\ (a \o b)[i] = b[i - Len(a)]
    BY <1>1, <1>3
  <2> QED
    BY <2>1
<1> QED
  BY <1>1, <1>2, <1>3

\* The router's routes are those of the two documents and the test routes.
LEMMA RegisteredRoutes ==
  ASSUME NEW i \in DOMAIN Registered
  PROVE  \/ Registered[i] \in Documented
         \/ /\ Registered[i] \notin Documented
            /\ \E path \in TestPaths : Registered[i] = <<"GET", path>>
<1> DEFINE Routes == Documented \cup {<<"GET", path>> : path \in TestPaths}
<1>1. HealthRoutes \in Seq(Routes) /\ UserRoutes \in Seq(Routes) /\ TestRoutes \in Seq(Routes)
  <2>1. ASSUME NEW a \in Routes, NEW b \in Routes, NEW c \in Routes
        PROVE  <<a, b, c>> \in Seq(Routes)
    <3> HIDE DEF Routes
    <3> QED
      OBVIOUS
  <2>2. ASSUME NEW a \in Routes, NEW b \in Routes, NEW c \in Routes, NEW d \in Routes
        PROVE  <<a, b, c, d>> \in Seq(Routes)
    <3> HIDE DEF Routes
    <3> QED
      OBVIOUS
  <2> HIDE DEF Routes
  <2>4. HealthRoutes \in Seq(Routes)
    <3>1. \A path \in {"/healthz", "/livez", "/readyz"} : <<"GET", path>> \in Routes
      BY DEF Routes, Documented, HealthDocument
    <3> QED
      BY <3>1, <2>1 DEF HealthRoutes
  <2>5. UserRoutes \in Seq(Routes)
    <3>1. <<"GET", "/users">> \in Routes /\ <<"POST", "/user">> \in Routes
          /\ <<"GET", "/user">> \in Routes
      BY DEF Routes, Documented, UsersDocument
    <3> QED
      BY <3>1, <2>1 DEF UserRoutes
  <2>6. TestRoutes \in Seq(Routes)
    <3>1. \A path \in TestPaths : <<"GET", path>> \in Routes
      BY DEF Routes
    <3> QED
      BY <3>1, <2>2 DEF TestRoutes, TestPaths
  <2> QED
    BY <2>4, <2>5, <2>6
<1> HIDE DEF Routes
<1>2. (HealthRoutes \o UserRoutes) \o TestRoutes = Registered
  BY <1>1 DEF Registered
<1>3. \/ \E j \in DOMAIN HealthRoutes : Registered[i] = HealthRoutes[j]
      \/ \E j \in DOMAIN UserRoutes : Registered[i] = UserRoutes[j]
      \/ \E j \in DOMAIN TestRoutes : Registered[i] = TestRoutes[j]
  <2> DEFINE front == HealthRoutes \o UserRoutes
  <2>1. front \in Seq(Routes) /\ Registered = front \o TestRoutes
    BY <1>1, <1>2
  <2> HIDE DEF front
  <2>2. \/ \E j \in DOMAIN front : Registered[i] = front[j]
        \/ \E j \in DOMAIN TestRoutes : Registered[i] = TestRoutes[j]
    <3>1. \A a, b \in Seq(Routes) : \A k \in DOMAIN (a \o b) :
            \/ \E j \in DOMAIN a : (a \o b)[k] = a[j]
            \/ \E j \in DOMAIN b : (a \o b)[k] = b[j]
      BY Concatenated
    <3>2. i \in DOMAIN (front \o TestRoutes) /\ TestRoutes \in Seq(Routes)
      BY <1>1, <2>1
    <3> QED
      BY <2>1, <3>1, <3>2, Zenon
  <2>3. \A j \in DOMAIN front : \/ \E m \in DOMAIN HealthRoutes : front[j] = HealthRoutes[m]
                               \/ \E m \in DOMAIN UserRoutes : front[j] = UserRoutes[m]
    BY <1>1, Concatenated DEF front
  <2> QED
    BY <2>2, <2>3
<1>4. \A j \in DOMAIN HealthRoutes : HealthRoutes[j] \in Documented
  BY DEF HealthRoutes, Documented, HealthDocument
<1>5. \A j \in DOMAIN UserRoutes : UserRoutes[j] \in Documented
  BY DEF UserRoutes, Documented, UsersDocument
<1>6. \A j \in DOMAIN TestRoutes : \E path \in TestPaths : TestRoutes[j] = <<"GET", path>>
  BY DEF TestRoutes, TestPaths
<1>7. \A path \in TestPaths : <<"GET", path>> \notin Documented
  BY DEF TestPaths, Documented, HealthDocument, UsersDocument
<1> QED
  BY <1>3, <1>4, <1>5, <1>6, <1>7

\* Each registered route has one description, whichever way the maps are walked.
LEMMA OneDescription ==
  ASSUME NEW i \in DOMAIN Registered, NEW d \in Descriptions(Registered[i])
  PROVE  d = IF Registered[i] \in Documented THEN Registered[i] ELSE Undescribed
<1>1. CASE Registered[i] \in Documented
  BY <1>1, HealthDescribed, UsersDescribed DEF Documented
<1>2. CASE Registered[i] \notin Documented
  <2>1. PICK path \in TestPaths : Registered[i] = <<"GET", path>>
    BY <1>2, RegisteredRoutes
  <2> QED
    BY <1>2, <2>1, TestsUndescribed
<1> QED
  BY <1>1, <1>2

LEMMA PrintsOneMore ==
  ASSUME IInv, PrintedTruly, PrintRoute
  PROVE  PrintedTruly'
<1>1. PICK d \in Descriptions(Registered[Len(printed) + 1]) : printed' = Append(printed, d)
  BY DEF PrintRoute
<1>2. printed \in Seq(Summaries) /\ Len(printed) < Len(Registered)
  BY DEF IInv, TypeOK, PrintRoute
<1>3. Len(printed) + 1 \in DOMAIN Registered
  BY <1>2 DEF Registered, HealthRoutes, UserRoutes, TestRoutes
<1>4. ASSUME NEW i \in DOMAIN printed'
      PROVE  \/ i \in DOMAIN printed /\ printed'[i] = printed[i]
             \/ i = Len(printed) + 1 /\ printed'[i] = d
  BY <1>1, <1>2
<1> QED
  BY <1>3, <1>4, OneDescription DEF PrintedTruly

\* routes_printer.go:29-78: with the documents and routes of the repository each route is
\* printed with the summary of its own operation, and the test routes with none, although
\* the printer takes whichever similar path a map brings first.
THEOREM PrintsTruly == Spec => []PrintedTruly
<1>1. Init => PrintedTruly
  BY DEF Init, PrintedTruly
<1>2. IInv /\ PrintedTruly /\ [Next]_vars => PrintedTruly'
  <2> SUFFICES ASSUME IInv, PrintedTruly, [Next]_vars PROVE PrintedTruly'
    OBVIOUS
  <2>1. CASE PrintRoute
    BY <2>1, PrintsOneMore
  <2>2. CASE printed' = printed
    BY <2>2 DEF PrintedTruly
  <2>3. CASE printed' = << >>
    BY <2>3 DEF PrintedTruly
  <2>4. \/ PrintRoute
        \/ printed' = printed
        \/ printed' = << >>
    <3>1. ASSUME NEW how, End(how) PROVE printed' = << >>
      BY <3>1 DEF End
    <3>2. CASE Start
      BY <3>2 DEF Start
    <3>3. CASE Proceed
      BY <3>1, <3>3 DEF Proceed, Load, InitTracing, InitAuth, Discover, DiscoveryFails,
                        Register, Route, Listen, Exit
    <3>4. CASE Register("waiting") \/ FetchFails \/ Tick \/ ComeAndGo \/ Refresh
      BY <3>4 DEF Register, FetchFails, Tick, ComeAndGo, Refresh
    <3>5. CASE RegisterFails \/ ListenFails \/ Probe \/ Terminate
      BY <3>1, <3>5 DEF RegisterFails, ListenFails, Probe, Terminate
    <3>6. CASE \E K \in KeySets : Rotate(K)
      BY <3>6 DEF Rotate
    <3>7. ASSUME NEW r \in Requests,
                 (\E t \in Tokens : Arrive(r, t)) \/ Look(r) \/ Judge(r) \/ Leave(r)
          PROVE  printed' = printed
      BY <3>7 DEF Arrive, Look, Judge, Leave
    <3>8. CASE UNCHANGED vars
      BY <3>8 DEF vars
    <3> QED
      BY <3>2, <3>3, <3>4, <3>5, <3>6, <3>7, <3>8 DEF Next
  <2> QED
    BY <2>1, <2>2, <2>3, <2>4
<1> QED
  BY <1>1, <1>2, LifeInductive, PTL DEF Spec
=============================================================================
