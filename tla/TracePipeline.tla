---------------------------- MODULE TracePipeline ----------------------------
(***************************************************************************)
(* The path of a span from the handler that ends it to the trace store:    *)
(*                                                                         *)
(*   handler --> queue of the SDK's batch processor --> otel-lb            *)
(*           --> the otel-tail-sampler pod that owns the trace --> store   *)
(*                                                                         *)
(* with the clock, the deadlines that the batch timers put on each hop,    *)
(* the sampler's decision_wait, and what goes wrong on the way: full       *)
(* queues, killed processes, failed exports, replaced pods, hash rings     *)
(* that change under a trace, redeliveries and stalls.                     *)
(*                                                                         *)
(* A trace is one request to a trace-test endpoint.  Its spans are grouped *)
(* in the three that the sampling policies tell apart, and that end in     *)
(* this order: "early" (cache.lookup, auth.validate), "work"               *)
(* (store.user.fetch, upstream.search) and "server" (response.encode, the  *)
(* handler's own span and the otelchi server span around it).              *)
(***************************************************************************)
EXTENDS Naturals, FiniteSets

CONSTANTS
  Traces,        \* requests that get a trace id
  Pods,          \* addresses a tail-sampler pod may have
  Replicas,      \* replicaCount of the StatefulSet
  Owner(_, _),   \* Owner(R, t): where the hash of t points in the ring R
  Baseline,      \* traces the probabilistic policy keeps
  ReqMax,        \* the longest a trace-test handler takes
  SlowAfter,     \* threshold of the latency policy
  BatchDelay,    \* the SDK's batch timer, and the export it starts
  LbDelay,       \* otel-lb's batch timer and its export timeout
  DecisionWait,  \* decision_wait of the tail sampler
  QueueCap,      \* spans the SDK's queue holds
  NumTraces,     \* num_traces of the tail sampler
  Faults,        \* the kinds of fault that may happen
  LastStart,     \* bound: no request starts later
  MaxTime        \* bound: the clock stops here

FaultKinds == {"kill", "outage", "reject", "pod", "retry", "stall"}
Kinds == {"success", "failure", "latency"}
Spans == {"early", "work", "server"}

ASSUME TimeAssumption ==
  {ReqMax, SlowAfter, BatchDelay, LbDelay, DecisionWait, LastStart, MaxTime} \subseteq Nat
ASSUME SizeAssumption == {Replicas, QueueCap, NumTraces} \subseteq Nat \ {0}
ASSUME SetAssumption == Baseline \subseteq Traces /\ Faults \subseteq FaultKinds

\* The loadbalancing exporter hashes consistently: the owner is in the ring, and
\* a ring that loses members moves only the traces that those members owned.
ASSUME OwnerAssumption ==
  \A R \in SUBSET Pods : \A t \in Traces :
    /\ R # {} => Owner(R, t) \in R
    /\ \A S \in SUBSET R : Owner(R, t) \in S => Owner(S, t) = Owner(R, t)

\* The values that the deployment gives these constants satisfy this: decision_wait
\* (15s) outlasts the slowest request (1.5s) with both of the hops behind it.
ASSUME WaitAssumption == DecisionWait > ReqMax + BatchDelay + LbDelay

VARIABLES
  now,       \* the clock
  phase,     \* phase[t]: the span of t that is running, or "idle", "done", "aborted"
  kind,      \* kind[t]: the endpoint that was called
  start,     \* start[t]: when the request started
  endAt,     \* endAt[t][s]: when span s of t ended
  queue,     \* spans in the application's batch processor
  lb,        \* spans in otel-lb
  ring,      \* the pods otel-lb hashes over, as its resolver last saw them
  up,        \* the pods that run
  held,      \* held[p][t]: spans of the undecided trace t in the memory of p
  verdict,   \* verdict[p][t]: what p knows of t
  due,       \* due[p][t]: when p is to decide t
  stored,    \* spans in the trace store
  judged,    \* history: judged[t] is the set of verdicts ever given on t
  hurt       \* history: traces that an incident on the way damaged

app == <<phase, kind, start, endAt>>
sampler == <<held, verdict, due, stored, judged>>
vars == <<now, phase, kind, start, endAt, queue, lb, ring, up,
          held, verdict, due, stored, judged, hurt>>

\* The span that runs when s has ended.
After(s) == CASE s = "early" -> "work" [] s = "work" -> "server" [] s = "server" -> "done"

Running(t) == phase[t] \in Spans

\* The spans of t whose status the handlers set to Error.
ErrorSpans(t) == IF kind[t] = "failure" THEN {"work", "server"} ELSE {}

StartOf(t, s) == IF s = "work" THEN endAt[t]["early"] ELSE start[t]

\* Mutant of Slow: a request of exactly the threshold passes for a fast one.
SlowBeyond(t, S) == \E a, b \in S : endAt[t][b] > StartOf(t, a) + SlowAfter

\* The latency policy: from the first start to the last end among the spans in S.
Slow(t, S) == \E a, b \in S : endAt[t][b] >= StartOf(t, a) + SlowAfter

Important(t, S) == S \cap ErrorSpans(t) # {} \/ Slow(t, S)

\* Mutant of Keep: the latency policy is missing.
KeepErrorsOnly(t, S) == S \cap ErrorSpans(t) # {} \/ t \in Baseline

\* The policies, over the spans S of t that the pod holds; one that says keep wins.
Keep(t, S) == Important(t, S) \/ t \in Baseline

InLb(t) == {s \in Spans : <<t, s>> \in lb}
Upstream(t) == {s \in Spans : <<t, s>> \in queue \cup lb}

\* Mutant of Late: otel-lb has no timer of its own.
LateInQueueOnly(t, clock) ==
  \/ Running(t) /\ clock > start[t] + ReqMax
  \/ \E s \in Spans : <<t, s>> \in queue /\ clock > endAt[t][s] + BatchDelay

\* At time clock, a span of t has outstayed the timers of the stage it is in.
Late(t, clock) ==
  \/ Running(t) /\ clock > start[t] + ReqMax
  \/ \E s \in Spans : <<t, s>> \in queue /\ clock > endAt[t][s] + BatchDelay
  \/ \E s \in InLb(t) : clock > endAt[t][s] + BatchDelay + LbDelay

Init ==
  /\ now = 0
  /\ phase = [t \in Traces |-> "idle"]
  /\ kind = [t \in Traces |-> "success"]
  /\ start = [t \in Traces |-> 0]
  /\ endAt = [t \in Traces |-> [s \in Spans |-> 0]]
  /\ queue = {}
  /\ lb = {}
  /\ up \in {S \in SUBSET Pods : Cardinality(S) = Replicas}
  /\ ring = up
  /\ held = [p \in Pods |-> [t \in Traces |-> {}]]
  /\ verdict = [p \in Pods |-> [t \in Traces |-> "none"]]
  /\ due = [p \in Pods |-> [t \in Traces |-> 0]]
  /\ stored = {}
  /\ judged = [t \in Traces |-> {}]
  /\ hurt = {}

-----------------------------------------------------------------------------
\* The application.

\* otelchi opens the server span of a new request; the handler starts.
Begin(t, k) ==
  /\ phase[t] = "idle"
  /\ now <= LastStart
  /\ phase' = [phase EXCEPT ![t] = "early"]
  /\ kind' = [kind EXCEPT ![t] = k]
  /\ start' = [start EXCEPT ![t] = now]
  /\ UNCHANGED <<now, endAt, queue, lb, ring, up, sampler, hurt>>

\* Mutant of EndSpan: the phase moves on before the span is handed over.
EndSpanTooLate(t) ==
  /\ Running(t)
  /\ phase[t] = "work" /\ kind[t] = "latency" => now >= start[t] + SlowAfter
  /\ phase' = [phase EXCEPT ![t] = After(phase[t])]
  /\ endAt' = [endAt EXCEPT ![t][phase[t]] = now]
  /\ IF Cardinality(queue) < QueueCap
     THEN /\ queue' = queue \cup {<<t, phase'[t]>>}
          /\ UNCHANGED hurt
     ELSE /\ hurt' = hurt \cup {t}
          /\ UNCHANGED queue
  /\ UNCHANGED <<now, kind, start, lb, ring, up, sampler>>

\* Mutant of EndSpan: the queue is taken for full one span too soon.
EndSpanOneShort(t) ==
  /\ Running(t)
  /\ phase[t] = "work" /\ kind[t] = "latency" => now >= start[t] + SlowAfter
  /\ phase' = [phase EXCEPT ![t] = After(phase[t])]
  /\ endAt' = [endAt EXCEPT ![t][phase[t]] = now]
  /\ IF Cardinality(queue) + 1 < QueueCap
     THEN /\ queue' = queue \cup {<<t, phase[t]>>}
          /\ UNCHANGED hurt
     ELSE /\ hurt' = hurt \cup {t}
          /\ UNCHANGED queue
  /\ UNCHANGED <<now, kind, start, lb, ring, up, sampler>>

\* A span ends and is handed to the batch processor, which drops it when its queue
\* is full.  The slow upstream call of /latency takes longer than the threshold.
EndSpan(t) ==
  /\ Running(t)
  /\ phase[t] = "work" /\ kind[t] = "latency" => now >= start[t] + SlowAfter
  /\ phase' = [phase EXCEPT ![t] = After(phase[t])]
  /\ endAt' = [endAt EXCEPT ![t][phase[t]] = now]
  /\ IF Cardinality(queue) < QueueCap
     THEN /\ queue' = queue \cup {<<t, phase[t]>>}
          /\ UNCHANGED hurt
     ELSE /\ hurt' = hurt \cup {t}
          /\ UNCHANGED queue
  /\ UNCHANGED <<now, kind, start, lb, ring, up, sampler>>

\* The batch processor exports what it has queued to otel-lb.
Export ==
  /\ queue # {}
  /\ lb' = lb \cup queue
  /\ queue' = {}
  /\ UNCHANGED <<now, app, ring, up, sampler, hurt>>

\* The export fails for good and the batch is gone.
ExportFails ==
  /\ "outage" \in Faults
  /\ queue # {}
  /\ queue' = {}
  /\ hurt' = hurt \cup {t \in Traces : \E s \in Spans : <<t, s>> \in queue}
  /\ UNCHANGED <<now, app, lb, ring, up, sampler>>

\* The process ends and is started again.  Nothing in main() catches a signal, so
\* the deferred flush does not run: requests and queued spans are gone.
Kill ==
  LET lost == {t \in Traces : Running(t) \/ \E s \in Spans : <<t, s>> \in queue}
  IN /\ "kill" \in Faults
     /\ lost # {}
     /\ phase' = [t \in Traces |-> IF Running(t) THEN "aborted" ELSE phase[t]]
     /\ queue' = {}
     /\ hurt' = hurt \cup lost
     /\ UNCHANGED <<now, kind, start, endAt, lb, ring, up, sampler>>

-----------------------------------------------------------------------------
\* otel-lb and the samplers.

Tracked(p) == {t \in Traces : verdict[p][t] # "none"}

\* What a pod that tracks num_traces traces gives up for a new one: the oldest.
Victims(p) ==
  IF Cardinality(Tracked(p)) < NumTraces THEN {{}}
  ELSE {{t} : t \in {u \in Tracked(p) : \A v \in Tracked(p) : due[p][u] <= due[p][v]}}

\* The first spans of t reach pod p.  Traces given up before their decision are hurt.
Admit(p, t, S) ==
  /\ verdict[p][t] = "none"
  /\ \E gone \in Victims(p) :
       /\ verdict' = [verdict EXCEPT ![p] =
            [u \in Traces |-> IF u = t THEN "pending" ELSE
                              IF u \in gone THEN "none" ELSE verdict[p][u]]]
       /\ held' = [held EXCEPT ![p] =
            [u \in Traces |-> IF u = t THEN S ELSE
                              IF u \in gone THEN {} ELSE held[p][u]]]
       /\ due' = [due EXCEPT ![p] =
            [u \in Traces |-> IF u = t THEN now + DecisionWait ELSE
                              IF u \in gone THEN 0 ELSE due[p][u]]]
       /\ hurt' = hurt \cup {u \in gone : verdict[p][u] = "pending"}
  /\ UNCHANGED stored

\* Mutant of Gather: a batch replaces the spans that came before it.
GatherLast(p, t, S) ==
  /\ verdict[p][t] = "pending"
  /\ held' = [held EXCEPT ![p][t] = S]
  /\ UNCHANGED <<verdict, due, stored, hurt>>

\* More spans of a trace that waits for its decision.
Gather(p, t, S) ==
  /\ verdict[p][t] = "pending"
  /\ held' = [held EXCEPT ![p][t] = held[p][t] \cup S]
  /\ UNCHANGED <<verdict, due, stored, hurt>>

\* Spans of a decided trace follow the decision.
FollowVerdict(p, t, S) ==
  /\ verdict[p][t] \in {"sampled", "notSampled"}
  /\ stored' = IF verdict[p][t] = "sampled" THEN stored \cup ({t} \X S) ELSE stored
  /\ UNCHANGED <<held, verdict, due, hurt>>

\* Mutant of Forward: otel-lb balances the load without looking at the trace id.
ForwardAnywhere(t, acked) ==
  \E p \in ring \cap up :
    LET S == InLb(t)
    IN /\ S # {}
       /\ acked \/ "retry" \in Faults
       /\ Admit(p, t, S) \/ Gather(p, t, S) \/ FollowVerdict(p, t, S)
       /\ lb' = IF acked THEN lb \ ({t} \X Spans) ELSE lb
       /\ UNCHANGED <<now, app, queue, ring, up, judged>>

\* Mutant of Forward: a pod that is gone still takes spans.
ForwardToTheGone(t, acked) ==
  LET p == Owner(ring, t)
      S == InLb(t)
  IN /\ S # {}
     /\ ring # {}
     /\ acked \/ "retry" \in Faults
     /\ Admit(p, t, S) \/ Gather(p, t, S) \/ FollowVerdict(p, t, S)
     /\ lb' = IF acked THEN lb \ ({t} \X Spans) ELSE lb
     /\ UNCHANGED <<now, app, queue, ring, up, judged>>

\* otel-lb sends the spans of t to the pod that its ring names.  When the answer is
\* lost the pod has them and otel-lb keeps them for another try.
Forward(t, acked) ==
  LET p == Owner(ring, t)
      S == InLb(t)
  IN /\ S # {}
     /\ ring # {}
     /\ p \in up
     /\ acked \/ "retry" \in Faults
     /\ Admit(p, t, S) \/ Gather(p, t, S) \/ FollowVerdict(p, t, S)
     /\ lb' = IF acked THEN lb \ ({t} \X Spans) ELSE lb
     /\ UNCHANGED <<now, app, queue, ring, up, judged>>

\* otel-lb gives up on the spans of t: refused memory, retries used up, a crash.
ForwardFails(t) ==
  /\ "reject" \in Faults
  /\ InLb(t) # {}
  /\ lb' = lb \ ({t} \X Spans)
  /\ hurt' = hurt \cup {t}
  /\ UNCHANGED <<now, app, queue, ring, up, sampler>>

\* Mutant of Decide: a trace that no policy keeps never gets its verdict.
DecideToKeep(p, t) ==
  /\ verdict[p][t] = "pending"
  /\ now >= due[p][t]
  /\ Keep(t, held[p][t])
  /\ verdict' = [verdict EXCEPT ![p][t] = "sampled"]
  /\ judged' = [judged EXCEPT ![t] = judged[t] \cup {"sampled"}]
  /\ stored' = stored \cup ({t} \X held[p][t])
  /\ held' = [held EXCEPT ![p][t] = {}]
  /\ UNCHANGED <<now, app, queue, lb, ring, up, due, hurt>>

\* Mutant of Decide: the pod does not wait for decision_wait.
DecideAtOnce(p, t) ==
  /\ verdict[p][t] = "pending"
  /\ LET keep == Keep(t, held[p][t])
         v == IF keep THEN "sampled" ELSE "notSampled"
     IN /\ verdict' = [verdict EXCEPT ![p][t] = v]
        /\ judged' = [judged EXCEPT ![t] = judged[t] \cup {v}]
        /\ stored' = IF keep THEN stored \cup ({t} \X held[p][t]) ELSE stored
  /\ held' = [held EXCEPT ![p][t] = {}]
  /\ UNCHANGED <<now, app, queue, lb, ring, up, due, hurt>>

\* Pod p decides t when decision_wait has passed since its first span arrived, on
\* the spans it holds then.
Decide(p, t) ==
  /\ verdict[p][t] = "pending"
  /\ now >= due[p][t]
  /\ LET keep == Keep(t, held[p][t])
         v == IF keep THEN "sampled" ELSE "notSampled"
     IN /\ verdict' = [verdict EXCEPT ![p][t] = v]
        /\ judged' = [judged EXCEPT ![t] = judged[t] \cup {v}]
        /\ stored' = IF keep THEN stored \cup ({t} \X held[p][t]) ELSE stored
  /\ held' = [held EXCEPT ![p][t] = {}]
  /\ UNCHANGED <<now, app, queue, lb, ring, up, due, hurt>>

\* Mutant of PodDown: the pod leaves the service and goes on waiting to decide.
PodDrains(p) ==
  /\ "pod" \in Faults
  /\ p \in up
  /\ up' = up \ {p}
  /\ UNCHANGED <<now, app, queue, lb, ring, sampler, hurt>>

\* A sampler pod is gone, and with it what it had in memory.
PodDown(p) ==
  /\ "pod" \in Faults
  /\ p \in up
  /\ up' = up \ {p}
  /\ held' = [held EXCEPT ![p] = [t \in Traces |-> {}]]
  /\ verdict' = [verdict EXCEPT ![p] = [t \in Traces |-> "none"]]
  /\ due' = [due EXCEPT ![p] = [t \in Traces |-> 0]]
  /\ hurt' = hurt \cup {t \in Traces : verdict[p][t] = "pending"}
  /\ UNCHANGED <<now, app, queue, lb, ring, stored, judged>>

\* The StatefulSet starts a pod for a missing replica, at any free address.
PodUp(p) ==
  /\ p \in Pods \ up
  /\ Cardinality(up) < Replicas
  /\ up' = up \cup {p}
  /\ UNCHANGED <<now, app, queue, lb, ring, sampler, hurt>>

\* Traces that a new ring cuts in two: a pod waits for the rest of their spans,
\* and the rest would now go elsewhere.
CutBy(R) ==
  {t \in Traces : /\ Running(t) \/ Upstream(t) # {}
                  /\ \E p \in Pods : verdict[p][t] = "pending" /\ Owner(R, t) # p}

\* The k8s resolver of otel-lb notices which pods run.
Resolve ==
  /\ ring # up
  /\ ring' = up
  /\ hurt' = hurt \cup CutBy(up)
  /\ UNCHANGED <<now, app, queue, lb, up, sampler>>

\* Time passes.  Without stalls no deadline is missed; a stall that lets a span
\* outstay the timers hurts its trace.
Tick ==
  LET late == {t \in Traces : Late(t, now + 1)}
  IN /\ now < MaxTime
     /\ late = {} \/ "stall" \in Faults
     /\ now' = now + 1
     /\ hurt' = hurt \cup late
     /\ UNCHANGED <<app, queue, lb, ring, up, sampler>>

-----------------------------------------------------------------------------
Next ==
  \/ \E t \in Traces, k \in Kinds : Begin(t, k)
  \/ \E t \in Traces : EndSpan(t)
  \/ Export
  \/ ExportFails
  \/ Kill
  \/ \E t \in Traces, acked \in BOOLEAN : Forward(t, acked)
  \/ \E t \in Traces : ForwardFails(t)
  \/ \E p \in Pods, t \in Traces : Decide(p, t)
  \/ \E p \in Pods : PodDown(p)
  \/ \E p \in Pods : PodUp(p)
  \/ Resolve
  \/ Tick

\* Handlers return, timers fire, Kubernetes restores replicas, and time goes on.
Fairness ==
  /\ \A t \in Traces : WF_vars(EndSpan(t)) /\ WF_vars(Forward(t, TRUE))
  /\ \A p \in Pods : WF_vars(PodUp(p))
  /\ \A p \in Pods, t \in Traces : WF_vars(Decide(p, t))
  /\ WF_vars(Export)
  /\ WF_vars(Resolve)
  /\ WF_vars(Tick)

Spec == Init /\ [][Next]_vars

FairSpec == Spec /\ Fairness

-----------------------------------------------------------------------------
\* Properties.

SpanTimes == [Spans -> Nat]

\* Every variable stays in the set its field of the system has.
TypeOK ==
  /\ now \in Nat
  /\ phase \in [Traces -> Spans \cup {"idle", "done", "aborted"}]
  /\ kind \in [Traces -> Kinds]
  /\ start \in [Traces -> Nat]
  /\ endAt \in [Traces -> SpanTimes]
  /\ queue \in SUBSET (Traces \X Spans)
  /\ lb \in SUBSET (Traces \X Spans)
  /\ ring \in SUBSET Pods
  /\ up \in SUBSET Pods
  /\ held \in [Pods -> [Traces -> SUBSET Spans]]
  /\ verdict \in [Pods -> [Traces -> {"none", "pending", "sampled", "notSampled"}]]
  /\ due \in [Pods -> [Traces -> Nat]]
  /\ stored \in SUBSET (Traces \X Spans)
  /\ judged \in [Traces -> SUBSET {"sampled", "notSampled"}]
  /\ hurt \in SUBSET Traces

StoredOf(t) == {s \in Spans : <<t, s>> \in stored}

\* The request of t has ended and none of its spans is on its way or undecided.
Settled(t) ==
  /\ phase[t] = "done"
  /\ Upstream(t) = {}
  /\ \A p \in Pods : verdict[p][t] # "pending"

\* README.md:12-14: a settled trace is stored exactly when its request failed, was
\* slow or is of the baseline sample - unless an incident on the way damaged it.
\* So the incidents that mark a trace as hurt are the only ways to lose a failure.
RightlyStored ==
  \A t \in Traces : Settled(t) /\ t \notin hurt =>
    (Keep(t, Spans) <=> StoredOf(t) # {})

\* README.md:13-14, "100% of failures should be recorded and stored", "100% of slow(>1s)
\* request should be recorded": a settled trace of /failure or /latency is stored with all
\* of its spans, by what was called and not by what the policies make of it - exactly at
\* the threshold too (/latency takes SlowAfter at least) - unless an incident damaged it.
FailuresAndSlowStored ==
  \A t \in Traces :
    Settled(t) /\ t \notin hurt /\ kind[t] \in {"failure", "latency"} => StoredOf(t) = Spans

\* No trace is stored in part, at any moment, unless an incident damaged it.
AllOrNothing == \A t \in Traces : t \notin hurt => StoredOf(t) \in {{}, Spans}

\* README.md:22, "all spans of a trace land on the same pod": two pods never both
\* know an undamaged trace, and it never gets a verdict after a different one.
OneJudge ==
  \A t \in Traces : t \notin hurt =>
    /\ \A v, w \in judged[t] : v = w
    /\ \A p, q \in Pods :
         verdict[p][t] = "pending" /\ verdict[q][t] # "none" => p = q

\* A pod only ever decides an undamaged trace on all of its spans: decision_wait is
\* long enough for the last of them to arrive (k8s/otel-tail-sampler.yaml:87).
WholeDecisions ==
  [][\A p \in Pods, t \in Traces :
       /\ t \notin hurt
       /\ verdict[p][t] = "pending"
       /\ verdict[p][t]' \in {"sampled", "notSampled"}
       => phase[t] = "done" /\ held[p][t] = Spans]_vars

\* k8s/otel-tail-sampler.yaml:36, "so the LB's hash ring shifts gradually": when the
\* resolver drops pods from the ring, no trace of the remaining pods is cut.
ShrinkingRingCutsNothing == [][ring' \subseteq ring => ring' = ring \/ hurt' = hurt]_vars

\* Queue and memory hold all that there is.
Roomy ==
  /\ IsFiniteSet(Traces)
  /\ QueueCap >= Cardinality(Traces \X Spans)
  /\ NumTraces >= Cardinality(Traces)

\* Where there is room and nothing worse happens than a lost acknowledgement, with its
\* redelivery (k8s/otel-lb.yaml:109), no trace comes to harm: the premise that the other
\* properties make of a trace is no more than the absence of faults.
OnlyFaultsHarm == Roomy /\ Faults \subseteq {"retry"} => hurt = {}

\* Every request that ends is judged, unless an incident damages its trace: again and again
\* there is a moment at which no ended one waits for its verdict (k8s/otel-tail-sampler.yaml:87).
EventuallyJudged ==
  []<>(\A t \in Traces : phase[t] = "done" => judged[t] # {} \/ t \in hurt)

\* README.md:13 as it stands: every failure that was answered ends up in the store.
FailuresStored ==
  \A t \in Traces : Settled(t) /\ kind[t] = "failure" => StoredOf(t) = Spans

\* What a trace looks like from outside: it has ended with its server span, and it is
\* judged by its first verdict.
Status(t) == IF phase[t] # "done" THEN "open" ELSE
             IF StoredOf(t) = Spans THEN "kept" ELSE
             IF judged[t] # {} THEN "dropped" ELSE "ended"

Matters(t) == phase[t] = "done" /\ Important(t, Spans)

\* The promise of tail-based sampling, with the state that this pipeline gives it.
Promise == INSTANCE TailSampling WITH
  status <- [t \in Traces |-> Status(t)],
  matters <- [t \in Traces |-> Matters(t)]

\* Without faults the pipeline keeps that promise, liveness included.
PromiseKept == Promise!Spec

\* The spans of t that have ended.
Ended(t) ==
  CASE phase[t] = "work" -> {"early"}
    [] phase[t] = "server" -> {"early", "work"}
    [] phase[t] = "done" -> Spans
    [] OTHER -> {}

Queued(t) == {s \in Spans : <<t, s>> \in queue}

\* What the application hands to the collectors, in the terms of SpanGroups.
Groups ==
  INSTANCE SpanGroups WITH
    ended <- [t \in Traces |-> IF t \in hurt THEN {} ELSE Ended(t)],
    exported <- [t \in Traces |-> IF t \in hurt THEN {} ELSE Ended(t) \ Queued(t)]

\* The groups of a trace leave the application in the order in which they end, whatever
\* happens to it, unless an incident marks the trace: the order that TraceTest shows of
\* every single span.
GroupsInOrder == Groups!Spec

-----------------------------------------------------------------------------
\* The inductive invariant behind RightlyStored, AllOrNothing, OneJudge and
\* WholeDecisions, in parts.  Each part but the last is about one trace.

\* A request that has not started has left nothing anywhere.
Untouched(t) ==
  phase[t] = "idle" => Upstream(t) = {} /\ \A p \in Pods : verdict[p][t] # "pending"

\* Every span is in time: this is what the deadlines of Tick buy.
OnTime(t) ==
  /\ ~ Late(t, now)
  /\ start[t] <= now
  /\ \A s \in Spans : endAt[t][s] <= start[t] + ReqMax

\* Before the verdict, each span that has ended is on its way or held by a judge,
\* and nothing is stored.
Undecided(t) ==
  judged[t] = {} =>
    /\ \A s \in Ended(t) :
         \/ s \in Upstream(t)
         \/ \E p \in Pods : verdict[p][t] = "pending" /\ s \in held[p][t]
    /\ StoredOf(t) = {}
    /\ \A p \in Pods : verdict[p][t] \in {"none", "pending"}

\* The pod that waits to judge t is the only one to know it, waits for the whole of
\* decision_wait, and owns t as long as spans of it are still to come.
SoleJudge(t) ==
  \A p \in Pods : verdict[p][t] = "pending" =>
    /\ judged[t] = {}
    /\ due[p][t] >= start[t] + DecisionWait
    /\ Running(t) \/ Upstream(t) # {} => Owner(ring, t) = p
    /\ \A q \in Pods : verdict[q][t] # "none" => q = p

\* After the verdict nothing of t is on its way, and the verdict was on all of it.
Decided(t) ==
  judged[t] # {} =>
    /\ phase[t] = "done"
    /\ Upstream(t) = {}
    /\ judged[t] = IF Keep(t, Spans) THEN {"sampled"} ELSE {"notSampled"}
    /\ StoredOf(t) = IF Keep(t, Spans) THEN Spans ELSE {}

Intact(t) ==
  /\ phase[t] # "aborted"
  /\ Untouched(t)
  /\ OnTime(t)
  /\ Undecided(t)
  /\ SoleJudge(t)
  /\ Decided(t)

\* A request to /latency has spent the threshold when its slow call has ended.
Tardy(t) ==
  kind[t] = "latency" /\ phase[t] \in {"server", "done"} =>
    endAt[t]["work"] >= start[t] + SlowAfter

\* Only running pods wait to judge.
JudgesAreUp == \A p \in Pods, t \in Traces : verdict[p][t] = "pending" => p \in up

\* Whatever has happened, a trace that no incident touched is intact.
IInv ==
  /\ TypeOK
  /\ \A t \in Traces \ hurt : Intact(t)
  /\ JudgesAreUp
=============================================================================
