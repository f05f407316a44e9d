------------------------------ MODULE TraceTest ------------------------------
(***************************************************************************)
(* The trace-test handlers at work: concurrent requests, each a tree of    *)
(* calls to child under the handler's span and otelchi's server span, and  *)
(* the batch processor of the OpenTelemetry SDK to which every span is     *)
(* handed when it ends.  The handlers' bodies are constants (Scripts has   *)
(* those of the repository), so what is proved holds for any handler that  *)
(* is written with child.                                                  *)
(***************************************************************************)
EXTENDS Naturals, Sequences, FiniteSets

CONSTANTS
  Requests,       \* requests the process may get
  Kinds,          \* the endpoints
  Offered(_),     \* bound: those that request r may call
  SpansOf(_),     \* the spans of a request of a kind; "server" and "handler" are among them
  Inside(_, _),   \* the spans called directly inside a span
  Above(_, _),    \* the spans a span runs in, directly or not
  Before(_, _),   \* the calls that return before a span is called, from the same body
  Sleep(_, _),    \* the milliseconds that the call of a span sleeps
  Total(_, _),    \* the milliseconds that a set of spans sleeps, one after the other
  Fails(_, _),    \* the function given to child returns an error
  Group(_, _),    \* the group of TracePipeline's that a span belongs to
  Slow,           \* the kinds meant to be slow
  Jitter,         \* bound: what the machine may add to a span, in milliseconds
  SlowAfter,      \* threshold_ms of the latency policy
  QueueCap,       \* spans that the SDK's queue holds
  BatchSize,      \* spans that one export takes
  MaxLost,        \* bound: spans that overflow and outages take
  Faults          \* the kinds of fault that may happen: "outage", "kill"

ASSUME OfferedAssumption == \A r \in Requests : Offered(r) \subseteq Kinds

ASSUME SizesAssumption == {QueueCap, BatchSize} \subseteq Nat \ {0} /\ {Jitter, SlowAfter, MaxLost} \subseteq Nat

ASSUME SpansAssumption ==
  \A k \in Kinds : /\ {"server", "handler"} \subseteq SpansOf(k)
                   /\ Above(k, "server") = {} /\ Before(k, "server") = {}
                   /\ \A s \in SpansOf(k) : /\ Inside(k, s) \subseteq SpansOf(k)
                                            /\ Before(k, s) \subseteq SpansOf(k)
                                            /\ Sleep(k, s) \in Nat

\* Nothing sleeps in the server span itself, and sleeps add up.
ASSUME TotalAssumption ==
  \A k \in Kinds :
    /\ Sleep(k, "server") = 0
    /\ Total(k, {}) = 0
    /\ \A S \in SUBSET SpansOf(k) : \A s \in SpansOf(k) \ S :
         Total(k, S \cup {s}) = Total(k, S) + Sleep(k, s)

\* The handlers meant to be slow sleep longer than the threshold, and the others so much
\* less that a slow machine does not lift them over it.
ASSUME LatencyAssumption ==
  \A k \in Kinds :
    IF k \in Slow THEN Total(k, SpansOf(k)) >= SlowAfter
    ELSE Total(k, SpansOf(k)) + Jitter * Cardinality(SpansOf(k)) < SlowAfter

ASSUME KindsAssumption == "none" \notin Kinds

\* The server span holds the handler's, that one all others, and only those can fail.
ASSUME HandlerAssumption ==
  \A k \in Kinds :
    /\ IsFiniteSet(SpansOf(k))
    /\ Inside(k, "server") = {"handler"}
    /\ \A s \in SpansOf(k) \ {"server"} : "server" \in Above(k, s)
    /\ ~ Fails(k, "server") /\ ~ Fails(k, "handler")

\* The spans of a request are a tree: seen from below, and seen from above.
ASSUME TreeAssumption ==
  \A k \in Kinds : \A s \in SpansOf(k) :
    /\ \A p \in SpansOf(k) : s \in Inside(k, p) => Above(k, s) = {p} \cup Above(k, p)
    /\ \A a \in Above(k, s) : a \in SpansOf(k) /\ \E c \in Inside(k, a) : c = s \/ c \in Above(k, s)

\* Span a of a request of kind k ends before span b: it runs inside b, or inside a call
\* that returns before b, or a span that b is in, is called.
Sooner(k, a, b) ==
  \/ b \in Above(k, a)
  \/ \E x \in {a} \cup Above(k, a), y \in {b} \cup Above(k, b) : x \in Before(k, y)

GroupNames == {"early", "work", "server"}

\* No group is empty, and each ends before the next.
ASSUME GroupAssumption ==
  \A k \in Kinds :
    /\ \A g \in GroupNames : \E s \in SpansOf(k) : Group(k, s) = g
    /\ \A a, b \in SpansOf(k) :
         \/ Group(k, a) = "early" /\ Group(k, b) \in {"work", "server"}
         \/ Group(k, a) = "work" /\ Group(k, b) = "server"
         => Sooner(k, a, b)

VARIABLES
  kind,     \* kind[r]: the endpoint that request r called, or "none"
  open,     \* open[r]: the spans of r that have started and not ended
  done,     \* done[r]: those that have ended
  failed,   \* failed[r]: those that got the status Error
  answer,   \* answer[r]: the status sent to the client, 0 before
  elapsed,  \* elapsed[r]: milliseconds that r has slept
  queue,    \* the SDK's queue of ended spans, oldest first
  out,      \* out[r]: the spans of r that were exported
  lost      \* lost[r]: ended spans of r that never will be

request == <<kind, answer, elapsed>>
vars == <<kind, open, done, failed, answer, elapsed, queue, out, lost>>

AllSpans == UNION {SpansOf(k) : k \in Kinds}
Least(m, n) == IF m <= n THEN m ELSE n

Init ==
  /\ kind = [r \in Requests |-> "none"]
  /\ open = [r \in Requests |-> {}]
  /\ done = [r \in Requests |-> {}]
  /\ failed = [r \in Requests |-> {}]
  /\ answer = [r \in Requests |-> 0]
  /\ elapsed = [r \in Requests |-> 0]
  /\ queue = <<>>
  /\ out = [r \in Requests |-> {}]
  /\ lost = [r \in Requests |-> {}]

\* otelchi starts the server span.
Begin(r, k) ==
  /\ kind[r] = "none"
  /\ k \in Offered(r)
  /\ kind' = [kind EXCEPT ![r] = k]
  /\ open' = [open EXCEPT ![r] = {"server"}]
  /\ UNCHANGED <<done, failed, answer, elapsed, queue, out, lost>>

\* Mutant of Enter: a call does not wait for the ones before it.
EnterInParallel(r, p, s) ==
  /\ p \in open[r]
  /\ s \in Inside(kind[r], p)
  /\ s \notin open[r] \cup done[r]
  /\ open' = [open EXCEPT ![r] = @ \cup {s}]
  /\ elapsed' = [elapsed EXCEPT ![r] = @ + Sleep(kind[r], s)]
  /\ UNCHANGED <<kind, done, failed, answer, queue, out, lost>>

\* Mutant of Enter: the function given to child does not wait for its sleep.
EnterAtOnce(r, p, s) ==
  /\ p \in open[r]
  /\ s \in Inside(kind[r], p)
  /\ s \notin open[r] \cup done[r]
  /\ Before(kind[r], s) \subseteq done[r]
  /\ open' = [open EXCEPT ![r] = @ \cup {s}]
  /\ UNCHANGED <<kind, done, failed, answer, elapsed, queue, out, lost>>

\* A span starts inside an open one whose earlier calls have returned, and its call
\* sleeps for the given time.
Enter(r, p, s) ==
  /\ p \in open[r]
  /\ s \in Inside(kind[r], p)
  /\ s \notin open[r] \cup done[r]
  /\ Before(kind[r], s) \subseteq done[r]
  /\ open' = [open EXCEPT ![r] = @ \cup {s}]
  /\ elapsed' = [elapsed EXCEPT ![r] = @ + Sleep(kind[r], s)]
  /\ UNCHANGED <<kind, done, failed, answer, queue, out, lost>>

LostSoFar == Cardinality(UNION {{r} \X lost[r] : r \in Requests})

Failing(r) == \E s \in done[r] : Fails(kind[r], s)

\* The handler writes its answer when its calls have returned; its span is still open.
Respond(r) ==
  /\ "handler" \in open[r]
  /\ Inside(kind[r], "handler") \subseteq done[r]
  /\ answer[r] = 0
  /\ answer' = [answer EXCEPT ![r] = IF Failing(r) THEN 500 ELSE 200]
  /\ UNCHANGED <<kind, open, done, failed, elapsed, queue, out, lost>>

\* Mutant of Erring: the handler ignores the error of its child.
ErringBelow(r, s) ==
  CASE s = "server"  -> answer[r] >= 500
    [] s = "handler" -> FALSE
    [] OTHER -> Fails(kind[r], s)

\* What sets the status Error on span s of r before it ends: child for an error of its
\* function, the handler for an error of its child, TraceErrors for a 5xx answer.
Erring(r, s) ==
  CASE s = "server"  -> answer[r] >= 500
    [] s = "handler" -> Failing(r)
    [] OTHER -> Fails(kind[r], s)

\* Mutant of Leave: a span is handed over before the calls inside it return.
LeaveEarly(r, s) ==
  /\ s \in open[r]
  /\ s = "handler" => answer[r] # 0
  /\ Len(queue) < QueueCap \/ LostSoFar < MaxLost
  /\ open' = [open EXCEPT ![r] = @ \ {s}]
  /\ done' = [done EXCEPT ![r] = @ \cup {s}]
  /\ failed' = [failed EXCEPT ![r] = IF Erring(r, s) THEN @ \cup {s} ELSE @]
  /\ IF Len(queue) < QueueCap
     THEN /\ queue' = Append(queue, <<r, s>>)
          /\ UNCHANGED lost
     ELSE /\ lost' = [lost EXCEPT ![r] = @ \cup {s}]
          /\ UNCHANGED queue
  /\ UNCHANGED <<request, out>>

\* Mutant of Leave: the path of an error returns without ending its span.
LeaveUnended(r, s) ==
  /\ s \in open[r]
  /\ Inside(kind[r], s) \subseteq done[r]
  /\ s = "handler" => answer[r] # 0
  /\ Len(queue) < QueueCap \/ LostSoFar < MaxLost
  /\ open' = [open EXCEPT ![r] = @ \ {s}]
  /\ done' = [done EXCEPT ![r] = @ \cup {s}]
  /\ failed' = [failed EXCEPT ![r] = IF Erring(r, s) THEN @ \cup {s} ELSE @]
  /\ IF Erring(r, s) THEN UNCHANGED <<queue, lost>>
     ELSE IF Len(queue) < QueueCap
     THEN /\ queue' = Append(queue, <<r, s>>)
          /\ UNCHANGED lost
     ELSE /\ lost' = [lost EXCEPT ![r] = @ \cup {s}]
          /\ UNCHANGED queue
  /\ UNCHANGED <<request, out>>

\* Span s of r ends: its calls have returned, it has its status, and it is handed to the
\* batch processor, which drops it when its queue is full.  (It drops without limit; that
\* a span waits here once MaxLost are lost is that bound's doing, and the theorems hold
\* for every MaxLost.)
Leave(r, s) ==
  /\ s \in open[r]
  /\ Inside(kind[r], s) \subseteq done[r]
  /\ s = "handler" => answer[r] # 0
  /\ Len(queue) < QueueCap \/ LostSoFar < MaxLost
  /\ open' = [open EXCEPT ![r] = @ \ {s}]
  /\ done' = [done EXCEPT ![r] = @ \cup {s}]
  /\ failed' = [failed EXCEPT ![r] = IF Erring(r, s) THEN @ \cup {s} ELSE @]
  /\ IF Len(queue) < QueueCap
     THEN /\ queue' = Append(queue, <<r, s>>)
          /\ UNCHANGED lost
     ELSE /\ lost' = [lost EXCEPT ![r] = @ \cup {s}]
          /\ UNCHANGED queue
  /\ UNCHANGED <<request, out>>

BatchLen == Least(BatchSize, Len(queue))

\* The spans of r among the oldest n in the queue.
Oldest(r, n) == {s \in AllSpans : \E i \in 1..n : queue[i] = <<r, s>>}

\* The timer or a full batch sends the oldest spans to the collector.
Export ==
  /\ queue # <<>>
  /\ out' = [r \in Requests |-> out[r] \cup Oldest(r, BatchLen)]
  /\ queue' = SubSeq(queue, BatchLen + 1, Len(queue))
  /\ UNCHANGED <<request, open, done, failed, lost>>

\* The export fails for good; the batch is gone.
ExportFails ==
  /\ "outage" \in Faults
  /\ queue # <<>>
  /\ LostSoFar + BatchLen <= MaxLost
  /\ lost' = [r \in Requests |-> lost[r] \cup Oldest(r, BatchLen)]
  /\ queue' = SubSeq(queue, BatchLen + 1, Len(queue))
  /\ UNCHANGED <<request, open, done, failed, out>>

\* The process ends: what runs never ends, and the queue is not flushed.
Kill ==
  /\ "kill" \in Faults
  /\ \E r \in Requests : open[r] # {} \/ Oldest(r, Len(queue)) # {}
  /\ open' = [r \in Requests |-> {}]
  /\ lost' = [r \in Requests |-> lost[r] \cup Oldest(r, Len(queue))]
  /\ queue' = <<>>
  /\ UNCHANGED <<request, done, failed, out>>

\* The goroutine of r takes its next step.
Advance(r) ==
  \/ \E p \in open[r] : \E s \in Inside(kind[r], p) : Enter(r, p, s)
  \/ Respond(r)
  \/ \E s \in open[r] : Leave(r, s)

Next ==
  \/ \E r \in Requests, k \in Kinds : Begin(r, k)
  \/ \E r \in Requests : Advance(r)
  \/ Export
  \/ ExportFails
  \/ Kill

\* Sleeps end, handlers run on, and the batch timer fires.
Fairness ==
  /\ \A r \in Requests : WF_vars(Advance(r))
  /\ WF_vars(Export)

Spec == Init /\ [][Next]_vars

FairSpec == Spec /\ Fairness

-----------------------------------------------------------------------------
\* Properties.

\* Every variable stays in the set its field of the system has.
TypeOK ==
  /\ kind \in [Requests -> Kinds \cup {"none"}]
  /\ open \in [Requests -> SUBSET AllSpans]
  /\ done \in [Requests -> SUBSET AllSpans]
  /\ failed \in [Requests -> SUBSET AllSpans]
  /\ answer \in [Requests -> {0, 200, 500}]
  /\ elapsed \in [Requests -> Nat]
  /\ queue \in Seq(Requests \X AllSpans)
  /\ out \in [Requests -> SUBSET AllSpans]
  /\ lost \in [Requests -> SUBSET AllSpans]

Queued(r) == Oldest(r, Len(queue))

\* No span reaches the collector while one that ends before it is running or queued: a
\* trace arrives in the order of its calls, its server span last of all, however batches
\* cut it.  It may have gaps, but what is missing then will never come.
NoOvertaking ==
  \A r \in Requests : \A b \in out[r] : \A a \in SpansOf(kind[r]) :
    Sooner(kind[r], a, b) => a \in out[r] \cup lost[r]

\* A failing request leaves its mark on three spans, so that a trace that loses any two
\* of its spans on the way still shows the error to the sampler; and a request that was
\* answered with 200 shows none.
FailureSurvives ==
  \A r \in Requests : "server" \in done[r] =>
    /\ answer[r] = 500 /\ Cardinality(lost[r]) <= 2
         => failed[r] \cap (out[r] \cup Queued(r)) # {}
    /\ answer[r] = 200 => failed[r] = {}

\* The latency policy of the sampler finds the requests that are meant to be slow on the
\* fastest machine, and no others on the slowest.
SlowAreSlow ==
  \A r \in Requests : "server" \in done[r] =>
    IF kind[r] \in Slow THEN elapsed[r] >= SlowAfter
    ELSE elapsed[r] + Jitter * Cardinality(done[r]) < SlowAfter

\* A request that has begun ends, and every one of its spans is exported or lost; only
\* the end of the process stops it on the way.
EveryRequestEnds ==
  \A r \in Requests :
    open[r] # {} ~> /\ open[r] = {}
                    /\ "server" \in done[r] => out[r] \cup lost[r] = SpansOf(kind[r])

\* What SpanGroups sees of a request: the groups that lie in S as a whole.
Complete(r, S) ==
  IF lost[r] # {} \/ kind[r] = "none" THEN {}
  ELSE GroupNames \ {Group(kind[r], s) : s \in SpansOf(kind[r]) \ S}

Groups ==
  INSTANCE SpanGroups WITH
    Traces <- Requests,
    ended <- [r \in Requests |-> Complete(r, done[r])],
    exported <- [r \in Requests |-> Complete(r, out[r])],
    hurt <- {r \in Requests : lost[r] # {}}

\* The three groups in which TracePipeline sees a trace end and leave the process one
\* after the other, although spans end one by one and batches cut the queue anywhere.
GroupsInOrder == Groups!Spec

-----------------------------------------------------------------------------
\* The inductive invariant behind NoOvertaking, FailureSurvives and SlowAreSlow, in parts.

\* The open spans are a path of the tree, and what has ended has ended from below.
Nested(r) ==
  LET k == kind[r]
  IN /\ open[r] \cap done[r] = {}
     /\ \A s \in open[r] : Above(k, s) \subseteq open[r]
     /\ \A s \in open[r] \cup done[r] : Before(k, s) \subseteq done[r]
     /\ \A s \in done[r] : \A a \in SpansOf(k) : s \in Above(k, a) => a \in done[r]

\* An ended span is queued, exported or lost.
Accounted(r) == done[r] = Queued(r) \cup out[r] \cup lost[r]

\* The queue keeps the order in which spans end.
InOrder ==
  \A i, j \in 1..Len(queue) :
    /\ queue[i][1] = queue[j][1]
    /\ Sooner(kind[queue[i][1]], queue[i][2], queue[j][2])
    => i < j

\* A request that has not begun has no spans, the others have those of their kind.
OwnSpans(r) ==
  /\ kind[r] = "none" => open[r] = {} /\ done[r] = {}
  /\ kind[r] # "none" => open[r] \cup done[r] \subseteq SpansOf(kind[r])

\* The answer comes when all calls have returned and says whether one failed; a span
\* that has ended has the status that its request gives it in the end.
Marked(r) ==
  /\ kind[r] = "none" => answer[r] = 0
  /\ answer[r] = 0 => "handler" \notin done[r]
  /\ answer[r] # 0 => Inside(kind[r], "handler") \subseteq done[r]
  /\ answer[r] = 500 <=> answer[r] # 0 /\ Failing(r)
  /\ failed[r] = {s \in done[r] : Erring(r, s)}

\* The request has slept for all spans that it has started, unless it was cut short.
Timed(r) ==
  /\ kind[r] = "none" => elapsed[r] = 0
  /\ "server" \in open[r] \cup done[r] => elapsed[r] = Total(kind[r], open[r] \cup done[r])

IInv ==
  /\ TypeOK
  /\ \A r \in Requests : OwnSpans(r) /\ Accounted(r) /\ Marked(r) /\ Timed(r)
  /\ \A r \in Requests : kind[r] # "none" => Nested(r)
  /\ InOrder
  /\ NoOvertaking
=============================================================================
