---------------------------- MODULE SamplerMemory ----------------------------
(***************************************************************************)
(* The memory of one tail-sampler pod: it tracks at most num_traces        *)
(* traces, the oldest going first, and decides a trace decision_wait after *)
(* its first span.  Between two ticks of its decision timer at most Rate   *)
(* new traces arrive.  Whether a trace can be pushed out before it is      *)
(* decided depends on the three settings together, which two files of the  *)
(* repository set differently:                                             *)
(*   k8s/otel-tail-sampler.yaml:87-89           15s, 150000, 500 per s     *)
(*   k8s/otel-operator/otel-sampler.yaml:73-75  15s,   2500, 500 per s     *)
(***************************************************************************)
EXTENDS Naturals, Sequences

CONSTANTS
  Rate,          \* new traces per tick: expected_new_traces_per_sec
  DecisionWait,  \* ticks from the first span to the decision: decision_wait
  NumTraces      \* tracked traces: num_traces

ASSUME ParameterAssumption == {Rate, DecisionWait, NumTraces} \subseteq Nat \ {0}

VARIABLES
  ages,     \* the tracked traces, oldest first: the ticks since the first span
            \* of each, counted up to DecisionWait, when it is decided
  arrived,  \* the new traces since the last tick
  lost      \* a trace was evicted before it was decided

vars == <<ages, arrived, lost>>

Init ==
  /\ ages = << >>
  /\ arrived = 0
  /\ lost = FALSE

\* Mutant of Full: one slot is never used.
FullTooSoon == Len(ages) >= NumTraces - 1

Full == Len(ages) = NumTraces

\* The first span of a new trace.  When the pod is full the oldest trace makes room,
\* decided or not.
Arrive ==
  /\ arrived < Rate
  /\ arrived' = arrived + 1
  /\ ages' = Append(IF Full THEN Tail(ages) ELSE ages, 0)
  /\ lost' = (lost \/ (Full /\ ages[1] < DecisionWait))

\* Mutant of Older: the last tick before the decision is not counted.
OlderTooSlow(a) == IF a + 1 < DecisionWait THEN a + 1 ELSE a

Older(a) == IF a < DecisionWait THEN a + 1 ELSE a

\* The timer of the sampler: what has waited decision_wait is decided.
Tick ==
  /\ ages' = [i \in 1..Len(ages) |-> Older(ages[i])]
  /\ arrived' = 0
  /\ UNCHANGED lost

Next == Arrive \/ Tick

Spec == Init /\ [][Next]_vars

-----------------------------------------------------------------------------
TypeOK ==
  /\ ages \in Seq(0..DecisionWait)
  /\ Len(ages) <= NumTraces
  /\ arrived \in 0..Rate
  /\ lost \in BOOLEAN

\* README.md:13-14, "100% of failures should be recorded and stored": any trace may
\* turn out to be a failure, so none is evicted before the policies have seen it.
NothingLost == ~ lost

\* A tracked trace has seen a tick for each Rate traces that came after it.
Aged ==
  \A i \in 1..Len(ages), k \in 0..(DecisionWait - 1) :
    Len(ages) - i >= arrived + Rate * k => ages[i] > k

IInv == TypeOK /\ Aged /\ NothingLost
=============================================================================
