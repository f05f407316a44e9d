----------------------------- MODULE SpanGroups -----------------------------
(***************************************************************************)
(* What a handler and the SDK's batch processor promise the collectors of  *)
(* a trace: its three groups of spans end one after the other and are      *)
(* exported in that order, however batches cut it, or the trace is hurt.   *)
(* TraceTest, which has every span, and TracePipeline, which has the       *)
(* groups only, both implement this.                                       *)
(***************************************************************************)

CONSTANT Traces

VARIABLES
  ended,    \* ended[t]: the groups of t whose spans have all ended
  exported, \* exported[t]: those whose spans have all left the process
  hurt      \* traces that lost a span

vars == <<ended, exported, hurt>>

Groups == {"early", "work", "server"}

\* What has ended or left at any moment is a beginning of the trace.
Fronts == {{}, {"early"}, {"early", "work"}, Groups}

Init ==
  /\ ended = [t \in Traces |-> {}]
  /\ exported = [t \in Traces |-> {}]
  /\ hurt = {}

\* The next group of t is complete.
End(t) ==
  /\ t \notin hurt
  /\ \E g \in Groups \ ended[t] :
       /\ ended[t] \cup {g} \in Fronts
       /\ ended' = [ended EXCEPT ![t] = @ \cup {g}]
  /\ UNCHANGED <<exported, hurt>>

\* A batch takes what it takes, of any traces, but nothing before what ended sooner.
Export ==
  /\ exported' \in [Traces -> Fronts]
  /\ \A t \in Traces : exported[t] \subseteq exported'[t] /\ exported'[t] \subseteq ended[t]
  /\ UNCHANGED <<ended, hurt>>

\* The traces of S lose spans; nothing is said of them from then on.
Damage(S) ==
  /\ hurt' = hurt \cup S
  /\ ended' = [t \in Traces |-> IF t \in hurt' THEN {} ELSE ended[t]]
  /\ exported' = [t \in Traces |-> IF t \in hurt' THEN {} ELSE exported[t]]

Next ==
  \/ Export
  \/ \E t \in Traces : End(t)
  \/ \E S \in SUBSET Traces : Damage(S)

Spec == Init /\ [][Next]_vars
=============================================================================
