---------------------------- MODULE TailSampling ----------------------------
(***************************************************************************)
(* What tail-based sampling promises, seen from outside.  A trace is open  *)
(* while its request runs; once it has ended it is judged exactly once, as *)
(* a whole: a trace that matters (it failed, or it was slow) is always     *)
(* kept, a trace of the baseline sample is kept, any other one is dropped. *)
(* README.md:12-15 and the policies of k8s/otel-tail-sampler.yaml:86-104.  *)
(***************************************************************************)
CONSTANTS
  Traces,    \* the traces
  Baseline   \* those that the 1% policy keeps whatever happened in them

VARIABLES
  status,    \* status[t]: "open", "ended", "kept" or "dropped"
  matters    \* matters[t]: the ended trace t failed or was slow

vars == <<status, matters>>

Init ==
  /\ status = [t \in Traces |-> "open"]
  /\ matters = [t \in Traces |-> FALSE]

\* The request of trace t ends, as a failure, slow, or neither.
Finish(t) ==
  /\ status[t] = "open"
  /\ status' = [status EXCEPT ![t] = "ended"]
  /\ \E important \in BOOLEAN : matters' = [matters EXCEPT ![t] = important]

\* The whole of trace t is stored.
Keep(t) ==
  /\ status[t] = "ended"
  /\ matters[t] \/ t \in Baseline
  /\ status' = [status EXCEPT ![t] = "kept"]
  /\ UNCHANGED matters

\* Nothing of trace t is stored, now or later.
Discard(t) ==
  /\ status[t] = "ended"
  /\ ~ matters[t]
  /\ t \notin Baseline
  /\ status' = [status EXCEPT ![t] = "dropped"]
  /\ UNCHANGED matters

Judge(t) == Keep(t) \/ Discard(t)

Next == \E t \in Traces : Finish(t) \/ Judge(t)

\* Every ended trace is judged sooner or later; requests need not end.
Spec == Init /\ [][Next]_vars /\ \A t \in Traces : WF_vars(Judge(t))
=============================================================================
