-------------------------- MODULE MCTracePipeline --------------------------
(***************************************************************************)
(* Small instances of TracePipeline for TLC.  They keep the order of the  *)
(* real times: the slowest handler (1.5s) takes up to one unit, each of    *)
(* the two hops (5s timer; 200ms timer and 5s timeout) none or one, and    *)
(* decision_wait (15s) one unit more than all of them together.            *)
(***************************************************************************)
EXTENDS TracePipeline

CONSTANTS t1, t2, p1, p2, p3

\* The pods in the order in which the hash of each trace prefers them: the owner is
\* the most preferred member of the ring, which is how consistent hashing behaves.
Preference(t) == IF t = t1 THEN <<p1, p2, p3>> ELSE <<p2, p3, p1>>

MCOwner(R, t) ==
  LET first == CHOOSE i \in 1..3 :
                 /\ Preference(t)[i] \in R \/ i = 3
                 /\ \A j \in 1..(i - 1) : Preference(t)[j] \notin R
  IN Preference(t)[first]

MCTraces == {t1, t2}
MCBaseline == {t2}
=============================================================================
