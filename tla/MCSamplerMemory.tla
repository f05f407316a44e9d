-------------------------- MODULE MCSamplerMemory --------------------------
(***************************************************************************)
(* SamplerMemory for TLC.  One tick is five seconds of the deployment and  *)
(* one trace stands for 1250 of them, so 15s at 500 traces per second are  *)
(* DecisionWait = 3 and Rate = 2; num_traces is 2 for the 2500 of the      *)
(* operator's manifest, and 6 is the least that Roomy admits (the 150000   *)
(* of the helm values would be 120).                                       *)
(***************************************************************************)
EXTENDS SamplerMemory
=============================================================================
