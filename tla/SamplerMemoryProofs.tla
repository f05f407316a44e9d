------------------------ MODULE SamplerMemoryProofs ------------------------
(***************************************************************************)
(* For every arrival rate and every decision_wait: a pod whose num_traces  *)
(* is at least their product never evicts a trace that it has not decided. *)
(***************************************************************************)
EXTENDS SamplerMemory, SequenceTheorems, TLAPS

\* The settings of k8s/otel-tail-sampler.yaml satisfy this (150000 >= 500 * 15); those
\* of k8s/otel-operator/otel-sampler.yaml do not (2500 < 500 * 15).
Roomy == NumTraces >= Rate * DecisionWait

LEMMA Products ==
  ASSUME NEW k \in Nat
  PROVE  /\ Rate * k \in Nat
         /\ Rate * (k + 1) = Rate * k + Rate
  BY ParameterAssumption

LEMMA ArriveKeeps ==
  ASSUME Roomy, IInv, Arrive
  PROVE  IInv'
<1> USE DEF IInv, TypeOK
<1>1. /\ Rate \in Nat /\ DecisionWait \in Nat /\ NumTraces \in Nat
      /\ Rate > 0 /\ DecisionWait > 0 /\ NumTraces > 0
  BY ParameterAssumption
<1> DEFINE rest == IF Full THEN Tail(ages) ELSE ages
           gone == IF Full THEN 1 ELSE 0
<1>2. /\ rest \in Seq(0..DecisionWait)
      /\ Len(rest) = Len(ages) - gone
      /\ \A i \in 1..Len(rest) : rest[i] = ages[i + gone]
      /\ Len(rest) + 1 <= NumTraces
  <2>1. CASE Full
    <3>1. ages # << >>
      BY <1>1, <2>1 DEF Full
    <3> QED BY <1>1, <2>1, <3>1 DEF Full
  <2>2. CASE ~ Full
    BY <1>1, <2>2 DEF Full
  <2> QED BY <2>1, <2>2
<1> HIDE DEF rest
<1>3. ages' = Append(rest, 0) /\ arrived' = arrived + 1
  BY DEF Arrive, rest
<1>4. /\ ages' \in Seq(0..DecisionWait)
      /\ Len(ages') = Len(rest) + 1
      /\ \A i \in 1..Len(rest) : ages'[i] = rest[i]
  BY <1>1, <1>2, <1>3
<1>5. Full => ages[1] >= DecisionWait
  <2> SUFFICES ASSUME Full PROVE ages[1] >= DecisionWait
    OBVIOUS
  <2> DEFINE k == DecisionWait - 1
  <2>1. k \in 0..(DecisionWait - 1) /\ k \in Nat /\ DecisionWait = k + 1
    BY <1>1
  <2>2. Rate * DecisionWait = Rate * k + Rate /\ Rate * k \in Nat
    BY <2>1, Products
  <2>3. arrived < Rate /\ arrived \in Nat
    BY <1>1 DEF Arrive
  <2>4. Len(ages) - 1 >= arrived + Rate * k
    BY <1>1, <2>2, <2>3 DEF Full, Roomy
  <2>5. ages[1] > k
    BY <1>1, <2>1, <2>4 DEF Full, Aged
  <2>6. ages[1] \in Nat
    BY <1>1 DEF Full
  <2> QED BY <1>1, <2>1, <2>5, <2>6
<1>6. NothingLost'
  <2>1. Full => ages[1] \in Nat
    BY <1>1 DEF Full
  <2> QED BY <1>1, <1>5, <2>1 DEF Arrive, NothingLost
<1>7. Aged'
  <2> SUFFICES ASSUME NEW i \in 1..Len(ages'), NEW k \in 0..(DecisionWait - 1),
                      Len(ages') - i >= arrived' + Rate * k
               PROVE  ages'[i] > k
    BY DEF Aged
  <2>1. Rate * k \in Nat /\ arrived \in Nat /\ Len(ages) \in Nat /\ Len(rest) \in Nat
    BY <1>1, <1>2, Products
  <2>2. i \in 1..Len(rest)
    <3> DEFINE r == Rate * k
    <3>1. r \in Nat /\ Len(rest) + 1 - i >= arrived + 1 + r /\ i \in 1..(Len(rest) + 1)
      BY <1>3, <1>4, <2>1
    <3> HIDE DEF r
    <3> QED BY <2>1, <3>1
  <2>3. ages'[i] = ages[i + gone] /\ i + gone \in 1..Len(ages)
    BY <1>2, <1>4, <2>1, <2>2
  <2>4. Len(ages) - (i + gone) >= arrived + Rate * k
    BY <1>2, <1>3, <1>4, <2>1, <2>2
  <2> QED BY <2>3, <2>4 DEF Aged
<1>8. TypeOK'
  BY <1>1, <1>2, <1>3, <1>4 DEF Arrive
<1> QED BY <1>6, <1>7, <1>8

LEMMA TickKeeps ==
  ASSUME IInv, Tick
  PROVE  IInv'
<1> USE DEF IInv, TypeOK
<1>1. /\ Rate \in Nat /\ DecisionWait \in Nat /\ NumTraces \in Nat
      /\ Rate > 0 /\ DecisionWait > 0
  BY ParameterAssumption
<1>2. Len(ages) \in Nat /\ \A i \in 1..Len(ages) : ages[i] \in 0..DecisionWait
  <2>1. ages \in Seq(0..DecisionWait)
    OBVIOUS
  <2>2. Len(ages) \in Nat
    BY <2>1, LenProperties
  <2> QED BY <2>1, <2>2, ElementOfSeq
<1>3. /\ \A i \in 1..Len(ages) : Older(ages[i]) \in 0..DecisionWait
      /\ \A i \in 1..Len(ages) : Older(ages[i]) >= ages[i]
      /\ \A i \in 1..Len(ages) : ages[i] < DecisionWait => Older(ages[i]) = ages[i] + 1
      /\ \A i \in 1..Len(ages) : Older(ages[i]) > 0
  BY <1>1, <1>2 DEF Older
<1>4. /\ ages' \in Seq(0..DecisionWait)
      /\ Len(ages') = Len(ages)
      /\ \A i \in 1..Len(ages) : ages'[i] = Older(ages[i])
  BY <1>2, <1>3 DEF Tick
<1>5. arrived' = 0 /\ lost' = lost
  BY DEF Tick
<1>6. Aged'
  <2> SUFFICES ASSUME NEW i \in 1..Len(ages), NEW k \in 0..(DecisionWait - 1),
                      Len(ages) - i >= Rate * k
               PROVE  ages'[i] > k
    BY <1>4, <1>5, Products DEF Aged
  <2>1. CASE k = 0
    BY <1>2, <1>3, <1>4, <2>1
  <2>2. CASE k # 0
    <3> DEFINE j == k - 1
    <3>1. j \in 0..(DecisionWait - 1) /\ j \in Nat /\ k = j + 1 /\ k < DecisionWait
      BY <1>1, <2>2
    <3>2. Rate * k = Rate * j + Rate /\ Rate * j \in Nat
      BY <3>1, Products
    <3>3. Len(ages) - i >= arrived + Rate * j
      BY <1>1, <1>2, <3>2
    <3>4. ages[i] > j
      BY <3>1, <3>3 DEF Aged
    <3>5. ages[i] \in 0..DecisionWait /\ Older(ages[i]) = IF ages[i] < DecisionWait THEN ages[i] + 1 ELSE ages[i]
      BY <1>2 DEF Older
    <3> QED BY <1>1, <1>4, <3>1, <3>4, <3>5
  <2> QED BY <2>1, <2>2
<1> QED BY <1>1, <1>4, <1>5, <1>6 DEF NothingLost

\* The invariant that makes NothingLost inductive: a trace ages by one tick for each
\* Rate younger ones, so the oldest of Rate * DecisionWait traces has been decided.
THEOREM MemoryInductive == ASSUME Roomy PROVE Spec => []IInv
<1>1. Init => IInv
  <2> SUFFICES ASSUME Init PROVE IInv
    OBVIOUS
  <2>1. Rate \in Nat /\ NumTraces \in Nat /\ ages = << >> /\ arrived = 0 /\ lost = FALSE
    BY ParameterAssumption DEF Init
  <2>2. TypeOK
    <3>1. ages \in Seq(0..DecisionWait) /\ Len(ages) = 0
      BY <2>1, EmptySeq
    <3>2. Len(ages) <= NumTraces
      BY <2>1, <3>1
    <3>3. arrived \in 0..Rate
      BY <2>1
    <3>4. lost \in BOOLEAN
      BY <2>1
    <3> QED BY <3>1, <3>2, <3>3, <3>4 DEF TypeOK
  <2>3. Aged /\ NothingLost
    BY <2>1 DEF Aged, NothingLost
  <2> QED BY <2>2, <2>3 DEF IInv
<1>2. IInv /\ [Next]_vars => IInv'
  <2> SUFFICES ASSUME IInv, [Next]_vars PROVE IInv'
    OBVIOUS
  <2>1. CASE Arrive
    BY <2>1, ArriveKeeps
  <2>2. CASE Tick
    BY <2>2, TickKeeps
  <2>3. CASE UNCHANGED vars
    BY <2>3 DEF vars, IInv, TypeOK, Aged, NothingLost
  <2> QED BY <2>1, <2>2, <2>3 DEF Next
<1> QED BY <1>1, <1>2, PTL DEF Spec

\* README.md:13-14 as far as the sampler's memory goes: with num_traces at least
\* the arrival rate times decision_wait, no trace is evicted before its decision.
THEOREM NothingIsLost == ASSUME Roomy PROVE Spec => []NothingLost
<1>1. IInv => NothingLost
  BY DEF IInv
<1> QED BY <1>1, MemoryInductive, PTL
=============================================================================
