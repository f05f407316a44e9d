------------------------ MODULE TracePipelineProofs ------------------------
(***************************************************************************)
(* Proofs about TracePipeline, for every number of traces and pods and     *)
(* every value of the delays that WaitAssumption admits: a trace that no   *)
(* incident touched is judged once, by one pod, on all of its spans, and   *)
(* is stored exactly when the policies say so.                             *)
(***************************************************************************)
EXTENDS TracePipeline, FiniteSetTheorems, TLAPS

USE DEF Spans, Kinds

LEMMA TypeInit == Init => TypeOK
  BY SizeAssumption DEF Init, TypeOK, SpanTimes

LEMMA AdmitType ==
  ASSUME TypeOK, NEW p \in Pods, NEW t \in Traces, NEW S \in SUBSET Spans, Admit(p, t, S)
  PROVE  /\ verdict' \in [Pods -> [Traces -> {"none", "pending", "sampled", "notSampled"}]]
         /\ held' \in [Pods -> [Traces -> SUBSET Spans]]
         /\ due' \in [Pods -> [Traces -> Nat]]
         /\ hurt' \in SUBSET Traces
         /\ stored' = stored
<1>1. \A gone \in Victims(p) : gone \subseteq Traces
  BY DEF Victims, Tracked
<1>2. PICK gone \in Victims(p) :
       /\ verdict' = [verdict EXCEPT ![p] =
            [u \in Traces |-> IF u = t THEN "pending" ELSE
                              IF u \in gone THEN "none" ELSE verdict[p][u]]]
       /\ held' = [held EXCEPT ![p] =
            [u \in Traces |-> IF u = t THEN S ELSE
                              IF u \in gone THEN {} ELSE held[p][u]]]
       /\ due' = [due EXCEPT ![p] =
            [u \in Traces |-> IF u = t THEN now + DecisionWait ELSE
                              IF u \in gone THEN 0 ELSE due[p][u]]]
       /\ hurt' = hurt \cup {u \in gone : verdict[p][u] = "pending"}
  BY DEF Admit
<1>3. now + DecisionWait \in Nat
  BY TimeAssumption DEF TypeOK
<1>4. hurt' \in SUBSET Traces
  BY <1>1, <1>2 DEF TypeOK
<1>5. verdict' \in [Pods -> [Traces -> {"none", "pending", "sampled", "notSampled"}]]
  BY <1>2 DEF TypeOK
<1>6. held' \in [Pods -> [Traces -> SUBSET Spans]]
  BY <1>2 DEF TypeOK
<1>7. due' \in [Pods -> [Traces -> Nat]]
  BY <1>2, <1>3 DEF TypeOK
<1> QED
  BY <1>4, <1>5, <1>6, <1>7 DEF Admit

LEMMA ForwardType ==
  ASSUME TypeOK, NEW t \in Traces, NEW acked \in BOOLEAN, Forward(t, acked)
  PROVE  TypeOK'
<1> DEFINE p == Owner(ring, t)
           S == InLb(t)
<1>1. p \in Pods /\ S \in SUBSET Spans
  BY DEF Forward, TypeOK, InLb
<1>2. /\ lb' \in SUBSET (Traces \X Spans)
      /\ UNCHANGED <<now, app, queue, ring, up, judged>>
  BY <1>1 DEF Forward, TypeOK
<1>3. /\ verdict' \in [Pods -> [Traces -> {"none", "pending", "sampled", "notSampled"}]]
      /\ held' \in [Pods -> [Traces -> SUBSET Spans]]
      /\ due' \in [Pods -> [Traces -> Nat]]
      /\ hurt' \in SUBSET Traces
      /\ stored' \in SUBSET (Traces \X Spans)
  <2>1. CASE Admit(p, t, S)
    <3> HIDE DEF p, S
    <3> QED BY <2>1, <1>1, AdmitType DEF TypeOK
  <2>2. CASE Gather(p, t, S)
    <3> HIDE DEF p, S
    <3>1. held[p] \in [Traces -> SUBSET Spans]
      BY <1>1 DEF TypeOK
    <3>2. held[p][t] \cup S \in SUBSET Spans
      BY <1>1, <3>1
    <3>3. held' \in [Pods -> [Traces -> SUBSET Spans]]
      BY <1>1, <2>2, <3>1, <3>2 DEF Gather, TypeOK
    <3> QED BY <2>2, <3>3 DEF Gather, TypeOK
  <2>3. CASE FollowVerdict(p, t, S)
    <3> HIDE DEF p, S
    <3> QED BY <2>3, <1>1 DEF FollowVerdict, TypeOK
  <2> QED BY <2>1, <2>2, <2>3 DEF Forward
<1> QED
  BY <1>2, <1>3 DEF TypeOK, app

LEMMA TypeStep == TypeOK /\ [Next]_vars => TypeOK'
<1> SUFFICES ASSUME TypeOK, [Next]_vars PROVE TypeOK'
  OBVIOUS
<1> USE DEF TypeOK, app, sampler
<1>1. ASSUME NEW t \in Traces, NEW k \in Kinds, Begin(t, k) PROVE TypeOK'
  BY <1>1 DEF Begin
<1>2. ASSUME NEW t \in Traces, EndSpan(t) PROVE TypeOK'
  <2>1. phase[t] \in Spans /\ After(phase[t]) \in Spans \cup {"done"}
    BY <1>2 DEF EndSpan, Running, After
  <2>2. phase' \in [Traces -> Spans \cup {"idle", "done", "aborted"}]
    BY <1>2, <2>1 DEF EndSpan
  <2>3. endAt' \in [Traces -> SpanTimes]
    BY <1>2, <2>1 DEF EndSpan, SpanTimes
  <2>4. queue' \in SUBSET (Traces \X Spans) /\ hurt' \in SUBSET Traces
    BY <1>2, <2>1 DEF EndSpan
  <2> QED BY <1>2, <2>2, <2>3, <2>4 DEF EndSpan
<1>3. CASE Export
  BY <1>3 DEF Export
<1>4. CASE ExportFails
  BY <1>4 DEF ExportFails
<1>5. CASE Kill
  BY <1>5 DEF Kill
<1>6. ASSUME NEW t \in Traces, NEW acked \in BOOLEAN, Forward(t, acked) PROVE TypeOK'
  BY <1>6, ForwardType
<1>7. ASSUME NEW t \in Traces, ForwardFails(t) PROVE TypeOK'
  BY <1>7 DEF ForwardFails
<1>8. ASSUME NEW p \in Pods, NEW t \in Traces, Decide(p, t) PROVE TypeOK'
  BY <1>8 DEF Decide
<1>9. ASSUME NEW p \in Pods, PodDown(p) PROVE TypeOK'
  BY <1>9 DEF PodDown
<1>10. ASSUME NEW p \in Pods, PodUp(p) PROVE TypeOK'
  BY <1>10 DEF PodUp
<1>11. CASE Resolve
  BY <1>11 DEF Resolve, CutBy
<1>12. CASE Tick
  BY <1>12 DEF Tick
<1>13. CASE UNCHANGED vars
  BY <1>13 DEF vars
<1> HIDE DEF TypeOK, app, sampler
<1> QED
  BY <1>1, <1>2, <1>3, <1>4, <1>5, <1>6, <1>7, <1>8, <1>9, <1>10, <1>11, <1>12, <1>13
  DEF Next

\* Every variable of the pipeline keeps its type, for all values of the constants.
THEOREM TypeCorrect == Spec => []TypeOK
<1>1. Init => TypeOK
  BY TypeInit
<1>2. TypeOK /\ [Next]_vars => TypeOK'
  BY TypeStep
<1> QED
  BY <1>1, <1>2, PTL DEF Spec

-----------------------------------------------------------------------------
\* A step that leaves trace u alone: its request, its spans and its verdict stay, and
\* all that a pod may do is forget a verdict it has given.
Alone(u) ==
  /\ now' = now /\ ring' = ring
  /\ phase'[u] = phase[u] /\ kind'[u] = kind[u]
  /\ start'[u] = start[u] /\ endAt'[u] = endAt[u]
  /\ judged'[u] = judged[u]
  /\ \A s \in Spans : /\ <<u, s>> \in queue' <=> <<u, s>> \in queue
                      /\ <<u, s>> \in lb' <=> <<u, s>> \in lb
                      /\ <<u, s>> \in stored' <=> <<u, s>> \in stored
  /\ \A p \in Pods :
       /\ \/ verdict'[p][u] = verdict[p][u]
          \/ verdict[p][u] # "pending" /\ verdict'[p][u] = "none"
       /\ verdict'[p][u] = "pending" =>
            held'[p][u] = held[p][u] /\ due'[p][u] = due[p][u]

\* A trace that a step leaves alone stays intact.
LEMMA Frame ==
  ASSUME NEW u \in Traces, Intact(u), Alone(u)
  PROVE  Intact(u)'
<1>1. InLb(u)' = InLb(u) /\ Upstream(u)' = Upstream(u) /\ StoredOf(u)' = StoredOf(u)
  BY DEF Alone, InLb, Upstream, StoredOf
<1>2. Ended(u)' = Ended(u) /\ (Running(u)' <=> Running(u))
  BY DEF Alone, Ended, Running
<1>3. Keep(u, Spans)' <=> Keep(u, Spans)
  BY DEF Alone, Keep, Important, ErrorSpans, Slow, StartOf
<1>4. phase'[u] # "aborted"
  BY DEF Alone, Intact
<1>5. Untouched(u)'
  BY <1>1 DEF Alone, Intact, Untouched
<1>6. OnTime(u)'
  <2>1. Late(u, now)' <=> Late(u, now)
    BY <1>1, <1>2 DEF Late, Alone
  <2> QED BY <2>1 DEF OnTime, Intact, Alone
<1>7. Undecided(u)'
  <2> SUFFICES ASSUME judged'[u] = {} PROVE
        /\ \A s \in Ended(u) :
             \/ s \in Upstream(u)
             \/ \E p \in Pods : verdict'[p][u] = "pending" /\ s \in held'[p][u]
        /\ StoredOf(u) = {}
        /\ \A p \in Pods : verdict'[p][u] \in {"none", "pending"}
    BY <1>1, <1>2 DEF Undecided
  <2>1. /\ \A s \in Ended(u) :
             \/ s \in Upstream(u)
             \/ \E p \in Pods : verdict[p][u] = "pending" /\ s \in held[p][u]
        /\ StoredOf(u) = {}
        /\ \A p \in Pods : verdict[p][u] \in {"none", "pending"}
    BY DEF Alone, Intact, Undecided
  <2>2. \A p \in Pods : verdict[p][u] = "pending" =>
          verdict'[p][u] = "pending" /\ held'[p][u] = held[p][u]
    BY DEF Alone
  <2>3. \A p \in Pods : verdict'[p][u] \in {"none", "pending"}
    BY <2>1 DEF Alone
  <2> QED BY <2>1, <2>2, <2>3
<1>8. SoleJudge(u)'
  <2>1. \A p \in Pods : verdict'[p][u] = "pending" =>
          verdict[p][u] = "pending" /\ due'[p][u] = due[p][u]
    BY DEF Alone
  <2>2. \A q \in Pods : verdict'[q][u] # "none" => verdict[q][u] # "none"
    BY DEF Alone
  <2> QED BY <1>1, <1>2, <2>1, <2>2 DEF Alone, SoleJudge, Intact
<1>9. Decided(u)'
  BY <1>1, <1>3 DEF Alone, Decided, Intact
<1> QED
  BY <1>4, <1>5, <1>6, <1>7, <1>8, <1>9 DEF Intact

-----------------------------------------------------------------------------
\* Each action keeps an undamaged trace intact.

LEMMA BeginIntact ==
  ASSUME TypeOK, NEW t \in Traces, NEW k \in Kinds, Begin(t, k),
         NEW u \in Traces, Intact(u)
  PROVE  Intact(u)'
<1>1. CASE u # t
  <2>1. Alone(u)
    BY <1>1 DEF Begin, Alone, TypeOK, sampler
  <2> QED BY <2>1, Frame
<1>2. CASE u = t
  <2>1. /\ phase[u] = "idle" /\ phase'[u] = "early" /\ start'[u] = now
        /\ UNCHANGED <<now, endAt, queue, lb, ring, held, verdict, due, stored, judged>>
    BY <1>2 DEF Begin, TypeOK, sampler
  <2>2. /\ Upstream(u) = {} /\ Upstream(u)' = {} /\ InLb(u)' = {}
        /\ StoredOf(u)' = StoredOf(u)
        /\ \A p \in Pods : verdict[p][u] # "pending"
        /\ \A s \in Spans : <<u, s>> \notin queue'
    BY <2>1 DEF Intact, Untouched, Upstream, InLb, StoredOf
  <2>3. judged[u] = {}
    BY <2>1 DEF Intact, Decided
  <2>4. OnTime(u)'
    <3>1. now \in Nat /\ start[u] \in Nat /\ ReqMax \in Nat /\ endAt[u] \in [Spans -> Nat]
      BY TimeAssumption DEF TypeOK, SpanTimes
    <3>2. start[u] <= now /\ \A s \in Spans : endAt[u][s] <= start[u] + ReqMax
      BY DEF Intact, OnTime
    <3>3. \A s \in Spans : endAt[u][s] \in Nat
      BY <3>1
    <3>4. \A s \in Spans : endAt'[u][s] <= start'[u] + ReqMax
      BY <2>1, <3>1, <3>2, <3>3
    <3>5. ~ Late(u, now)'
      BY <2>1, <2>2, <3>1 DEF Late
    <3> QED BY <2>1, <3>1, <3>4, <3>5 DEF OnTime
  <2>5. Untouched(u)' /\ SoleJudge(u)' /\ Decided(u)' /\ phase'[u] # "aborted"
    BY <2>1, <2>2, <2>3 DEF Untouched, SoleJudge, Decided
  <2>6. Undecided(u)'
    BY <2>1, <2>2, <2>3 DEF Undecided, Ended, Intact
  <2> QED BY <2>4, <2>5, <2>6 DEF Intact
<1> QED BY <1>1, <1>2

LEMMA EndSpanIntact ==
  ASSUME TypeOK, NEW t \in Traces, EndSpan(t),
         NEW u \in Traces \ hurt', Intact(u)
  PROVE  Intact(u)'
<1>0. Running(t)
  BY DEF EndSpan
<1>1. CASE u # t
  <2>1. Alone(u)
    BY <1>0, <1>1 DEF EndSpan, Alone, TypeOK, SpanTimes, sampler, Running
  <2> QED BY <2>1, Frame
<1>2. CASE u = t
  <2> DEFINE s == phase[u]
  <2>1. /\ s \in Spans
        /\ phase'[u] = After(s)
        /\ endAt'[u] = [endAt[u] EXCEPT ![s] = now]
        /\ queue' = queue \cup {<<u, s>>}
        /\ UNCHANGED <<now, kind, start, lb, ring, held, verdict, due, stored, judged>>
    BY <1>0, <1>2 DEF EndSpan, Running, TypeOK, SpanTimes, sampler
  <2>2. /\ Upstream(u)' = Upstream(u) \cup {s}
        /\ InLb(u)' = InLb(u)
        /\ StoredOf(u)' = StoredOf(u)
    BY <2>1 DEF Upstream, InLb, StoredOf
  <2>3. Ended(u)' = Ended(u) \cup {s}
    BY <2>1 DEF Ended, After
  <2>4. judged[u] = {} /\ phase'[u] \in {"work", "server", "done"}
    BY <2>1 DEF Intact, Decided, After
  <2>5. OnTime(u)'
    <3>1. /\ now \in Nat /\ start[u] \in Nat /\ endAt[u] \in [Spans -> Nat]
          /\ ReqMax \in Nat /\ BatchDelay \in Nat /\ LbDelay \in Nat
      BY TimeAssumption DEF TypeOK, SpanTimes
    <3>2. now <= start[u] + ReqMax
      BY <2>1, <3>1 DEF Intact, OnTime, Late, Running
    <3>3. \A r \in Spans : endAt'[u][r] = IF r = s THEN now ELSE endAt[u][r]
      BY <2>1, <3>1
    <3>4. \A r \in Spans : endAt'[u][r] <= start'[u] + ReqMax
      BY <2>1, <3>1, <3>2, <3>3 DEF Intact, OnTime
    <3>5. \A r \in Spans : <<u, r>> \in queue' => now <= endAt'[u][r] + BatchDelay
      BY <2>1, <3>1, <3>3 DEF Intact, OnTime, Late
    <3>6. \A r \in InLb(u) : now <= endAt'[u][r] + BatchDelay + LbDelay
      <4>1. \A r \in InLb(u) : now <= endAt[u][r] + BatchDelay + LbDelay
        BY <3>1 DEF Intact, OnTime, Late, InLb
      <4>2. now <= now + BatchDelay + LbDelay
        BY <3>1
      <4> QED BY <3>3, <4>1, <4>2 DEF InLb
    <3>7. Running(u)' => now <= start'[u] + ReqMax
      BY <2>1, <3>2
    <3>8. ~ Late(u, now)'
      <4>1. \A r \in Spans : endAt'[u][r] \in Nat
        BY <3>1, <3>3
      <4>2. \A r \in InLb(u)' : r \in InLb(u) /\ r \in Spans
        BY <2>2 DEF InLb
      <4>3. start'[u] = start[u] /\ now' = now
        BY <2>1
      <4> QED BY <3>1, <3>5, <3>6, <3>7, <4>1, <4>2, <4>3 DEF Late
    <3> QED BY <2>1, <3>4, <3>8 DEF OnTime, Intact
  <2>6. SoleJudge(u)'
    BY <2>1, <2>2, <1>0, <1>2 DEF SoleJudge, Intact
  <2>7. Undecided(u)'
    BY <2>1, <2>2, <2>3 DEF Undecided, Intact
  <2> QED BY <2>1, <2>4, <2>5, <2>6, <2>7 DEF Intact, Untouched, Decided
<1> QED BY <1>1, <1>2

LEMMA ExportIntact ==
  ASSUME TypeOK, Export, NEW u \in Traces, Intact(u)
  PROVE  Intact(u)'
<1>1. /\ UNCHANGED <<now, phase, kind, start, endAt, ring, held, verdict, due, stored, judged>>
      /\ lb' = lb \cup queue /\ queue' = {}
  BY DEF Export, app, sampler
<1>2. /\ Upstream(u)' = Upstream(u)
      /\ StoredOf(u)' = StoredOf(u)
      /\ Ended(u)' = Ended(u)
      /\ Running(u)' <=> Running(u)
      /\ Keep(u, Spans)' <=> Keep(u, Spans)
  BY <1>1 DEF Upstream, StoredOf, Ended, Running, Keep, Important, ErrorSpans, Slow, StartOf
<1>3. OnTime(u)'
  <2>1. /\ now \in Nat /\ start[u] \in Nat /\ (\A s \in Spans : endAt[u][s] \in Nat)
        /\ ReqMax \in Nat /\ BatchDelay \in Nat /\ LbDelay \in Nat
    BY TimeAssumption DEF TypeOK, SpanTimes
  <2> ~ Late(u, now)
    BY DEF Intact, OnTime
  <2>2. \A s \in InLb(u)' : s \in Spans /\ (<<u, s>> \in queue \/ s \in InLb(u))
    BY <1>1 DEF InLb
  <2>3. \A s \in Spans : <<u, s>> \in queue => now <= endAt[u][s] + BatchDelay
    BY <2>1 DEF Late
  <2>4. \A s \in InLb(u) : now <= endAt[u][s] + BatchDelay + LbDelay
    BY <2>1 DEF Late, InLb
  <2>5. \A s \in InLb(u)' : now <= endAt[u][s] + BatchDelay + LbDelay
    <3> TAKE s \in InLb(u)'
    <3>1. s \in Spans /\ endAt[u][s] \in Nat
      BY <2>1, <2>2
    <3>2. CASE <<u, s>> \in queue
      BY <2>1, <2>3, <3>1, <3>2
    <3>3. CASE s \in InLb(u)
      BY <2>4, <3>3
    <3> QED BY <2>2, <3>2, <3>3
  <2>6. Running(u) => now <= start[u] + ReqMax
    BY <2>1 DEF Intact, OnTime, Late
  <2>7. ~ Late(u, now)'
    <3>1. \A s \in InLb(u)' : endAt[u][s] \in Nat
      BY <2>1, <2>2
    <3> QED BY <1>1, <1>2, <2>1, <2>5, <2>6, <3>1 DEF Late
  <2> QED BY <1>1, <2>7 DEF OnTime, Intact
<1> QED BY <1>1, <1>2, <1>3 DEF Intact, Untouched, Undecided, SoleJudge, Decided

LEMMA ExportFailsIntact ==
  ASSUME TypeOK, ExportFails, NEW u \in Traces \ hurt', Intact(u)
  PROVE  Intact(u)'
<1>1. Alone(u)
  BY DEF ExportFails, Alone, app, sampler
<1> QED BY <1>1, Frame

LEMMA KillIntact ==
  ASSUME TypeOK, Kill, NEW u \in Traces \ hurt', Intact(u)
  PROVE  Intact(u)'
<1>1. ~ Running(u) /\ \A s \in Spans : <<u, s>> \notin queue
  BY DEF Kill
<1>2. Alone(u)
  BY <1>1 DEF Kill, Alone, app, sampler
<1> QED BY <1>2, Frame

LEMMA ForwardFailsIntact ==
  ASSUME TypeOK, NEW t \in Traces, ForwardFails(t), NEW u \in Traces \ hurt', Intact(u)
  PROVE  Intact(u)'
<1>1. Alone(u)
  BY DEF ForwardFails, Alone, app, sampler
<1> QED BY <1>1, Frame

LEMMA PodDownIntact ==
  ASSUME TypeOK, NEW p \in Pods, PodDown(p), NEW u \in Traces \ hurt', Intact(u)
  PROVE  Intact(u)'
<1>1. verdict[p][u] # "pending"
  BY DEF PodDown
<1>2. \A q \in Pods :
        /\ verdict'[q][u] = IF q = p THEN "none" ELSE verdict[q][u]
        /\ q # p => held'[q][u] = held[q][u] /\ due'[q][u] = due[q][u]
  BY DEF PodDown, TypeOK
<1>3. Alone(u)
  BY <1>1, <1>2 DEF PodDown, Alone, app
<1> QED BY <1>3, Frame

LEMMA PodUpIntact ==
  ASSUME TypeOK, NEW p \in Pods, PodUp(p), NEW u \in Traces, Intact(u)
  PROVE  Intact(u)'
<1>1. Alone(u)
  BY DEF PodUp, Alone, app, sampler
<1> QED BY <1>1, Frame

LEMMA ResolveIntact ==
  ASSUME TypeOK, Resolve, NEW u \in Traces \ hurt', Intact(u)
  PROVE  Intact(u)'
<1>1. /\ UNCHANGED <<now, phase, kind, start, endAt, queue, lb, held, verdict, due, stored, judged>>
      /\ ring' = up
  BY DEF Resolve, app, sampler
<1>2. /\ Upstream(u)' = Upstream(u)
      /\ InLb(u)' = InLb(u)
      /\ StoredOf(u)' = StoredOf(u)
      /\ Ended(u)' = Ended(u)
      /\ Running(u)' <=> Running(u)
      /\ Keep(u, Spans)' <=> Keep(u, Spans)
  BY <1>1 DEF Upstream, InLb, StoredOf, Ended, Running, Keep, Important, ErrorSpans, Slow, StartOf
<1>3. u \notin CutBy(up)
  BY DEF Resolve
<1>4. \A p \in Pods : verdict[p][u] = "pending" =>
        (Running(u) \/ Upstream(u) # {} => Owner(up, u) = p)
  BY <1>3 DEF CutBy
<1>5. SoleJudge(u)'
  BY <1>1, <1>2, <1>4 DEF SoleJudge, Intact
<1>6. OnTime(u)'
  BY <1>1, <1>2 DEF OnTime, Late, Intact
<1> QED BY <1>1, <1>2, <1>5, <1>6 DEF Intact, Untouched, Undecided, Decided

LEMMA TickIntact ==
  ASSUME TypeOK, Tick, NEW u \in Traces \ hurt', Intact(u)
  PROVE  Intact(u)'
<1>1. /\ UNCHANGED <<phase, kind, start, endAt, queue, lb, ring, held, verdict, due, stored, judged>>
      /\ now' = now + 1
  BY DEF Tick, app, sampler
<1>2. /\ Upstream(u)' = Upstream(u)
      /\ InLb(u)' = InLb(u)
      /\ StoredOf(u)' = StoredOf(u)
      /\ Ended(u)' = Ended(u)
      /\ Running(u)' <=> Running(u)
      /\ Keep(u, Spans)' <=> Keep(u, Spans)
  BY <1>1 DEF Upstream, InLb, StoredOf, Ended, Running, Keep, Important, ErrorSpans, Slow, StartOf
<1>3. ~ Late(u, now + 1)
  BY DEF Tick
<1>4. ~ Late(u, now)'
  BY <1>1, <1>2, <1>3 DEF Late
<1>5. start'[u] <= now'
  <2>1. start[u] \in Nat /\ now \in Nat /\ start[u] <= now
    BY DEF TypeOK, Intact, OnTime
  <2> QED BY <1>1, <2>1
<1>6. OnTime(u)'
  BY <1>1, <1>4, <1>5 DEF OnTime, Intact
<1> QED BY <1>1, <1>2, <1>6 DEF Intact, Untouched, Undecided, SoleJudge, Decided

\* What forwarding the spans of t does to any other trace: nothing, or the eviction
\* of a verdict; what it evicts undecided is hurt.
LEMMA ForwardElsewhere ==
  ASSUME TypeOK, NEW t \in Traces, NEW acked \in BOOLEAN, Forward(t, acked),
         NEW u \in Traces \ hurt', u # t
  PROVE  Alone(u)
<1> DEFINE p == Owner(ring, t)
           S == InLb(t)
<1>1. p \in Pods /\ S \in SUBSET Spans
  BY DEF Forward, TypeOK, InLb
<1>2. /\ UNCHANGED <<now, phase, kind, start, endAt, queue, ring, up, judged>>
      /\ \A s \in Spans : <<u, s>> \in lb' <=> <<u, s>> \in lb
  BY DEF Forward, app
<1>3. /\ \A s \in Spans : <<u, s>> \in stored' <=> <<u, s>> \in stored
      /\ \A q \in Pods :
           /\ \/ verdict'[q][u] = verdict[q][u]
              \/ verdict[q][u] # "pending" /\ verdict'[q][u] = "none"
           /\ verdict'[q][u] = "pending" =>
                held'[q][u] = held[q][u] /\ due'[q][u] = due[q][u]
  <2>1. CASE Admit(p, t, S)
    <3> HIDE DEF p, S
    <3>1. PICK gone \in Victims(p) :
           /\ verdict' = [verdict EXCEPT ![p] =
                [v \in Traces |-> IF v = t THEN "pending" ELSE
                                  IF v \in gone THEN "none" ELSE verdict[p][v]]]
           /\ held' = [held EXCEPT ![p] =
                [v \in Traces |-> IF v = t THEN S ELSE
                                  IF v \in gone THEN {} ELSE held[p][v]]]
           /\ due' = [due EXCEPT ![p] =
                [v \in Traces |-> IF v = t THEN now + DecisionWait ELSE
                                  IF v \in gone THEN 0 ELSE due[p][v]]]
           /\ hurt' = hurt \cup {v \in gone : verdict[p][v] = "pending"}
      BY <2>1 DEF Admit
    <3>2. u \in gone => verdict[p][u] # "pending"
      BY <3>1
    <3>3. \A q \in Pods :
            /\ verdict'[q][u] = IF q = p /\ u \in gone THEN "none" ELSE verdict[q][u]
            /\ q # p \/ u \notin gone => held'[q][u] = held[q][u] /\ due'[q][u] = due[q][u]
      BY <1>1, <3>1 DEF TypeOK
    <3>4. stored' = stored
      BY <2>1 DEF Admit
    <3> QED BY <3>2, <3>3, <3>4
  <2>2. CASE Gather(p, t, S)
    <3> HIDE DEF p, S
    <3> QED BY <1>1, <2>2 DEF Gather, TypeOK
  <2>3. CASE FollowVerdict(p, t, S)
    <3> HIDE DEF p, S
    <3> QED BY <1>1, <2>3 DEF FollowVerdict, TypeOK
  <2> QED BY <2>1, <2>2, <2>3 DEF Forward
<1> QED BY <1>2, <1>3 DEF Alone

\* What it does to t itself, when t is undamaged: its spans move from otel-lb to the
\* one pod that judges it.
LEMMA ForwardHere ==
  ASSUME TypeOK, NEW t \in Traces, NEW acked \in BOOLEAN, Forward(t, acked), Intact(t)
  PROVE  /\ judged[t] = {}
         /\ stored' = stored
         /\ InLb(t) # {}
         /\ \E p \in Pods :
              /\ p = Owner(ring, t)
              /\ \A q \in Pods : verdict'[q][t] = IF q = p THEN "pending" ELSE "none"
              /\ \A q \in Pods : held[q][t] \cap Ended(t) # {} /\ verdict[q][t] = "pending" => q = p
              /\ InLb(t) \subseteq held'[p][t]
              /\ verdict[p][t] = "pending" => held[p][t] \subseteq held'[p][t]
              /\ due'[p][t] >= start[t] + DecisionWait
<1> DEFINE p == Owner(ring, t)
           S == InLb(t)
<1>1. p \in Pods /\ S \in SUBSET Spans /\ S # {}
  BY DEF Forward, TypeOK, InLb
<1>2. Upstream(t) # {}
  BY <1>1 DEF InLb, Upstream
<1>3. judged[t] = {}
  BY <1>2 DEF Intact, Decided
<1>4. \A q \in Pods : verdict[q][t] \in {"none", "pending"}
  BY <1>3 DEF Intact, Undecided
<1>5. \A q \in Pods : verdict[q][t] = "pending" => q = p
  BY <1>2 DEF Intact, SoleJudge
<1>6. start[t] <= now /\ start[t] \in Nat /\ now \in Nat /\ DecisionWait \in Nat
  BY TimeAssumption DEF Intact, OnTime, TypeOK
<1>7. CASE Admit(p, t, S)
  <2> HIDE DEF p, S
  <2>1. verdict[p][t] = "none" /\ stored' = stored
    BY <1>7 DEF Admit
  <2>2. /\ verdict'[p][t] = "pending" /\ held'[p][t] = S
        /\ due'[p][t] = now + DecisionWait
        /\ \A q \in Pods : q # p => verdict'[q][t] = verdict[q][t]
    BY <1>1, <1>7 DEF Admit, TypeOK
  <2>3. now + DecisionWait >= start[t] + DecisionWait
    BY <1>6
  <2>4. \A q \in Pods : verdict'[q][t] = IF q = p THEN "pending" ELSE "none"
    BY <1>4, <1>5, <2>2
  <2> QED BY <1>1, <1>3, <1>5, <2>1, <2>2, <2>3, <2>4 DEF p, S
<1>8. CASE Gather(p, t, S)
  <2> HIDE DEF p, S
  <2>1. verdict[p][t] = "pending" /\ verdict' = verdict /\ due' = due /\ stored' = stored
    BY <1>8 DEF Gather
  <2>2. held'[p][t] = held[p][t] \cup S
    BY <1>1, <1>8 DEF Gather, TypeOK
  <2>3. due[p][t] >= start[t] + DecisionWait
    BY <1>1, <2>1 DEF Intact, SoleJudge
  <2>4. \A q \in Pods : verdict'[q][t] = IF q = p THEN "pending" ELSE "none"
    BY <1>4, <1>5, <2>1
  <2> QED BY <1>1, <1>3, <1>5, <2>1, <2>2, <2>3, <2>4 DEF p, S
<1>9. CASE FollowVerdict(p, t, S)
  <2> HIDE DEF p, S
  <2> QED BY <1>1, <1>4, <1>9 DEF FollowVerdict
<1> QED BY <1>7, <1>8, <1>9 DEF Forward

LEMMA ForwardIntact ==
  ASSUME TypeOK, NEW t \in Traces, NEW acked \in BOOLEAN, Forward(t, acked),
         NEW u \in Traces \ hurt', Intact(u)
  PROVE  Intact(u)'
<1>1. CASE u # t
  BY <1>1, ForwardElsewhere, Frame
<1>2. CASE u = t
  <2>1. PICK p \in Pods :
              /\ p = Owner(ring, u)
              /\ \A q \in Pods : verdict'[q][u] = IF q = p THEN "pending" ELSE "none"
              /\ \A q \in Pods : held[q][u] \cap Ended(u) # {} /\ verdict[q][u] = "pending" => q = p
              /\ InLb(u) \subseteq held'[p][u]
              /\ verdict[p][u] = "pending" => held[p][u] \subseteq held'[p][u]
              /\ due'[p][u] >= start[u] + DecisionWait
    BY <1>2, ForwardHere
  <2>2. judged[u] = {} /\ stored' = stored /\ InLb(u) # {}
    BY <1>2, ForwardHere
  <2>3. /\ UNCHANGED <<now, phase, kind, start, endAt, queue, ring, judged>>
        /\ lb' \subseteq lb
        /\ \A s \in Spans : <<u, s>> \in lb => <<u, s>> \in lb' \/ s \in InLb(u)
    BY DEF Forward, app, InLb
  <2>4. /\ Upstream(u)' \subseteq Upstream(u)
        /\ Upstream(u) \subseteq Upstream(u)' \cup InLb(u)
        /\ InLb(u)' \subseteq InLb(u)
        /\ StoredOf(u)' = StoredOf(u)
        /\ Ended(u)' = Ended(u)
        /\ Running(u)' <=> Running(u)
    BY <2>2, <2>3 DEF Upstream, InLb, StoredOf, Ended, Running
  <2>5. phase[u] # "idle"
    BY <2>2 DEF Intact, Untouched, Upstream, InLb
  <2>6. OnTime(u)'
    <3>1. ~ Late(u, now)'
      BY <2>3, <2>4 DEF Intact, OnTime, Late
    <3> QED BY <2>3, <3>1 DEF Intact, OnTime
  <2>7. Undecided(u)'
    <3>1. \A s \in Ended(u) :
            \/ s \in Upstream(u)
            \/ \E q \in Pods : verdict[q][u] = "pending" /\ s \in held[q][u]
      BY <2>2 DEF Intact, Undecided
    <3>2. \A s \in Ended(u) : s \in Upstream(u)' \/ s \in held'[p][u]
      BY <2>1, <2>4, <3>1
    <3>3. StoredOf(u) = {}
      BY <2>2 DEF Intact, Undecided
    <3> QED BY <2>1, <2>4, <3>2, <3>3 DEF Undecided
  <2>8. SoleJudge(u)'
    BY <2>1, <2>2, <2>3 DEF SoleJudge
  <2> QED BY <2>2, <2>3, <2>5, <2>6, <2>7, <2>8 DEF Intact, Untouched, Decided
<1> QED BY <1>1, <1>2

\* The heart of the argument: when decision_wait is over, every deadline behind it is
\* too, so nothing of an undamaged trace is left on the way and the pod holds it all.
LEMMA DecideWhole ==
  ASSUME TypeOK, NEW p \in Pods, NEW t \in Traces, Intact(t),
         verdict[p][t] = "pending", now >= due[p][t]
  PROVE  /\ phase[t] = "done"
         /\ Upstream(t) = {}
         /\ held[p][t] = Spans
         /\ judged[t] = {}
<1>1. /\ now \in Nat /\ start[t] \in Nat /\ due[p][t] \in Nat
      /\ \A s \in Spans : endAt[t][s] \in Nat
      /\ DecisionWait \in Nat /\ ReqMax \in Nat /\ BatchDelay \in Nat /\ LbDelay \in Nat
  BY TimeAssumption DEF TypeOK, SpanTimes
<1>2. judged[t] = {} /\ due[p][t] >= start[t] + DecisionWait
  BY DEF Intact, SoleJudge
<1>3. now > start[t] + ReqMax + BatchDelay + LbDelay
  BY <1>1, <1>2, WaitAssumption
<1>4. ~ Late(t, now) /\ \A s \in Spans : endAt[t][s] <= start[t] + ReqMax
  BY DEF Intact, OnTime
<1>5. ~ Running(t)
  BY <1>1, <1>3, <1>4 DEF Late
<1>6. phase[t] = "done"
  BY <1>5 DEF Running, Intact, Untouched, TypeOK
<1>7. \A s \in Spans : <<t, s>> \notin queue
  <2> SUFFICES ASSUME NEW s \in Spans, <<t, s>> \in queue PROVE FALSE
    OBVIOUS
  <2>1. ~ (now > endAt[t][s] + BatchDelay)
    BY <1>4 DEF Late
  <2>2. endAt[t][s] \in Nat /\ endAt[t][s] <= start[t] + ReqMax
    BY <1>1, <1>4
  <2> QED BY <1>1, <1>3, <2>1, <2>2
<1>8. \A s \in Spans : <<t, s>> \notin lb
  <2> SUFFICES ASSUME NEW s \in Spans, <<t, s>> \in lb PROVE FALSE
    OBVIOUS
  <2>1. ~ (now > endAt[t][s] + BatchDelay + LbDelay)
    BY <1>4 DEF Late, InLb
  <2>2. endAt[t][s] \in Nat /\ endAt[t][s] <= start[t] + ReqMax
    BY <1>1, <1>4
  <2> QED BY <1>1, <1>3, <2>1, <2>2
<1>9. Upstream(t) = {}
  BY <1>7, <1>8 DEF Upstream
<1>10. Ended(t) = Spans
  BY <1>6 DEF Ended
<1>11. \A s \in Spans : \E q \in Pods : verdict[q][t] = "pending" /\ s \in held[q][t]
  BY <1>2, <1>9, <1>10 DEF Intact, Undecided
<1>12. \A q \in Pods : verdict[q][t] = "pending" => q = p
  BY DEF Intact, SoleJudge
<1>13. held[p][t] = Spans
  BY <1>11, <1>12 DEF TypeOK
<1> QED BY <1>2, <1>6, <1>9, <1>13

LEMMA DecideIntact ==
  ASSUME TypeOK, NEW p \in Pods, NEW t \in Traces, Decide(p, t),
         NEW u \in Traces, Intact(u)
  PROVE  Intact(u)'
<1>1. CASE u # t
  <2>1. Alone(u)
    BY <1>1 DEF Decide, Alone, TypeOK, app
  <2> QED BY <2>1, Frame
<1>2. CASE u = t
  <2>1. /\ phase[u] = "done" /\ Upstream(u) = {} /\ held[p][u] = Spans /\ judged[u] = {}
        /\ \A q \in Pods : verdict[q][u] # "none" => q = p
    BY <1>2, DecideWhole DEF Decide, Intact, SoleJudge
  <2>2. UNCHANGED <<now, phase, kind, start, endAt, queue, lb, ring, due>>
    BY DEF Decide, app
  <2>3. /\ InLb(u)' = InLb(u) /\ Upstream(u)' = Upstream(u)
        /\ Running(u)' <=> Running(u)
        /\ Keep(u, Spans)' <=> Keep(u, Spans)
    BY <2>2 DEF Upstream, InLb, Running, Keep, Important, ErrorSpans, Slow, StartOf
  <2>4. StoredOf(u) = {}
    BY <2>1 DEF Intact, Undecided
  <2>5. /\ judged'[u] = IF Keep(u, Spans) THEN {"sampled"} ELSE {"notSampled"}
        /\ \A q \in Pods : verdict'[q][u] # "pending"
    BY <1>2, <2>1 DEF Decide, TypeOK
  <2>6. StoredOf(u)' = IF Keep(u, Spans) THEN Spans ELSE {}
    BY <1>2, <2>1, <2>4 DEF Decide, StoredOf
  <2>7. Decided(u)'
    BY <2>1, <2>2, <2>3, <2>5, <2>6 DEF Decided
  <2>8. Untouched(u)' /\ Undecided(u)' /\ SoleJudge(u)' /\ phase'[u] # "aborted"
    BY <2>1, <2>2, <2>5 DEF Untouched, Undecided, SoleJudge
  <2>9. OnTime(u)'
    BY <2>2, <2>3 DEF Intact, OnTime, Late
  <2> QED BY <2>7, <2>8, <2>9 DEF Intact
<1> QED BY <1>1, <1>2
-----------------------------------------------------------------------------
\* The invariant.

LEMMA HurtGrows == TypeOK /\ [Next]_vars => hurt \subseteq hurt'
<1> SUFFICES ASSUME TypeOK, [Next]_vars PROVE hurt \subseteq hurt'
  OBVIOUS
<1>1. ASSUME NEW t \in Traces, NEW k \in Kinds, Begin(t, k) PROVE hurt \subseteq hurt'
  BY <1>1 DEF Begin
<1>2. ASSUME NEW t \in Traces, EndSpan(t) PROVE hurt \subseteq hurt'
  BY <1>2 DEF EndSpan
<1>3. ASSUME NEW t \in Traces, NEW acked \in BOOLEAN, Forward(t, acked)
      PROVE hurt \subseteq hurt'
  BY <1>3 DEF Forward, Admit, Gather, FollowVerdict
<1>4. ASSUME NEW t \in Traces, ForwardFails(t) PROVE hurt \subseteq hurt'
  BY <1>4 DEF ForwardFails
<1>5. ASSUME NEW p \in Pods, NEW t \in Traces, Decide(p, t) PROVE hurt \subseteq hurt'
  BY <1>5 DEF Decide
<1>6. ASSUME NEW p \in Pods, PodDown(p) \/ PodUp(p) PROVE hurt \subseteq hurt'
  BY <1>6 DEF PodDown, PodUp
<1>7. CASE Export \/ ExportFails \/ Kill \/ Resolve \/ Tick \/ UNCHANGED vars
  BY <1>7 DEF Export, ExportFails, Kill, Resolve, Tick, vars
<1> QED BY <1>1, <1>2, <1>3, <1>4, <1>5, <1>6, <1>7 DEF Next

LEMMA JudgesStayUp == TypeOK /\ JudgesAreUp /\ [Next]_vars => JudgesAreUp'
<1> SUFFICES ASSUME TypeOK, JudgesAreUp, [Next]_vars PROVE JudgesAreUp'
  OBVIOUS
<1>1. ASSUME NEW t \in Traces, NEW acked \in BOOLEAN, Forward(t, acked) PROVE JudgesAreUp'
  <2> DEFINE p == Owner(ring, t)
             S == InLb(t)
  <2>1. p \in up /\ up' = up /\ p \in Pods
    BY <1>1 DEF Forward, TypeOK
  <2>2. \A q \in Pods, u \in Traces : verdict'[q][u] = "pending" => q = p \/ verdict[q][u] = "pending"
    <3>1. CASE Admit(p, t, S)
      <4> HIDE DEF p, S
      <4> QED BY <2>1, <3>1 DEF Admit, TypeOK
    <3>2. CASE Gather(p, t, S) \/ FollowVerdict(p, t, S)
      <4> HIDE DEF p, S
      <4> QED BY <3>2 DEF Gather, FollowVerdict
    <3> QED BY <1>1, <3>1, <3>2 DEF Forward
  <2> QED BY <2>1, <2>2 DEF JudgesAreUp
<1>2. ASSUME NEW p \in Pods, NEW t \in Traces, Decide(p, t) PROVE JudgesAreUp'
  BY <1>2 DEF Decide, JudgesAreUp, TypeOK
<1>3. ASSUME NEW p \in Pods, PodDown(p) PROVE JudgesAreUp'
  BY <1>3 DEF PodDown, JudgesAreUp, TypeOK
<1>4. ASSUME NEW p \in Pods, PodUp(p) PROVE JudgesAreUp'
  BY <1>4 DEF PodUp, JudgesAreUp, sampler
<1>5. CASE \/ \E t \in Traces, k \in Kinds : Begin(t, k)
           \/ \E t \in Traces : EndSpan(t) \/ ForwardFails(t)
           \/ Export \/ ExportFails \/ Kill \/ Resolve \/ Tick \/ UNCHANGED vars
  <2>1. verdict' = verdict /\ up' = up
    BY <1>5 DEF Begin, EndSpan, ForwardFails, Export, ExportFails, Kill, Resolve, Tick, vars, sampler
  <2> QED BY <2>1 DEF JudgesAreUp
<1> QED BY <1>1, <1>2, <1>3, <1>4, <1>5 DEF Next

LEMMA IntactStays ==
  TypeOK /\ (\A u \in Traces \ hurt : Intact(u)) /\ [Next]_vars
    => (\A u \in Traces \ hurt : Intact(u))'
<1> SUFFICES ASSUME TypeOK, \A v \in Traces \ hurt : Intact(v), [Next]_vars,
                    NEW u \in Traces \ hurt'
             PROVE  Intact(u)'
  OBVIOUS
<1>0. u \in Traces /\ Intact(u)
  BY HurtGrows
<1>1. ASSUME NEW t \in Traces, NEW k \in Kinds, Begin(t, k) PROVE Intact(u)'
  BY <1>0, <1>1, BeginIntact
<1>2. ASSUME NEW t \in Traces, EndSpan(t) PROVE Intact(u)'
  BY <1>0, <1>2, EndSpanIntact
<1>3. CASE Export
  BY <1>0, <1>3, ExportIntact
<1>4. CASE ExportFails
  BY <1>0, <1>4, ExportFailsIntact
<1>5. CASE Kill
  BY <1>0, <1>5, KillIntact
<1>6. ASSUME NEW t \in Traces, NEW acked \in BOOLEAN, Forward(t, acked) PROVE Intact(u)'
  BY <1>0, <1>6, ForwardIntact
<1>7. ASSUME NEW t \in Traces, ForwardFails(t) PROVE Intact(u)'
  BY <1>0, <1>7, ForwardFailsIntact
<1>8. ASSUME NEW p \in Pods, NEW t \in Traces, Decide(p, t) PROVE Intact(u)'
  BY <1>0, <1>8, DecideIntact
<1>9. ASSUME NEW p \in Pods, PodDown(p) PROVE Intact(u)'
  BY <1>0, <1>9, PodDownIntact
<1>10. ASSUME NEW p \in Pods, PodUp(p) PROVE Intact(u)'
  BY <1>0, <1>10, PodUpIntact
<1>11. CASE Resolve
  BY <1>0, <1>11, ResolveIntact
<1>12. CASE Tick
  BY <1>0, <1>12, TickIntact
<1>13. CASE UNCHANGED vars
  <2>1. Alone(u)
    BY <1>13 DEF vars, Alone
  <2> QED BY <1>0, <2>1, Frame
<1> QED
  BY <1>1, <1>2, <1>3, <1>4, <1>5, <1>6, <1>7, <1>8, <1>9, <1>10, <1>11, <1>12, <1>13
  DEF Next

LEMMA InductiveInit == Init => IInv
<1> SUFFICES ASSUME Init PROVE IInv
  OBVIOUS
<1>1. TypeOK
  BY TypeInit
<1>2. ASSUME NEW t \in Traces PROVE Intact(t)
  <2>1. /\ phase[t] = "idle" /\ start[t] = 0 /\ now = 0 /\ judged[t] = {}
        /\ queue = {} /\ lb = {} /\ stored = {}
        /\ \A p \in Pods : verdict[p][t] = "none"
        /\ \A s \in Spans : endAt[t][s] = 0
    BY DEF Init
  <2>2. InLb(t) = {} /\ Upstream(t) = {} /\ StoredOf(t) = {} /\ Ended(t) = {}
    BY <2>1 DEF InLb, Upstream, StoredOf, Ended
  <2>3. ReqMax \in Nat
    BY TimeAssumption
  <2>4. OnTime(t)
    BY <2>1, <2>2, <2>3 DEF OnTime, Late, Running
  <2> QED
    BY <2>1, <2>2, <2>4 DEF Intact, Untouched, Undecided, SoleJudge, Decided
<1>3. JudgesAreUp
  BY DEF Init, JudgesAreUp
<1> QED BY <1>1, <1>2, <1>3 DEF IInv

\* The strengthening behind the theorems below: what no incident has touched is
\* intact, at every stage of its way.
THEOREM Inductive == Spec => []IInv
<1>1. Init => IInv
  BY InductiveInit
<1>2. IInv /\ [Next]_vars => IInv'
  BY TypeStep, IntactStays, JudgesStayUp DEF IInv
<1> QED
  BY <1>1, <1>2, PTL DEF Spec
-----------------------------------------------------------------------------
\* What follows from it.

\* The stored state of an undamaged trace: nothing before its verdict, and after it
\* what the policies say of the whole trace.
LEMMA StoredWhole ==
  ASSUME IInv, NEW t \in Traces \ hurt
  PROVE  StoredOf(t) \in {{}, Spans} /\ (StoredOf(t) # {} => judged[t] # {})
  BY DEF IInv, Intact, Undecided, Decided

LEMMA SettledJudged ==
  ASSUME IInv, NEW t \in Traces \ hurt, Settled(t)
  PROVE  judged[t] # {}
<1>1. Ended(t) = Spans /\ Upstream(t) = {}
  BY DEF Settled, Ended
<1>2. \A p \in Pods : verdict[p][t] # "pending"
  BY DEF Settled
<1> QED BY <1>1, <1>2 DEF IInv, Intact, Undecided

\* README.md:12-14 for every deployment whose decision_wait outlasts a request and the
\* hops behind it: a failed, slow or baseline trace is stored whole once it is settled,
\* and any other is not, unless one of the incidents that set hurt damaged it.
THEOREM RightStorage == Spec => [](RightlyStored /\ AllOrNothing)
<1>1. IInv => RightlyStored /\ AllOrNothing
  <2> SUFFICES ASSUME IInv PROVE RightlyStored /\ AllOrNothing
    OBVIOUS
  <2>1. AllOrNothing
    BY StoredWhole DEF AllOrNothing
  <2>2. ASSUME NEW t \in Traces, Settled(t), t \notin hurt
        PROVE  Keep(t, Spans) <=> StoredOf(t) # {}
    BY <2>2, SettledJudged DEF IInv, Intact, Decided
  <2> QED BY <2>1, <2>2 DEF RightlyStored
<1> QED BY <1>1, Inductive, PTL

LEMMA TardyStays ==
  TypeOK /\ (\A u \in Traces : Tardy(u)) /\ [Next]_vars => (\A u \in Traces : Tardy(u))'
<1> SUFFICES ASSUME TypeOK, \A v \in Traces : Tardy(v), [Next]_vars, NEW u \in Traces
             PROVE  Tardy(u)'
  OBVIOUS
<1>1. ASSUME NEW t \in Traces, NEW k \in Kinds, Begin(t, k) PROVE Tardy(u)'
  BY <1>1 DEF Begin, Tardy, TypeOK
<1>2. ASSUME NEW t \in Traces, EndSpan(t) PROVE Tardy(u)'
  <2>1. kind' = kind /\ start' = start
    BY <1>2 DEF EndSpan
  <2>2. CASE u # t
    <3>1. phase'[u] = phase[u] /\ endAt'[u] = endAt[u]
      BY <1>2, <2>2 DEF EndSpan, TypeOK
    <3> QED BY <2>1, <3>1 DEF Tardy
  <2>3. CASE u = t
    <3>1. /\ phase'[t] = After(phase[t])
          /\ endAt'[t] = [endAt[t] EXCEPT ![phase[t]] = now]
          /\ endAt[t] \in [Spans -> Nat]
          /\ phase[t] \in Spans
      BY <1>2 DEF EndSpan, Running, TypeOK, SpanTimes
    <3>2. CASE phase[t] = "early"
      BY <2>3, <3>1, <3>2 DEF After, Tardy
    <3>3. CASE phase[t] = "work"
      <4>1. kind[t] = "latency" => now >= start[t] + SlowAfter
        BY <1>2, <3>3 DEF EndSpan
      <4>2. endAt'[t]["work"] = now
        BY <3>1, <3>3 DEF Spans
      <4> QED BY <2>1, <2>3, <4>1, <4>2 DEF Tardy
    <3>4. CASE phase[t] = "server"
      <4>1. endAt'[t]["work"] = endAt[t]["work"]
        BY <3>1, <3>4 DEF Spans
      <4> QED BY <2>1, <2>3, <3>4, <4>1 DEF Tardy
    <3> QED BY <3>1, <3>2, <3>3, <3>4 DEF Spans
  <2> QED BY <2>2, <2>3
<1>3. CASE Kill
  <2>1. /\ kind' = kind /\ start' = start /\ endAt' = endAt
        /\ phase'[u] \in {"aborted", phase[u]}
    BY <1>3 DEF Kill
  <2> QED BY <2>1 DEF Tardy
<1>4. CASE UNCHANGED app
  BY <1>4 DEF app, Tardy
<1>5. ASSUME NEW t \in Traces,
             \/ \E acked \in BOOLEAN : Forward(t, acked)
             \/ ForwardFails(t)
             \/ \E p \in Pods : Decide(p, t)
      PROVE  UNCHANGED app
  BY <1>5 DEF Forward, ForwardFails, Decide
<1>6. ASSUME NEW p \in Pods, PodDown(p) \/ PodUp(p) PROVE UNCHANGED app
  BY <1>6 DEF PodDown, PodUp
<1>7. CASE Export \/ ExportFails \/ Resolve \/ Tick \/ UNCHANGED vars
  <2>1. UNCHANGED app
    BY <1>7 DEF Export, ExportFails, Resolve, Tick, vars, app
  <2> QED BY <1>4, <2>1
<1> QED BY <1>1, <1>2, <1>3, <1>4, <1>5, <1>6, <1>7 DEF Next

LEMMA AlwaysTardy == Spec => [](\A u \in Traces : Tardy(u))
<1>1. Init => \A u \in Traces : Tardy(u)
  BY DEF Init, Tardy
<1> QED BY <1>1, TardyStays, TypeCorrect, PTL DEF Spec

\* Once it has ended, what README.md:13-14 names is something the policies keep: a failure
\* by the status of its spans, a slow request by the first and the last of its times.
LEMMA PoliciesKeep ==
  ASSUME NEW t \in Traces, Tardy(t), phase[t] = "done", kind[t] \in {"failure", "latency"}
  PROVE  Keep(t, Spans)
<1>1. CASE kind[t] = "failure"
  <2>1. Spans \cap ErrorSpans(t) # {}
    BY <1>1 DEF ErrorSpans, Spans
  <2> QED BY <2>1 DEF Keep, Important
<1>2. CASE kind[t] = "latency"
  <2>1. endAt[t]["work"] >= StartOf(t, "early") + SlowAfter
    BY <1>2 DEF Tardy, StartOf
  <2>2. Slow(t, Spans)
    BY <2>1 DEF Slow, Spans
  <2> QED BY <2>2 DEF Keep, Important
<1> QED BY <1>1, <1>2

\* README.md:13-14 for every deployment whose decision_wait outlasts a request and the
\* hops behind it: a failure and a slow request are stored whole, at the threshold of the
\* latency policy too, unless an incident damaged the trace.
THEOREM FailuresAndSlowAreStored == Spec => []FailuresAndSlowStored
<1>1. IInv /\ (\A u \in Traces : Tardy(u)) => FailuresAndSlowStored
  <2> SUFFICES ASSUME IInv, \A u \in Traces : Tardy(u),
                      NEW t \in Traces, Settled(t), t \notin hurt,
                      kind[t] \in {"failure", "latency"}
               PROVE  StoredOf(t) = Spans
    BY DEF FailuresAndSlowStored
  <2>1. Keep(t, Spans)
    BY PoliciesKeep DEF Settled
  <2>2. judged[t] # {}
    BY SettledJudged
  <2> QED BY <2>1, <2>2 DEF IInv, Intact, Decided
<1> QED BY <1>1, Inductive, AlwaysTardy, PTL

\* README.md:22: an undamaged trace is known to one pod at a time and gets one verdict.
THEOREM SingleJudge == Spec => []OneJudge
<1>1. IInv => OneJudge
  BY DEF IInv, Intact, SoleJudge, Decided, OneJudge
<1> QED BY <1>1, Inductive, PTL

\* No pod decides an undamaged trace before it holds all of it.
THEOREM DecisionsAreWhole == Spec => WholeDecisions
<1> DEFINE Whole ==
      \A p \in Pods, t \in Traces :
         /\ t \notin hurt
         /\ verdict[p][t] = "pending"
         /\ verdict[p][t]' \in {"sampled", "notSampled"}
         => phase[t] = "done" /\ held[p][t] = Spans
<1>1. ASSUME IInv, [Next]_vars, NEW p \in Pods, NEW t \in Traces, t \notin hurt,
             verdict[p][t] = "pending", verdict'[p][t] \in {"sampled", "notSampled"}
      PROVE  phase[t] = "done" /\ held[p][t] = Spans
  <2> USE DEF IInv
  <2>1. CASE now >= due[p][t]
    BY <1>1, <2>1, DecideWhole
  <2>2. CASE ~ (now >= due[p][t])
    <3>1. ASSUME NEW q \in Pods, NEW u \in Traces, Decide(q, u) PROVE FALSE
      BY <1>1, <2>2, <3>1 DEF Decide, TypeOK
    <3>2. ASSUME NEW u \in Traces, NEW acked \in BOOLEAN, Forward(u, acked) PROVE FALSE
      <4> DEFINE o == Owner(ring, u)
                 S == InLb(u)
      <4>1. o \in Pods
        BY <1>1, <3>2 DEF Forward, TypeOK
      <4>2. CASE Admit(o, u, S)
        <5> HIDE DEF o, S
        <5> QED BY <1>1, <4>1, <4>2 DEF Admit, TypeOK
      <4>3. CASE Gather(o, u, S) \/ FollowVerdict(o, u, S)
        <5> HIDE DEF o, S
        <5> QED BY <1>1, <4>3 DEF Gather, FollowVerdict
      <4> QED BY <3>2, <4>2, <4>3 DEF Forward
    <3>3. ASSUME NEW q \in Pods, PodDown(q) PROVE FALSE
      BY <1>1, <3>3 DEF PodDown, TypeOK
    <3>4. CASE \/ \E u \in Traces, k \in Kinds : Begin(u, k)
               \/ \E u \in Traces : EndSpan(u) \/ ForwardFails(u)
               \/ \E q \in Pods : PodUp(q)
               \/ Export \/ ExportFails \/ Kill \/ Resolve \/ Tick \/ UNCHANGED vars
      <4>1. verdict' = verdict
        BY <3>4 DEF Begin, EndSpan, ForwardFails, PodUp, Export, ExportFails, Kill,
                    Resolve, Tick, vars, sampler
      <4> QED BY <1>1, <4>1
    <3> QED BY <1>1, <3>1, <3>2, <3>3, <3>4 DEF Next
  <2> QED BY <2>1, <2>2
<1>2. IInv /\ [Next]_vars => [Whole]_vars
  BY <1>1
<1> QED BY <1>2, Inductive, PTL DEF WholeDecisions, Spec

\* k8s/otel-tail-sampler.yaml:36: because the hash is consistent, a ring that only
\* loses pods cuts no trace that the remaining pods wait to judge.
THEOREM ShrinkingIsHarmless == Spec => ShrinkingRingCutsNothing
<1> DEFINE Harmless == ring' \subseteq ring => ring' = ring \/ hurt' = hurt
<1>1. ASSUME IInv, [Next]_vars, ring' \subseteq ring, ring' # ring PROVE hurt' = hurt
  <2>1. Resolve
    <3>1. ASSUME NEW p \in Pods, PodDown(p) \/ PodUp(p) PROVE FALSE
      BY <1>1, <3>1 DEF PodDown, PodUp
    <3>2. ASSUME NEW t \in Traces, NEW acked \in BOOLEAN, Forward(t, acked) PROVE FALSE
      BY <1>1, <3>2 DEF Forward
    <3>3. ASSUME NEW p \in Pods, NEW t \in Traces, Decide(p, t) PROVE FALSE
      BY <1>1, <3>3 DEF Decide
    <3>4. ASSUME NEW t \in Traces, EndSpan(t) \/ ForwardFails(t) PROVE FALSE
      BY <1>1, <3>4 DEF EndSpan, ForwardFails
    <3>5. ASSUME NEW t \in Traces, NEW k \in Kinds, Begin(t, k) PROVE FALSE
      BY <1>1, <3>5 DEF Begin
    <3>6. CASE Export \/ ExportFails \/ Kill \/ Tick \/ UNCHANGED vars
      BY <1>1, <3>6 DEF Export, ExportFails, Kill, Tick, vars
    <3> QED BY <1>1, <3>1, <3>2, <3>3, <3>4, <3>5, <3>6 DEF Next
  <2>2. up \subseteq ring /\ ring \in SUBSET Pods /\ hurt' = hurt \cup CutBy(up)
    BY <1>1, <2>1 DEF Resolve, IInv, TypeOK
  <2>3. ASSUME NEW t \in CutBy(up), t \notin hurt PROVE FALSE
    <3>1. PICK p \in Pods : verdict[p][t] = "pending" /\ Owner(up, t) # p
      BY DEF CutBy
    <3>2. t \in Traces /\ (Running(t) \/ Upstream(t) # {})
      BY DEF CutBy
    <3>3. Owner(ring, t) = p
      BY <1>1, <2>3, <3>1, <3>2 DEF IInv, Intact, SoleJudge
    <3>4. p \in up
      BY <1>1, <3>1, <3>2 DEF IInv, JudgesAreUp
    <3>5. Owner(up, t) = Owner(ring, t)
      BY <2>2, <3>2, <3>3, <3>4, OwnerAssumption
    <3> QED BY <3>1, <3>3, <3>5
  <2> QED BY <2>2, <2>3
<1>2. IInv /\ [Next]_vars => [Harmless]_vars
  BY <1>1
<1> QED BY <1>2, Inductive, PTL DEF ShrinkingRingCutsNothing, Spec

\* At no moment is an undamaged trace stored in part.
THEOREM StoredWholeOrNot == Spec => []AllOrNothing
<1>1. IInv => AllOrNothing
  BY StoredWhole DEF AllOrNothing
<1> QED BY <1>1, Inductive, PTL

-----------------------------------------------------------------------------
\* The refinement of TailSampling.


\* The promise of TailSampling to the traces of T alone.
PromiseTo(T) == INSTANCE TailSampling WITH
  Traces <- T,
  status <- [t \in T |-> Status(t)],
  matters <- [t \in T |-> Matters(t)]

\* Trace t looks from outside as it did before the step.
Unmoved(t) == Status(t)' = Status(t) /\ Matters(t)' = Matters(t)

LEMMA SameFields ==
  ASSUME NEW u \in Traces, phase'[u] = phase[u], kind'[u] = kind[u],
         start'[u] = start[u], endAt'[u] = endAt[u], judged'[u] = judged[u],
         StoredOf(u)' = StoredOf(u)
  PROVE  Unmoved(u)
  BY DEF Unmoved, Status, Matters, Important, ErrorSpans, Slow, StartOf

LEMMA AloneUnmoved == ASSUME NEW u \in Traces, Alone(u) PROVE Unmoved(u)
<1>1. StoredOf(u)' = StoredOf(u)
  BY DEF Alone, StoredOf
<1> QED BY <1>1, SameFields DEF Alone

\* When nothing moves, the promise stutters.
LEMMA AllUnmoved ==
  ASSUME NEW T \in SUBSET Traces, \A t \in T : Unmoved(t)
  PROVE  UNCHANGED PromiseTo(T)!vars
  BY DEF PromiseTo!vars, Unmoved

\* The end of the server span is the end of the trace; no other span is.
LEMMA EndSpanMaps ==
  ASSUME IInv, NEW t \in Traces, EndSpan(t), NEW T \in SUBSET Traces, T \cap hurt' = {}
  PROVE  [PromiseTo(T)!Next]_(PromiseTo(T)!vars)
<1> USE DEF IInv
<1>1. Running(t) /\ phase' = [phase EXCEPT ![t] = After(phase[t])]
  BY DEF EndSpan
<1>2. /\ kind' = kind /\ start' = start /\ judged' = judged /\ stored' = stored
      /\ endAt' = [endAt EXCEPT ![t][phase[t]] = now]
  BY DEF EndSpan, sampler
<1>3. ASSUME NEW u \in Traces, u # t PROVE Unmoved(u)
  <2>1. StoredOf(u)' = StoredOf(u)
    BY <1>2 DEF StoredOf
  <2> QED BY <1>1, <1>2, <1>3, <2>1, SameFields DEF TypeOK
<1>4. CASE phase[t] # "server"
  <2>1. phase[t] # "done" /\ phase'[t] # "done"
    BY <1>1, <1>4 DEF TypeOK, After, Running
  <2>2. Unmoved(t)
    BY <2>1 DEF Unmoved, Status, Matters
  <2> QED BY <1>3, <2>2, AllUnmoved
<1>5. CASE t \notin T
  BY <1>3, <1>5, AllUnmoved
<1>6. CASE t \in T /\ phase[t] = "server"
  <2>1. t \notin hurt /\ phase'[t] = "done" /\ phase[t] # "done"
    BY <1>1, <1>6, HurtGrows DEF TypeOK, After, Next
  <2>2. judged[t] = {}
    BY <2>1 DEF Intact, Decided
  <2>3. StoredOf(t) = {} /\ StoredOf(t)' = {}
    BY <1>2, <2>1, <2>2 DEF Intact, Undecided, StoredOf
  <2>4. Status(t) = "open" /\ Status(t)' = "ended"
    BY <1>2, <2>1, <2>2, <2>3 DEF Status
  <2>5. Matters(t)' \in BOOLEAN
    BY DEF Matters
  <2>6. PromiseTo(T)!Finish(t)
    BY <1>3, <1>6, <2>4, <2>5 DEF PromiseTo!Finish, Unmoved
  <2> QED BY <1>6, <2>6 DEF PromiseTo!Next
<1> QED BY <1>4, <1>5, <1>6

\* A decision is the judgement of the whole trace.
LEMMA DecideMaps ==
  ASSUME IInv, NEW p \in Pods, NEW t \in Traces, Decide(p, t),
         NEW T \in SUBSET Traces, T \cap hurt' = {}
  PROVE  [PromiseTo(T)!Next]_(PromiseTo(T)!vars)
<1> USE DEF IInv
<1>1. /\ UNCHANGED <<phase, kind, start, endAt, hurt>>
      /\ verdict[p][t] = "pending" /\ now >= due[p][t]
  BY DEF Decide, app
<1>2. ASSUME NEW u \in Traces, u # t PROVE Unmoved(u)
  <2>1. StoredOf(u)' = StoredOf(u) /\ judged'[u] = judged[u]
    BY <1>2 DEF Decide, StoredOf, TypeOK
  <2> QED BY <1>1, <2>1, SameFields
<1>3. CASE t \notin T
  BY <1>2, <1>3, AllUnmoved
<1>4. CASE t \in T
  <2>1. t \notin hurt
    BY <1>1, <1>4
  <2>2. phase[t] = "done" /\ held[p][t] = Spans /\ judged[t] = {}
    BY <1>1, <2>1, DecideWhole
  <2>3. StoredOf(t) = {}
    BY <2>1, <2>2 DEF Intact, Undecided
  <2>4. Status(t) = "ended" /\ (Matters(t) <=> Important(t, Spans))
    BY <2>2, <2>3 DEF Status, Matters
  <2>5. Matters(t)' = Matters(t)
    BY <1>1 DEF Matters, Important, ErrorSpans, Slow, StartOf
  <2>6. Status(t)' = IF Keep(t, Spans) THEN "kept" ELSE "dropped"
    <3>1. StoredOf(t)' = IF Keep(t, Spans) THEN Spans ELSE {}
      BY <2>2, <2>3 DEF Decide, StoredOf
    <3>2. judged'[t] # {}
      BY DEF Decide, TypeOK
    <3> QED BY <1>1, <2>2, <3>1, <3>2 DEF Status
  <2>7. Keep(t, Spans) <=> Matters(t) \/ t \in Baseline
    BY <2>4 DEF Keep
  <2>8. UNCHANGED [u \in T |-> Matters(u)]
    BY <1>2, <2>5 DEF Unmoved
  <2>9. [u \in T |-> Status(u)]' =
          [[u \in T |-> Status(u)] EXCEPT ![t] = Status(t)']
    BY <1>2, <1>4 DEF Unmoved
  <2>10. CASE Keep(t, Spans)
    BY <1>4, <2>4, <2>6, <2>7, <2>8, <2>9, <2>10 DEF PromiseTo!Next, PromiseTo!Judge, PromiseTo!Keep
  <2>11. CASE ~ Keep(t, Spans)
    BY <1>4, <2>4, <2>6, <2>7, <2>8, <2>9, <2>11 DEF PromiseTo!Next, PromiseTo!Judge, PromiseTo!Discard
  <2> QED BY <2>10, <2>11
<1> QED BY <1>3, <1>4

\* Every step keeps the promise to the traces that no incident has damaged so far:
\* it ends or judges one of them, or it is invisible.
LEMMA StepMaps ==
  ASSUME IInv, [Next]_vars, NEW T \in SUBSET Traces, T \cap hurt' = {}
  PROVE  [PromiseTo(T)!Next]_(PromiseTo(T)!vars)
<1>0. \A u \in T : u \in Traces /\ u \notin hurt' /\ u \notin hurt /\ Intact(u)
  BY HurtGrows DEF IInv
<1>1. ASSUME NEW t \in Traces, EndSpan(t) PROVE [PromiseTo(T)!Next]_(PromiseTo(T)!vars)
  BY <1>1, EndSpanMaps
<1>2. ASSUME NEW p \in Pods, NEW t \in Traces, Decide(p, t)
      PROVE  [PromiseTo(T)!Next]_(PromiseTo(T)!vars)
  BY <1>2, DecideMaps
<1>3. ASSUME NEW t \in Traces, NEW k \in Kinds, Begin(t, k), NEW u \in T PROVE Unmoved(u)
  <2>1. CASE u # t
    <3>1. StoredOf(u)' = StoredOf(u)
      BY <1>3 DEF Begin, sampler, StoredOf
    <3> QED BY <1>0, <1>3, <2>1, <3>1, SameFields DEF Begin, sampler, IInv, TypeOK
  <2>2. CASE u = t
    <3>1. phase[u] = "idle" /\ phase'[u] = "early"
      BY <1>0, <1>3, <2>2 DEF Begin, IInv, TypeOK
    <3> QED BY <3>1 DEF Unmoved, Status, Matters
  <2> QED BY <2>1, <2>2
<1>4. ASSUME NEW t \in Traces, NEW acked \in BOOLEAN, Forward(t, acked), NEW u \in T
      PROVE  Unmoved(u)
  <2>1. CASE u # t
    BY <1>0, <1>4, <2>1, ForwardElsewhere, AloneUnmoved DEF IInv
  <2>2. CASE u = t
    <3>1. stored' = stored
      BY <1>0, <1>4, <2>2, ForwardHere DEF IInv
    <3>2. StoredOf(u)' = StoredOf(u)
      BY <3>1 DEF StoredOf
    <3> QED BY <1>0, <1>4, <3>2, SameFields DEF Forward, app
  <2> QED BY <2>1, <2>2
<1>5. ASSUME Kill, NEW u \in T PROVE Unmoved(u)
  <2>1. ~ Running(u)
    BY <1>0, <1>5 DEF Kill
  <2>2. phase'[u] = phase[u] /\ StoredOf(u)' = StoredOf(u)
    BY <1>0, <1>5, <2>1 DEF Kill, IInv, TypeOK, sampler, StoredOf
  <2> QED BY <1>0, <1>5, <2>2, SameFields DEF Kill, sampler
<1>6. ASSUME \/ Export \/ ExportFails \/ Resolve \/ Tick \/ UNCHANGED vars
             \/ \E t \in Traces : ForwardFails(t)
             \/ \E p \in Pods : PodUp(p) \/ PodDown(p),
             NEW u \in T
      PROVE  Unmoved(u)
  <2>1. UNCHANGED <<phase, kind, start, endAt, judged, stored>>
    BY <1>6 DEF Export, ExportFails, Resolve, Tick, vars, ForwardFails, PodUp, PodDown,
                app, sampler
  <2>2. StoredOf(u)' = StoredOf(u)
    BY <2>1 DEF StoredOf
  <2> QED BY <1>0, <2>1, <2>2, SameFields
<1> QED
  BY <1>1, <1>2, <1>3, <1>4, <1>5, <1>6, AllUnmoved DEF Next

\* TracePipeline implements TailSampling: whatever faults befall the others, as long as
\* no incident has touched the traces of T they are ended, judged once and stored whole
\* or not at all exactly as TailSampling allows.
THEOREM PromiseToUndamaged ==
  ASSUME NEW T \in SUBSET Traces
  PROVE  Spec /\ [](T \cap hurt = {})
           => PromiseTo(T)!Init /\ [][PromiseTo(T)!Next]_(PromiseTo(T)!vars)
<1> DEFINE Safe == T \cap hurt = {}
<1>1. Init => PromiseTo(T)!Init
  <2> SUFFICES ASSUME Init PROVE PromiseTo(T)!Init
    OBVIOUS
  <2>1. \A t \in T : Status(t) = "open" /\ Matters(t) = FALSE
    BY DEF Init, Status, Matters
  <2> QED BY <2>1 DEF PromiseTo!Init
<1>2. IInv /\ [Next]_vars /\ Safe' => [PromiseTo(T)!Next]_(PromiseTo(T)!vars)
  BY StepMaps
<1> QED
  BY <1>1, <1>2, Inductive, PTL DEF Spec

-----------------------------------------------------------------------------
\* The refinement of SpanGroups.

\* The application's part of t is as it was before the step.
Quiet(t) == Ended(t)' = Ended(t) /\ Queued(t)' = Queued(t)

LEMMA SameApp ==
  ASSUME NEW t \in Traces, phase'[t] = phase[t], queue' = queue
  PROVE  Quiet(t)
  BY DEF Quiet, Ended, Queued

LEMMA EndedFronts == ASSUME NEW t \in Traces PROVE Ended(t) \in Groups!Fronts
  BY DEF Ended, Spans, Groups!Fronts, Groups!Groups

\* A step that moves no span of an undamaged trace damages some traces, or none.
LEMMA GroupsDamage ==
  ASSUME TypeOK, TypeOK', hurt \subseteq hurt', \A t \in Traces \ hurt' : Quiet(t)
  PROVE  Groups!Next
<1>1. hurt' \in SUBSET Traces /\ hurt' = hurt \cup hurt'
  BY DEF TypeOK
<1>2. PICK S \in SUBSET Traces : S = hurt'
  BY <1>1
<1>3. ASSUME NEW t \in Traces
      PROVE  /\ (IF t \in hurt THEN {} ELSE Ended(t))'
                  = IF t \in hurt' THEN {} ELSE IF t \in hurt THEN {} ELSE Ended(t)
             /\ (IF t \in hurt THEN {} ELSE Ended(t) \ Queued(t))'
                  = IF t \in hurt' THEN {} ELSE IF t \in hurt THEN {} ELSE Ended(t) \ Queued(t)
  BY DEF Quiet
<1>4. Groups!Damage(S)
  BY <1>1, <1>2, <1>3 DEF Groups!Damage
<1> QED
  BY <1>4 DEF Groups!Next

\* The span that ends is the next group of its trace.
LEMMA GroupsEnd ==
  ASSUME TypeOK, TypeOK', NEW t \in Traces, EndSpan(t)
  PROVE  Groups!Next
<1>1. /\ Running(t) /\ phase' = [phase EXCEPT ![t] = After(phase[t])]
      /\ \/ queue' = queue \cup {<<t, phase[t]>>} /\ hurt' = hurt
         \/ queue' = queue /\ hurt' = hurt \cup {t}
  BY DEF EndSpan
<1>2. \A u \in Traces : u # t => Ended(u)' = Ended(u)
  BY <1>1 DEF Ended, TypeOK
<1>3. /\ phase[t] \in Spans \ Ended(t)
      /\ Ended(t)' = Ended(t) \cup {phase[t]}
  BY <1>1 DEF Ended, After, Running, Spans, TypeOK
<1>4. CASE queue' = queue /\ hurt' = hurt \cup {t}
  <2>1. \A u \in Traces \ hurt' : Quiet(u)
    BY <1>2, <1>4 DEF Quiet, Queued
  <2> QED BY <1>4, <2>1, GroupsDamage
<1>5. CASE queue' = queue \cup {<<t, phase[t]>>} /\ hurt' = hurt /\ t \in hurt
  <2>1. \A u \in Traces \ hurt' : Quiet(u)
    BY <1>2, <1>5 DEF Quiet, Queued
  <2> QED BY <1>5, <2>1, GroupsDamage
<1>6. CASE queue' = queue \cup {<<t, phase[t]>>} /\ hurt' = hurt /\ t \notin hurt
  <2>1. \A u \in Traces : u # t => Queued(u)' = Queued(u)
    BY <1>6 DEF Queued
  <2>2. Queued(t)' = Queued(t) \cup {phase[t]}
    BY <1>3, <1>6 DEF Queued
  <2>3. Ended(t)' \ Queued(t)' = Ended(t) \ Queued(t)
    BY <1>3, <2>2
  <2>4. Ended(t) \cup {phase[t]} \in Groups!Fronts /\ phase[t] \in Groups!Groups
    BY <1>1, <1>3 DEF Ended, Running, Spans, Groups!Fronts, Groups!Groups, TypeOK
  <2>5. UNCHANGED [u \in Traces |-> IF u \in hurt THEN {} ELSE Ended(u) \ Queued(u)]
    BY <1>2, <1>6, <2>1, <2>3
  <2>6. [u \in Traces |-> IF u \in hurt THEN {} ELSE Ended(u)]'
          = [[u \in Traces |-> IF u \in hurt THEN {} ELSE Ended(u)]
               EXCEPT ![t] = Ended(t) \cup {phase[t]}]
    BY <1>2, <1>3, <1>6
  <2>7. Groups!End(t)
    BY <1>3, <1>6, <2>4, <2>5, <2>6 DEF Groups!End
  <2> QED BY <2>7 DEF Groups!Next
<1> QED
  BY <1>1, <1>4, <1>5, <1>6

\* The queue leaves as a whole, and with it the rest of what has ended of each trace.
LEMMA GroupsExport == ASSUME Export PROVE Groups!Export
<1>1. phase' = phase /\ hurt' = hurt /\ queue' = {}
  BY DEF Export, app
<1>2. \A t \in Traces : Ended(t)' = Ended(t) /\ Queued(t)' = {}
  BY <1>1 DEF Ended, Queued
<1>3. \A t \in Traces : Ended(t) \in Groups!Fronts /\ {} \in Groups!Fronts
  BY EndedFronts DEF Groups!Fronts
<1> QED
  BY <1>1, <1>2, <1>3 DEF Groups!Export

LEMMA GroupsStep ==
  ASSUME TypeOK, TypeOK', [Next]_vars
  PROVE  [Groups!Next]_(Groups!vars)
<1>0. hurt \subseteq hurt'
  BY HurtGrows
<1>1. ASSUME NEW t \in Traces, EndSpan(t) PROVE Groups!Next
  BY <1>1, GroupsEnd
<1>2. CASE Export
  BY <1>2, GroupsExport DEF Groups!Next
<1>3. CASE ExportFails
  <2>1. \A t \in Traces \ hurt' : Ended(t)' = Ended(t)
    BY <1>3 DEF ExportFails, Ended, app
  <2>2. \A t \in Traces \ hurt' : Queued(t) = {} /\ Queued(t)' = {}
    BY <1>3 DEF ExportFails, Queued
  <2> QED BY <1>0, <2>1, <2>2, GroupsDamage DEF Quiet
<1>4. CASE Kill
  <2>1. \A t \in Traces \ hurt' : phase'[t] = phase[t]
    BY <1>4 DEF Kill, TypeOK
  <2>2. \A t \in Traces \ hurt' : Queued(t) = {} /\ Queued(t)' = {}
    BY <1>4 DEF Kill, Queued
  <2>3. \A t \in Traces \ hurt' : Ended(t)' = Ended(t)
    BY <2>1 DEF Ended
  <2> QED BY <1>0, <2>2, <2>3, GroupsDamage DEF Quiet
<1>5. ASSUME NEW t \in Traces, NEW k \in Kinds, Begin(t, k) PROVE Groups!Next
  <2>1. \A u \in Traces : Ended(u)' = Ended(u)
    BY <1>5 DEF Begin, Ended, TypeOK
  <2>2. \A u \in Traces : Queued(u)' = Queued(u)
    BY <1>5 DEF Begin, Queued
  <2> QED BY <1>0, <2>1, <2>2, GroupsDamage DEF Quiet
<1>6. CASE \/ Resolve \/ Tick \/ UNCHANGED vars
           \/ \E t \in Traces, acked \in BOOLEAN : Forward(t, acked)
           \/ \E t \in Traces : ForwardFails(t)
           \/ \E p \in Pods, t \in Traces : Decide(p, t)
           \/ \E p \in Pods : PodUp(p) \/ PodDown(p)
  <2>1. UNCHANGED <<phase, queue>>
    BY <1>6 DEF Resolve, Tick, vars, Forward, ForwardFails, Decide, PodUp, PodDown, app
  <2> QED BY <1>0, <2>1, SameApp, GroupsDamage
<1> QED
  BY <1>1, <1>2, <1>3, <1>4, <1>5, <1>6 DEF Next

LEMMA GroupsInit == Init => Groups!Init
<1> SUFFICES ASSUME Init PROVE Groups!Init
  OBVIOUS
<1>1. \A t \in Traces : Ended(t) = {}
  BY DEF Init, Ended
<1> QED
  BY <1>1 DEF Init, Groups!Init

\* Seen from the collectors, the application of this module is that of TraceTest: under
\* every interleaving and every fault, the groups of a trace leave in the order in which
\* they end, or the trace is marked as hurt.
THEOREM GroupsMoveInOrder == Spec => GroupsInOrder
<1> USE DEF GroupsInOrder
<1> QED
  BY GroupsInit, GroupsStep, TypeCorrect, PTL DEF Spec, Groups!Spec

-----------------------------------------------------------------------------
\* What it takes to hurt no trace.

\* A set that misses an element of a finite set is smaller.
LEMMA Smaller ==
  ASSUME NEW S, IsFiniteSet(S), NEW x \in S, NEW T, T \subseteq S \ {x}
  PROVE  Cardinality(T) < Cardinality(S)
<1>1. IsFiniteSet(S \ {x}) /\ Cardinality(S \ {x}) = Cardinality(S) - 1
  BY FS_RemoveElement
<1>2. Cardinality(T) <= Cardinality(S \ {x}) /\ IsFiniteSet(T)
  BY <1>1, FS_Subset
<1>3. Cardinality(S) \in Nat /\ Cardinality(T) \in Nat
  BY <1>2, FS_CardinalityType
<1> QED
  BY <1>1, <1>2, <1>3

\* The ring is that of the pods, of which none is missing, and only ended spans queue.
Calm ==
  /\ hurt = {}
  /\ ring = up
  /\ Cardinality(up) = Replicas
  /\ \A t \in Traces : Queued(t) \subseteq Ended(t)

\* The span that ends has a place in the queue, since it is not there yet.
LEMMA RoomInQueue ==
  ASSUME TypeOK, Roomy, Calm, NEW t \in Traces, Running(t)
  PROVE  Cardinality(queue) < QueueCap
<1>1. IsFiniteSet(Traces \X Spans)
  <2>1. IsFiniteSet({"early", "work"} \cup {"server"})
    <3>1. IsFiniteSet({"early"})
      BY FS_Singleton
    <3>2. IsFiniteSet({"early"} \cup {"work"})
      BY <3>1, FS_AddElement
    <3>3. {"early"} \cup {"work"} = {"early", "work"}
      OBVIOUS
    <3> QED BY <3>2, <3>3, FS_AddElement
  <2>2. Spans = {"early", "work"} \cup {"server"}
    BY DEF Spans
  <2> QED BY <2>1, <2>2, FS_Product DEF Roomy
<1>2. <<t, phase[t]>> \in Traces \X Spans
  BY DEF Running
<1>3. <<t, phase[t]>> \notin queue
  <2>1. phase[t] \in Spans /\ phase[t] \notin Ended(t)
    BY DEF Running, Ended, Spans
  <2> QED BY <2>1 DEF Calm, Queued
<1>4. queue \subseteq (Traces \X Spans) \ {<<t, phase[t]>>}
  BY <1>3 DEF TypeOK
<1>5. Cardinality(queue) < Cardinality(Traces \X Spans)
  BY <1>1, <1>2, <1>4, Smaller
<1>6. /\ Cardinality(queue) \in Nat /\ Cardinality(Traces \X Spans) \in Nat /\ QueueCap \in Nat
      /\ QueueCap >= Cardinality(Traces \X Spans)
  BY <1>1, <1>4, FS_Subset, FS_CardinalityType, SizeAssumption DEF Roomy
<1> QED
  BY <1>5, <1>6

\* A pod has a place for the trace that it does not know.
LEMMA RoomInMemory ==
  ASSUME TypeOK, Roomy, NEW p \in Pods, NEW t \in Traces, verdict[p][t] = "none"
  PROVE  Victims(p) = {{}}
<1>1. Tracked(p) \subseteq Traces \ {t}
  BY DEF Tracked
<1>2. Cardinality(Tracked(p)) < Cardinality(Traces)
  BY <1>1, Smaller DEF Roomy
<1>3. /\ Cardinality(Tracked(p)) \in Nat /\ Cardinality(Traces) \in Nat /\ NumTraces \in Nat
      /\ NumTraces >= Cardinality(Traces)
  BY <1>1, FS_Subset, FS_CardinalityType, SizeAssumption DEF Roomy
<1>4. Cardinality(Tracked(p)) < NumTraces
  BY <1>2, <1>3
<1> QED
  BY <1>4 DEF Victims

\* What ends is queued once it has ended, and nothing else is.
LEMMA QueueBehind ==
  ASSUME TypeOK, TypeOK', [Next]_vars, ~ Kill, NEW t \in Traces, Queued(t) \subseteq Ended(t)
  PROVE  Queued(t)' \subseteq Ended(t)'
<1>1. ASSUME NEW u \in Traces, EndSpan(u) PROVE Queued(t)' \subseteq Ended(t)'
  <2>1. /\ Running(u) /\ phase' = [phase EXCEPT ![u] = After(phase[u])]
        /\ queue' \subseteq queue \cup {<<u, phase[u]>>}
    BY <1>1 DEF EndSpan
  <2>2. CASE u # t
    BY <2>1, <2>2 DEF Queued, Ended, TypeOK
  <2>3. CASE u = t
    <3>1. Ended(t)' = Ended(t) \cup {phase[t]}
      BY <2>1, <2>3 DEF Ended, After, Running, Spans, TypeOK
    <3>2. Queued(t)' \subseteq Queued(t) \cup {phase[t]}
      BY <2>1, <2>3 DEF Queued
    <3> QED BY <3>1, <3>2
  <2> QED BY <2>2, <2>3
<1>2. CASE Export \/ ExportFails
  <2>1. Queued(t)' = {}
    BY <1>2 DEF Export, ExportFails, Queued
  <2> QED BY <2>1
<1>3. ASSUME NEW u \in Traces, NEW k \in Kinds, Begin(u, k) PROVE Queued(t)' \subseteq Ended(t)'
  BY <1>3 DEF Begin, Queued, Ended, TypeOK
<1>4. CASE \/ Resolve \/ Tick \/ UNCHANGED vars
           \/ \E u \in Traces, acked \in BOOLEAN : Forward(u, acked)
           \/ \E u \in Traces : ForwardFails(u)
           \/ \E p \in Pods, u \in Traces : Decide(p, u)
           \/ \E p \in Pods : PodUp(p) \/ PodDown(p)
  <2>1. UNCHANGED <<phase, queue>>
    BY <1>4 DEF Resolve, Tick, vars, Forward, ForwardFails, Decide, PodUp, PodDown, app
  <2> QED BY <2>1 DEF Queued, Ended
<1> QED
  BY <1>1, <1>2, <1>3, <1>4 DEF Next

LEMMA CalmStep ==
  ASSUME Roomy, Faults \subseteq {"retry"}, TypeOK, TypeOK', Calm, [Next]_vars
  PROVE  Calm'
<1>1. ~ Kill /\ ~ ExportFails /\ \A t \in Traces : ~ ForwardFails(t)
  BY DEF Kill, ExportFails, ForwardFails
<1>2. \A p \in Pods : ~ PodDown(p) /\ ~ PodUp(p)
  BY SizeAssumption DEF PodDown, PodUp, Calm
<1>3. \A t \in Traces : Queued(t)' \subseteq Ended(t)'
  BY <1>1, QueueBehind DEF Calm
<1>4. UNCHANGED <<hurt, ring, up>>
  <2>1. ASSUME NEW t \in Traces, EndSpan(t) PROVE UNCHANGED <<hurt, ring, up>>
    BY <2>1, RoomInQueue DEF EndSpan
  <2>2. ASSUME NEW t \in Traces, NEW acked \in BOOLEAN, Forward(t, acked)
        PROVE  UNCHANGED <<hurt, ring, up>>
    <3> DEFINE p == Owner(ring, t)
               S == InLb(t)
    <3>1. /\ UNCHANGED <<ring, up>> /\ p \in Pods
          /\ Admit(p, t, S) \/ Gather(p, t, S) \/ FollowVerdict(p, t, S)
      BY <2>2 DEF Forward, TypeOK
    <3> HIDE DEF p, S
    <3>2. CASE Admit(p, t, S)
      <4>1. Victims(p) = {{}}
        BY <3>1, <3>2, RoomInMemory DEF Admit
      <4> QED BY <3>1, <3>2, <4>1 DEF Admit
    <3> QED BY <3>1, <3>2 DEF Gather, FollowVerdict
  <2>3. CASE Tick
    BY <2>3 DEF Tick
  <2>4. ~ Resolve
    BY DEF Resolve, Calm
  <2>5. CASE \/ Export \/ UNCHANGED vars
             \/ \E t \in Traces, k \in Kinds : Begin(t, k)
             \/ \E p \in Pods, t \in Traces : Decide(p, t)
    BY <2>5 DEF Export, vars, Begin, Decide
  <2> QED BY <1>1, <1>2, <2>1, <2>2, <2>3, <2>4, <2>5 DEF Next
<1> QED
  BY <1>3, <1>4 DEF Calm

LEMMA AlwaysCalm ==
  ASSUME Roomy, Faults \subseteq {"retry"}
  PROVE  Spec => []Calm
<1>1. Init => Calm
  BY DEF Init, Calm, Queued
<1>2. TypeOK /\ TypeOK' /\ Calm /\ [Next]_vars => Calm'
  BY CalmStep
<1> QED
  BY <1>1, <1>2, TypeCorrect, PTL DEF Spec

\* Where queue and memory have room, redelivery alone hurts no trace: for any ring
\* function, delays and number of pods the premise of the other theorems is met.
THEOREM RedeliveryIsHarmless == Spec => []OnlyFaultsHarm
<1>1. CASE Roomy /\ Faults \subseteq {"retry"}
  <2>1. Calm => OnlyFaultsHarm
    BY DEF Calm, OnlyFaultsHarm
  <2>2. Spec => []Calm
    BY <1>1, AlwaysCalm
  <2> QED BY <2>1, <2>2, PTL
<1>2. CASE ~ (Roomy /\ Faults \subseteq {"retry"})
  <2>1. OnlyFaultsHarm
    BY <1>2 DEF OnlyFaultsHarm
  <2> QED BY <2>1, PTL
<1> QED
  BY <1>1, <1>2

\* Under the same condition the pipeline implements the promise of tail-based sampling
\* (README.md:12-14) to every trace; that the verdict comes in the end is left to TLC.
THEOREM PromiseIsKept ==
  ASSUME Roomy, Faults \subseteq {"retry"}
  PROVE  Spec => Promise!Init /\ [][Promise!Next]_(Promise!vars)
<1>1. Init => Promise!Init
  <2> SUFFICES ASSUME Init PROVE Promise!Init
    OBVIOUS
  <2>1. \A t \in Traces : Status(t) = "open" /\ Matters(t) = FALSE
    BY DEF Init, Status, Matters
  <2> QED BY <2>1 DEF Promise!Init
<1>2. IInv /\ Calm' /\ [Next]_vars => [Promise!Next]_(Promise!vars)
  <2> SUFFICES ASSUME IInv, Calm', [Next]_vars PROVE [Promise!Next]_(Promise!vars)
    OBVIOUS
  <2>1. [PromiseTo(Traces)!Next]_(PromiseTo(Traces)!vars)
    <3>1. Traces \cap hurt' = {}
      BY DEF Calm
    <3> QED BY <3>1, StepMaps
  <2>2. CASE UNCHANGED PromiseTo(Traces)!vars
    BY <2>2 DEF PromiseTo!vars, Promise!vars
  <2>3. ASSUME NEW t \in Traces, PromiseTo(Traces)!Finish(t) PROVE Promise!Finish(t)
    BY <2>3 DEF PromiseTo!Finish, Promise!Finish
  <2>4. ASSUME NEW t \in Traces, PromiseTo(Traces)!Judge(t) PROVE Promise!Judge(t)
    BY <2>4 DEF PromiseTo!Judge, PromiseTo!Keep, PromiseTo!Discard,
                Promise!Judge, Promise!Keep, Promise!Discard
  <2> QED BY <2>1, <2>2, <2>3, <2>4 DEF PromiseTo!Next, Promise!Next
<1>3. Spec => []Calm
  BY AlwaysCalm
<1> QED
  BY <1>1, <1>2, <1>3, Inductive, PTL DEF Spec
=============================================================================
