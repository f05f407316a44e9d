--------------------------- MODULE TraceTestProofs ---------------------------
(***************************************************************************)
(* Proofs about TraceTest, for every number of requests, every call tree   *)
(* that satisfies the assumptions and every size of queue and batch: spans *)
(* leave for the collector in the order in which calls return, so a trace  *)
(* may have gaps but never misses a span that is still to come; and an     *)
(* error is on three spans of its trace, so that no two losses hide it.    *)
(***************************************************************************)
EXTENDS TraceTest, FiniteSetTheorems, TLAPS

LEMMA SpansKnown == ASSUME NEW k \in Kinds PROVE SpansOf(k) \subseteq AllSpans
  BY DEF AllSpans

\* Where a span may run: what the call tree says of the spans of a kind.
LEMMA SpanFacts ==
  ASSUME NEW k \in Kinds
  PROVE  /\ "server" \in SpansOf(k) /\ "handler" \in SpansOf(k)
         /\ Above(k, "server") = {} /\ Before(k, "server") = {}
         /\ \A s \in SpansOf(k) : /\ Inside(k, s) \subseteq SpansOf(k)
                                  /\ Before(k, s) \subseteq SpansOf(k)
                                  /\ Sleep(k, s) \in Nat
  BY SpansAssumption

\* A request with an open or ended span has begun.
LEMMA Begun ==
  ASSUME TypeOK, NEW r \in Requests, OwnSpans(r), open[r] \cup done[r] # {}
  PROVE  kind[r] \in Kinds /\ kind[r] # "none" /\ open[r] \cup done[r] \subseteq SpansOf(kind[r])
  BY DEF TypeOK, OwnSpans

LEMMA BatchFacts ==
  ASSUME queue \in Seq(Requests \X AllSpans)
  PROVE  /\ Len(queue) \in Nat /\ BatchLen \in 0..Len(queue)
         /\ \A i \in 1..Len(queue) : queue[i] \in Requests \X AllSpans
  BY SizesAssumption DEF BatchLen, Least

-----------------------------------------------------------------------------
\* Types.

LEMMA TypeInit == Init => TypeOK
  BY SizesAssumption DEF Init, TypeOK

LEMMA EnterType ==
  ASSUME TypeOK, NEW r \in Requests, OwnSpans(r), NEW p \in open[r],
         NEW s \in Inside(kind[r], p), Enter(r, p, s)
  PROVE  TypeOK'
<1>1. kind[r] \in Kinds /\ p \in SpansOf(kind[r])
  BY Begun
<1>2. s \in SpansOf(kind[r]) /\ s \in AllSpans /\ Sleep(kind[r], s) \in Nat
  BY <1>1, SpanFacts, SpansKnown
<1>3. open' = [open EXCEPT ![r] = open[r] \cup {s}]
      /\ elapsed' = [elapsed EXCEPT ![r] = elapsed[r] + Sleep(kind[r], s)]
  BY DEF Enter
<1>4. elapsed[r] + Sleep(kind[r], s) \in Nat
  BY <1>2 DEF TypeOK
<1> QED
  BY <1>2, <1>3, <1>4 DEF TypeOK, Enter

LEMMA LeaveType ==
  ASSUME TypeOK, NEW r \in Requests, NEW s \in open[r], Leave(r, s)
  PROVE  TypeOK'
<1>1. s \in AllSpans
  BY DEF TypeOK
<1>2. queue' \in Seq(Requests \X AllSpans) /\ lost' \in [Requests -> SUBSET AllSpans]
  <2>1. <<r, s>> \in Requests \X AllSpans
    BY <1>1
  <2>2. Append(queue, <<r, s>>) \in Seq(Requests \X AllSpans)
    BY <2>1 DEF TypeOK
  <2>3. queue' \in {queue, Append(queue, <<r, s>>)}
    BY DEF Leave
  <2>4. lost' \in {lost, [lost EXCEPT ![r] = lost[r] \cup {s}]}
    BY DEF Leave
  <2>5. lost' \in [Requests -> SUBSET AllSpans]
    <3>1. lost \in [Requests -> SUBSET AllSpans]
      BY DEF TypeOK
    <3>2. lost[r] \cup {s} \in SUBSET AllSpans
      BY <1>1, <3>1
    <3> QED BY <2>4, <3>1, <3>2
  <2> QED BY <2>2, <2>3, <2>5 DEF TypeOK
<1>3. /\ open' \in [Requests -> SUBSET AllSpans]
      /\ done' \in [Requests -> SUBSET AllSpans]
      /\ failed' \in [Requests -> SUBSET AllSpans]
  BY <1>1 DEF TypeOK, Leave
<1> QED
  BY <1>2, <1>3 DEF TypeOK, Leave, request

LEMMA TypeStep ==
  ASSUME TypeOK, \A r \in Requests : OwnSpans(r), [Next]_vars
  PROVE  TypeOK'
<1>1. ASSUME NEW r \in Requests, NEW k \in Kinds, Begin(r, k) PROVE TypeOK'
  <2>1. "server" \in AllSpans
    BY SpanFacts, SpansKnown
  <2> QED BY <1>1, <2>1 DEF Begin, TypeOK
<1>2. ASSUME NEW r \in Requests, NEW p \in open[r], NEW s \in Inside(kind[r], p), Enter(r, p, s)
      PROVE  TypeOK'
  BY <1>2, EnterType
<1>3. ASSUME NEW r \in Requests, Respond(r) PROVE TypeOK'
  BY <1>3 DEF Respond, TypeOK
<1>4. ASSUME NEW r \in Requests, NEW s \in open[r], Leave(r, s) PROVE TypeOK'
  BY <1>4, LeaveType
<1>5. \A r \in Requests, n \in Nat : Oldest(r, n) \in SUBSET AllSpans
  BY DEF Oldest
<1>6. Len(queue) \in Nat /\ BatchLen \in Nat
  BY BatchFacts DEF TypeOK
<1>7. SubSeq(queue, BatchLen + 1, Len(queue)) \in Seq(Requests \X AllSpans)
  BY BatchFacts DEF TypeOK
<1>8. CASE Export
  BY <1>5, <1>6, <1>7, <1>8 DEF Export, TypeOK, request
<1>9. CASE ExportFails
  BY <1>5, <1>6, <1>7, <1>9 DEF ExportFails, TypeOK, request
<1>10. CASE Kill
  BY <1>5, <1>6, <1>10 DEF Kill, TypeOK, request
<1>11. CASE UNCHANGED vars
  BY <1>11 DEF vars, TypeOK
<1> QED
  BY <1>1, <1>2, <1>3, <1>4, <1>8, <1>9, <1>10, <1>11 DEF Next, Advance

-----------------------------------------------------------------------------
\* The call tree.

\* When the calls inside an open span have returned, so has everything below it, and
\* everything that ends sooner.
LEMMA SoonerIsDone ==
  ASSUME TypeOK, NEW r \in Requests, OwnSpans(r), Nested(r),
         NEW b \in open[r], Inside(kind[r], b) \subseteq done[r],
         NEW a \in SpansOf(kind[r]), Sooner(kind[r], a, b)
  PROVE  a \in done[r]
<1> DEFINE k == kind[r]
<1>1. k \in Kinds /\ open[r] \cup done[r] \subseteq SpansOf(k)
  BY Begun
<1>2. CASE b \in Above(k, a)
  <2>1. PICK c \in Inside(k, b) : c = a \/ c \in Above(k, a)
    BY <1>1, <1>2, TreeAssumption
  <2>2. c \in done[r]
    BY <2>1
  <2> QED BY <2>1, <2>2 DEF Nested
<1>3. ASSUME NEW x \in {a} \cup Above(k, a), NEW y \in {b} \cup Above(k, b), x \in Before(k, y)
      PROVE  a \in done[r]
  <2>1. y \in open[r]
    BY DEF Nested
  <2>2. x \in done[r]
    BY <1>3, <2>1 DEF Nested
  <2> QED BY <2>2 DEF Nested
<1> QED
  BY <1>2, <1>3 DEF Sooner

\* So no span that is still open ends sooner than one that has ended.
Settled(r) ==
  \A b \in done[r] : \A a \in SpansOf(kind[r]) : Sooner(kind[r], a, b) => a \in done[r]

\* What the steps of a request keep of its own state.
Own(r) == kind[r] # "none" => Nested(r) /\ Settled(r)

LEMMA EnterOwn ==
  ASSUME TypeOK, NEW r \in Requests, OwnSpans(r), Own(r), NEW p \in open[r],
         NEW s \in Inside(kind[r], p), Enter(r, p, s)
  PROVE  OwnSpans(r)' /\ Own(r)'
<1> DEFINE k == kind[r]
<1>1. k \in Kinds /\ k # "none" /\ open[r] \cup done[r] \subseteq SpansOf(k)
  BY Begun
<1>2. s \in SpansOf(k) /\ s \notin open[r] \cup done[r] /\ Before(k, s) \subseteq done[r]
  BY <1>1, SpanFacts DEF Enter
<1>3. kind' = kind /\ done' = done /\ open'[r] = open[r] \cup {s}
  BY DEF Enter, TypeOK
<1>4. Above(k, s) \subseteq open[r]
  <2>1. Above(k, s) = {p} \cup Above(k, p)
    BY <1>1, <1>2, TreeAssumption
  <2> QED BY <1>1, <2>1 DEF Own, Nested
<1>5. Nested(r)'
  BY <1>1, <1>2, <1>3, <1>4 DEF Own, Nested
<1>6. Settled(r)'
  BY <1>1, <1>3 DEF Own, Settled
<1>7. OwnSpans(r)'
  BY <1>1, <1>2, <1>3 DEF OwnSpans
<1> QED
  BY <1>5, <1>6, <1>7 DEF Own

LEMMA LeaveOwn ==
  ASSUME TypeOK, NEW r \in Requests, OwnSpans(r), Own(r), NEW s \in open[r], Leave(r, s)
  PROVE  OwnSpans(r)' /\ Own(r)'
<1> DEFINE k == kind[r]
<1>1. k \in Kinds /\ k # "none" /\ open[r] \cup done[r] \subseteq SpansOf(k)
  BY Begun
<1>2. /\ kind' = kind /\ Inside(k, s) \subseteq done[r]
      /\ open'[r] = open[r] \ {s} /\ done'[r] = done[r] \cup {s}
  BY DEF Leave, TypeOK, request
<1>3. Nested(r) /\ Settled(r)
  BY <1>1 DEF Own
<1>4. \A a \in SpansOf(k) : s \in Above(k, a) => a \in done[r]
  BY <1>2, <1>3, SoonerIsDone DEF Sooner
<1>5. \A t \in open'[r] : s \notin Above(k, t)
  BY <1>1, <1>2, <1>3, <1>4 DEF Nested
<1>6. \A t \in open'[r] : Above(k, t) \subseteq open'[r]
  BY <1>2, <1>3, <1>5 DEF Nested
<1>7. Nested(r)'
  BY <1>2, <1>3, <1>4, <1>6 DEF Nested
<1>8. \A a \in SpansOf(k) : Sooner(k, a, s) => a \in done[r]
  BY <1>2, <1>3, SoonerIsDone
<1>9. Settled(r)'
  BY <1>2, <1>3, <1>8 DEF Settled
<1>10. OwnSpans(r)'
  BY <1>1, <1>2 DEF OwnSpans
<1> QED
  BY <1>7, <1>9, <1>10 DEF Own

\* A step that keeps the spans of r, or ends its open ones for good, keeps their order.
LEMMA SameOwn ==
  ASSUME NEW r \in Requests, OwnSpans(r), Own(r),
         kind'[r] = kind[r], done'[r] = done[r], open'[r] \in {open[r], {}}
  PROVE  OwnSpans(r)' /\ Own(r)'
  BY DEF OwnSpans, Own, Nested, Settled

LEMMA OwnStep ==
  ASSUME TypeOK, [Next]_vars, NEW r \in Requests, OwnSpans(r), Own(r)
  PROVE  OwnSpans(r)' /\ Own(r)'
<1>1. ASSUME NEW q \in Requests, NEW k \in Kinds, Begin(q, k) PROVE OwnSpans(r)' /\ Own(r)'
  <2>1. CASE q = r
    <3>1. /\ kind[r] = "none" /\ kind'[r] = k /\ k # "none"
          /\ open'[r] = {"server"} /\ done'[r] = {}
      BY <1>1, <2>1, KindsAssumption DEF Begin, TypeOK, OwnSpans
    <3>2. Above(k, "server") = {} /\ "server" \in SpansOf(k)
      BY SpanFacts
    <3>3. Before(k, "server") = {}
      BY SpanFacts
    <3> QED BY <3>1, <3>2, <3>3 DEF OwnSpans, Own, Nested, Settled
  <2>2. CASE q # r
    BY <1>1, <2>2, SameOwn DEF Begin, TypeOK
  <2> QED BY <2>1, <2>2
<1>2. ASSUME NEW q \in Requests, NEW p \in open[q], NEW s \in Inside(kind[q], p), Enter(q, p, s)
      PROVE  OwnSpans(r)' /\ Own(r)'
  <2>1. CASE q = r
    BY <1>2, <2>1, EnterOwn
  <2>2. CASE q # r
    BY <1>2, <2>2, SameOwn DEF Enter, TypeOK
  <2> QED BY <2>1, <2>2
<1>3. ASSUME NEW q \in Requests, NEW s \in open[q], Leave(q, s) PROVE OwnSpans(r)' /\ Own(r)'
  <2>1. CASE q = r
    BY <1>3, <2>1, LeaveOwn
  <2>2. CASE q # r
    BY <1>3, <2>2, SameOwn DEF Leave, TypeOK, request
  <2> QED BY <2>1, <2>2
<1>4. ASSUME NEW q \in Requests, Respond(q) PROVE OwnSpans(r)' /\ Own(r)'
  BY <1>4, SameOwn DEF Respond
<1>5. CASE Export \/ ExportFails \/ Kill \/ UNCHANGED vars
  BY <1>5, SameOwn DEF Export, ExportFails, Kill, vars, request
<1> QED
  BY <1>1, <1>2, <1>3, <1>4, <1>5 DEF Next, Advance
-----------------------------------------------------------------------------
\* The queue.

\* Where a queued span stands.
LEMMA QueuedFacts ==
  ASSUME TypeOK, NEW r \in Requests, NEW n \in Nat
  PROVE  \A s \in AllSpans : s \in Oldest(r, n) <=> \E i \in 1..n : queue[i] = <<r, s>>
  BY DEF Oldest

\* A batch takes the front of the queue and leaves the rest in its order.
LEMMA BatchSplits ==
  ASSUME TypeOK, queue' = SubSeq(queue, BatchLen + 1, Len(queue))
  PROVE  /\ Len(queue') = Len(queue) - BatchLen
         /\ \A i \in 1..Len(queue') : queue'[i] = queue[i + BatchLen] /\ i + BatchLen \in 1..Len(queue)
         /\ \A r \in Requests : Queued(r) = Oldest(r, BatchLen) \cup Queued(r)'
<1>1. Len(queue) \in Nat /\ BatchLen \in 0..Len(queue)
  BY BatchFacts DEF TypeOK
<1>2. Len(queue') = Len(queue) - BatchLen
  BY <1>1 DEF TypeOK
<1>3. \A i \in 1..Len(queue') : queue'[i] = queue[i + BatchLen] /\ i + BatchLen \in 1..Len(queue)
  BY <1>1, <1>2 DEF TypeOK
<1>4. \A i \in 1..Len(queue) : i \in 1..BatchLen \/ (i - BatchLen \in 1..Len(queue') /\ queue'[i - BatchLen] = queue[i])
  <2> TAKE i \in 1..Len(queue)
  <2>1. CASE i \in 1..BatchLen
    BY <2>1
  <2>2. CASE i \notin 1..BatchLen
    <3>1. i - BatchLen \in 1..Len(queue') /\ (i - BatchLen) + BatchLen = i
      BY <1>1, <1>2, <2>2
    <3> QED BY <1>3, <3>1
  <2> QED BY <2>1, <2>2
<1>5. ASSUME NEW r \in Requests PROVE Queued(r) = Oldest(r, BatchLen) \cup Queued(r)'
  <2>1. \A s : s \in Queued(r)' <=> s \in AllSpans /\ \E i \in 1..Len(queue') : queue'[i] = <<r, s>>
    BY DEF Queued, Oldest
  <2>2. \A s : s \in Queued(r) <=> s \in AllSpans /\ \E i \in 1..Len(queue) : queue[i] = <<r, s>>
    BY DEF Queued, Oldest
  <2>3. \A s : s \in Oldest(r, BatchLen) <=> s \in AllSpans /\ \E i \in 1..BatchLen : queue[i] = <<r, s>>
    BY DEF Oldest
  <2>4. 1..BatchLen \subseteq 1..Len(queue)
    BY <1>1
  <2>5. Queued(r)' \subseteq Queued(r)
    BY <1>3, <2>1, <2>2
  <2>6. Oldest(r, BatchLen) \subseteq Queued(r)
    BY <2>2, <2>3, <2>4
  <2>7. Queued(r) \subseteq Oldest(r, BatchLen) \cup Queued(r)'
    BY <1>4, <2>1, <2>2, <2>3
  <2> QED BY <2>5, <2>6, <2>7
<1> QED
  BY <1>2, <1>3, <1>5

LEMMA BatchInOrder ==
  ASSUME TypeOK, InOrder, kind' = kind, queue' = SubSeq(queue, BatchLen + 1, Len(queue))
  PROVE  InOrder'
<1>1. Len(queue) \in Nat /\ BatchLen \in 0..Len(queue)
  BY BatchFacts DEF TypeOK
<1>2. \A i \in 1..Len(queue') : queue'[i] = queue[i + BatchLen] /\ i + BatchLen \in 1..Len(queue)
  BY BatchSplits
<1> SUFFICES ASSUME NEW i \in 1..Len(queue'), NEW j \in 1..Len(queue'),
                    queue'[i][1] = queue'[j][1],
                    Sooner(kind[queue'[i][1]], queue'[i][2], queue'[j][2])
             PROVE  i < j
  BY DEF InOrder
<1>3. i + BatchLen < j + BatchLen
  BY <1>2 DEF InOrder
<1> QED
  BY <1>1, <1>3

\* What leaves in a batch leaves after, or together with, all that ends sooner.
LEMMA BatchTakesSooner ==
  ASSUME TypeOK, InOrder, NEW r \in Requests, Own(r), OwnSpans(r), Accounted(r),
         NEW b \in Oldest(r, BatchLen), NEW a \in SpansOf(kind[r]), Sooner(kind[r], a, b)
  PROVE  a \in Oldest(r, BatchLen) \cup out[r] \cup lost[r]
<1>1. Len(queue) \in Nat /\ BatchLen \in 0..Len(queue)
  BY BatchFacts DEF TypeOK
<1>2. PICK j \in 1..BatchLen : queue[j] = <<r, b>>
  BY DEF Oldest
<1>3. j \in 1..Len(queue) /\ b \in Queued(r) /\ b \in AllSpans
  BY <1>1, <1>2 DEF Queued, Oldest
<1>4. b \in done[r]
  BY <1>3 DEF Accounted
<1>5. kind[r] \in Kinds /\ kind[r] # "none"
  BY <1>4, Begun
<1>6. a \in done[r]
  BY <1>4, <1>5 DEF Own, Settled
<1>7. CASE a \in Queued(r)
  <2>1. PICK i \in 1..Len(queue) : queue[i] = <<r, a>> /\ a \in AllSpans
    BY <1>7 DEF Queued, Oldest
  <2>2. queue[i][1] = r /\ queue[j][1] = r /\ queue[i][2] = a /\ queue[j][2] = b
    BY <1>2, <2>1
  <2>3. i < j
    BY <1>3, <2>2 DEF InOrder
  <2>4. i \in 1..BatchLen
    BY <1>1, <2>3
  <2> QED BY <2>1, <2>4 DEF Oldest
<1> QED
  BY <1>6, <1>7 DEF Accounted

\* The parts of the invariant that speak of one request.
Each(r) == OwnSpans(r) /\ Own(r) /\ Accounted(r)

Order == InOrder /\ NoOvertaking

LEMMA ExportOrder ==
  ASSUME TypeOK, \A r \in Requests : Each(r), Order, Export
  PROVE  Order' /\ \A r \in Requests : Accounted(r)'
<1>1. /\ kind' = kind /\ done' = done /\ lost' = lost
      /\ queue' = SubSeq(queue, BatchLen + 1, Len(queue))
      /\ \A r \in Requests : out'[r] = out[r] \cup Oldest(r, BatchLen)
  BY DEF Export, request
<1>2. ASSUME NEW r \in Requests PROVE Accounted(r)'
  BY <1>1, BatchSplits DEF Accounted, Each
<1>3. NoOvertaking'
  <2> SUFFICES ASSUME NEW r \in Requests, NEW b \in out'[r], NEW a \in SpansOf(kind[r]),
                      Sooner(kind[r], a, b)
               PROVE  a \in out'[r] \cup lost[r]
    BY <1>1 DEF NoOvertaking
  <2>1. CASE b \in out[r]
    BY <1>1, <2>1 DEF Order, NoOvertaking
  <2>2. CASE b \in Oldest(r, BatchLen)
    BY <1>1, <2>2, BatchTakesSooner DEF Order, Each
  <2> QED BY <1>1, <2>1, <2>2
<1>4. InOrder'
  BY <1>1, BatchInOrder DEF Order
<1> QED
  BY <1>2, <1>3, <1>4 DEF Order

LEMMA ExportFailsOrder ==
  ASSUME TypeOK, \A r \in Requests : Each(r), Order, ExportFails
  PROVE  Order' /\ \A r \in Requests : Accounted(r)'
<1>1. /\ kind' = kind /\ done' = done /\ out' = out
      /\ queue' = SubSeq(queue, BatchLen + 1, Len(queue))
      /\ \A r \in Requests : lost'[r] = lost[r] \cup Oldest(r, BatchLen)
  BY DEF ExportFails, request
<1>2. ASSUME NEW r \in Requests PROVE Accounted(r)'
  BY <1>1, BatchSplits DEF Accounted, Each
<1>3. NoOvertaking'
  BY <1>1 DEF Order, NoOvertaking
<1>4. InOrder'
  BY <1>1, BatchInOrder DEF Order
<1> QED
  BY <1>2, <1>3, <1>4 DEF Order

LEMMA KillOrder ==
  ASSUME TypeOK, \A r \in Requests : Each(r), Order, Kill
  PROVE  Order' /\ \A r \in Requests : Accounted(r)'
<1>1. /\ kind' = kind /\ done' = done /\ out' = out /\ queue' = <<>>
      /\ \A r \in Requests : lost'[r] = lost[r] \cup Queued(r)
  BY DEF Kill, request, Queued
<1>2. \A r \in Requests : Queued(r)' = {}
  BY <1>1 DEF Queued, Oldest
<1>3. \A r \in Requests : Accounted(r)'
  BY <1>1, <1>2 DEF Accounted, Each
<1>4. NoOvertaking'
  BY <1>1 DEF Order, NoOvertaking
<1>5. InOrder'
  BY <1>1 DEF InOrder
<1> QED
  BY <1>3, <1>4, <1>5 DEF Order

\* The span that ends is not one that an ended span of its request had to wait for.
LEMMA LeaverIsLast ==
  ASSUME TypeOK, NEW r \in Requests, Each(r), NEW s \in open[r], NEW b \in done[r]
  PROVE  ~ Sooner(kind[r], s, b)
<1>1. kind[r] # "none" /\ s \in SpansOf(kind[r])
  BY Begun DEF Each
<1>2. s \notin done[r]
  BY <1>1 DEF Each, Own, Nested
<1> QED
  BY <1>1, <1>2 DEF Each, Own, Settled

LEMMA LeaveOrder ==
  ASSUME TypeOK, \A r \in Requests : Each(r), Order,
         NEW r \in Requests, NEW s \in open[r], Leave(r, s)
  PROVE  Order' /\ \A u \in Requests : Accounted(u)'
<1> DEFINE n == Len(queue)
<1>1. /\ kind' = kind /\ out' = out /\ s \in AllSpans /\ n \in Nat
      /\ done' = [done EXCEPT ![r] = done[r] \cup {s}]
      /\ Inside(kind[r], s) \subseteq done[r]
  BY BatchFacts DEF Leave, request, TypeOK
<1>2. \/ queue' = Append(queue, <<r, s>>) /\ lost' = lost
      \/ queue' = queue /\ lost' = [lost EXCEPT ![r] = lost[r] \cup {s}]
  BY DEF Leave
<1>3. \A u \in Requests : lost[u] \subseteq lost'[u]
  BY <1>2 DEF TypeOK
<1>4. NoOvertaking'
  BY <1>1, <1>3 DEF Order, NoOvertaking
<1>5. CASE queue' = queue /\ lost' = [lost EXCEPT ![r] = lost[r] \cup {s}]
  <2>1. InOrder'
    BY <1>1, <1>5 DEF Order, InOrder
  <2>2. ASSUME NEW u \in Requests PROVE Accounted(u)'
    <3>1. Queued(u)' = Queued(u) /\ Accounted(u)
      BY <1>5 DEF Queued, Oldest, Each
    <3> QED BY <1>1, <1>5, <3>1 DEF Accounted, TypeOK
  <2> QED BY <1>4, <2>1, <2>2 DEF Order
<1>6. CASE queue' = Append(queue, <<r, s>>) /\ lost' = lost
  <2>1. /\ Len(queue') = n + 1 /\ queue'[n + 1] = <<r, s>>
        /\ \A i \in 1..n : queue'[i] = queue[i]
    BY <1>1, <1>6 DEF TypeOK
  <2>2. ASSUME NEW u \in Requests
        PROVE  Queued(u)' = IF u = r THEN Queued(u) \cup {s} ELSE Queued(u)
    <3>1. \A t : t \in Queued(u)' <=> t \in AllSpans /\ \E i \in 1..(n + 1) : queue'[i] = <<u, t>>
      BY <2>1 DEF Queued, Oldest
    <3>2. \A t : t \in Queued(u) <=> t \in AllSpans /\ \E i \in 1..n : queue[i] = <<u, t>>
      BY DEF Queued, Oldest
    <3>3. \A i : i \in 1..(n + 1) <=> i \in 1..n \/ i = n + 1
      BY <1>1
    <3>4. \A t : t \in Queued(u)' <=> t \in Queued(u) \/ (t \in AllSpans /\ queue'[n + 1] = <<u, t>>)
      BY <2>1, <3>1, <3>2, <3>3
    <3>5. \A t : queue'[n + 1] = <<u, t>> <=> u = r /\ t = s
      BY <2>1
    <3> HIDE DEF n
    <3>6. \A t : t \in Queued(u)' <=> t \in Queued(u) \/ (u = r /\ t = s)
      BY <1>1, <3>4, <3>5
    <3> QED BY <3>6
  <2>3. ASSUME NEW u \in Requests PROVE Accounted(u)'
    <3>1. Accounted(u)
      BY DEF Each
    <3> QED BY <1>1, <1>6, <2>2, <3>1 DEF Accounted, TypeOK
  <2>4. \A i \in 1..n : queue[i] \in Requests \X AllSpans /\ queue[i][2] \in done[queue[i][1]]
    <3> TAKE i \in 1..n
    <3>1. queue[i] \in Requests \X AllSpans
      BY BatchFacts DEF TypeOK
    <3>2. queue[i][2] \in Queued(queue[i][1])
      BY <3>1 DEF Queued, Oldest
    <3> QED BY <3>1, <3>2 DEF Each, Accounted
  <2>5. InOrder'
    <3> SUFFICES ASSUME NEW i \in 1..(n + 1), NEW j \in 1..(n + 1),
                        queue'[i][1] = queue'[j][1],
                        Sooner(kind[queue'[i][1]], queue'[i][2], queue'[j][2])
                 PROVE  i < j
      BY <1>1, <2>1 DEF InOrder
    <3>1. CASE i \in 1..n /\ j \in 1..n
      BY <2>1, <3>1 DEF Order, InOrder
    <3>2. CASE i = n + 1 /\ j \in 1..n
      BY <2>1, <2>4, <3>2, LeaverIsLast
    <3>3. CASE i \in 1..n /\ j = n + 1
      BY <1>1, <3>3
    <3>4. CASE i = n + 1 /\ j = n + 1
      <4>1. Sooner(kind[r], s, s)
        BY <2>1, <3>4
      <4>2. kind[r] # "none" /\ s \in SpansOf(kind[r])
        BY Begun DEF Each
      <4>3. s \in done[r] /\ s \notin done[r]
        BY <1>1, <4>1, <4>2, SoonerIsDone DEF Each, Own, Nested
      <4> QED BY <4>3
    <3> QED BY <1>1, <3>1, <3>2, <3>3, <3>4
  <2> QED BY <1>4, <2>3, <2>5 DEF Order
<1> QED
  BY <1>2, <1>5, <1>6

\* A step that leaves queue, ended, exported and lost spans alone.
LEMMA SameOrder ==
  ASSUME Order, \A r \in Requests : Accounted(r), UNCHANGED <<done, queue, out, lost>>,
         TypeOK, \A r \in Requests : Each(r),
         \A r \in Requests : kind'[r] = kind[r] \/ done[r] = {}
  PROVE  Order' /\ \A r \in Requests : Accounted(r)'
<1>1. \A r \in Requests : Queued(r)' = Queued(r)
  BY DEF Queued, Oldest
<1>2. \A r \in Requests : Accounted(r)'
  BY <1>1 DEF Accounted
<1>3. \A r \in Requests : out[r] # {} => kind'[r] = kind[r]
  BY DEF Accounted
<1>4. NoOvertaking'
  <2> SUFFICES ASSUME NEW r \in Requests, NEW b \in out[r], NEW a \in SpansOf(kind'[r]),
                      Sooner(kind'[r], a, b)
               PROVE  a \in out[r] \cup lost[r]
    BY DEF NoOvertaking
  <2> QED BY <1>3 DEF Order, NoOvertaking
<1>5. \A i \in 1..Len(queue) : kind'[queue[i][1]] = kind[queue[i][1]]
  <2> TAKE i \in 1..Len(queue)
  <2>1. queue[i] \in Requests \X AllSpans
    BY BatchFacts DEF TypeOK
  <2>2. queue[i][2] \in Queued(queue[i][1])
    BY <2>1 DEF Queued, Oldest
  <2>3. done[queue[i][1]] # {}
    BY <2>1, <2>2 DEF Accounted
  <2> QED BY <2>1, <2>3
<1>6. InOrder'
  <2> SUFFICES ASSUME NEW i \in 1..Len(queue), NEW j \in 1..Len(queue),
                      queue[i][1] = queue[j][1],
                      Sooner(kind'[queue[i][1]], queue[i][2], queue[j][2])
               PROVE  i < j
    BY DEF InOrder
  <2> QED BY <1>5 DEF Order, InOrder
<1> QED
  BY <1>2, <1>4, <1>6 DEF Order

LEMMA OrderStep ==
  ASSUME TypeOK, \A r \in Requests : Each(r), Order, [Next]_vars
  PROVE  Order' /\ \A r \in Requests : Accounted(r)'
<1>0. \A r \in Requests : Accounted(r)
  BY DEF Each
<1>1. ASSUME NEW q \in Requests, NEW k \in Kinds, Begin(q, k)
      PROVE  Order' /\ \A r \in Requests : Accounted(r)'
  <2>1. /\ UNCHANGED <<done, queue, out, lost>>
        /\ \A r \in Requests : kind'[r] = kind[r] \/ done[r] = {}
    BY <1>1 DEF Begin, TypeOK, Each, OwnSpans
  <2> QED BY <1>0, <2>1, SameOrder
<1>2. ASSUME NEW q \in Requests,
             Respond(q) \/ \E p \in open[q] : \E s \in Inside(kind[q], p) : Enter(q, p, s)
      PROVE  Order' /\ \A r \in Requests : Accounted(r)'
  <2>1. UNCHANGED <<kind, done, queue, out, lost>>
    BY <1>2 DEF Enter, Respond
  <2> QED BY <1>0, <2>1, SameOrder
<1>3. ASSUME NEW q \in Requests, NEW s \in open[q], Leave(q, s)
      PROVE  Order' /\ \A r \in Requests : Accounted(r)'
  BY <1>3, LeaveOrder
<1>4. CASE UNCHANGED vars
  BY <1>0, <1>4, SameOrder DEF vars
<1> QED
  BY <1>1, <1>2, <1>3, <1>4, ExportOrder, ExportFailsOrder, KillOrder DEF Next, Advance

-----------------------------------------------------------------------------
\* The invariant.

Inv == TypeOK /\ (\A r \in Requests : Each(r)) /\ Order

LEMMA InvInit == Init => Inv
<1> SUFFICES ASSUME Init PROVE Inv
  OBVIOUS
<1>1. /\ queue = <<>> /\ \A r \in Requests : /\ kind[r] = "none" /\ open[r] = {} /\ done[r] = {}
                                             /\ out[r] = {} /\ lost[r] = {}
  BY DEF Init
<1>2. \A r \in Requests : Queued(r) = {}
  BY <1>1 DEF Queued, Oldest
<1>3. \A r \in Requests : Each(r)
  BY <1>1, <1>2 DEF Each, OwnSpans, Own, Accounted
<1>4. Order
  BY <1>1 DEF Order, InOrder, NoOvertaking
<1> QED
  BY <1>3, <1>4, TypeInit DEF Inv

LEMMA InvStep == Inv /\ [Next]_vars => Inv'
<1> SUFFICES ASSUME Inv, [Next]_vars PROVE Inv'
  OBVIOUS
<1>1. TypeOK /\ (\A r \in Requests : OwnSpans(r) /\ Own(r)) /\ (\A r \in Requests : Each(r)) /\ Order
  BY DEF Inv, Each
<1>2. TypeOK'
  BY <1>1, TypeStep
<1>3. \A r \in Requests : OwnSpans(r)' /\ Own(r)'
  BY <1>1, OwnStep
<1>4. Order' /\ \A r \in Requests : Accounted(r)'
  BY <1>1, OrderStep
<1> QED
  BY <1>2, <1>3, <1>4 DEF Inv, Each

LEMMA Always == Spec => []Inv
<1> QED
  BY InvInit, InvStep, PTL DEF Spec

-----------------------------------------------------------------------------
\* The marks of a failing request.

\* Whatever is not the server's or the handler's span runs inside the handler's.
LEMMA InHandler ==
  ASSUME NEW k \in Kinds, NEW s \in SpansOf(k), s \notin {"server", "handler"}
  PROVE  "handler" \in Above(k, s)
<1>1. "server" \in Above(k, s) /\ Inside(k, "server") = {"handler"}
  BY HandlerAssumption
<1>2. \E c \in Inside(k, "server") : c = s \/ c \in Above(k, s)
  BY <1>1, TreeAssumption
<1> QED
  BY <1>1, <1>2

\* Once its calls have returned, only the handler's and the server's span are open.
LEMMA AllReturned ==
  ASSUME Inv, NEW r \in Requests, NEW s \in open[r],
         Inside(kind[r], "handler") \subseteq done[r]
  PROVE  s \in {"server", "handler"}
<1> DEFINE k == kind[r]
<1>1. k \in Kinds /\ k # "none" /\ s \in SpansOf(k)
  BY Begun DEF Inv, Each
<1>2. open[r] \cap done[r] = {} /\ Above(k, s) \subseteq open[r]
  BY <1>1 DEF Inv, Each, Own, Nested
<1>3. ASSUME "handler" \in Above(k, s) PROVE FALSE
  <2>1. PICK c \in Inside(k, "handler") : c = s \/ c \in Above(k, s)
    BY <1>1, <1>3, TreeAssumption
  <2> QED BY <1>2, <2>1
<1> QED
  BY <1>1, <1>3, InHandler

\* Until its handler's span ends, a request has no answer that a call could contradict.
LEMMA FailsBeforeAnswer ==
  ASSUME Inv, NEW r \in Requests, Marked(r), NEW s \in open[r], Fails(kind[r], s)
  PROVE  answer[r] = 0 /\ s \notin {"server", "handler"}
<1>1. kind[r] \in Kinds
  BY Begun DEF Inv, Each
<1>2. s \notin {"server", "handler"}
  BY <1>1, HandlerAssumption
<1> QED
  BY <1>2, AllReturned DEF Marked

\* The server's span ends after the handler's.
LEMMA ServerLast ==
  ASSUME Inv, NEW r \in Requests, "server" \in done[r]
  PROVE  "handler" \in done[r]
<1>1. kind[r] \in Kinds /\ kind[r] # "none"
  BY Begun DEF Inv, Each
<1>2. "handler" \in SpansOf(kind[r]) /\ Above(kind[r], "server") = {}
  BY <1>1, SpanFacts
<1>3. CASE "handler" = "server"
  BY <1>3
<1>4. CASE "handler" # "server"
  BY <1>1, <1>2, <1>4, HandlerAssumption DEF Inv, Each, Own, Nested
<1> QED
  BY <1>3, <1>4

LEMMA LeaveMarks ==
  ASSUME Inv, NEW r \in Requests, Marked(r), NEW s \in open[r], Leave(r, s)
  PROVE  Marked(r)'
<1>1. /\ kind' = kind /\ answer' = answer
      /\ done'[r] = done[r] \cup {s}
      /\ failed'[r] = IF Erring(r, s) THEN failed[r] \cup {s} ELSE failed[r]
  BY DEF Inv, TypeOK, Leave, request
<1>2. s \notin done[r] /\ kind[r] \in Kinds /\ kind[r] # "none"
  <2>1. kind[r] \in Kinds /\ kind[r] # "none"
    BY Begun DEF Inv, Each
  <2> QED BY <2>1 DEF Inv, Each, Own, Nested
<1>3. answer'[r] = 0 => "handler" \notin done'[r]
  BY <1>1 DEF Leave, Marked
<1>4. answer[r] # 0 => (Failing(r)' <=> Failing(r))
  BY <1>1, FailsBeforeAnswer DEF Failing
<1>5. answer'[r] = 500 <=> answer'[r] # 0 /\ Failing(r)'
  BY <1>1, <1>4 DEF Marked
<1>6. \A t \in done'[r] : Erring(r, t)' <=> Erring(r, t)
  <2>1. ASSUME NEW t \in done'[r], t = "handler" PROVE Failing(r)' <=> Failing(r)
    <3>1. answer[r] # 0
      BY <1>1, <2>1 DEF Leave, Marked
    <3> QED BY <1>4, <3>1
  <2> QED BY <1>1, <2>1 DEF Erring
<1>7. failed'[r] = {t \in done'[r] : Erring(r, t)'}
  <2>1. failed[r] = {t \in done[r] : Erring(r, t)}
    BY DEF Marked
  <2>2. failed'[r] = {t \in done'[r] : Erring(r, t)}
    BY <1>1, <2>1
  <2> QED BY <1>6, <2>2
<1> QED
  BY <1>1, <1>2, <1>3, <1>5, <1>7 DEF Marked

LEMMA RespondMarks ==
  ASSUME Inv, NEW r \in Requests, Marked(r), Respond(r)
  PROVE  Marked(r)'
<1>1. /\ UNCHANGED <<kind, done, failed>> /\ answer[r] = 0
      /\ Inside(kind[r], "handler") \subseteq done[r]
      /\ answer'[r] = IF Failing(r) THEN 500 ELSE 200
  BY DEF Inv, TypeOK, Respond
<1>2. kind[r] # "none"
  BY Begun DEF Respond, Inv, Each
<1>3. "handler" \notin done[r] /\ "server" \notin done[r]
  BY <1>1, ServerLast DEF Marked
<1>4. Failing(r)' <=> Failing(r)
  BY <1>1 DEF Failing
<1>5. \A t \in done[r] : Erring(r, t)' <=> Erring(r, t)
  BY <1>1, <1>3 DEF Erring
<1> QED
  BY <1>1, <1>2, <1>4, <1>5 DEF Marked

\* A step that ends no span of r and does not answer it.
LEMMA SameMarks ==
  ASSUME NEW r \in Requests, Marked(r), kind'[r] = kind[r], done'[r] = done[r],
         failed'[r] = failed[r], answer'[r] = answer[r]
  PROVE  Marked(r)'
<1>1. Failing(r)' <=> Failing(r)
  BY DEF Failing
<1>2. \A t : Erring(r, t)' <=> Erring(r, t)
  BY <1>1 DEF Erring
<1> QED
  BY <1>1, <1>2 DEF Marked

LEMMA MarkStep ==
  ASSUME Inv, [Next]_vars, NEW r \in Requests, Marked(r)
  PROVE  Marked(r)'
<1>1. ASSUME NEW q \in Requests, NEW k \in Kinds, Begin(q, k) PROVE Marked(r)'
  <2>1. CASE q = r
    <3>1. /\ kind'[r] # "none" /\ done'[r] = {} /\ failed'[r] = {} /\ answer'[r] = 0
      BY <1>1, <2>1, KindsAssumption DEF Begin, Marked, Inv, TypeOK, Each, OwnSpans
    <3>2. {t \in done'[r] : Erring(r, t)'} = {}
      BY <3>1
    <3> QED BY <3>1, <3>2 DEF Marked
  <2>2. CASE q # r
    BY <1>1, <2>2, SameMarks DEF Begin, Inv, TypeOK
  <2> QED BY <2>1, <2>2
<1>2. ASSUME NEW q \in Requests, NEW s \in open[q], Leave(q, s) PROVE Marked(r)'
  <2>1. CASE q = r
    BY <1>2, <2>1, LeaveMarks
  <2>2. CASE q # r
    BY <1>2, <2>2, SameMarks DEF Leave, Inv, TypeOK, request
  <2> QED BY <2>1, <2>2
<1>3. ASSUME NEW q \in Requests, Respond(q) PROVE Marked(r)'
  <2>1. CASE q = r
    BY <1>3, <2>1, RespondMarks
  <2>2. CASE q # r
    BY <1>3, <2>2, SameMarks DEF Respond, Inv, TypeOK
  <2> QED BY <2>1, <2>2
<1>4. ASSUME NEW q \in Requests, \E p \in open[q] : \E s \in Inside(kind[q], p) : Enter(q, p, s)
      PROVE  Marked(r)'
  BY <1>4, SameMarks DEF Enter
<1>5. CASE Export \/ ExportFails \/ Kill \/ UNCHANGED vars
  BY <1>5, SameMarks DEF Export, ExportFails, Kill, vars, request
<1> QED
  BY <1>1, <1>2, <1>3, <1>4, <1>5 DEF Next, Advance

-----------------------------------------------------------------------------
\* The sleeps of a request.

\* When the server span has ended, everything has.
LEMMA ServerEndsAll ==
  ASSUME Inv, NEW r \in Requests, "server" \in done[r]
  PROVE  /\ open[r] = {} /\ done[r] = SpansOf(kind[r])
         /\ kind[r] \in Kinds
<1> DEFINE k == kind[r]
<1>1. k \in Kinds /\ k # "none" /\ open[r] \cup done[r] \subseteq SpansOf(k)
  BY Begun DEF Inv, Each
<1>2. \A a \in SpansOf(k) : a \in done[r]
  <2> TAKE a \in SpansOf(k)
  <2>1. CASE a = "server"
    BY <2>1
  <2>2. CASE a # "server"
    BY <1>1, <2>2, HandlerAssumption DEF Inv, Each, Own, Nested
  <2> QED BY <2>1, <2>2
<1>3. open[r] \cap done[r] = {}
  BY <1>1 DEF Inv, Each, Own, Nested
<1> QED
  BY <1>1, <1>2, <1>3

LEMMA EnterTimed ==
  ASSUME Inv, NEW r \in Requests, Timed(r), NEW p \in open[r],
         NEW s \in Inside(kind[r], p), Enter(r, p, s)
  PROVE  Timed(r)'
<1> DEFINE k == kind[r]
           S == open[r] \cup done[r]
<1>1. k \in Kinds /\ k # "none" /\ S \subseteq SpansOf(k)
  BY Begun DEF Inv, Each
<1>2. s \in SpansOf(k) \ S
  BY <1>1, SpanFacts DEF Enter
<1>3. /\ kind'[r] = k /\ open'[r] \cup done'[r] = S \cup {s}
      /\ elapsed'[r] = elapsed[r] + Sleep(k, s)
  BY DEF Enter, Inv, TypeOK
<1>4. s # "server"
  <2>1. Above(k, s) = {p} \cup Above(k, p) /\ Above(k, "server") = {}
    BY <1>1, <1>2, TreeAssumption, SpanFacts
  <2> QED BY <2>1
<1>5. Total(k, S \cup {s}) = Total(k, S) + Sleep(k, s)
  BY <1>1, <1>2, TotalAssumption
<1> QED
  BY <1>1, <1>3, <1>4, <1>5 DEF Timed

\* A step that starts no span of r and does not let it sleep.
LEMMA SameTimed ==
  ASSUME NEW r \in Requests, Timed(r), kind'[r] = kind[r], elapsed'[r] = elapsed[r],
         open'[r] \cup done'[r] = open[r] \cup done[r]
  PROVE  Timed(r)'
  BY DEF Timed

LEMMA TimedStep ==
  ASSUME Inv, [Next]_vars, NEW r \in Requests, Timed(r)
  PROVE  Timed(r)'
<1>1. ASSUME NEW q \in Requests, NEW k \in Kinds, Begin(q, k) PROVE Timed(r)'
  <2>1. CASE q = r
    <3>1. /\ kind'[r] = k /\ elapsed' = elapsed
          /\ open'[r] \cup done'[r] = {} \cup {"server"} /\ elapsed[r] = 0
      BY <1>1, <2>1 DEF Begin, Inv, TypeOK, Each, OwnSpans, Timed
    <3>2. Total(k, {} \cup {"server"}) = 0 + 0
      <4>1. {} \in SUBSET SpansOf(k) /\ "server" \in SpansOf(k) \ {}
        BY SpanFacts
      <4>2. Sleep(k, "server") = 0 /\ Total(k, {}) = 0
        BY TotalAssumption
      <4>3. Total(k, {} \cup {"server"}) = Total(k, {}) + Sleep(k, "server")
        BY <4>1, TotalAssumption
      <4> QED BY <4>2, <4>3
    <3>3. k # "none"
      BY KindsAssumption
    <3> QED BY <3>1, <3>2, <3>3 DEF Timed
  <2>2. CASE q # r
    <3>1. /\ kind'[r] = kind[r] /\ elapsed'[r] = elapsed[r]
          /\ open'[r] = open[r] /\ done'[r] = done[r]
      BY <1>1, <2>2 DEF Begin, Inv, TypeOK
    <3> QED BY <3>1, SameTimed
  <2> QED BY <2>1, <2>2
<1>2. ASSUME NEW q \in Requests, NEW p \in open[q], NEW s \in Inside(kind[q], p), Enter(q, p, s)
      PROVE  Timed(r)'
  <2>1. CASE q = r
    BY <1>2, <2>1, EnterTimed
  <2>2. CASE q # r
    <3>1. /\ kind'[r] = kind[r] /\ elapsed'[r] = elapsed[r]
          /\ open'[r] = open[r] /\ done'[r] = done[r]
      BY <1>2, <2>2 DEF Enter, Inv, TypeOK
    <3> QED BY <3>1, SameTimed
  <2> QED BY <2>1, <2>2
<1>3. ASSUME NEW q \in Requests, NEW s \in open[q], Leave(q, s) PROVE Timed(r)'
  <2>1. open'[r] \cup done'[r] = open[r] \cup done[r]
    BY <1>3 DEF Leave, Inv, TypeOK
  <2> QED BY <1>3, <2>1, SameTimed DEF Leave, request
<1>4. ASSUME NEW q \in Requests, Respond(q) PROVE Timed(r)'
  BY <1>4, SameTimed DEF Respond
<1>5. CASE Export \/ ExportFails \/ UNCHANGED vars
  BY <1>5, SameTimed DEF Export, ExportFails, vars, request
<1>6. CASE Kill
  <2>1. open'[r] = {} /\ done' = done /\ kind' = kind /\ elapsed' = elapsed
    BY <1>6 DEF Kill, request
  <2>2. "server" \in done[r] => open[r] = {}
    BY ServerEndsAll
  <2> QED BY <2>1, <2>2 DEF Timed
<1> QED
  BY <1>1, <1>2, <1>3, <1>4, <1>5, <1>6 DEF Next, Advance

AllMarked == \A r \in Requests : Marked(r)

AllTimed == \A r \in Requests : Timed(r)

LEMMA AlwaysMarked == Spec => [](Inv /\ AllMarked /\ AllTimed)
<1>1. Init => Inv /\ AllMarked /\ AllTimed
  <2>1. Init => AllMarked
    BY DEF Init, AllMarked, Marked
  <2>2. Init => AllTimed
    BY DEF Init, AllTimed, Timed
  <2> QED BY <2>1, <2>2, InvInit
<1>2. (Inv /\ AllMarked /\ AllTimed) /\ [Next]_vars => (Inv /\ AllMarked /\ AllTimed)'
  <2>1. Inv /\ AllMarked /\ [Next]_vars => AllMarked'
    BY MarkStep DEF AllMarked
  <2>2. Inv /\ AllTimed /\ [Next]_vars => AllTimed'
    BY TimedStep DEF AllTimed
  <2> QED BY <2>1, <2>2, InvStep
<1> QED
  BY <1>1, <1>2, PTL DEF Spec

\* An element that is new to a finite set adds one to its size.
LEMMA OneMore ==
  ASSUME NEW S, IsFiniteSet(S), NEW x, x \notin S
  PROVE  IsFiniteSet(S \cup {x}) /\ Cardinality(S \cup {x}) = Cardinality(S) + 1
<1>1. /\ IsFiniteSet(S \cup {x})
      /\ Cardinality(S \cup {x}) = IF x \in S THEN Cardinality(S) ELSE Cardinality(S) + 1
  BY FS_AddElement
<1> QED
  BY <1>1

\* Three different spans do not fit into a set of two.
LEMMA ThreeInTwo ==
  ASSUME NEW S, IsFiniteSet(S), NEW a \in S, NEW b \in S, NEW c \in S, a # b, a # c, b # c
  PROVE  Cardinality(S) >= 3
<1> DEFINE AB == {a} \cup {b}
<1> DEFINE ABC == AB \cup {c}
<1>1. IsFiniteSet({a}) /\ Cardinality({a}) = 1
  BY FS_Singleton
<1>2. b \notin {a} /\ c \notin AB
  OBVIOUS
<1>3. IsFiniteSet(AB) /\ Cardinality(AB) = Cardinality({a}) + 1
  <2> HIDE DEF AB
  <2>1. IsFiniteSet({a}) /\ b \notin {a}
    BY <1>1, <1>2
  <2>2. IsFiniteSet({a} \cup {b}) /\ Cardinality({a} \cup {b}) = Cardinality({a}) + 1
    BY <2>1, OneMore
  <2> QED BY <2>2 DEF AB
<1>4. ABC \in SUBSET S
  OBVIOUS
<1>5. IsFiniteSet(ABC) /\ Cardinality(ABC) = Cardinality(AB) + 1
  <2> HIDE DEF AB
  <2> QED BY <1>2, <1>3, OneMore
<1> HIDE DEF AB, ABC
<1>6. Cardinality(ABC) <= Cardinality(S)
  BY <1>4, FS_Subset
<1>7. Cardinality(S) \in Nat
  BY FS_CardinalityType
<1> QED
  BY <1>1, <1>3, <1>5, <1>6, <1>7

\* Every variable keeps its type, and the spans of a request stay the path and the
\* finished subtrees that the calls of child make of them (trace_test_handler.go:28-49).
THEOREM CallsNest == Spec => []IInv
<1>1. Inv /\ AllMarked /\ AllTimed => IInv
  BY DEF Inv, AllMarked, AllTimed, IInv, Each, Own, Order
<1> QED
  BY <1>1, AlwaysMarked, PTL

\* For every handler written with child, and every queue and batch size: what reaches
\* the collector of a trace has everything that ends sooner with it or before it, except
\* spans that are lost for good.
THEOREM SpansArriveInOrder == Spec => []NoOvertaking
<1>1. Inv => NoOvertaking
  BY DEF Inv, Order
<1> QED
  BY <1>1, Always, PTL

\* trace_test_handler.go:42-46, 127-128 and trace_errors.go:80-82 each mark a span of a
\* failing request.  For every handler written with child, a trace that has lost no more
\* than two spans still shows the error, and one answered with 200 never does.
THEOREM FailuresSurvive == Spec => []FailureSurvives
<1>1. ASSUME Inv, AllMarked PROVE FailureSurvives
  <2> SUFFICES ASSUME NEW r \in Requests, "server" \in done[r]
               PROVE  /\ answer[r] = 500 /\ Cardinality(lost[r]) <= 2
                           => failed[r] \cap (out[r] \cup Queued(r)) # {}
                      /\ answer[r] = 200 => failed[r] = {}
    BY DEF FailureSurvives
  <2> DEFINE k == kind[r]
  <2>1. k \in Kinds /\ done[r] \subseteq SpansOf(k) /\ "handler" \in done[r] /\ Marked(r)
    BY <1>1, Begun, ServerLast DEF Inv, Each, AllMarked
  <2>2. done[r] = Queued(r) \cup out[r] \cup lost[r]
    BY <1>1 DEF Inv, Each, Accounted
  <2>3. ASSUME answer[r] = 200 PROVE failed[r] = {}
    <3>1. ~ Failing(r)
      BY <2>1, <2>3 DEF Marked
    <3>2. \A s \in done[r] : ~ Erring(r, s)
      BY <2>3, <3>1 DEF Erring, Failing
    <3> QED BY <2>1, <3>2 DEF Marked
  <2>4. ASSUME answer[r] = 500, failed[r] \cap (out[r] \cup Queued(r)) = {}
        PROVE  ~ (Cardinality(lost[r]) <= 2)
    <3>1. Failing(r)
      BY <2>1, <2>4 DEF Marked
    <3>2. PICK c \in done[r] : Fails(k, c)
      BY <3>1 DEF Failing
    <3>3. c # "server" /\ c # "handler"
      BY <2>1, <3>2, HandlerAssumption
    <3>4. Erring(r, "server") /\ Erring(r, "handler") /\ Erring(r, c)
      BY <2>4, <3>1, <3>2, <3>3 DEF Erring
    <3>5. {"server", "handler", c} \subseteq failed[r]
      BY <2>1, <3>4 DEF Marked
    <3>6. {"server", "handler", c} \subseteq lost[r]
      BY <2>1, <2>2, <2>4, <3>5
    <3>7. IsFiniteSet(lost[r])
      BY <2>1, <2>2, HandlerAssumption, FS_Subset
    <3>8. Cardinality(lost[r]) >= 3 /\ Cardinality(lost[r]) \in Nat
      BY <3>3, <3>6, <3>7, ThreeInTwo, FS_CardinalityType
    <3> QED BY <3>8
  <2> QED BY <2>3, <2>4
<1> QED
  BY <1>1, AlwaysMarked, PTL

\* The threshold of the latency policy (otel-tail-sampler.yaml) against the sleeps of
\* trace_test_handler.go:30-354: every request that ends, however its calls interleave
\* with others, has slept for exactly its spans.  So where the sleeps lie apart as
\* LatencyAssumption says, the policy finds the slow requests and no others.
THEOREM SlowStandOut == Spec => []SlowAreSlow
<1>1. ASSUME Inv, AllTimed PROVE SlowAreSlow
  <2> SUFFICES ASSUME NEW r \in Requests, "server" \in done[r]
               PROVE  IF kind[r] \in Slow THEN elapsed[r] >= SlowAfter
                      ELSE elapsed[r] + Jitter * Cardinality(done[r]) < SlowAfter
    BY Zenon DEF SlowAreSlow
  <2>1. open[r] = {} /\ done[r] = SpansOf(kind[r]) /\ kind[r] \in Kinds
    BY <1>1, ServerEndsAll
  <2>2. elapsed[r] = Total(kind[r], SpansOf(kind[r]))
    BY <1>1, <2>1 DEF AllTimed, Timed
  <2>3. CASE kind[r] \in Slow
    BY <2>1, <2>2, <2>3, LatencyAssumption, Zenon
  <2>4. CASE kind[r] \notin Slow
    <3>1. Total(kind[r], SpansOf(kind[r])) + Jitter * Cardinality(SpansOf(kind[r])) < SlowAfter
      BY <2>1, <2>4, LatencyAssumption, Zenon
    <3> QED BY <2>1, <2>2, <2>4, <3>1, Zenon
  <2> QED BY <2>3, <2>4, Zenon
<1> QED
  BY <1>1, AlwaysMarked, PTL

-----------------------------------------------------------------------------
\* The groups of TracePipeline.

\* A set of spans that has with each span what ends sooner holds the groups in their order.
LEMMA CompleteIsFront ==
  ASSUME NEW r \in Requests, kind[r] \in Kinds \cup {"none"}, NEW S,
         kind[r] # "none" /\ lost[r] = {} =>
           \A b \in S : \A a \in SpansOf(kind[r]) : Sooner(kind[r], a, b) => a \in S
  PROVE  Complete(r, S) \in Groups!Fronts
<1>1. CASE lost[r] # {} \/ kind[r] = "none"
  BY <1>1 DEF Complete, Groups!Fronts
<1>2. CASE lost[r] = {} /\ kind[r] # "none"
  <2> DEFINE k == kind[r]
             C == GroupNames \ {Group(k, s) : s \in SpansOf(k) \ S}
  <2>1. Complete(r, S) = C /\ k \in Kinds
    BY <1>2 DEF Complete
  <2>2. \A g \in C : \E b \in S : b \in SpansOf(k) /\ Group(k, b) = g
    <3> TAKE g \in C
    <3>1. PICK b \in SpansOf(k) : Group(k, b) = g
      BY <2>1, GroupAssumption DEF GroupNames
    <3> QED BY <3>1
  <2>3. ASSUME "work" \in C PROVE "early" \in C
    <3>1. PICK b \in S : b \in SpansOf(k) /\ Group(k, b) = "work"
      BY <2>2, <2>3
    <3>2. \A a \in SpansOf(k) : Group(k, a) = "early" => a \in S
      BY <1>2, <2>1, <3>1, GroupAssumption
    <3> QED BY <3>2 DEF GroupNames
  <2>4. ASSUME "server" \in C PROVE "early" \in C /\ "work" \in C
    <3>1. PICK b \in S : b \in SpansOf(k) /\ Group(k, b) = "server"
      BY <2>2, <2>4
    <3>2. \A a \in SpansOf(k) : Group(k, a) \in {"early", "work"} => a \in S
      BY <1>2, <2>1, <3>1, GroupAssumption
    <3> QED BY <3>2 DEF GroupNames
  <2>5. C \subseteq {"early", "work", "server"}
    BY DEF GroupNames
  <2> HIDE DEF C
  <2> QED BY <2>1, <2>3, <2>4, <2>5 DEF Groups!Fronts, Groups!Groups
<1> QED
  BY <1>1, <1>2

\* What has ended of a request, and what has been exported, are beginnings of it.
LEMMA FrontsHold ==
  ASSUME Inv, NEW r \in Requests
  PROVE  /\ Complete(r, done[r]) \in Groups!Fronts
         /\ Complete(r, out[r]) \in Groups!Fronts
         /\ Complete(r, out[r]) \subseteq Complete(r, done[r])
<1>1. kind[r] \in Kinds \cup {"none"}
  BY DEF Inv, TypeOK
<1>2. Complete(r, done[r]) \in Groups!Fronts
  BY <1>1, CompleteIsFront DEF Inv, Each, Own, Settled
<1>3. Complete(r, out[r]) \in Groups!Fronts
  BY <1>1, CompleteIsFront DEF Inv, Order, NoOvertaking
<1>4. Complete(r, out[r]) \subseteq Complete(r, done[r])
  BY DEF Inv, Each, Accounted, Complete
<1> QED
  BY <1>2, <1>3, <1>4

Fronts ==
  \A r \in Requests : /\ Complete(r, done[r]) \in Groups!Fronts
                      /\ Complete(r, out[r]) \in Groups!Fronts
                      /\ Complete(r, out[r]) \subseteq Complete(r, done[r])

LEMMA FrontsAfter == Inv' => Fronts'
<1>1. Inv => Fronts
  BY FrontsHold DEF Fronts
<1> QED
  BY <1>1, PTL

LEMMA GroupsInit == Init => Groups!Init
  BY DEF Init, Groups!Init, Complete

\* A request that has just begun has completed no group, since none is empty.
LEMMA NothingComplete ==
  ASSUME NEW r \in Requests, kind[r] \in Kinds \cup {"none"}
  PROVE  Complete(r, {}) = {}
<1>1. CASE lost[r] # {} \/ kind[r] = "none"
  BY <1>1 DEF Complete
<1>2. CASE lost[r] = {} /\ kind[r] \in Kinds
  <2>1. Complete(r, {}) = GroupNames \ {Group(kind[r], s) : s \in SpansOf(kind[r])}
           \/ kind[r] = "none"
    BY <1>2 DEF Complete
  <2> QED BY <1>2, <2>1, GroupAssumption DEF Complete
<1> QED
  BY <1>1, <1>2

NoneComplete == \A r \in Requests : Complete(r, {}) = {}

LEMMA NoneCompleteAfter == TypeOK' => NoneComplete'
<1>1. TypeOK => NoneComplete
  <2> SUFFICES ASSUME TypeOK, NEW r \in Requests PROVE Complete(r, {}) = {}
    BY DEF NoneComplete
  <2>1. kind[r] \in Kinds \cup {"none"}
    BY DEF TypeOK
  <2> QED BY <2>1, NothingComplete
<1> QED
  BY <1>1, PTL

\* A step that ends, exports and loses no span.
LEMMA GroupsStutter ==
  ASSUME Inv, TypeOK', UNCHANGED <<done, out, lost>>,
         \A r \in Requests : kind'[r] = kind[r] \/ (done[r] = {} /\ out[r] = {})
  PROVE  UNCHANGED Groups!vars
<1>1. ASSUME NEW r \in Requests
      PROVE  /\ Complete(r, done[r])' = Complete(r, done[r])
             /\ Complete(r, out[r])' = Complete(r, out[r])
  <2>1. CASE kind'[r] = kind[r]
    BY <2>1 DEF Complete
  <2>2. CASE done[r] = {} /\ out[r] = {}
    <3>1. kind[r] \in Kinds \cup {"none"} /\ kind'[r] \in Kinds \cup {"none"}
      BY DEF Inv, TypeOK
    <3>2. Complete(r, {}) = {}
      BY <3>1, NothingComplete
    <3>3. Complete(r, {})' = {}
      BY NoneCompleteAfter DEF NoneComplete
    <3>4. done'[r] = {} /\ out'[r] = {}
      BY <2>2
    <3>5. Complete(r, done[r])' = Complete(r, {})' /\ Complete(r, out[r])' = Complete(r, {})'
      BY <3>4 DEF Complete
    <3> QED BY <2>2, <3>2, <3>3, <3>5
  <2> QED BY <2>1, <2>2
<1> QED
  BY <1>1 DEF Groups!vars

\* A span ends and is queued: at most its own group is complete with it.
LEMMA GroupsEnd ==
  ASSUME Inv, Inv', NEW r \in Requests, NEW s, UNCHANGED <<kind, out, lost>>,
         done' = [done EXCEPT ![r] = done[r] \cup {s}]
  PROVE  [Groups!Next]_(Groups!vars)
<1> DEFINE C == Complete(r, done[r])
           D == Complete(r, done[r])'
           g == Group(kind[r], s)
<1>1. /\ done'[r] = done[r] \cup {s}
      /\ \A q \in Requests : q # r => done'[q] = done[q]
  BY DEF Inv, TypeOK
<1>2. \A q \in Requests : Complete(q, out[q])' = Complete(q, out[q])
  BY DEF Complete
<1>3. \A q \in Requests : q # r => Complete(q, done[q])' = Complete(q, done[q])
  BY <1>1 DEF Complete
<1>4. C \subseteq D /\ D \subseteq C \cup {g} /\ (lost[r] # {} => D = C)
  BY <1>1 DEF Complete
<1>5. D \in Groups!Fronts
  BY FrontsAfter DEF Fronts
<1> HIDE DEF C, D, g
<1>6. CASE D = C
  <2>1. \A q \in Requests : Complete(q, done[q])' = Complete(q, done[q])
    BY <1>3, <1>6 DEF C, D
  <2> QED BY <1>2, <2>1 DEF Groups!vars
<1>7. CASE D # C
  <2>1. g \notin C /\ D = C \cup {g} /\ lost[r] = {}
    BY <1>4, <1>7
  <2>2. D \subseteq Groups!Groups
    BY <1>5 DEF Groups!Fronts, Groups!Groups
  <2>3. [q \in Requests |-> Complete(q, done[q])]'
          = [[q \in Requests |-> Complete(q, done[q])] EXCEPT ![r] = C \cup {g}]
    BY <1>3, <2>1 DEF D
  <2>4. Groups!End(r)
    BY <1>2, <1>5, <2>1, <2>2, <2>3 DEF Groups!End, C
  <2> QED BY <2>4 DEF Groups!Next
<1> QED
  BY <1>6, <1>7

\* A batch leaves.
LEMMA GroupsExport ==
  ASSUME Inv, Inv', UNCHANGED <<kind, done, lost>>,
         \A r \in Requests : out[r] \subseteq out'[r]
  PROVE  Groups!Export
<1>1. \A r \in Requests : Complete(r, done[r])' = Complete(r, done[r])
  BY DEF Complete
<1>2. \A r \in Requests : Complete(r, out[r]) \subseteq Complete(r, out[r])'
  BY DEF Complete
<1>3. \A r \in Requests : /\ Complete(r, out[r])' \in Groups!Fronts
                          /\ Complete(r, out[r])' \subseteq Complete(r, done[r])
  BY <1>1, FrontsAfter DEF Fronts
<1> QED
  BY <1>1, <1>2, <1>3 DEF Groups!Export

\* Spans are lost: nothing is said of their requests any more, and of the others no
\* span has ended or left.
LEMMA GroupsDamage ==
  ASSUME Inv, kind' = kind, \A r \in Requests : lost[r] \subseteq lost'[r],
         \A r \in Requests : lost'[r] = {} => done'[r] = done[r] /\ out'[r] = out[r]
  PROVE  Groups!Next
<1>1. PICK S \in SUBSET Requests : S = {r \in Requests : lost'[r] # {}}
  OBVIOUS
<1>2. S = {r \in Requests : lost[r] # {}} \cup S
  BY <1>1
<1>3. ASSUME NEW r \in Requests
      PROVE  /\ Complete(r, done[r])' = IF r \in S THEN {} ELSE Complete(r, done[r])
             /\ Complete(r, out[r])' = IF r \in S THEN {} ELSE Complete(r, out[r])
  <2>1. CASE lost'[r] # {}
    BY <1>1, <2>1 DEF Complete
  <2>2. CASE lost'[r] = {}
    BY <1>1, <2>2 DEF Complete
  <2> QED BY <2>1, <2>2
<1>4. Groups!Damage(S)
  BY <1>1, <1>2, <1>3 DEF Groups!Damage
<1> QED
  BY <1>4 DEF Groups!Next

LEMMA GroupsStep ==
  ASSUME Inv, Inv', [Next]_vars
  PROVE  [Groups!Next]_(Groups!vars)
<1>1. ASSUME NEW q \in Requests, NEW k \in Kinds, Begin(q, k) PROVE UNCHANGED Groups!vars
  <2>1. /\ UNCHANGED <<done, out, lost>>
        /\ \A r \in Requests : kind'[r] = kind[r] \/ (done[r] = {} /\ out[r] = {})
    BY <1>1 DEF Begin, Inv, TypeOK, Each, OwnSpans, Accounted
  <2> QED BY <2>1, GroupsStutter DEF Inv
<1>2. ASSUME NEW q \in Requests,
             Respond(q) \/ \E p \in open[q] : \E s \in Inside(kind[q], p) : Enter(q, p, s)
      PROVE  UNCHANGED Groups!vars
  <2>1. UNCHANGED <<kind, done, out, lost>>
    BY <1>2 DEF Enter, Respond
  <2> QED BY <2>1, GroupsStutter DEF Inv
<1>3. ASSUME NEW q \in Requests, NEW s \in open[q], Leave(q, s)
      PROVE  [Groups!Next]_(Groups!vars)
  <2>1. UNCHANGED <<kind, out>> /\ done' = [done EXCEPT ![q] = done[q] \cup {s}]
    BY <1>3 DEF Leave, request
  <2>2. CASE lost' = lost
    BY <2>1, <2>2, GroupsEnd
  <2>3. CASE lost' = [lost EXCEPT ![q] = lost[q] \cup {s}]
    <3>1. /\ \A r \in Requests : lost[r] \subseteq lost'[r]
          /\ \A r \in Requests : lost'[r] = {} => done'[r] = done[r] /\ out'[r] = out[r]
      BY <2>1, <2>3 DEF Inv, TypeOK
    <3> QED BY <2>1, <3>1, GroupsDamage
  <2> QED BY <1>3, <2>2, <2>3 DEF Leave
<1>4. CASE Export
  <2>1. UNCHANGED <<kind, done, lost>> /\ \A r \in Requests : out[r] \subseteq out'[r]
    BY <1>4 DEF Export, request
  <2> QED BY <2>1, GroupsExport DEF Groups!Next
<1>5. CASE ExportFails \/ Kill
  <2>1. UNCHANGED <<kind, done, out>> /\ \A r \in Requests : lost[r] \subseteq lost'[r]
    BY <1>5 DEF ExportFails, Kill, request
  <2> QED BY <2>1, GroupsDamage
<1>6. CASE UNCHANGED vars
  BY <1>6, GroupsStutter DEF vars, Inv
<1> QED
  BY <1>1, <1>2, <1>3, <1>4, <1>5, <1>6 DEF Next, Advance

\* The handlers and the batch processor, span by span, implement SpanGroups, for every
\* call tree whose groups end one after the other, every queue and every batch size: what
\* TracePipeline takes for granted of the groups of a trace.
THEOREM SpansMoveInGroups == Spec => GroupsInOrder
<1> USE DEF GroupsInOrder
<1> QED
  BY GroupsInit, GroupsStep, Always, PTL DEF Spec, Groups!Spec
=============================================================================
