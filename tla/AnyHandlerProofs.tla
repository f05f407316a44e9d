-------------------------- MODULE AnyHandlerProofs --------------------------
(***************************************************************************)
(* Whatever a handler does with the response it is given, the wrappers     *)
(* report what the client is sent: for every capture limit, every set of   *)
(* statuses and every length of body.                                      *)
(***************************************************************************)
EXTENDS AnyHandler, ResponseWritersProofs

LEMMA InitIInv == Init => IInv
<1> SUFFICES ASSUME Init PROVE IInv
  OBVIOUS
<1>1. w = FreshWriters /\ ~ bare /\ ~ returned /\ bare \in BOOLEAN /\ returned \in BOOLEAN
  BY DEF Init
<1>2. InStep
  BY <1>1, FreshFields DEF InStep
<1>3. KeptIsPrefix
  BY <1>1, FreshFields, LeastFacts, BodyCapAssumption DEF KeptIsPrefix
<1>4. plain = [status |-> 0, body |-> 0]
  BY DEF Init
<1>5. Transparent /\ plain \in [status : Nat, body : Nat]
  BY <1>1, <1>4, FreshFields DEF Transparent
<1> QED
  BY <1>1, <1>2, <1>3, <1>5, FreshFields DEF IInv, TypeOK, LoggedIsSent, OneHeader

\* What the client has been sent is what it would have been sent without the wrappers:
\* so it stays, if the writers give the wire what net/http would have given it.
LEMMA StaysTransparent ==
  ASSUME IInv, w' \in Writers, NEW code \in Nat, NEW n \in Nat,
         plain' = Plainly(code, n),
         w'.wire.status = (IF w.wire.status = 0 THEN code ELSE w.wire.status),
         w'.wire.body = w.wire.body + n
  PROVE  Transparent' /\ (plain \in [status : Nat, body : Nat])'
<1>1. plain = [status |-> w.wire.status, body |-> w.wire.body] /\ w \in Writers
  BY DEF IInv, TypeOK, Transparent
<1>2. plain.status = w.wire.status /\ plain.body = w.wire.body
  BY <1>1
<1>3. plain' = [status |-> w'.wire.status, body |-> w'.wire.body]
  BY <1>2 DEF Plainly
<1>4. w'.wire.status \in Nat /\ w'.wire.body \in Nat
  <2> DEFINE x == w'
  <2>1. x \in Writers
    OBVIOUS
  <2> HIDE DEF x
  <2>2. x.wire.status \in Nat /\ x.wire.body \in Nat
    BY <2>1, WritersFields
  <2> QED
    BY <2>2 DEF x
<1> QED
  BY <1>3, <1>4 DEF Transparent

\* Setting a status: only the first one reaches any of the layers.
LEMMA HeaderIInv ==
  ASSUME IInv, NEW code \in Codes, CallWriteHeader(code)
  PROVE  IInv'
<1>1. /\ w \in Writers /\ code \in Nat /\ code # 0
      /\ InStep /\ ~ returned /\ UNCHANGED <<bare, returned>>
      /\ w' = WriteHeader(w, code)
  BY HandlerAssumption DEF IInv, TypeOK, CallWriteHeader
<1>0. /\ code \in Nat /\ 0 \in Nat
      /\ plain' = Plainly(code, 0)
  BY <1>1 DEF CallWriteHeader
<1>2. CASE w.log.wrote
  <2>1. w' = w
    BY <1>1, <1>2, WriteHeaderFields
  <2>2. w.wire.status # 0 /\ w.wire.body \in Nat
    BY <1>1, <1>2, WritersFields DEF InStep
  <2>3. Transparent' /\ (plain \in [status : Nat, body : Nat])'
    BY <1>1, <1>0, <2>1, <2>2, StaysTransparent
  <2> QED
    BY <1>1, <2>1, <2>3 DEF IInv, TypeOK, InStep, LoggedIsSent, OneHeader, KeptIsPrefix
<1>3. CASE ~ w.log.wrote /\ w.capture.wrote
  <2>1. /\ w' \in Writers /\ w'.log.wrote
        /\ w'.capture = w.capture /\ w'.wire = w.wire
    BY <1>1, <1>3, WriteHeaderFields
  <2>2. bare
    BY <1>1, <1>3 DEF InStep
  <2>3. InStep'
    BY <1>1, <1>3, <2>1, <2>2 DEF InStep
  <2>4. w.wire.status # 0 /\ w.wire.body \in Nat
    BY <1>1, <1>3, WritersFields DEF InStep
  <2>5. Transparent' /\ (plain \in [status : Nat, body : Nat])'
    BY <1>0, <2>1, <2>4, StaysTransparent
  <2> QED
    BY <1>1, <2>1, <2>3, <2>5 DEF IInv, TypeOK, LoggedIsSent, OneHeader, KeptIsPrefix
<1>4. CASE ~ w.log.wrote /\ ~ w.capture.wrote
  <2>1. w.wire.status = 0 /\ w.wire.headers = 0
    BY <1>1, <1>4, WritersFields DEF InStep
  <2>2. /\ w' \in Writers
        /\ w'.log.status = code /\ w'.log.wrote
        /\ w'.capture.status = code /\ w'.capture.wrote
        /\ w'.capture.kept = w.capture.kept
        /\ w'.wire.status = code /\ w'.wire.body = w.wire.body /\ w'.wire.headers = 1
    BY <1>1, <1>4, <2>1, WriteHeaderFields
  <2>3. InStep'
    BY <1>1, <2>2 DEF InStep
  <2>4. w.wire.body \in Nat
    BY <1>1, WritersFields
  <2>5. Transparent' /\ (plain \in [status : Nat, body : Nat])'
    BY <1>0, <2>1, <2>2, <2>4, StaysTransparent
  <2> QED
    BY <1>1, <2>2, <2>3, <2>5 DEF IInv, TypeOK, LoggedIsSent, OneHeader, KeptIsPrefix
<1> QED
  BY <1>2, <1>3, <1>4

\* Writing: the capture is cut where the body passes the limit.
LEMMA WriteIInv ==
  ASSUME IInv, NEW n \in 0..MaxWrite, CallWrite(n)
  PROVE  IInv'
<1>1. /\ w \in Writers /\ n \in Nat
      /\ InStep /\ ~ returned /\ returned' = returned
      /\ w' = Write(w, n) /\ bare' = (bare \/ ~ w.log.wrote)
  BY HandlerAssumption DEF IInv, TypeOK, CallWrite
<1>2. /\ w' \in Writers /\ w'.log = w.log
      /\ w'.capture.status = IF w.capture.wrote THEN w.capture.status ELSE 200
      /\ w'.capture.wrote
      /\ w'.capture.kept = Least(BodyCap, w.capture.kept + n)
      /\ w'.wire.status = IF w.wire.status = 0 THEN 200 ELSE w.wire.status
      /\ w'.wire.body = w.wire.body + n
      /\ w'.wire.headers = IF w.wire.status = 0 THEN w.wire.headers + 1
                                                ELSE w.wire.headers
  <2> DEFINE y == Write(w, n)
  <2>1. /\ y \in Writers /\ y.log = w.log
        /\ y.capture.status = IF w.capture.wrote THEN w.capture.status ELSE 200
        /\ y.capture.wrote
        /\ y.capture.kept = Least(BodyCap, w.capture.kept + n)
        /\ y.wire.status = IF w.wire.status = 0 THEN 200 ELSE w.wire.status
        /\ y.wire.body = w.wire.body + n
        /\ y.wire.headers = IF w.wire.status = 0 THEN w.wire.headers + 1
                                                  ELSE w.wire.headers
    <3>1. w \in Writers /\ n \in Nat
      BY <1>1
    <3> QED
      BY <3>1, WriteFields
  <2>2. w' = y
    BY <1>1
  <2> HIDE DEF y
  <2> QED
    BY <2>1, <2>2
<1>3. /\ w'.capture.status = w'.wire.status
      /\ w'.wire.status # 0
      /\ w.wire.status # 0 => w'.wire.status = w.wire.status
  <2>1. CASE w.capture.wrote
    BY <1>1, <1>2, <2>1 DEF InStep
  <2>2. CASE ~ w.capture.wrote
    BY <1>1, <1>2, <2>2 DEF InStep
  <2> QED
    BY <2>1, <2>2
<1>4. w'.capture.kept = Least(BodyCap, w'.wire.body)
  <2>1. w.capture.kept = Least(BodyCap, w.wire.body) /\ w.wire.body \in Nat
    BY <1>1, WritersFields DEF IInv, KeptIsPrefix
  <2>2. Least(BodyCap, Least(BodyCap, w.wire.body) + n) = Least(BodyCap, w.wire.body + n)
    BY <1>1, <2>1, LeastFacts, BodyCapAssumption
  <2> QED
    BY <1>2, <2>1, <2>2
<1>5. ~ bare' => ~ bare /\ w.log.wrote
  BY <1>1
<1>6. InStep'
  <2>1. w'.log.wrote <=> w.log.wrote
    BY <1>2
  <2>2. w'.log.status = w.log.status
    BY <1>2
  <2>3. ~ bare' => w'.log.status = w'.wire.status
    BY <1>1, <1>2, <1>3, <1>5, <2>2 DEF InStep
  <2>4. ~ w.log.wrote => w.log.status = 200
    BY <1>1 DEF InStep
  <2> QED
    BY <1>2, <1>3, <1>5, <2>1, <2>2, <2>3, <2>4 DEF InStep
<1>7. bare' \in BOOLEAN
  BY <1>1
<1>8. OneHeader'
  <2>1. CASE w.wire.status = 0
    BY <1>1, <1>2, <2>1 DEF InStep, OneHeader
  <2>2. CASE w.wire.status # 0
    BY <1>2, <2>2 DEF IInv, OneHeader
  <2> QED
    BY <2>1, <2>2
<1>9. Transparent' /\ (plain \in [status : Nat, body : Nat])'
  <2>1. plain' = Plainly(200, n)
    BY DEF CallWrite
  <2> QED
    BY <1>1, <1>2, <2>1, StaysTransparent
<1> QED
  BY <1>1, <1>2, <1>3, <1>4, <1>6, <1>7, <1>8, <1>9 DEF IInv, TypeOK, LoggedIsSent, KeptIsPrefix

\* Returning: a response nobody touched becomes the 200 that both wrappers assume.
LEMMA ReturnIInv ==
  ASSUME IInv, Return
  PROVE  IInv'
<1>1. /\ w \in Writers /\ InStep /\ ~ returned /\ returned' /\ bare' = bare
      /\ w' = CloseResponse(w)
  BY DEF IInv, TypeOK, Return
<1>2. /\ w' \in Writers /\ w'.log = w.log /\ w'.capture = w.capture
      /\ w'.wire.body = w.wire.body
      /\ w'.wire.headers = IF w.wire.status = 0 THEN w.wire.headers + 1
                                                ELSE w.wire.headers
      /\ w'.wire.status = IF w.wire.status = 0 THEN 200 ELSE w.wire.status
  BY <1>1, CloseFields
<1>3. w'.capture.status = w'.wire.status
  BY <1>1, <1>2 DEF InStep
<1>4. ~ bare => w'.log.status = w'.wire.status
  BY <1>1, <1>2 DEF InStep
<1>5. returned' \in BOOLEAN
  BY DEF Return
<1>6. OneHeader'
  <2>1. CASE w.wire.status = 0
    BY <1>1, <1>2, <2>1 DEF InStep, OneHeader
  <2>2. CASE w.wire.status # 0
    BY <1>2, <2>2 DEF IInv, OneHeader
  <2> QED
    BY <2>1, <2>2
<1>7. Transparent' /\ (plain \in [status : Nat, body : Nat])'
  <2>1. plain' = Plainly(200, 0)
    BY DEF Return
  <2>2. w'.wire.body = w.wire.body + 0
    BY <1>1, <1>2, WritersFields
  <2> QED
    BY <1>2, <2>1, <2>2, StaysTransparent
<1> QED
  BY <1>1, <1>2, <1>3, <1>4, <1>5, <1>6, <1>7 DEF IInv, TypeOK, LoggedIsSent, KeptIsPrefix

\* The writers agree at every step of every handler.
THEOREM WritersInductive == Spec => []IInv
<1>1. IInv /\ [Next]_vars => IInv'
  <2> SUFFICES ASSUME IInv, [Next]_vars PROVE IInv'
    OBVIOUS
  <2>1. CASE \E code \in Codes : CallWriteHeader(code)
    BY <2>1, HeaderIInv
  <2>2. CASE \E n \in 0..MaxWrite : CallWrite(n)
    BY <2>2, WriteIInv
  <2>3. CASE Return
    BY <2>3, ReturnIInv
  <2>4. CASE UNCHANGED vars
    BY <2>4 DEF vars, IInv, TypeOK, InStep, LoggedIsSent, OneHeader, KeptIsPrefix,
                Transparent
  <2> QED
    BY <2>1, <2>2, <2>3, <2>4 DEF Next
<1> QED
  BY InitIInv, <1>1, PTL DEF Spec

\* TraceErrors (trace_errors.go:55-94) puts the status on the span that the client
\* is sent, and of an error body exactly the first BodyCap bytes.
THEOREM SpanTellsTheTruth == Spec => [](TracedIsSent /\ KeptIsPrefix)
<1>1. IInv => TracedIsSent /\ KeptIsPrefix
  BY DEF IInv, TracedIsSent
<1> QED
  BY <1>1, WritersInductive, PTL

\* RequestLogger (logger.go:86-136) reports that status too, to every handler that
\* sets its status before its body; and the connection never sees two statuses.
THEOREM LogTellsTheTruth == Spec => [](LoggedIsSent /\ OneHeader)
<1>1. IInv => LoggedIsSent /\ OneHeader
  BY DEF IInv
<1> QED
  BY <1>1, WritersInductive, PTL

\* logger.go:41-46 and trace_errors.go:27-31 together: whatever a handler calls, in
\* whatever order, the connection is sent at most one status line.
THEOREM OneStatusLine == Spec => []OneHeader
<1>1. IInv => OneHeader
  BY DEF IInv
<1> QED
  BY <1>1, WritersInductive, PTL

\* The captured body (trace_errors.go:33-45) is at every step the start of what the
\* client was sent, and no longer than the limit.
THEOREM CaptureIsPrefix == Spec => []KeptIsPrefix
<1>1. IInv => KeptIsPrefix
  BY DEF IInv
<1> QED
  BY <1>1, WritersInductive, PTL

\* The wrappers of logger.go:32-46 and trace_errors.go:23-46 are transparent: the
\* status and the number of bytes that the client has been sent are at every step those
\* that net/http would have sent it for the same calls without them.
THEOREM WrappersTransparent == Spec => []Transparent
<1>1. IInv => Transparent
  BY DEF IInv
<1> QED
  BY <1>1, WritersInductive, PTL
=============================================================================
