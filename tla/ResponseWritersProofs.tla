------------------------ MODULE ResponseWritersProofs -----------------------
(***************************************************************************)
(* What WriteHeader, Write and the end of a response do to each field of   *)
(* the two wrappers and of the connection.                                 *)
(***************************************************************************)
EXTENDS ResponseWriters, TLAPS

LEMMA WritersFields ==
  ASSUME NEW x \in Writers
  PROVE  /\ x.log \in [status : Nat, wrote : BOOLEAN]
         /\ x.capture \in [status : Nat, wrote : BOOLEAN, kept : Nat]
         /\ x.wire \in [status : Nat, body : Nat, headers : Nat]
         /\ x.log.status \in Nat /\ x.capture.status \in Nat /\ x.capture.kept \in Nat
         /\ x.wire.status \in Nat /\ x.wire.body \in Nat /\ x.wire.headers \in Nat
  BY DEF Writers

LEMMA FreshFields ==
  /\ FreshWriters \in Writers
  /\ FreshWriters.log.status = 200 /\ ~ FreshWriters.log.wrote
  /\ FreshWriters.capture.status = 200 /\ ~ FreshWriters.capture.wrote
  /\ FreshWriters.capture.kept = 0
  /\ FreshWriters.wire.status = 0 /\ FreshWriters.wire.body = 0
  /\ FreshWriters.wire.headers = 0
  BY DEF FreshWriters, Writers

LEMMA LeastFacts ==
  ASSUME NEW a \in Nat, NEW b \in Nat, NEW n \in Nat
  PROVE  /\ Least(a, b) \in Nat
         /\ Least(a, 0) = 0
         /\ Least(a, Least(a, b) + n) = Least(a, b + n)
  BY DEF Least

LEMMA WireWriteHeaderFields ==
  ASSUME NEW x \in Writers, NEW code \in Nat
  PROVE  LET y == WireWriteHeader(x, code)
         IN /\ y \in Writers
            /\ y.log = x.log /\ y.capture = x.capture
            /\ y.wire.status = IF x.wire.status = 0 THEN code ELSE x.wire.status
            /\ y.wire.body = x.wire.body
            /\ y.wire.headers = x.wire.headers + 1
<1> DEFINE status == IF x.wire.status = 0 THEN code ELSE x.wire.status
           headers == x.wire.headers + 1
           z == [x EXCEPT !.wire.status = status, !.wire.headers = headers]
<1>1. status \in Nat /\ headers \in Nat
  BY WritersFields
<1>2. WireWriteHeader(x, code) = z
  BY DEF WireWriteHeader
<1> HIDE DEF status, headers
<1>3. /\ z \in Writers
      /\ z.log = x.log /\ z.capture = x.capture
      /\ z.wire.status = status /\ z.wire.body = x.wire.body /\ z.wire.headers = headers
  BY <1>1 DEF Writers
<1> QED
  BY <1>2, <1>3 DEF status, headers

LEMMA CaptureWriteHeaderFields ==
  ASSUME NEW x \in Writers, NEW code \in Nat, ~ x.capture.wrote
  PROVE  LET y == CaptureWriteHeader(x, code)
         IN /\ y \in Writers
            /\ y.log = x.log
            /\ y.capture.status = code /\ y.capture.wrote
            /\ y.capture.kept = x.capture.kept
            /\ y.wire.status = IF x.wire.status = 0 THEN code ELSE x.wire.status
            /\ y.wire.body = x.wire.body
            /\ y.wire.headers = x.wire.headers + 1
<1> DEFINE z == [x EXCEPT !.capture.status = code, !.capture.wrote = TRUE]
<1>1. /\ z \in Writers
      /\ z.log = x.log /\ z.wire = x.wire
      /\ z.capture.status = code /\ z.capture.wrote /\ z.capture.kept = x.capture.kept
  BY DEF Writers
<1>2. CaptureWriteHeader(x, code) = WireWriteHeader(z, code)
  BY DEF CaptureWriteHeader
<1> HIDE DEF z
<1>3. LET y == WireWriteHeader(z, code)
      IN /\ y \in Writers
         /\ y.log = z.log /\ y.capture = z.capture
         /\ y.wire.status = IF z.wire.status = 0 THEN code ELSE z.wire.status
         /\ y.wire.body = z.wire.body
         /\ y.wire.headers = z.wire.headers + 1
  BY <1>1, WireWriteHeaderFields
<1> QED
  BY <1>1, <1>2, <1>3

LEMMA WireDefaultFields ==
  ASSUME NEW x \in Writers
  PROVE  LET y == WireDefault(x)
         IN /\ y \in Writers
            /\ y.log = x.log /\ y.capture = x.capture
            /\ y.wire.status = IF x.wire.status = 0 THEN 200 ELSE x.wire.status
            /\ y.wire.body = x.wire.body
            /\ y.wire.headers = IF x.wire.status = 0 THEN x.wire.headers + 1
                                                     ELSE x.wire.headers
<1>1. CASE x.wire.status = 0
  <2> DEFINE y == WireWriteHeader(x, 200)
  <2>1. WireDefault(x) = y
    BY <1>1 DEF WireDefault
  <2>2. /\ y \in Writers
        /\ y.log = x.log /\ y.capture = x.capture
        /\ y.wire.status = IF x.wire.status = 0 THEN 200 ELSE x.wire.status
        /\ y.wire.body = x.wire.body
        /\ y.wire.headers = x.wire.headers + 1
    BY WireWriteHeaderFields
  <2> HIDE DEF y
  <2> QED
    BY <1>1, <2>1, <2>2
<1>2. CASE x.wire.status # 0
  BY <1>2 DEF WireDefault
<1> QED
  BY <1>1, <1>2

LEMMA WireWriteFields ==
  ASSUME NEW x \in Writers, NEW n \in Nat
  PROVE  LET y == WireWrite(x, n)
         IN /\ y \in Writers
            /\ y.log = x.log /\ y.capture = x.capture
            /\ y.wire.status = IF x.wire.status = 0 THEN 200 ELSE x.wire.status
            /\ y.wire.body = x.wire.body + n
            /\ y.wire.headers = IF x.wire.status = 0 THEN x.wire.headers + 1
                                                     ELSE x.wire.headers
<1> DEFINE z == WireDefault(x)
           body == x.wire.body + n
           y == [z EXCEPT !.wire.body = body]
<1>1. /\ z \in Writers
      /\ z.log = x.log /\ z.capture = x.capture
      /\ z.wire.status = IF x.wire.status = 0 THEN 200 ELSE x.wire.status
      /\ z.wire.headers = IF x.wire.status = 0 THEN x.wire.headers + 1
                                                ELSE x.wire.headers
  BY WireDefaultFields
<1>2. WireWrite(x, n) = y
  BY DEF WireWrite
<1>3. body \in Nat
  BY WritersFields
<1> HIDE DEF z, body
<1>4. /\ y \in Writers
      /\ y.log = z.log /\ y.capture = z.capture
      /\ y.wire.status = z.wire.status /\ y.wire.headers = z.wire.headers
      /\ y.wire.body = body
  BY <1>1, <1>3 DEF Writers
<1> HIDE DEF y
<1> QED
  BY <1>1, <1>2, <1>4 DEF body

\* Only the first WriteHeader counts; it reaches the layers that have no status yet.
LEMMA WriteHeaderFields ==
  ASSUME NEW x \in Writers, NEW code \in Nat
  PROVE  LET y == WriteHeader(x, code)
         IN /\ x.log.wrote => y = x
            /\ ~ x.log.wrote =>
                 /\ y \in Writers
                 /\ y.log.status = code /\ y.log.wrote
                 /\ x.capture.wrote => y.capture = x.capture /\ y.wire = x.wire
                 /\ ~ x.capture.wrote =>
                      /\ y.capture.status = code /\ y.capture.wrote
                      /\ y.capture.kept = x.capture.kept
                      /\ y.wire.status = IF x.wire.status = 0 THEN code ELSE x.wire.status
                      /\ y.wire.body = x.wire.body
                      /\ y.wire.headers = x.wire.headers + 1
<1> DEFINE z == [x EXCEPT !.log.status = code, !.log.wrote = TRUE]
<1>1. /\ z \in Writers
      /\ z.capture = x.capture /\ z.wire = x.wire
      /\ z.log.status = code /\ z.log.wrote
  BY DEF Writers
<1>2. CASE x.log.wrote
  BY <1>2 DEF WriteHeader
<1>3. CASE ~ x.log.wrote /\ x.capture.wrote
  <2>1. WriteHeader(x, code) = z
    BY <1>1, <1>3 DEF WriteHeader, CaptureWriteHeader
  <2> QED
    BY <1>1, <1>3, <2>1
<1>4. CASE ~ x.log.wrote /\ ~ x.capture.wrote
  <2>1. WriteHeader(x, code) = CaptureWriteHeader(z, code)
    BY <1>4 DEF WriteHeader
  <2> HIDE DEF z
  <2> QED
    BY <1>1, <1>4, <2>1, CaptureWriteHeaderFields
<1> QED
  BY <1>2, <1>3, <1>4

\* Write sets the status 200 where there is none, but not on the logger's wrapper.
LEMMA WriteFields ==
  ASSUME NEW x \in Writers, NEW n \in Nat
  PROVE  LET y == Write(x, n)
         IN /\ y \in Writers
            /\ y.log = x.log
            /\ y.capture.status = IF x.capture.wrote THEN x.capture.status ELSE 200
            /\ y.capture.wrote
            /\ y.capture.kept = Least(BodyCap, x.capture.kept + n)
            /\ y.wire.status = IF x.wire.status = 0 THEN 200 ELSE x.wire.status
            /\ y.wire.body = x.wire.body + n
            /\ y.wire.headers = IF x.wire.status = 0 THEN x.wire.headers + 1
                                                     ELSE x.wire.headers
<1> DEFINE kept == Least(BodyCap, x.capture.kept + n)
           code == IF x.capture.wrote THEN x.capture.status ELSE 200
           z == [x EXCEPT !.capture.status = code, !.capture.wrote = TRUE,
                          !.capture.kept = kept]
<1>1. kept \in Nat /\ code \in Nat
  BY BodyCapAssumption, WritersFields DEF Least
<1> HIDE DEF kept, code
<1>2. /\ z \in Writers
      /\ z.log = x.log /\ z.wire = x.wire
      /\ z.capture.status = code /\ z.capture.wrote /\ z.capture.kept = kept
  BY <1>1 DEF Writers
<1>3. Write(x, n) = WireWrite(z, n)
  BY DEF Write, kept, code
<1> HIDE DEF z
<1> DEFINE y == WireWrite(z, n)
<1>4. /\ y \in Writers
      /\ y.log = z.log /\ y.capture = z.capture
      /\ y.wire.status = IF z.wire.status = 0 THEN 200 ELSE z.wire.status
      /\ y.wire.body = z.wire.body + n
      /\ y.wire.headers = IF z.wire.status = 0 THEN z.wire.headers + 1
                                               ELSE z.wire.headers
  <2>1. z \in Writers /\ n \in Nat
    BY <1>2
  <2> QED
    BY <2>1, WireWriteFields
<1>5. Write(x, n) = y
  BY <1>3
<1> HIDE DEF y
<1> QED
  BY <1>2, <1>4, <1>5 DEF kept, code

LEMMA CloseFields ==
  ASSUME NEW x \in Writers
  PROVE  LET y == CloseResponse(x)
         IN /\ y \in Writers
            /\ y.log = x.log /\ y.capture = x.capture
            /\ y.wire.status = IF x.wire.status = 0 THEN 200 ELSE x.wire.status
            /\ y.wire.body = x.wire.body
            /\ y.wire.headers = IF x.wire.status = 0 THEN x.wire.headers + 1
                                                     ELSE x.wire.headers
<1> DEFINE y == WireDefault(x)
<1>1. CloseResponse(x) = y
  BY DEF CloseResponse
<1>2. /\ y \in Writers
      /\ y.log = x.log /\ y.capture = x.capture
      /\ y.wire.status = IF x.wire.status = 0 THEN 200 ELSE x.wire.status
      /\ y.wire.body = x.wire.body
      /\ y.wire.headers = IF x.wire.status = 0 THEN x.wire.headers + 1
                                               ELSE x.wire.headers
  BY WireDefaultFields
<1> HIDE DEF y
<1> QED
  BY <1>1, <1>2
=============================================================================
