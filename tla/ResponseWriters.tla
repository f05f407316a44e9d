--------------------------- MODULE ResponseWriters ---------------------------
(***************************************************************************)
(* The two http.ResponseWriter wrappers that a response passes on its way  *)
(* to the connection: responseWriter of the request logger (logger.go)     *)
(* inside errorCaptureWriter of TraceErrors (trace_errors.go).  The logger *)
(* overrides WriteHeader only; TraceErrors overrides Write as well.        *)
(*                                                                         *)
(* w.log, w.capture and w.wire are what the logger, TraceErrors and the    *)
(* client see of the status; a status of 0 on the wire is one not sent.    *)
(***************************************************************************)
EXTENDS Naturals

CONSTANT BodyCap   \* the bytes of an error body that TraceErrors keeps

ASSUME BodyCapAssumption == BodyCap \in Nat

Writers ==
  [log     : [status : Nat, wrote : BOOLEAN],
   capture : [status : Nat, wrote : BOOLEAN, kept : Nat],
   wire    : [status : Nat, body : Nat, headers : Nat]]

Least(a, b) == IF a <= b THEN a ELSE b

\* Mutant of FreshWriters: TraceErrors does not assume a status of 200.
FreshWithoutStatus ==
  [log     |-> [status |-> 200, wrote |-> FALSE],
   capture |-> [status |-> 0, wrote |-> FALSE, kept |-> 0],
   wire    |-> [status |-> 0, body |-> 0, headers |-> 0]]

\* Both wrappers start from the status 200 of a handler that never sets one.
FreshWriters ==
  [log     |-> [status |-> 200, wrote |-> FALSE],
   capture |-> [status |-> 200, wrote |-> FALSE, kept |-> 0],
   wire    |-> [status |-> 0, body |-> 0, headers |-> 0]]

\* net/http sends the first status it is given and ignores later ones.
WireWriteHeader(w, code) ==
  [w EXCEPT !.wire.status = IF w.wire.status = 0 THEN code ELSE w.wire.status,
            !.wire.headers = w.wire.headers + 1]

\* Mutant of CaptureWriteHeader: a second status is recorded and passed on.
CaptureEveryHeader(w, code) ==
  WireWriteHeader([w EXCEPT !.capture.status = code, !.capture.wrote = TRUE], code)

\* Mutant of CaptureWriteHeader: it asks the wrong wrapper whether there is a status.
CaptureWrongFlag(w, code) ==
  IF w.log.wrote THEN w
  ELSE WireWriteHeader([w EXCEPT !.capture.status = code, !.capture.wrote = TRUE], code)

CaptureWriteHeader(w, code) ==
  IF w.capture.wrote THEN w
  ELSE WireWriteHeader([w EXCEPT !.capture.status = code, !.capture.wrote = TRUE], code)

\* Mutant of WriteHeader: the logger records a status that comes too late.
WriteEveryHeader(w, code) ==
  CaptureWriteHeader([w EXCEPT !.log.status = code, !.log.wrote = TRUE], code)

\* WriteHeader as a handler calls it: on the outermost wrapper, the logger's.
WriteHeader(w, code) ==
  IF w.log.wrote THEN w
  ELSE CaptureWriteHeader([w EXCEPT !.log.status = code, !.log.wrote = TRUE], code)

\* net/http sends status 200 for a response that has none when it needs one.
WireDefault(w) == IF w.wire.status = 0 THEN WireWriteHeader(w, 200) ELSE w

WireWrite(w, n) ==
  [WireDefault(w) EXCEPT !.wire.body = w.wire.body + n]

\* Mutant of Write: the part of a Write beyond the limit is kept as well.
WriteUncut(w, n) ==
  WireWrite([w EXCEPT !.capture.status = IF w.capture.wrote THEN w.capture.status ELSE 200,
                      !.capture.wrote = TRUE,
                      !.capture.kept = IF w.capture.kept < BodyCap THEN w.capture.kept + n
                                                                   ELSE w.capture.kept], n)

\* Mutant of Write: it sets the status 200 and forgets to note that there is one.
WriteUnnoted(w, n) ==
  WireWrite([w EXCEPT !.capture.kept = Least(BodyCap, w.capture.kept + n)], n)

\* Write of n bytes: the logger's wrapper has none of its own, so TraceErrors is the
\* first to see it; it keeps at most BodyCap bytes and passes all of them on.
Write(w, n) ==
  WireWrite([w EXCEPT !.capture.status = IF w.capture.wrote THEN w.capture.status ELSE 200,
                      !.capture.wrote = TRUE,
                      !.capture.kept = Least(BodyCap, w.capture.kept + n)], n)

\* A handler returned: net/http sends what is missing.
CloseResponse(w) == WireDefault(w)
=============================================================================
