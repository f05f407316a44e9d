----------------------------- MODULE AnyHandler -----------------------------
(***************************************************************************)
(* The response wrappers under a handler that may call WriteHeader and     *)
(* Write in any order, any number of times: what TraceErrors and the       *)
(* request logger report, against what the client is sent, and what the    *)
(* client is sent, against what net/http would make of the same calls      *)
(* without the wrappers.                                                   *)
(***************************************************************************)
EXTENDS ResponseWriters

CONSTANTS
  Codes,     \* the statuses a handler may set, none of them informational
  MaxWrite,  \* the longest single Write
  MaxBody    \* bound: a response has no more bytes

ASSUME HandlerAssumption ==
  Codes \subseteq Nat \ 0..199 /\ MaxWrite \in Nat /\ MaxBody \in Nat

VARIABLES
  w,        \* the response as its writers see it
  bare,     \* the handler wrote before it set a status
  returned, \* the handler has returned
  plain     \* history: what net/http alone would have sent, a status and a length

vars == <<w, bare, returned, plain>>

Init ==
  /\ w = FreshWriters
  /\ bare = FALSE
  /\ returned = FALSE
  /\ plain = [status |-> 0, body |-> 0]

\* net/http sends the first status it is given, or 200 when it needs one before.
Plainly(code, n) ==
  [status |-> IF plain.status = 0 THEN code ELSE plain.status, body |-> plain.body + n]

CallWriteHeader(code) ==
  /\ ~ returned
  /\ w' = WriteHeader(w, code)
  /\ plain' = Plainly(code, 0)
  /\ UNCHANGED <<bare, returned>>

CallWrite(n) ==
  /\ ~ returned
  /\ w.wire.body + n <= MaxBody
  /\ w' = Write(w, n)
  /\ plain' = Plainly(200, n)
  /\ bare' = (bare \/ ~ w.log.wrote)
  /\ UNCHANGED returned

Return ==
  /\ ~ returned
  /\ w' = CloseResponse(w)
  /\ plain' = Plainly(200, 0)
  /\ returned' = TRUE
  /\ UNCHANGED bare

Next ==
  \/ \E code \in Codes : CallWriteHeader(code)
  \/ \E n \in 0..MaxWrite : CallWrite(n)
  \/ Return

Spec == Init /\ [][Next]_vars

-----------------------------------------------------------------------------
TypeOK ==
  /\ w \in Writers
  /\ bare \in BOOLEAN /\ returned \in BOOLEAN
  /\ plain \in [status : Nat, body : Nat]

\* TraceErrors annotates the span with the status the client gets, whatever the
\* handler does (trace_errors.go:13-15, 65).
TracedIsSent == returned => w.capture.status = w.wire.status

\* The request logger reports the status the client gets, unless the handler wrote
\* before it set a status: then its wrapper may believe a status that comes too late.
LoggedIsSent == returned /\ ~ bare => w.log.status = w.wire.status

\* The connection is given at most one status, so net/http never complains of a
\* superfluous WriteHeader call.
OneHeader == w.wire.headers <= 1

\* The error body on the span is the first BodyCap bytes of what was sent.
KeptIsPrefix == w.capture.kept = Least(BodyCap, w.wire.body)

\* The wrappers are transparent (logger.go:32-46, trace_errors.go:23-46): at every step
\* the client has been sent the status and the bytes that it would have been sent
\* without them, also by a handler that sets its status late or twice.
Transparent == plain = [status |-> w.wire.status, body |-> w.wire.body]

\* The writers agree at every step, not only at the end.
InStep ==
  /\ w.capture.wrote <=> w.wire.status # 0
  /\ w.capture.wrote => w.capture.status = w.wire.status
  /\ ~ w.capture.wrote => w.capture.status = 200 /\ w.wire.headers = 0
  /\ w.log.wrote => w.capture.wrote
  /\ ~ w.log.wrote => w.log.status = 200
  /\ ~ bare /\ w.log.wrote => w.log.status = w.wire.status
  /\ ~ bare /\ ~ w.log.wrote => ~ w.capture.wrote

IInv ==
  /\ TypeOK
  /\ InStep \/ returned
  /\ returned => w.capture.status = w.wire.status
  /\ LoggedIsSent
  /\ OneHeader
  /\ KeptIsPrefix
  /\ Transparent
=============================================================================
