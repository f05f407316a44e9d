---------------------------- MODULE RequestChain ----------------------------
(***************************************************************************)
(* One request through the middleware chain that NewRouter builds, from    *)
(* the outside in and back out again:                                      *)
(*                                                                         *)
(*   otelchi > TraceErrors > RequestID, RealIP > RequestLogger > Recoverer *)
(*     > SecurityHeaders > cors > chi's routing                            *)
(*     > the group's OpenAPI validator > JWT > generated binding > handler *)
(*                                                                         *)
(* The way down is the stages "cors" to "handler", where most may answer    *)
(* themselves; the way out is "recover", "log", "annotate", "close".       *)
(* Requests share nothing that this chain writes, so a behaviour is one    *)
(* request, under one of the configurations.                               *)
(***************************************************************************)
EXTENDS ResponseWriters, Sequences

CONSTANTS
  MaxLength,   \* bound: a response body is no longer
  Requests     \* the requests that may come

Routes == {"health", "listUsers", "getUser", "createUser",
           "success", "failure", "latency", "heavy", "unknown", "wrongMethod"}
UserRoutes == {"listUsers", "getUser", "createUser"}

\* What of a request decides its way through the chain.
AnyRequest ==
  [route     : Routes,
   preflight : BOOLEAN,                          \* a CORS preflight
   authz     : {"none", "malformed", "bearer"},  \* the Authorization header
   token     : {"valid", "invalid"},             \* the bearer token, if any
   keys      : BOOLEAN,                          \* the JWKS cache has the key set
   params    : {"good", "offSchema", "unbindable"},
   uuid      : BOOLEAN,                          \* user_id parses as a UUID
   panics    : {"no", "early", "late"},          \* before or after the status is set
   upgrade   : BOOLEAN,                          \* it says Connection: Upgrade
   length    : 1..MaxLength]                     \* of the body it is answered with

ASSUME RequestAssumption == MaxLength \in Nat \ {0} /\ Requests \subseteq AnyRequest

\* What stands in for the request before it has come.
NoRequest ==
  [route |-> "unknown", preflight |-> FALSE, authz |-> "none", token |-> "invalid",
   keys |-> TRUE, params |-> "good", uuid |-> TRUE, panics |-> "no",
   upgrade |-> FALSE, length |-> 1]

VARIABLES
  cfg,      \* OIDC_ENABLED, debug logging, an OTLP endpoint
  req,      \* the request being served
  stage,    \* where it is in the chain
  answer,   \* the response that some stage has decided on
  w,        \* the response as the writers have seen it
  span,     \* the server span
  claims,   \* the request context carries a validated token
  handled,  \* the handler was reached
  lines     \* the log lines of this request

vars == <<cfg, req, stage, answer, w, span, claims, handled, lines>>

NoSpan == [on |-> FALSE, code |-> 0, status |-> "unset", event |-> FALSE,
           kind |-> "none", body |-> 0]

Init ==
  /\ cfg \in [oidc : BOOLEAN, debug : BOOLEAN, tracing : BOOLEAN]
  /\ req = NoRequest
  /\ stage = "idle"
  /\ answer = [code |-> 0, length |-> 0]
  /\ w = FreshWriters
  /\ span = NoSpan
  /\ claims = FALSE
  /\ handled = FALSE
  /\ lines = << >>

\* A log line; it carries the trace id when it is logged with the context of a span.
Line(what, level, code, ctx) ==
  [what |-> what, level |-> level, code |-> code, traced |-> ctx /\ span.on]

Level(code) == IF code >= 500 THEN "error" ELSE IF code >= 400 THEN "warn" ELSE "info"

\* A stage answers the request itself; what is inside it is not called.
Answer(code, length) ==
  /\ answer' = [code |-> code, length |-> length]
  /\ stage' = "respond"

Pass(next) == stage' = next /\ UNCHANGED answer

-----------------------------------------------------------------------------
\* The way down.

\* A request arrives: otelchi starts a span, unless it is for a health probe, and
\* TraceErrors and RequestLogger wrap the writer.  The middlewares that only set a
\* header or a context value (RequestID, RealIP, SecurityHeaders) change nothing here.
Receive(r) ==
  /\ stage = "idle"
  /\ req' = r
  /\ span' = [NoSpan EXCEPT !.on = cfg.tracing /\ r.route # "health"]
  /\ stage' = "cors"
  /\ UNCHANGED <<cfg, answer, w, claims, handled, lines>>

\* go-chi/cors answers a preflight itself.
Cors ==
  /\ stage = "cors"
  /\ IF req.preflight THEN Answer(200, 0) ELSE Pass("route")
  /\ UNCHANGED <<cfg, req, w, span, claims, handled, lines>>

\* chi: the health and users groups have a validator, the test endpoints do not.
Route ==
  /\ stage = "route"
  /\ CASE req.route = "unknown" -> Answer(404, req.length)
       [] req.route = "wrongMethod" -> Answer(405, 0)
       [] req.route \in UserRoutes \cup {"health"} -> Pass("validate")
       [] OTHER -> Pass("handler")
  /\ UNCHANGED <<cfg, req, w, span, claims, handled, lines>>

\* In docs/users.openapi.yaml GET /users alone has a security requirement.  The
\* validator calls the authentication function for it, which exists with OIDC only
\* and which asks for a header, no more.
SecurityMet ==
  req.route = "listUsers" => cfg.oidc /\ req.authz # "none"

\* Mutant of Validate: JWT runs only where the document asks for credentials.
ValidateByDocument ==
  /\ stage = "validate"
  /\ IF ~ SecurityMet THEN Answer(401, req.length)
     ELSE IF req.route # "health" /\ req.params = "offSchema" THEN Answer(400, req.length)
     ELSE IF req.route = "listUsers" /\ cfg.oidc THEN Pass("jwt")
     ELSE Pass("bind")
  /\ UNCHANGED <<cfg, req, w, span, claims, handled, lines>>

\* The OpenAPI validator: security first, then parameters and body.
Validate ==
  /\ stage = "validate"
  /\ IF ~ SecurityMet THEN Answer(401, req.length)
     ELSE IF req.route # "health" /\ req.params = "offSchema" THEN Answer(400, req.length)
     ELSE IF req.route \in UserRoutes /\ cfg.oidc THEN Pass("jwt")
     ELSE Pass("bind")
  /\ UNCHANGED <<cfg, req, w, span, claims, handled, lines>>

\* JWTAuth.Middleware, on every route of the users group.
Jwt ==
  /\ stage = "jwt"
  /\ \/ /\ req.authz # "bearer"
        /\ Answer(401, req.length)
        /\ UNCHANGED <<claims, lines>>
     \/ /\ req.authz = "bearer" /\ ~ req.keys
        /\ Answer(500, req.length)
        /\ lines' = Append(lines, Line("failed to get JWKS", "error", 0, FALSE))
        /\ UNCHANGED claims
     \/ /\ req.authz = "bearer" /\ req.keys /\ req.token = "invalid"
        /\ Answer(401, req.length)
        /\ UNCHANGED <<claims, lines>>
     \/ /\ req.authz = "bearer" /\ req.keys /\ req.token = "valid"
        /\ claims' = TRUE
        /\ Pass("bind")
        /\ UNCHANGED lines
  /\ UNCHANGED <<cfg, req, w, span, handled>>

\* The generated code binds parameters and body to Go types; what the schema admits
\* may still not fit them.
Bind ==
  /\ stage = "bind"
  /\ IF req.route \in UserRoutes /\ req.params = "unbindable"
     THEN Answer(400, req.length)
     ELSE Pass("handler")
  /\ UNCHANGED <<cfg, req, w, span, claims, handled, lines>>

\* What the handlers answer.  The database is disabled.
HandlerCode ==
  CASE req.route \in {"health", "success", "latency", "heavy"} -> 200
    [] req.route = "getUser" -> IF req.uuid THEN 200 ELSE 400
    [] req.route \in {"listUsers", "createUser", "failure"} -> 500

Handle ==
  /\ stage = "handler"
  /\ handled' = TRUE
  /\ IF req.panics = "early" THEN Pass("recover") ELSE Answer(HandlerCode, req.length)
  /\ UNCHANGED <<cfg, req, w, span, claims, lines>>

\* Mutant of SendStatus: a 200 is left to the first byte of the body.
SendStatusIfNotOk ==
  /\ stage = "respond"
  /\ w' = IF answer.code = 200 THEN w ELSE WriteHeader(w, answer.code)
  /\ stage' = IF handled /\ req.panics = "late" THEN "recover" ELSE "body"
  /\ UNCHANGED <<cfg, req, answer, span, claims, handled, lines>>

\* Every answer sets its status first.
SendStatus ==
  /\ stage = "respond"
  /\ w' = WriteHeader(w, answer.code)
  /\ stage' = IF handled /\ req.panics = "late" THEN "recover" ELSE "body"
  /\ UNCHANGED <<cfg, req, answer, span, claims, handled, lines>>

SendBody ==
  /\ stage = "body"
  /\ w' = IF answer.length = 0 THEN w ELSE Write(w, answer.length)
  /\ stage' = "log"
  /\ UNCHANGED <<cfg, req, answer, span, claims, handled, lines>>

-----------------------------------------------------------------------------
\* The way out.

\* Mutant of Recover: the panic is swallowed without an answer.
RecoverSilently ==
  /\ stage = "recover"
  /\ stage' = "log"
  /\ UNCHANGED <<cfg, req, answer, w, span, claims, handled, lines>>

\* chi's Recoverer turns a panic into a 500, if the status is still open; the answer to a
\* request for an upgrade it leaves as it is.
Recover ==
  /\ stage = "recover"
  /\ w' = IF req.upgrade THEN w ELSE WriteHeader(w, 500)
  /\ stage' = "log"
  /\ UNCHANGED <<cfg, req, answer, span, claims, handled, lines>>

\* RequestLogger: in debug mode it prints to the terminal instead of the log.
LogRequest ==
  /\ stage = "log"
  /\ span' = IF span.on THEN [span EXCEPT !.code = w.log.status] ELSE span
  /\ lines' = IF cfg.debug THEN lines
              ELSE Append(lines, Line("HTTP request", Level(w.log.status), w.log.status, TRUE))
  /\ stage' = "annotate"
  /\ UNCHANGED <<cfg, req, answer, w, claims, handled>>

\* Mutant of Annotate: a 400 counts as a good response.
AnnotateAbove ==
  /\ stage = "annotate"
  /\ LET code == w.capture.status
         failed == code > 400
     IN IF ~ span.on THEN UNCHANGED <<span, lines>>
        ELSE /\ span' = [span EXCEPT
                  !.code = code,
                  !.event = failed,
                  !.body = IF failed THEN w.capture.kept ELSE 0,
                  !.status = IF code >= 500 THEN "error" ELSE span.status,
                  !.kind = IF failed /\ code < 500 THEN "client" ELSE span.kind]
             /\ lines' = IF failed
                  THEN Append(lines, Line("http error response", Level(code), code, TRUE))
                  ELSE lines
  /\ stage' = "close"
  /\ UNCHANGED <<cfg, req, answer, w, claims, handled>>

\* Mutant of Annotate: the body of a good response goes on the span too.
AnnotateEveryBody ==
  /\ stage = "annotate"
  /\ LET code == w.capture.status
         failed == code >= 400
     IN IF ~ span.on THEN UNCHANGED <<span, lines>>
        ELSE /\ span' = [span EXCEPT
                  !.code = code,
                  !.event = failed,
                  !.body = w.capture.kept,
                  !.status = IF code >= 500 THEN "error" ELSE span.status,
                  !.kind = IF failed /\ code < 500 THEN "client" ELSE span.kind]
             /\ lines' = IF failed
                  THEN Append(lines, Line("http error response", Level(code), code, TRUE))
                  ELSE lines
  /\ stage' = "close"
  /\ UNCHANGED <<cfg, req, answer, w, claims, handled>>

\* TraceErrors: nothing without a span; the status always; the error from 400 up.
Annotate ==
  /\ stage = "annotate"
  /\ LET code == w.capture.status
         failed == code >= 400
     IN IF ~ span.on THEN UNCHANGED <<span, lines>>
        ELSE /\ span' = [span EXCEPT
                  !.code = code,
                  !.event = failed,
                  !.body = IF failed THEN w.capture.kept ELSE 0,
                  !.status = IF code >= 500 THEN "error" ELSE span.status,
                  !.kind = IF failed /\ code < 500 THEN "client" ELSE span.kind]
             /\ lines' = IF failed
                  THEN Append(lines, Line("http error response", Level(code), code, TRUE))
                  ELSE lines
  /\ stage' = "close"
  /\ UNCHANGED <<cfg, req, answer, w, claims, handled>>

\* The server span ends and net/http completes the response.
Close ==
  /\ stage = "close"
  /\ w' = CloseResponse(w)
  /\ stage' = "done"
  /\ UNCHANGED <<cfg, req, answer, span, claims, handled, lines>>

Next ==
  \/ \E r \in Requests : Receive(r)
  \/ Cors \/ Route \/ Validate \/ Jwt \/ Bind \/ Handle
  \/ SendStatus \/ SendBody
  \/ Recover \/ LogRequest \/ Annotate \/ Close

Spec == Init /\ [][Next]_vars

-----------------------------------------------------------------------------
\* Properties.

Stages == {"idle", "cors", "route", "validate", "jwt", "bind", "handler", "respond",
           "body", "recover", "log", "annotate", "close", "done"}
AnswerCodes == {200, 400, 401, 404, 405, 500}

SpanStates ==
  [on : BOOLEAN, code : Nat, status : {"unset", "error"}, event : BOOLEAN,
   kind : {"none", "client"}, body : Nat]
LineSet ==
  [what   : {"HTTP request", "http error response", "failed to get JWKS"},
   level  : {"info", "warn", "error"},
   code   : Nat,
   traced : BOOLEAN]

TypeOK ==
  /\ cfg \in [oidc : BOOLEAN, debug : BOOLEAN, tracing : BOOLEAN]
  /\ req \in AnyRequest
  /\ stage \in Stages
  /\ answer \in [code : AnswerCodes \cup {0}, length : 0..MaxLength]
  /\ w \in Writers
  /\ span \in SpanStates
  /\ claims \in BOOLEAN
  /\ handled \in BOOLEAN
  /\ lines \in Seq(LineSet)

Logged(what) == {i \in 1..Len(lines) : lines[i].what = what}

\* The status that the client gets: a response without one is completed with a 200.
FinalStatus == CloseResponse(w).wire.status

\* The error response is in the log, with the trace id of its request.
ErrorLogged ==
  \E i \in Logged("http error response") :
    lines[i].code = FinalStatus /\ lines[i].traced

\* The request is in the log once, with the status the client got; in debug mode it is
\* printed instead.
RequestLogged ==
  IF cfg.debug
  THEN Logged("HTTP request") = {}
  ELSE \E i \in 1..Len(lines) :
         Logged("HTTP request") = {i} /\ lines[i].code = FinalStatus

\* Every request is logged, exactly once, and the log line, the span attribute and the
\* client agree on the status, whichever stage answered and wherever the handler
\* panicked (logger.go:93-133, trace_errors.go:65; logged as far as LOG_LEVEL lets lines
\* of the status's level through).
StatusAgree ==
  stage = "done" =>
    /\ RequestLogged
    /\ span.on => span.code = w.wire.status

\* trace_errors.go:48-51: each error response of a traced request is on its span and
\* in the log, also when a middleware before the handler made it, and nothing else is.
\* Client errors do not make the span an error, server errors do.  ("In the log" again
\* as far as LOG_LEVEL admits warnings and errors.)
ErrorsVisible ==
  stage = "done" /\ span.on =>
    /\ span.event <=> w.wire.status >= 400
    /\ span.status = "error" <=> w.wire.status >= 500
    /\ span.kind = "client" <=> w.wire.status \in 400..499
    /\ ErrorLogged <=> w.wire.status >= 400
    /\ span.event => span.body = Least(BodyCap, w.wire.body)

\* A panic before the status is set is answered with a 500 that the trace shows, unless
\* the request asked for an upgrade; a later one leaves the status alone, and exactly one
\* status reaches the connection (main_router.go:41).
PanicsAnswered ==
  /\ w.wire.headers <= 1
  /\ stage = "done" => w.wire.headers = 1
  /\ stage = "done" /\ handled =>
       /\ req.panics = "early" /\ ~ req.upgrade =>
            w.wire.status = 500 /\ (span.on => span.status = "error")
       /\ req.panics # "early" => w.wire.status = HandlerCode

\* main_router.go:60: with OIDC on, no handler of the users API runs for a request
\* without a token that the key set validates.
UsersProtected ==
  handled /\ cfg.oidc /\ req.route \in UserRoutes =>
    req.authz = "bearer" /\ req.keys /\ req.token = "valid" /\ claims

\* logging.go:10-12: every log line emitted under a span carries its trace id.
LinesCorrelate == span.on => \A i \in 1..Len(lines) : lines[i].traced

\* main_router.go:60, "protected with JWT auth if enabled": without OIDC the users
\* API asks for no credentials.
OpenWithoutOidc ==
  stage = "done" /\ ~ cfg.oidc /\ req.route \in UserRoutes => w.wire.status # 401

-----------------------------------------------------------------------------
\* The inductive invariant behind the first four, in parts.

\* Where nothing has been answered yet, where an answer has left, and the way out.
Open == {"idle", "cors", "route", "validate", "jwt", "bind", "handler", "respond"}
Sent == {"body", "log", "annotate", "close", "done"}
Out == {"log", "annotate", "close", "done"}

\* Both wrappers have the status that the client gets, which is sent at most once.
InStep ==
  /\ w.log.status = FinalStatus /\ w.capture.status = FinalStatus
  /\ FinalStatus \in AnswerCodes
  /\ w.wire.headers = IF w.wire.status = 0 THEN 0 ELSE 1
  /\ w.capture.kept = Least(BodyCap, w.wire.body)

\* They are, and it has been sent.
Synced == InStep /\ w.log.wrote /\ w.capture.wrote /\ w.wire.status # 0

Answered ==
  /\ stage \in Open => w = FreshWriters
  /\ stage = "body" => Synced
  /\ stage \in Out => InStep
  /\ stage = "done" => w.wire.status # 0
  /\ stage = "recover" => IF req.panics = "early" THEN w = FreshWriters ELSE Synced
  /\ stage = "respond" => answer.code \in AnswerCodes
  /\ stage \in {"body", "recover"} => w.wire.body = 0

\* Behind the guards there are only the requests that they let pass.
Guarded ==
  /\ stage \in {"validate", "jwt", "bind", "handler"} \/ handled =>
       req.route \notin {"unknown", "wrongMethod"}
  /\ stage = "jwt" => cfg.oidc /\ req.route \in UserRoutes
  /\ stage \in {"bind", "handler"} \/ handled =>
       (cfg.oidc /\ req.route \in UserRoutes =>
          req.authz = "bearer" /\ req.keys /\ req.token = "valid" /\ claims)

\* What the client gets of a handler: its answer, unless it panicked first.
HandledCode ==
  CASE req.panics # "early" -> HandlerCode
    [] req.panics = "early" /\ req.upgrade -> 200
    [] req.panics = "early" /\ ~ req.upgrade -> 500

HandlerHeard ==
  /\ handled => stage \in Sent \cup {"respond", "recover"}
  /\ stage = "recover" => handled /\ req.panics # "no"
  /\ handled /\ stage = "respond" => answer.code = HandlerCode /\ req.panics # "early"
  /\ handled /\ stage = "recover" /\ req.panics = "late" => w.wire.status = HandlerCode
  /\ handled /\ stage = "body" => req.panics # "early"
  /\ handled /\ stage \in Sent => FinalStatus = HandledCode

\* What TraceErrors leaves on the span and in the log.
Annotated ==
  span.on =>
    /\ span.code = FinalStatus
    /\ span.event <=> FinalStatus >= 400
    /\ span.status = "error" <=> FinalStatus >= 500
    /\ span.kind = "client" <=> FinalStatus \in 400..499
    /\ ErrorLogged <=> FinalStatus >= 400
    /\ span.body = IF span.event THEN Least(BodyCap, w.wire.body) ELSE 0

\* What the logger and TraceErrors have reported so far.
Reported ==
  /\ stage \notin {"annotate", "close", "done"} =>
       \A i \in 1..Len(lines) : lines[i].what = "failed to get JWKS"
  /\ stage = "annotate" => Logged("http error response") = {}
  /\ stage \notin {"close", "done"} =>
       span.status = "unset" /\ span.kind = "none" /\ span.body = 0 /\ ~ span.event
  /\ stage \in {"annotate", "close", "done"} => RequestLogged
  /\ stage \in {"close", "done"} => Annotated

IInv == TypeOK /\ Answered /\ Guarded /\ HandlerHeard /\ Reported

-----------------------------------------------------------------------------
\* To its writers the chain is one of the handlers of AnyHandler: one that sets a status
\* before it writes, and so one whose status the request logger gets right.
Handler ==
  INSTANCE AnyHandler WITH
    Codes <- AnswerCodes, MaxWrite <- MaxLength, MaxBody <- MaxLength,
    bare <- FALSE, returned <- (stage = "done"),
    plain <- [status |-> w.wire.status, body |-> w.wire.body]

\* Whatever middleware answers a request, and wherever it panics, the calls that reach
\* the writers are a status, at most one body, perhaps a late status, and the return
\* (logger.go:41-46, trace_errors.go:27-45); none of them is lost or changed.
IsAHandler == Handler!Spec
=============================================================================
