------------------------- MODULE RequestChainProofs -------------------------
(***************************************************************************)
(* For every set of requests, every capture limit and every length of      *)
(* body: the chain reports each response as it was sent, and lets nothing  *)
(* past the JWT middleware that it should not.                             *)
(***************************************************************************)
EXTENDS RequestChain, ResponseWritersProofs, SequenceTheorems

\* The status that net/http ends a response with.
LEMMA FinalOf ==
  ASSUME NEW x \in Writers
  PROVE  CloseResponse(x).wire.status = IF x.wire.status = 0 THEN 200 ELSE x.wire.status
  BY CloseFields

\* Of an open response every layer says 200.
LEMMA FreshInStep == w = FreshWriters => InStep /\ FinalStatus = 200
<1> SUFFICES ASSUME w = FreshWriters PROVE InStep /\ FinalStatus = 200
  OBVIOUS
<1>1. FinalStatus = 200
  BY FreshFields, FinalOf DEF FinalStatus
<1>2. Least(BodyCap, 0) = 0
  BY BodyCapAssumption, LeastFacts
<1> QED
  BY <1>1, <1>2, FreshFields DEF InStep, AnswerCodes

LEMMA InitIInv == Init => IInv
<1> SUFFICES ASSUME Init PROVE IInv
  OBVIOUS
<1> USE DEF Init
<1>1. TypeOK
  <2>1. req \in AnyRequest
    BY RequestAssumption DEF NoRequest, AnyRequest, Routes
  <2>2. answer \in [code : AnswerCodes \cup {0}, length : 0..MaxLength]
    BY RequestAssumption
  <2>3. span \in SpanStates
    BY DEF SpanStates, NoSpan
  <2>4. lines \in Seq(LineSet)
    OBVIOUS
  <2> QED
    BY <2>1, <2>2, <2>3, <2>4, FreshFields DEF TypeOK, Stages
<1>2. Answered
  BY DEF Answered, Open, Out
<1>3. Guarded /\ HandlerHeard
  BY DEF Guarded, HandlerHeard, Sent
<1>4. Reported
  BY DEF Reported, Logged, NoSpan
<1> QED
  BY <1>1, <1>2, <1>3, <1>4 DEF IInv

\* The steps on the way down leave the writers alone, and only the log of a missing
\* key set is added to.
Quiet == lines' = lines \/ lines' = Append(lines, Line("failed to get JWKS", "error", 0, FALSE))

LEMMA UpToNext ==
  ASSUME NEW n \in Nat, NEW i \in 1..(n + 1)
  PROVE  i \in 1..n \/ i = n + 1
  OBVIOUS

\* Appending a line keeps the lines before it.
LEMMA Appending ==
  ASSUME NEW s \in Seq(LineSet), NEW l \in LineSet
  PROVE  /\ Append(s, l) \in Seq(LineSet)
         /\ Len(Append(s, l)) = Len(s) + 1
         /\ Len(s) \in Nat
         /\ \A i \in 1..Len(s) : Append(s, l)[i] = s[i]
         /\ Append(s, l)[Len(s) + 1] = l
  BY AppendProperties

LEMMA QuietLines ==
  ASSUME lines \in Seq(LineSet), Quiet,
         \A i \in 1..Len(lines) : lines[i].what = "failed to get JWKS"
  PROVE  /\ lines' \in Seq(LineSet)
         /\ \A i \in 1..Len(lines') : lines'[i].what = "failed to get JWKS"
<1>1. CASE lines' = lines
  BY <1>1
<1>2. CASE lines' = Append(lines, Line("failed to get JWKS", "error", 0, FALSE))
  <2> DEFINE l == Line("failed to get JWKS", "error", 0, FALSE)
  <2>1. l \in LineSet /\ l.what = "failed to get JWKS"
    BY DEF Line, LineSet
  <2> HIDE DEF l
  <2>2. /\ lines' \in Seq(LineSet)
        /\ Len(lines') = Len(lines) + 1 /\ Len(lines) \in Nat
        /\ \A i \in 1..Len(lines) : lines'[i] = lines[i]
        /\ lines'[Len(lines) + 1] = l
    BY <1>2, <2>1, Appending DEF l
  <2>3. ASSUME NEW i \in 1..Len(lines')
        PROVE  lines'[i].what = "failed to get JWKS"
    <3>1. i \in 1..Len(lines) \/ i = Len(lines) + 1
      BY <2>2, UpToNext
    <3> QED
      BY <2>1, <2>2, <3>1
  <2> QED
    BY <2>2, <2>3
<1> QED
  BY <1>1, <1>2 DEF Quiet

\* What an appended line does to the lines of each kind.
LEMMA LoggedAfter ==
  ASSUME NEW l \in LineSet, NEW what, lines \in Seq(LineSet), lines' = Append(lines, l)
  PROVE  /\ lines' \in Seq(LineSet)
         /\ Len(lines') = Len(lines) + 1 /\ Len(lines) \in Nat
         /\ lines'[Len(lines) + 1] = l
         /\ \A i \in 1..Len(lines) : lines'[i] = lines[i]
         /\ l.what = what => Logged(what)' = Logged(what) \cup {Len(lines) + 1}
         /\ l.what # what => Logged(what)' = Logged(what)
<1>1. /\ lines' \in Seq(LineSet)
      /\ Len(lines') = Len(lines) + 1 /\ Len(lines) \in Nat
      /\ \A i \in 1..Len(lines) : lines'[i] = lines[i]
      /\ lines'[Len(lines) + 1] = l
  BY Appending
<1>2. 1..Len(lines') = (1..Len(lines)) \cup {Len(lines) + 1}
  BY <1>1
<1>3. Len(lines) + 1 \notin 1..Len(lines)
  BY <1>1
<1>4. Logged(what)' = {i \in 1..Len(lines') : lines'[i].what = what}
  BY DEF Logged
<1>5. CASE l.what = what
  BY <1>1, <1>2, <1>4, <1>5 DEF Logged
<1>6. CASE l.what # what
  BY <1>1, <1>2, <1>4, <1>6 DEF Logged
<1> QED
  BY <1>1, <1>5, <1>6

LEMMA UpTo ==
  ASSUME NEW n \in Nat, NEW i \in 1..n
  PROVE  i \in 1..(n + 1)
  OBVIOUS

\* A request that has been logged stays logged when a line of another kind comes.
LEMMA StaysLogged ==
  ASSUME cfg' = cfg, FinalStatus' = FinalStatus, lines \in Seq(LineSet),
         NEW l \in LineSet, l.what # "HTTP request", lines' = Append(lines, l),
         RequestLogged
  PROVE  RequestLogged'
<1>1. /\ Len(lines') = Len(lines) + 1 /\ Len(lines) \in Nat
      /\ \A i \in 1..Len(lines) : lines'[i] = lines[i]
      /\ Logged("HTTP request")' = Logged("HTTP request")
  BY LoggedAfter
<1>2. CASE cfg.debug
  BY <1>1, <1>2 DEF RequestLogged
<1>3. CASE ~ cfg.debug
  <2>1. PICK i \in 1..Len(lines) :
          Logged("HTTP request") = {i} /\ lines[i].code = FinalStatus
    BY <1>3 DEF RequestLogged
  <2>2. i \in 1..Len(lines')
    BY <1>1, UpTo
  <2>3. lines'[i].code = FinalStatus'
    BY <1>1, <2>1
  <2> QED
    BY <1>1, <1>3, <2>1, <2>2, <2>3 DEF RequestLogged
<1> QED
  BY <1>2, <1>3

LEMMA SameLogged ==
  ASSUME UNCHANGED <<cfg, lines>>, FinalStatus' = FinalStatus
  PROVE  RequestLogged' <=> RequestLogged
<1>1. /\ cfg' = cfg /\ lines' = lines
      /\ Logged("HTTP request")' = Logged("HTTP request")
  BY DEF Logged
<1>2. ASSUME RequestLogged PROVE RequestLogged'
  BY <1>1, <1>2 DEF RequestLogged
<1>3. ASSUME RequestLogged' PROVE RequestLogged
  BY <1>1, <1>3 DEF RequestLogged
<1> QED
  BY <1>2, <1>3

LEMMA ReceiveIInv ==
  ASSUME IInv, NEW r \in Requests, Receive(r)
  PROVE  IInv'
<1> USE DEF IInv, Receive
<1>1. r \in AnyRequest
  BY RequestAssumption
<1>2. span' \in SpanStates /\ span'.status = "unset" /\ span'.kind = "none"
      /\ span'.body = 0 /\ ~ span'.event
  <2>1. (cfg.tracing /\ r.route # "health") \in BOOLEAN
    BY DEF TypeOK
  <2> QED
    BY <2>1 DEF NoSpan, SpanStates
<1>3. TypeOK'
  BY <1>1, <1>2 DEF TypeOK, Stages
<1>4. ~ handled /\ w = FreshWriters
  BY DEF HandlerHeard, Answered, Open, Sent
<1>5. Answered' /\ Guarded' /\ HandlerHeard'
  BY <1>4 DEF Answered, Guarded, HandlerHeard, Open, Sent, Out
<1>6. Reported'
  BY <1>2 DEF Reported
<1> QED
  BY <1>3, <1>5, <1>6

\* A step on the way down that keeps the request and the span.
LEMMA DownIInv ==
  ASSUME IInv,
         stage \in Open, stage' \in Open, stage # "respond",
         UNCHANGED <<cfg, req, w, span>>, Quiet,
         answer' \in [code : AnswerCodes \cup {0}, length : 0..MaxLength],
         stage' = "respond" => answer'.code \in AnswerCodes,
         claims' \in BOOLEAN, handled' \in BOOLEAN,
         handled' => stage' = "respond" /\ answer'.code = HandlerCode /\ req.panics # "early",
         Guarded'
  PROVE  IInv'
<1>1. /\ lines' \in Seq(LineSet)
      /\ \A i \in 1..Len(lines') : lines'[i].what = "failed to get JWKS"
  <2>1. \A i \in 1..Len(lines) : lines[i].what = "failed to get JWKS"
    BY DEF IInv, Reported, Open
  <2>2. lines \in Seq(LineSet)
    BY DEF IInv, TypeOK
  <2> QED
    BY <2>1, <2>2, QuietLines
<1>2. TypeOK'
  BY <1>1 DEF IInv, TypeOK, Open, Stages
<1>3. Answered'
  BY DEF IInv, Answered, Open, Out
<1>4. HandlerCode' = HandlerCode
  BY DEF HandlerCode
<1>5. HandlerHeard'
  BY <1>4 DEF IInv, HandlerHeard, Open, Sent
<1>6. Reported'
  BY <1>1 DEF IInv, Reported, Open
<1> QED
  BY <1>2, <1>3, <1>5, <1>6 DEF IInv

\* Nobody has handled a request that is on its way down.
LEMMA NotHandledYet ==
  ASSUME IInv, stage \in Open, stage # "respond"
  PROVE  ~ handled
  BY DEF IInv, HandlerHeard, Open, Sent

\* What a stage may answer with.
LEMMA AnswerFits ==
  ASSUME TypeOK, NEW code \in AnswerCodes, NEW length \in {0, req.length},
         Answer(code, length)
  PROVE  /\ answer' \in [code : AnswerCodes \cup {0}, length : 0..MaxLength]
         /\ answer'.code = code /\ stage' = "respond"
  BY RequestAssumption DEF TypeOK, AnyRequest, Answer

LEMMA PassFits ==
  ASSUME TypeOK, NEW next, Pass(next)
  PROVE  /\ answer' \in [code : AnswerCodes \cup {0}, length : 0..MaxLength]
         /\ stage' = next
  BY DEF TypeOK, Pass

LEMMA CorsIInv == ASSUME IInv, Cors PROVE IInv'
<1>1. TypeOK /\ stage = "cors" /\ UNCHANGED <<cfg, req, w, span, claims, handled, lines>>
  BY DEF IInv, Cors
<1>2. ~ handled
  BY <1>1, NotHandledYet DEF Open
<1>3. \/ Answer(200, 0)
      \/ Pass("route")
  BY DEF Cors
<1>4. /\ answer' \in [code : AnswerCodes \cup {0}, length : 0..MaxLength]
      /\ stage' \in {"respond", "route"}
      /\ stage' = "respond" => answer'.code \in AnswerCodes
  BY <1>1, <1>3, AnswerFits, PassFits DEF AnswerCodes
<1>5. Guarded'
  BY <1>1, <1>2, <1>4 DEF Guarded
<1> QED
  BY <1>1, <1>2, <1>4, <1>5, DownIInv DEF Open, Quiet, TypeOK

LEMMA RouteIInv == ASSUME IInv, Route PROVE IInv'
<1>1. TypeOK /\ stage = "route" /\ UNCHANGED <<cfg, req, w, span, claims, handled, lines>>
  BY DEF IInv, Route
<1>2. ~ handled
  BY <1>1, NotHandledYet DEF Open
<1>3. \/ Answer(404, req.length)
      \/ Answer(405, 0)
      \/ Pass("validate") /\ req.route \in UserRoutes \cup {"health"}
      \/ Pass("handler") /\ req.route \notin UserRoutes \cup {"unknown", "wrongMethod"}
  BY DEF Route, UserRoutes
<1>4. /\ answer' \in [code : AnswerCodes \cup {0}, length : 0..MaxLength]
      /\ stage' \in {"respond", "validate", "handler"}
      /\ stage' = "respond" => answer'.code \in AnswerCodes
      /\ stage' # "respond" => req.route \notin {"unknown", "wrongMethod"}
      /\ stage' = "handler" => req.route \notin UserRoutes
  BY <1>1, <1>3, AnswerFits, PassFits DEF AnswerCodes, UserRoutes
<1>5. Guarded'
  BY <1>1, <1>2, <1>4 DEF Guarded
<1> QED
  BY <1>1, <1>2, <1>4, <1>5, DownIInv DEF Open, Quiet, TypeOK

LEMMA ValidateIInv == ASSUME IInv, Validate PROVE IInv'
<1>1. TypeOK /\ stage = "validate"
      /\ UNCHANGED <<cfg, req, w, span, claims, handled, lines>>
  BY DEF IInv, Validate
<1>2. ~ handled
  BY <1>1, NotHandledYet DEF Open
<1>3. \/ Answer(401, req.length)
      \/ Answer(400, req.length)
      \/ Pass("jwt") /\ req.route \in UserRoutes /\ cfg.oidc
      \/ Pass("bind") /\ ~ (req.route \in UserRoutes /\ cfg.oidc)
  BY DEF Validate
<1>4. /\ answer' \in [code : AnswerCodes \cup {0}, length : 0..MaxLength]
      /\ stage' \in {"respond", "jwt", "bind"}
      /\ stage' = "respond" => answer'.code \in AnswerCodes
      /\ stage' = "jwt" => req.route \in UserRoutes /\ cfg.oidc
      /\ stage' = "bind" => ~ (req.route \in UserRoutes /\ cfg.oidc)
  BY <1>1, <1>3, AnswerFits, PassFits DEF AnswerCodes
<1>5. Guarded'
  BY <1>1, <1>2, <1>4 DEF IInv, Guarded
<1> QED
  BY <1>1, <1>2, <1>4, <1>5, DownIInv DEF Open, Quiet, TypeOK

LEMMA JwtIInv == ASSUME IInv, Jwt PROVE IInv'
<1>1. TypeOK /\ stage = "jwt" /\ UNCHANGED <<cfg, req, w, span, handled>> /\ Quiet
  BY DEF IInv, Jwt, Quiet
<1>2. ~ handled
  BY <1>1, NotHandledYet DEF Open
<1>3. \/ (Answer(401, req.length) \/ Answer(500, req.length)) /\ claims' = claims
      \/ /\ Pass("bind") /\ claims' = TRUE
         /\ req.authz = "bearer" /\ req.keys /\ req.token = "valid"
  BY DEF Jwt
<1>4. /\ answer' \in [code : AnswerCodes \cup {0}, length : 0..MaxLength]
      /\ stage' \in {"respond", "bind"}
      /\ stage' = "respond" => answer'.code \in AnswerCodes
      /\ claims' \in BOOLEAN
      /\ stage' = "bind" =>
           claims' /\ req.authz = "bearer" /\ req.keys /\ req.token = "valid"
  <2>1. CASE Answer(401, req.length) /\ claims' = claims
    BY <1>1, <2>1, AnswerFits DEF AnswerCodes, TypeOK
  <2>2. CASE Answer(500, req.length) /\ claims' = claims
    BY <1>1, <2>2, AnswerFits DEF AnswerCodes, TypeOK
  <2>3. CASE /\ Pass("bind") /\ claims' = TRUE
             /\ req.authz = "bearer" /\ req.keys /\ req.token = "valid"
    BY <1>1, <2>3, PassFits
  <2> QED
    BY <1>3, <2>1, <2>2, <2>3
<1>5. Guarded'
  BY <1>1, <1>2, <1>4 DEF IInv, Guarded
<1> QED
  BY <1>1, <1>2, <1>4, <1>5, DownIInv DEF Open, TypeOK

LEMMA BindIInv == ASSUME IInv, Bind PROVE IInv'
<1>1. TypeOK /\ stage = "bind" /\ UNCHANGED <<cfg, req, w, span, claims, handled, lines>>
  BY DEF IInv, Bind
<1>2. ~ handled
  BY <1>1, NotHandledYet DEF Open
<1>3. \/ Answer(400, req.length)
      \/ Pass("handler")
  BY DEF Bind
<1>4. /\ answer' \in [code : AnswerCodes \cup {0}, length : 0..MaxLength]
      /\ stage' \in {"respond", "handler"}
      /\ stage' = "respond" => answer'.code \in AnswerCodes
  BY <1>1, <1>3, AnswerFits, PassFits DEF AnswerCodes
<1>5. Guarded'
  BY <1>1, <1>2, <1>4 DEF IInv, Guarded
<1> QED
  BY <1>1, <1>2, <1>4, <1>5, DownIInv DEF Open, Quiet, TypeOK

\* What the handlers answer is a status that a response may have.
LEMMA HandlerCodeFits ==
  ASSUME req \in AnyRequest, req.route \notin {"unknown", "wrongMethod"}
  PROVE  HandlerCode \in AnswerCodes
  BY DEF AnyRequest, Routes, HandlerCode, AnswerCodes

LEMMA HandleIInv == ASSUME IInv, Handle PROVE IInv'
<1>1. TypeOK /\ stage = "handler" /\ UNCHANGED <<cfg, req, w, span, claims, lines>>
      /\ handled' = TRUE
  BY DEF IInv, Handle
<1>2. HandlerCode \in AnswerCodes
  BY <1>1, HandlerCodeFits DEF IInv, Guarded, TypeOK
<1>3. Guarded'
  BY <1>1 DEF IInv, Guarded, Handle, Pass, Answer
<1>4. CASE req.panics = "early"
  <2>1. stage' = "recover" /\ answer' = answer
    BY <1>4 DEF Handle, Pass
  <2>2. TypeOK'
    BY <1>1, <2>1 DEF TypeOK, Stages
  <2>3. Answered' /\ HandlerHeard'
    BY <1>1, <1>4, <2>1, FreshFields DEF IInv, Answered, HandlerHeard, Open, Sent, Out
  <2>4. Reported'
    BY <1>1, <2>1 DEF IInv, Reported
  <2> QED
    BY <1>3, <2>2, <2>3, <2>4 DEF IInv
<1>5. CASE req.panics # "early"
  <2>1. Answer(HandlerCode, req.length)
    BY <1>5 DEF Handle
  <2>2. /\ answer' \in [code : AnswerCodes \cup {0}, length : 0..MaxLength]
        /\ answer'.code = HandlerCode /\ stage' = "respond"
    BY <1>1, <1>2, <2>1, AnswerFits
  <2> QED
    BY <1>1, <1>2, <1>3, <1>5, <2>2, DownIInv DEF Open, Quiet, TypeOK
<1> QED
  BY <1>4, <1>5

\* Sending the status puts both wrappers and the connection in step.
LEMMA FirstStatus ==
  ASSUME NEW code \in AnswerCodes
  PROVE  LET y == WriteHeader(FreshWriters, code)
         IN /\ y \in Writers
            /\ y.log.wrote /\ y.log.status = y.wire.status
            /\ y.capture.wrote /\ y.capture.status = y.wire.status
            /\ y.wire.status = code
            /\ y.wire.headers = 1
            /\ y.wire.body = 0
            /\ y.capture.kept = Least(BodyCap, y.wire.body)
<1>1. code \in Nat
  BY DEF AnswerCodes
<1> DEFINE y == WriteHeader(FreshWriters, code)
<1>2. /\ y \in Writers
      /\ y.log.status = code /\ y.log.wrote
      /\ y.capture.status = code /\ y.capture.wrote
      /\ y.capture.kept = 0
      /\ y.wire.status = code /\ y.wire.body = 0 /\ y.wire.headers = 1
  BY <1>1, FreshFields, WriteHeaderFields
<1> HIDE DEF y
<1>3. Least(BodyCap, 0) = 0
  BY BodyCapAssumption, LeastFacts
<1> QED
  BY <1>2, <1>3 DEF y

LEMMA FirstSynced ==
  ASSUME NEW code \in AnswerCodes, w' = WriteHeader(FreshWriters, code)
  PROVE  /\ w' \in Writers /\ w'.wire.status = code /\ FinalStatus' = code
         /\ w'.wire.body = 0 /\ Synced'
<1>1. code # 0
  BY DEF AnswerCodes
<1>2. w' \in Writers /\ w'.wire.status = code
  BY FirstStatus
<1>3. FinalStatus' = code
  BY <1>1, <1>2, FinalOf DEF FinalStatus
<1>4. InStep'
  BY <1>1, <1>3, FirstStatus DEF InStep
<1> QED
  BY <1>1, <1>2, <1>3, <1>4, FirstStatus DEF Synced

LEMMA SendStatusIInv == ASSUME IInv, SendStatus PROVE IInv'
<1>1. /\ TypeOK /\ stage = "respond" /\ w = FreshWriters /\ answer.code \in AnswerCodes
      /\ UNCHANGED <<cfg, req, answer, span, claims, handled, lines>>
      /\ w' = WriteHeader(w, answer.code)
      /\ stage' = IF handled /\ req.panics = "late" THEN "recover" ELSE "body"
  BY DEF IInv, Answered, Open, SendStatus
<1>2. /\ w' \in Writers /\ w'.wire.status = answer.code /\ FinalStatus' = answer.code
      /\ w'.wire.body = 0 /\ Synced'
  BY <1>1, FirstSynced
<1>3. TypeOK'
  BY <1>1, <1>2 DEF TypeOK, Stages
<1>4. Answered'
  <2>1. req.panics \in {"no", "early", "late"}
    BY <1>1 DEF TypeOK, AnyRequest
  <2>2. handled => req.panics # "early"
    BY <1>1 DEF IInv, HandlerHeard
  <2> QED
    BY <1>1, <1>2, <2>1, <2>2 DEF Answered, Open, Out
<1>5. Guarded'
  BY <1>1 DEF IInv, Guarded
<1>6. HandlerHeard'
  <2>1. HandlerCode' = HandlerCode
    BY <1>1 DEF HandlerCode
  <2>2. handled => req.panics # "early" /\ answer.code = HandlerCode
    BY <1>1 DEF IInv, HandlerHeard
  <2>3. handled => FinalStatus' = HandledCode'
    BY <1>1, <1>2, <2>1, <2>2 DEF HandledCode
  <2> QED
    BY <1>1, <1>2, <2>1, <2>2, <2>3 DEF HandlerHeard, Sent
<1>7. Reported'
  BY <1>1 DEF IInv, Reported
<1> QED
  BY <1>3, <1>4, <1>5, <1>6, <1>7 DEF IInv

LEMMA SendBodyIInv == ASSUME IInv, SendBody PROVE IInv'
<1>1. /\ TypeOK /\ stage = "body" /\ stage' = "log" /\ Synced
      /\ UNCHANGED <<cfg, req, answer, span, claims, handled, lines>>
      /\ w \in Writers /\ answer.length \in Nat
      /\ w' = w \/ w' = Write(w, answer.length)
  BY RequestAssumption DEF IInv, TypeOK, Answered, SendBody
<1>2. w' \in Writers /\ FinalStatus' = FinalStatus /\ InStep'
  <2>1. CASE w' = w
    <3>1. FinalStatus' = FinalStatus
      BY <2>1 DEF FinalStatus
    <3> QED
      BY <1>1, <2>1, <3>1 DEF Synced, InStep
  <2>2. CASE w' = Write(w, answer.length)
    <3>1. w.wire.status # 0
      BY <1>1 DEF Synced
    <3>2. /\ w' \in Writers /\ w'.log = w.log
          /\ w'.capture.status = w.capture.status /\ w'.capture.wrote
          /\ w'.capture.kept = Least(BodyCap, w.capture.kept + answer.length)
          /\ w'.wire.status = w.wire.status
          /\ w'.wire.body = w.wire.body + answer.length
          /\ w'.wire.headers = w.wire.headers
      <4> DEFINE n == answer.length
                 y == Write(w, n)
      <4>1. w.capture.wrote /\ w \in Writers /\ n \in Nat
        BY <1>1 DEF Synced
      <4> HIDE DEF n
      <4>2. /\ y \in Writers /\ y.log = w.log
            /\ y.capture.status = IF w.capture.wrote THEN w.capture.status ELSE 200
            /\ y.capture.wrote
            /\ y.capture.kept = Least(BodyCap, w.capture.kept + n)
            /\ y.wire.status = IF w.wire.status = 0 THEN 200 ELSE w.wire.status
            /\ y.wire.body = w.wire.body + n
            /\ y.wire.headers = IF w.wire.status = 0 THEN w.wire.headers + 1
                                                      ELSE w.wire.headers
        BY <4>1, WriteFields
      <4>3. w' = y
        BY <2>2 DEF n
      <4> HIDE DEF y
      <4> QED
        BY <3>1, <4>1, <4>2, <4>3 DEF n
    <3>3. w'.capture.kept = Least(BodyCap, w'.wire.body)
      <4>1. w.capture.kept = Least(BodyCap, w.wire.body) /\ w.wire.body \in Nat
        BY <1>1, WritersFields DEF Synced, InStep
      <4>2. Least(BodyCap, Least(BodyCap, w.wire.body) + answer.length)
              = Least(BodyCap, w.wire.body + answer.length)
        BY <1>1, <4>1, LeastFacts, BodyCapAssumption
      <4> QED
        BY <3>2, <4>1, <4>2
    <3>4. FinalStatus' = FinalStatus
      BY <1>1, <3>2, FinalOf DEF FinalStatus
    <3> QED
      BY <1>1, <3>1, <3>2, <3>3, <3>4 DEF Synced, InStep
  <2> QED
    BY <1>1, <2>1, <2>2
<1>3. TypeOK'
  BY <1>1, <1>2 DEF TypeOK, Stages
<1>4. Answered'
  BY <1>1, <1>2 DEF Answered, Open, Out
<1>5. Guarded'
  BY <1>1 DEF IInv, Guarded
<1>6. HandlerHeard'
  <2>1. HandlerCode' = HandlerCode
    BY <1>1 DEF HandlerCode
  <2>2. HandledCode' = HandledCode
    BY <1>1, <2>1 DEF HandledCode
  <2> QED
    BY <1>1, <1>2, <2>1, <2>2 DEF IInv, HandlerHeard, Sent
<1>7. Reported'
  BY <1>1 DEF IInv, Reported
<1> QED
  BY <1>3, <1>4, <1>5, <1>6, <1>7 DEF IInv

LEMMA RecoverIInv == ASSUME IInv, Recover PROVE IInv'
<1>1. /\ TypeOK /\ stage = "recover" /\ stage' = "log" /\ w \in Writers
      /\ UNCHANGED <<cfg, req, answer, span, claims, handled, lines>>
      /\ w' = IF req.upgrade THEN w ELSE WriteHeader(w, 500)
      /\ handled /\ req.panics \in {"early", "late"}
  BY DEF IInv, TypeOK, HandlerHeard, Recover, AnyRequest
<1>2. HandlerCode' = HandlerCode /\ HandledCode' = HandledCode
  <2>1. HandlerCode' = HandlerCode
    BY <1>1 DEF HandlerCode
  <2> QED
    BY <1>1, <2>1 DEF HandledCode
<1>3. w' \in Writers /\ InStep' /\ FinalStatus' = HandledCode
  <2>1. CASE req.panics = "early" /\ ~ req.upgrade
    <3>1. w' = WriteHeader(FreshWriters, 500) /\ 500 \in AnswerCodes
      BY <1>1, <2>1 DEF IInv, Answered, AnswerCodes
    <3> QED
      BY <2>1, <3>1, FirstSynced DEF Synced, HandledCode
  <2>2. CASE req.panics = "early" /\ req.upgrade
    <3>1. w = FreshWriters /\ w' = w
      BY <1>1, <2>2 DEF IInv, Answered
    <3>2. InStep' /\ FinalStatus' = 200
      BY <3>1, FreshInStep DEF InStep, FinalStatus
    <3> QED
      BY <1>1, <2>2, <3>1, <3>2 DEF HandledCode
  <2>3. CASE req.panics = "late"
    <3>1. Synced /\ w.wire.status = HandlerCode
      BY <1>1, <2>3 DEF IInv, Answered, HandlerHeard
    <3>2. w' = w
      BY <1>1, <3>1, WriteHeaderFields DEF Synced
    <3>3. InStep' /\ FinalStatus' = FinalStatus
      BY <3>1, <3>2 DEF Synced, InStep, FinalStatus
    <3>4. FinalStatus = HandlerCode
      BY <1>1, <3>1, FinalOf DEF Synced, FinalStatus
    <3> QED
      BY <1>1, <2>3, <3>2, <3>3, <3>4 DEF HandledCode
  <2> QED
    BY <1>1, <2>1, <2>2, <2>3
<1>4. TypeOK'
  BY <1>1, <1>3 DEF TypeOK, Stages
<1>5. Answered'
  BY <1>1, <1>3 DEF Answered, Open, Out
<1>6. Guarded'
  BY <1>1 DEF IInv, Guarded
<1>7. HandlerHeard'
  BY <1>1, <1>2, <1>3 DEF HandlerHeard, Sent
<1>8. Reported'
  BY <1>1 DEF IInv, Reported
<1> QED
  BY <1>4, <1>5, <1>6, <1>7, <1>8 DEF IInv

\* A step that leaves request, writers and handler alone leaves what the handler's part of
\* the invariant speaks of.
LEMMA SameStatuses ==
  ASSUME UNCHANGED <<req, w>>
  PROVE  /\ HandlerCode' = HandlerCode /\ HandledCode' = HandledCode
         /\ FinalStatus' = FinalStatus /\ (InStep' <=> InStep) /\ (Synced' <=> Synced)
<1>1. HandlerCode' = HandlerCode
  BY DEF HandlerCode
<1>2. HandledCode' = HandledCode
  BY <1>1 DEF HandledCode
<1>3. FinalStatus' = FinalStatus
  BY DEF FinalStatus
<1>4. InStep' <=> InStep
  BY <1>3 DEF InStep
<1>5. Synced' <=> Synced
  BY <1>4 DEF Synced
<1> QED
  BY <1>1, <1>2, <1>3, <1>4, <1>5

\* The levels of the log lines.
LEMMA LevelFits ==
  ASSUME NEW what \in {"HTTP request", "http error response"}, NEW code \in Nat, TypeOK
  PROVE  Line(what, Level(code), code, TRUE) \in LineSet
<1>1. Level(code) \in {"info", "warn", "error"}
  <2>1. CASE code >= 500
    BY <2>1, Zenon DEF Level
  <2>2. CASE ~ (code >= 500) /\ code >= 400
    BY <2>2, Zenon DEF Level
  <2>3. CASE ~ (code >= 500) /\ ~ (code >= 400)
    BY <2>3, Zenon DEF Level
  <2> QED
    BY <2>1, <2>2, <2>3
<1>2. (TRUE /\ span.on) \in BOOLEAN
  OBVIOUS
<1> QED
  BY <1>1, <1>2 DEF Line, LineSet

LEMMA LogRequestIInv == ASSUME IInv, LogRequest PROVE IInv'
<1>1. /\ TypeOK /\ stage = "log" /\ stage' = "annotate" /\ InStep
      /\ UNCHANGED <<cfg, req, answer, w, claims, handled>>
      /\ lines \in Seq(LineSet) /\ span \in SpanStates /\ w.log.status \in Nat
      /\ w.log.status = FinalStatus /\ FinalStatus' = FinalStatus
  BY WritersFields, SameStatuses DEF IInv, TypeOK, Answered, Out, LogRequest, InStep
<1>2. /\ span' \in SpanStates
      /\ span'.status = "unset" /\ span'.kind = "none" /\ span'.body = 0 /\ ~ span'.event
  <2>1. span.status = "unset" /\ span.kind = "none" /\ span.body = 0 /\ ~ span.event
    BY <1>1 DEF IInv, Reported
  <2>2. span' = IF span.on THEN [span EXCEPT !.code = w.log.status] ELSE span
    BY DEF LogRequest
  <2> QED
    BY <1>1, <2>1, <2>2 DEF SpanStates
<1>3. \A i \in 1..Len(lines) : lines[i].what = "failed to get JWKS"
  BY <1>1 DEF IInv, Reported
<1>4. /\ lines' \in Seq(LineSet)
      /\ Logged("http error response")' = {}
      /\ RequestLogged'
  <2> DEFINE l == Line("HTTP request", Level(w.log.status), w.log.status, TRUE)
  <2>1. l \in LineSet /\ l.what = "HTTP request" /\ l.code = FinalStatus
    BY <1>1, LevelFits DEF Line
  <2>2. lines' = IF cfg.debug THEN lines ELSE Append(lines, l)
    BY DEF LogRequest
  <2>3. Logged("HTTP request") = {} /\ Logged("http error response") = {}
    BY <1>3 DEF Logged
  <2> HIDE DEF l
  <2>4. CASE cfg.debug
    <3>1. lines' = lines
      BY <2>2, <2>4
    <3> QED
      BY <1>1, <2>3, <2>4, <3>1 DEF RequestLogged, Logged
  <2>5. CASE ~ cfg.debug
    <3>1. lines' = Append(lines, l)
      BY <2>2, <2>5
    <3>2. /\ lines' \in Seq(LineSet)
          /\ Len(lines') = Len(lines) + 1 /\ Len(lines) \in Nat
          /\ lines'[Len(lines) + 1] = l
          /\ Logged("HTTP request")' = {Len(lines) + 1}
      BY <1>1, <2>1, <2>3, <3>1, LoggedAfter
    <3>3. Logged("http error response")' = {}
      BY <1>1, <2>1, <2>3, <3>1, LoggedAfter
    <3>4. Len(lines) + 1 \in 1..Len(lines')
      <4> DEFINE n == Len(lines)
      <4>1. n \in Nat => n + 1 \in 1..(n + 1)
        <5> HIDE DEF n
        <5> QED
          OBVIOUS
      <4> QED
        BY <3>2, <4>1
    <3>5. lines'[Len(lines) + 1].code = FinalStatus' /\ ~ cfg'.debug
      BY <1>1, <2>1, <2>5, <3>2
    <3> QED
      BY <3>2, <3>3, <3>4, <3>5 DEF RequestLogged
  <2> QED
    BY <2>4, <2>5
<1>5. TypeOK'
  BY <1>1, <1>2, <1>4 DEF TypeOK, Stages
<1>6. Answered'
  BY <1>1, SameStatuses DEF Answered, Open, Out
<1>7. Guarded' /\ HandlerHeard'
  <2>1. Guarded'
    BY <1>1 DEF IInv, Guarded
  <2>2. HandlerHeard'
    BY <1>1, SameStatuses DEF IInv, HandlerHeard, Sent
  <2> QED
    BY <2>1, <2>2
<1>8. Reported'
  BY <1>1, <1>2, <1>4 DEF Reported
<1> QED
  BY <1>5, <1>6, <1>7, <1>8 DEF IInv

LEMMA ClientCodes ==
  ASSUME NEW code \in Nat
  PROVE  code >= 400 /\ code < 500 <=> code \in 400..499
  OBVIOUS

LEMMA SameAnnotation ==
  ASSUME UNCHANGED <<span, lines, w>>
  PROVE  Annotated' <=> Annotated
<1>1. span' = span /\ lines' = lines /\ w' = w /\ FinalStatus' = FinalStatus
  BY DEF FinalStatus
<1>2. Logged("http error response")' = Logged("http error response")
  BY <1>1 DEF Logged
<1>3. ErrorLogged' <=> ErrorLogged
  BY <1>1, <1>2, Zenon DEF ErrorLogged
<1>4. ASSUME Annotated PROVE Annotated'
  BY <1>1, <1>3, <1>4 DEF Annotated
<1>5. ASSUME Annotated' PROVE Annotated
  BY <1>1, <1>3, <1>5 DEF Annotated
<1> QED
  BY <1>4, <1>5

\* Without a span TraceErrors does nothing.
LEMMA UntracedIInv == ASSUME IInv, Annotate, ~ span.on PROVE IInv'
<1>1. /\ stage = "annotate" /\ stage' = "close"
      /\ UNCHANGED <<cfg, req, answer, w, claims, handled, span, lines>>
  BY DEF Annotate
<1>2. TypeOK' /\ Answered'
  BY <1>1, SameStatuses DEF IInv, TypeOK, Stages, Answered, Open, Out
<1>3. Guarded' /\ HandlerHeard'
  <2>1. Guarded'
    BY <1>1 DEF IInv, Guarded
  <2>2. HandlerHeard'
    BY <1>1, SameStatuses DEF IInv, HandlerHeard, Sent
  <2> QED
    BY <2>1, <2>2
<1>4. Reported'
  <2>1. Annotated'
    BY <1>1 DEF Annotated
  <2>2. RequestLogged'
    <3>1. RequestLogged
      BY <1>1 DEF IInv, Reported
    <3> QED
      BY <1>1, <3>1, SameLogged, SameStatuses
  <2> QED
    BY <1>1, <2>1, <2>2 DEF IInv, Reported
<1> QED
  BY <1>2, <1>3, <1>4 DEF IInv

LEMMA TracedIInv == ASSUME IInv, Annotate, span.on PROVE IInv'
<1> DEFINE code == w.capture.status
           l == Line("http error response", Level(code), code, TRUE)
<1>1. /\ TypeOK /\ stage = "annotate" /\ stage' = "close" /\ InStep
      /\ UNCHANGED <<cfg, req, answer, w, claims, handled>>
      /\ lines \in Seq(LineSet) /\ span \in SpanStates /\ w \in Writers
      /\ code \in AnswerCodes /\ code \in Nat
      /\ w.capture.kept \in Nat /\ FinalStatus = code /\ FinalStatus' = FinalStatus
      /\ w.capture.kept = Least(BodyCap, w.wire.body)
  BY WritersFields, SameStatuses DEF IInv, TypeOK, Answered, Out, Annotate, InStep
<1>2. /\ span.status = "unset" /\ span.kind = "none" /\ span.body = 0 /\ ~ span.event
      /\ Logged("http error response") = {}
      /\ RequestLogged
  BY <1>1 DEF IInv, Reported
<1>3. lines' = IF code >= 400 THEN Append(lines, l) ELSE lines
  BY Zenon DEF Annotate
<1>4. l \in LineSet /\ l.what = "http error response" /\ l.code = code /\ l.traced
  BY <1>1, LevelFits DEF Line
<1>5. /\ span' \in SpanStates /\ span'.on
      /\ span'.code = code
      /\ span'.event <=> code >= 400
      /\ span'.status = "error" <=> code >= 500
      /\ span'.kind = "client" <=> code \in 400..499
      /\ span'.body = IF span'.event THEN w.capture.kept ELSE 0
  <2> DEFINE failed == code >= 400
             body == IF failed THEN w.capture.kept ELSE 0
             status == IF code >= 500 THEN "error" ELSE span.status
             kind == IF failed /\ code < 500 THEN "client" ELSE span.kind
  <2>1. span' = [span EXCEPT !.code = code, !.event = failed, !.body = body,
                             !.status = status, !.kind = kind]
    BY Zenon DEF Annotate
  <2>2. failed \in BOOLEAN /\ body \in Nat
    BY <1>1
  <2>3. status \in {"unset", "error"} /\ (status = "error" <=> code >= 500)
    BY <1>2, Zenon
  <2>4. kind \in {"none", "client"} /\ (kind = "client" <=> failed /\ code < 500)
    <3>1. CASE failed /\ code < 500
      BY <3>1, Zenon
    <3>2. CASE ~ (failed /\ code < 500)
      BY <1>2, <3>2, Zenon
    <3> QED
      BY <3>1, <3>2
  <2>5. failed /\ code < 500 <=> code \in 400..499
    <3>1. code \in Nat
      BY <1>1
    <3> HIDE DEF code
    <3> QED
      BY <3>1, ClientCodes
  <2>6. body = IF failed THEN w.capture.kept ELSE 0
    OBVIOUS
  <2>7. failed <=> code >= 400
    OBVIOUS
  <2> HIDE DEF failed, body, status, kind, code
  <2>8. /\ span' \in SpanStates /\ span'.on
        /\ span'.code = code /\ (span'.event <=> failed) /\ span'.body = body
        /\ span'.status = status /\ span'.kind = kind
    <3>1. /\ span \in SpanStates /\ code \in Nat /\ body \in Nat
          /\ status \in {"unset", "error"} /\ kind \in {"none", "client"}
      BY <1>1, <2>2, <2>3, <2>4
    <3>2. CASE failed
      <4>1. span' = [span EXCEPT !.code = code, !.event = TRUE, !.body = body,
                                 !.status = status, !.kind = kind]
        BY <2>1, <2>2, <3>2
      <4> QED
        BY <3>1, <3>2, <4>1 DEF SpanStates
    <3>3. CASE ~ failed
      <4>1. span' = [span EXCEPT !.code = code, !.event = FALSE, !.body = body,
                                 !.status = status, !.kind = kind]
        BY <2>1, <2>2, <3>3
      <4> QED
        BY <3>1, <3>3, <4>1 DEF SpanStates
    <3> QED
      BY <3>2, <3>3
  <2> QED
    BY <2>3, <2>4, <2>5, <2>6, <2>7, <2>8
<1> HIDE DEF l
<1>6. /\ lines' \in Seq(LineSet)
      /\ RequestLogged'
      /\ code >= 400 <=> \E i \in Logged("http error response")' :
           lines'[i].code = code /\ lines'[i].traced
  <2>1. CASE code >= 400
    <3>1. lines' = Append(lines, l)
      BY <1>3, <2>1
    <3>2. /\ lines' \in Seq(LineSet)
          /\ Len(lines') = Len(lines) + 1 /\ Len(lines) \in Nat
          /\ \A i \in 1..Len(lines) : lines'[i] = lines[i]
          /\ lines'[Len(lines) + 1] = l
          /\ Len(lines) + 1 \in Logged("http error response")'
      BY <1>1, <1>4, <3>1, LoggedAfter
    <3>3. RequestLogged'
      <4>1. /\ cfg' = cfg /\ FinalStatus' = FinalStatus /\ lines \in Seq(LineSet)
            /\ l \in LineSet /\ l.what # "HTTP request" /\ RequestLogged
        BY <1>1, <1>2, <1>4
      <4> QED
        BY <3>1, <4>1, StaysLogged
    <3> QED
      BY <1>4, <2>1, <3>2, <3>3
  <2>2. CASE ~ (code >= 400)
    <3>1. lines' = lines
      BY <1>3, <2>2
    <3>2. Logged("http error response")' = {}
      BY <1>2, <3>1 DEF Logged
    <3>3. RequestLogged' /\ lines' \in Seq(LineSet)
      BY <1>1, <1>2, <3>1, SameLogged, SameStatuses
    <3> QED
      BY <2>2, <3>2, <3>3
  <2> QED
    BY <2>1, <2>2
<1>7. /\ FinalStatus' = code
      /\ span'.body = IF span'.event THEN Least(BodyCap, w'.wire.body) ELSE 0
  BY <1>1, <1>5
<1>8. TypeOK'
  BY <1>1, <1>5, <1>6 DEF TypeOK, Stages
<1>9. Answered'
  BY <1>1, SameStatuses DEF Answered, Open, Out
<1>10. Guarded' /\ HandlerHeard'
  <2>1. Guarded'
    BY <1>1 DEF IInv, Guarded
  <2>2. HandlerHeard'
    BY <1>1, SameStatuses DEF IInv, HandlerHeard, Sent
  <2> QED
    BY <2>1, <2>2
<1>11. Reported'
  <2> HIDE DEF code
  <2>1. RequestLogged'
    BY <1>6
  <2>2. ErrorLogged' <=> FinalStatus' >= 400
    BY <1>6, <1>7 DEF ErrorLogged
  <2>3. /\ span'.code = FinalStatus'
        /\ span'.event <=> FinalStatus' >= 400
        /\ span'.status = "error" <=> FinalStatus' >= 500
        /\ span'.kind = "client" <=> FinalStatus' \in 400..499
    BY <1>5, <1>7
  <2>4. Annotated'
    BY <1>7, <2>2, <2>3 DEF Annotated
  <2> QED
    BY <1>1, <2>1, <2>4 DEF Reported
<1> QED
  BY <1>8, <1>9, <1>10, <1>11 DEF IInv

\* Closing sends a status that is still open; it is the one that all have reported.
LEMMA CloseIInv == ASSUME IInv, Close PROVE IInv'
<1>1. /\ TypeOK /\ stage = "close" /\ stage' = "done" /\ InStep /\ w \in Writers
      /\ UNCHANGED <<cfg, req, answer, span, claims, handled, lines>>
      /\ w' = CloseResponse(w)
  BY DEF IInv, TypeOK, Answered, Out, Close
<1>2. /\ w' \in Writers /\ w'.log = w.log /\ w'.capture = w.capture
      /\ w'.wire.status = (IF w.wire.status = 0 THEN 200 ELSE w.wire.status)
      /\ w'.wire.body = w.wire.body
      /\ w'.wire.headers = IF w.wire.status = 0 THEN w.wire.headers + 1 ELSE w.wire.headers
  BY <1>1, CloseFields
<1>3. w'.wire.status # 0 /\ FinalStatus' = FinalStatus
  <2>1. FinalStatus = w'.wire.status
    BY <1>1 DEF FinalStatus
  <2>2. w'.wire.status # 0
    BY <1>2
  <2>3. FinalStatus' = w'.wire.status
    BY <1>2, <2>2, FinalOf DEF FinalStatus
  <2> QED
    BY <2>1, <2>2, <2>3
<1>4. InStep'
  <2>1. w'.wire.headers = 1
    BY <1>1, <1>2 DEF InStep
  <2> QED
    BY <1>1, <1>2, <1>3, <2>1 DEF InStep
<1>5. TypeOK' /\ Answered'
  <2>1. TypeOK'
    BY <1>1, <1>2 DEF TypeOK, Stages
  <2>2. Answered'
    BY <1>1, <1>3, <1>4 DEF Answered, Open, Out
  <2> QED
    BY <2>1, <2>2
<1>6. Guarded' /\ HandlerHeard'
  <2>1. Guarded'
    BY <1>1 DEF IInv, Guarded
  <2>2. HandledCode' = HandledCode
    <3>1. HandlerCode' = HandlerCode
      BY <1>1 DEF HandlerCode
    <3> QED
      BY <1>1, <3>1 DEF HandledCode
  <2>3. HandlerHeard'
    BY <1>1, <1>3, <2>2 DEF IInv, HandlerHeard, Sent
  <2> QED
    BY <2>1, <2>3
<1>7. Reported'
  <2>1. Annotated
    BY <1>1 DEF IInv, Reported
  <2>2. ErrorLogged' <=> ErrorLogged
    BY <1>1, <1>3 DEF ErrorLogged, Logged
  <2>3. Annotated'
    BY <1>1, <1>2, <1>3, <2>1, <2>2 DEF Annotated
  <2>4. RequestLogged'
    <3>1. RequestLogged
      BY <1>1 DEF IInv, Reported
    <3> QED
      BY <1>1, <1>3, <3>1, SameLogged
  <2> QED
    BY <1>1, <2>3, <2>4 DEF Reported
<1> QED
  BY <1>5, <1>6, <1>7 DEF IInv

\* At every stage the writers, the span and the log are where they should be.
THEOREM ChainInductive == Spec => []IInv
<1>1. IInv /\ [Next]_vars => IInv'
  <2> SUFFICES ASSUME IInv, [Next]_vars PROVE IInv'
    OBVIOUS
  <2>1. ASSUME NEW r \in Requests, Receive(r) PROVE IInv'
    BY <2>1, ReceiveIInv
  <2>2. CASE Cors BY <2>2, CorsIInv
  <2>3. CASE Route BY <2>3, RouteIInv
  <2>4. CASE Validate BY <2>4, ValidateIInv
  <2>5. CASE Jwt BY <2>5, JwtIInv
  <2>6. CASE Bind BY <2>6, BindIInv
  <2>7. CASE Handle BY <2>7, HandleIInv
  <2>8. CASE SendStatus BY <2>8, SendStatusIInv
  <2>9. CASE SendBody BY <2>9, SendBodyIInv
  <2>10. CASE Recover BY <2>10, RecoverIInv
  <2>11. CASE LogRequest BY <2>11, LogRequestIInv
  <2>12. CASE Annotate BY <2>12, UntracedIInv, TracedIInv
  <2>13. CASE Close BY <2>13, CloseIInv
  <2>14. CASE UNCHANGED vars
    <3>1. UNCHANGED <<cfg, req, stage, answer, w, span, claims, handled, lines>>
      BY <2>14 DEF vars
    <3>2. TypeOK' /\ Answered' /\ Guarded'
      <4>1. TypeOK'
        BY <3>1 DEF IInv, TypeOK
      <4>2. Answered'
        BY <3>1, SameStatuses DEF IInv, Answered
      <4>3. Guarded'
        BY <3>1 DEF IInv, Guarded
      <4> QED
        BY <4>1, <4>2, <4>3
    <3>3. HandlerHeard'
      BY <3>1, SameStatuses DEF IInv, HandlerHeard
    <3>4. Reported'
      <4>1. Annotated' <=> Annotated
        BY <3>1, SameAnnotation
      <4>2. RequestLogged' <=> RequestLogged
        BY <3>1, SameLogged, SameStatuses
      <4> QED
        BY <3>1, <4>1, <4>2 DEF IInv, Reported, Logged
    <3> QED
      BY <3>2, <3>3, <3>4 DEF IInv
  <2> QED
    BY <2>1, <2>2, <2>3, <2>4, <2>5, <2>6, <2>7, <2>8, <2>9, <2>10, <2>11, <2>12,
       <2>13, <2>14 DEF Next
<1> QED
  BY InitIInv, <1>1, PTL DEF Spec

\* When the response is complete, its status is the one that was to be sent.
LEMMA FinalIsSent ==
  ASSUME IInv, stage = "done"
  PROVE  FinalStatus = w.wire.status /\ w.wire.headers = 1
<1>1. w \in Writers /\ w.wire.status # 0 /\ InStep
  BY DEF IInv, TypeOK, Answered, Out
<1> QED
  BY <1>1, FinalOf DEF FinalStatus, InStep

\* Log line, span attribute and client agree on the status of every response.
THEOREM StatusesAgree == Spec => []StatusAgree
<1>1. IInv => StatusAgree
  <2> SUFFICES ASSUME IInv, stage = "done"
               PROVE  RequestLogged /\ (span.on => span.code = w.wire.status)
    BY DEF StatusAgree
  <2> QED
    BY FinalIsSent DEF IInv, Reported, Annotated
<1> QED
  BY <1>1, ChainInductive, PTL

\* Each error response of a traced request is on its span and in the log, whichever
\* stage made it (trace_errors.go:48-51).
THEOREM ErrorsAreVisible == Spec => []ErrorsVisible
<1>1. IInv => ErrorsVisible
  <2> SUFFICES ASSUME IInv, stage = "done", span.on PROVE ErrorsVisible
    BY DEF ErrorsVisible
  <2>1. Annotated /\ FinalStatus = w.wire.status
    BY FinalIsSent DEF IInv, Reported
  <2> QED
    BY <2>1 DEF Annotated, ErrorsVisible
<1> QED
  BY <1>1, ChainInductive, PTL

\* A panic before the status becomes a 500 that the span shows, unless the request asked
\* for an upgrade; one status is sent (main_router.go:41).
THEOREM PanicsAreAnswered == Spec => []PanicsAnswered
<1>1. IInv => PanicsAnswered
  <2> SUFFICES ASSUME IInv PROVE PanicsAnswered
    OBVIOUS
  <2>1. w.wire.headers <= 1
    <3>1. w = FreshWriters \/ InStep
      BY DEF IInv, TypeOK, Answered, Synced, Open, Out, Stages
    <3> QED
      BY <3>1, FreshFields DEF InStep
  <2>2. stage = "done" => w.wire.headers = 1
    BY FinalIsSent
  <2>3. ASSUME stage = "done", handled
        PROVE  /\ req.panics = "early" /\ ~ req.upgrade =>
                    w.wire.status = 500 /\ (span.on => span.status = "error")
               /\ req.panics # "early" => w.wire.status = HandlerCode
    <3>1. w.wire.status = HandledCode
      BY <2>3, FinalIsSent DEF IInv, HandlerHeard, Sent
    <3>2. span.on => (span.status = "error" <=> w.wire.status >= 500)
      BY <2>3, FinalIsSent DEF IInv, Reported, Annotated
    <3> QED
      BY <3>1, <3>2 DEF HandledCode
  <2> QED
    BY <2>1, <2>2, <2>3 DEF PanicsAnswered
<1> QED
  BY <1>1, ChainInductive, PTL

\* With OIDC on, no users handler runs for a request without a valid token
\* (main_router.go:60, 119-121; jwt_auth.go:106-156).
THEOREM UsersAreProtected == Spec => []UsersProtected
<1>1. IInv => UsersProtected
  BY DEF IInv, Guarded, UsersProtected
<1> QED
  BY <1>1, ChainInductive, PTL

-----------------------------------------------------------------------------
\* The chain as one of the handlers that AnyHandler ranges over.

\* It writes to the same writers.
LEMMA SameWriters ==
  ASSUME NEW x, NEW code, NEW n
  PROVE  /\ Handler!FreshWriters = FreshWriters
         /\ Handler!WriteHeader(x, code) = WriteHeader(x, code)
         /\ Handler!Write(x, n) = Write(x, n)
         /\ Handler!CloseResponse(x) = CloseResponse(x)
<1>1. Handler!FreshWriters = FreshWriters
  BY DEF Handler!FreshWriters, FreshWriters
<1>2. ASSUME NEW y, NEW c PROVE Handler!WireWriteHeader(y, c) = WireWriteHeader(y, c)
  BY DEF Handler!WireWriteHeader, WireWriteHeader
<1>3. ASSUME NEW y, NEW c
      PROVE  Handler!CaptureWriteHeader(y, c) = CaptureWriteHeader(y, c)
  BY <1>2 DEF Handler!CaptureWriteHeader, CaptureWriteHeader
<1>4. Handler!WriteHeader(x, code) = WriteHeader(x, code)
  BY <1>3 DEF Handler!WriteHeader, WriteHeader
<1>5. ASSUME NEW y PROVE Handler!WireDefault(y) = WireDefault(y)
  BY <1>2, Zenon DEF Handler!WireDefault, WireDefault
<1>6. ASSUME NEW y PROVE Handler!WireWrite(y, n) = WireWrite(y, n)
  BY <1>5, Zenon DEF Handler!WireWrite, WireWrite
<1>7. ASSUME NEW a, NEW b PROVE Handler!Least(a, b) = Least(a, b)
  BY Zenon DEF Handler!Least, Least
<1>8. Handler!Write(x, n) = Write(x, n)
  BY <1>6, <1>7, Zenon DEF Handler!Write, Write
<1>9. Handler!CloseResponse(x) = CloseResponse(x)
  BY <1>5, Zenon DEF Handler!CloseResponse, CloseResponse
<1> QED
  BY <1>1, <1>4, <1>8, <1>9

LEMMA HandlerInit == Init => Handler!Init
<1> SUFFICES ASSUME Init PROVE Handler!Init
  OBVIOUS
<1>1. w = FreshWriters /\ (stage = "done") = FALSE
  BY DEF Init
<1>2. w.wire.status = 0 /\ w.wire.body = 0
  BY <1>1, FreshFields
<1> QED
  BY <1>1, <1>2, SameWriters DEF Handler!Init

\* A step that leaves the writers alone, before the request is done, changes nothing.
LEMMA HandlerStutters ==
  ASSUME w' = w, (stage' = "done") = (stage = "done")
  PROVE  UNCHANGED Handler!vars
  BY DEF Handler!vars

\* A status: the answer's, or the 500 of a panic, which may come too late.
LEMMA HandlerStatus ==
  ASSUME IInv, NEW code \in AnswerCodes, w' = WriteHeader(w, code),
         stage # "done", stage' # "done",
         w = FreshWriters \/ Synced
  PROVE  Handler!CallWriteHeader(code)
<1>1. /\ w'.wire.status = IF w.wire.status = 0 THEN code ELSE w.wire.status
      /\ w'.wire.body = w.wire.body + 0
  <2>1. CASE w = FreshWriters
    BY <2>1, FirstStatus, FreshFields
  <2>2. CASE Synced
    <3>1. w \in Writers /\ code \in Nat
      BY DEF IInv, TypeOK, AnswerCodes
    <3>2. w' = w
      BY <2>2, <3>1, WriteHeaderFields DEF Synced
    <3>3. w.wire.status # 0 /\ w.wire.body \in Nat
      BY <2>2, <3>1, WritersFields DEF Synced, AnswerCodes
    <3> QED
      BY <3>2, <3>3
  <2> QED
    BY <2>1, <2>2
<1>2. (stage' = "done") = (stage = "done")
  OBVIOUS
<1> QED
  BY <1>1, <1>2, SameWriters DEF Handler!CallWriteHeader, Handler!Plainly

\* The body comes after the status and into an empty response.
LEMMA HandlerBody ==
  ASSUME IInv, SendBody, answer.length # 0
  PROVE  Handler!CallWrite(answer.length)
<1>1. /\ Synced /\ w \in Writers /\ w.wire.body = 0 /\ answer.length \in 0..MaxLength
      /\ w' = Write(w, answer.length)
      /\ stage = "body" /\ stage' = "log"
  BY DEF IInv, TypeOK, Answered, Sent, SendBody
<1>2. answer.length \in Nat /\ 0 + answer.length <= MaxLength
  BY <1>1, RequestAssumption
<1>3. /\ w'.wire.status = IF w.wire.status = 0 THEN 200 ELSE w.wire.status
      /\ w'.wire.body = w.wire.body + answer.length
  <2> DEFINE n == answer.length
  <2>1. n \in Nat /\ w \in Writers
    BY <1>1, <1>2
  <2> HIDE DEF n
  <2>2. LET y == Write(w, n)
        IN /\ y.wire.status = IF w.wire.status = 0 THEN 200 ELSE w.wire.status
           /\ y.wire.body = w.wire.body + n
    BY <2>1, WriteFields
  <2> QED
    BY <1>1, <2>2 DEF n
<1>4. FALSE = (FALSE \/ ~ w.log.wrote)
  BY <1>1 DEF Synced
<1>5. (stage' = "done") = (stage = "done") /\ stage # "done"
  BY <1>1
<1> QED
  BY <1>1, <1>2, <1>3, <1>4, <1>5, SameWriters DEF Handler!CallWrite, Handler!Plainly

\* Completing the response is the handler's return.
LEMMA HandlerReturn == ASSUME IInv, Close PROVE Handler!Return
<1>1. /\ w \in Writers /\ stage = "close" /\ stage' = "done"
      /\ w' = CloseResponse(w)
  BY DEF IInv, TypeOK, Close
<1>2. /\ w'.wire.status = IF w.wire.status = 0 THEN 200 ELSE w.wire.status
      /\ w'.wire.body = w.wire.body + 0
  BY <1>1, CloseFields, WritersFields
<1>3. (stage' = "done") = TRUE /\ stage # "done"
  BY <1>1
<1> QED
  BY <1>1, <1>2, <1>3, SameWriters DEF Handler!Return, Handler!Plainly

LEMMA HandlerStep ==
  ASSUME IInv, [Next]_vars
  PROVE  [Handler!Next]_(Handler!vars)
<1>1. CASE \/ \E r \in Requests : Receive(r)
           \/ Cors \/ Route \/ Validate \/ Jwt \/ Bind \/ Handle
  <2>1. w' = w /\ stage # "done" /\ stage' # "done"
    BY <1>1 DEF Receive, Cors, Route, Validate, Jwt, Bind, Handle, Answer, Pass
  <2> QED
    BY <2>1, HandlerStutters
<1>2. CASE LogRequest \/ Annotate
  BY <1>2, HandlerStutters DEF LogRequest, Annotate
<1>3. CASE SendStatus
  <2>1. /\ w = FreshWriters /\ answer.code \in AnswerCodes
        /\ w' = WriteHeader(w, answer.code) /\ stage # "done" /\ stage' # "done"
    BY <1>3 DEF IInv, Answered, Open, SendStatus
  <2> QED
    BY <2>1, HandlerStatus DEF Handler!Next
<1>4. CASE Recover
  <2>1. /\ w = FreshWriters \/ Synced
        /\ w' = IF req.upgrade THEN w ELSE WriteHeader(w, 500)
        /\ stage # "done" /\ stage' # "done"
    BY <1>4 DEF IInv, Answered, Recover
  <2>2. CASE req.upgrade
    BY <2>1, <2>2, HandlerStutters
  <2>3. CASE ~ req.upgrade
    <3>1. 500 \in AnswerCodes
      BY DEF AnswerCodes
    <3> QED
      BY <2>1, <2>3, <3>1, HandlerStatus DEF Handler!Next
  <2> QED
    BY <2>2, <2>3
<1>5. CASE SendBody
  <2>1. CASE answer.length = 0
    BY <1>5, <2>1, HandlerStutters DEF SendBody
  <2>2. CASE answer.length # 0
    <3>1. answer.length \in 0..MaxLength
      BY DEF IInv, TypeOK
    <3> QED
      BY <1>5, <2>2, <3>1, HandlerBody DEF Handler!Next
  <2> QED
    BY <2>1, <2>2
<1>6. CASE Close
  BY <1>6, HandlerReturn DEF Handler!Next
<1>7. CASE UNCHANGED vars
  BY <1>7, HandlerStutters DEF vars
<1> QED
  BY <1>1, <1>2, <1>3, <1>4, <1>5, <1>6, <1>7 DEF Next

\* The chain implements AnyHandler (main_router.go:23-66 on the writers of
\* logger.go:41-46 and trace_errors.go:27-45): whichever stage answers, and wherever
\* the handler panics, the writers see a status, at most one body that fits behind it,
\* perhaps a status that comes too late, and the return.
THEOREM ChainIsAHandler == Spec => IsAHandler
<1> USE DEF IsAHandler
<1> QED
  BY HandlerInit, HandlerStep, ChainInductive, PTL DEF Spec, Handler!Spec
=============================================================================
