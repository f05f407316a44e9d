------------------------------- MODULE Scripts -------------------------------
(***************************************************************************)
(* The four trace-test handlers as data: what each calls, in which order,  *)
(* and for how many milliseconds each call sleeps.                         *)
(***************************************************************************)
EXTENDS Naturals, Sequences

Endpoints == {"success", "failure", "latency", "heavy"}

\* child(ctx, span, ms, ...)
Call(span, ms) == [span |-> span, ms |-> ms]

\* Heavy is by far the longest of the four.
HeavyBody ==
  <<Call("auth.token.validate", 8), Call("db.user.fetch", 14), Call("db.permissions.fetch", 11),
    Call("cache.user.write", 3), Call("http.downstream.enrich", 38),
    Call("business.rules.evaluate", 5), Call("db.audit.insert", 9), Call("queue.job.enqueue", 6)>>

\* The children that the body of each handler runs, one after the other.
Body(k) ==
  CASE k = "success" -> <<Call("cache.lookup", 4), Call("store.user.fetch", 12),
                          Call("response.encode", 2)>>
    [] k = "failure" -> <<Call("cache.lookup", 3), Call("store.user.fetch", 35)>>
    [] k = "latency" -> <<Call("auth.validate", 30), Call("upstream.search", 1400),
                          Call("response.encode", 50)>>
    [] k = "heavy"   -> HeavyBody

\* What runs inside span s of a request of kind k: otelchi's server span holds the
\* handler's, that one the children, and the call that is retried the retry.
Calls(k, s) ==
  CASE s = "server"  -> <<Call("handler", 0)>>
    [] s = "handler" -> Body(k)
    [] s = "http.downstream.enrich" -> <<Call("http.downstream.retry", 18)>>
    [] OTHER -> <<>>

\* The function given to child returns an error.
Errs(k, s) == k = "failure" /\ s = "store.user.fetch"

\* The groups of TracePipeline: the first call, the second, and what ends after it.
GroupOf(k, s) ==
  CASE s = Body(k)[1].span -> "early"
    [] s = Body(k)[2].span -> "work"
    [] OTHER -> "server"

-----------------------------------------------------------------------------
\* The call tree, derived.

Names(calls) == {calls[i].span : i \in DOMAIN calls}

Children(k, s) == Names(Calls(k, s))

\* Everything that runs inside the spans of S, at any depth.
RECURSIVE Within(_, _)
Within(k, S) ==
  IF S = {} THEN {} ELSE LET below == UNION {Children(k, s) : s \in S}
                         IN below \cup Within(k, below)

Tree(k) == {"server"} \cup Within(k, {"server"})

Ancestors(k, s) == {a \in Tree(k) : s \in Within(k, {a})}

\* The calls that return before s is called, from the same body.
Earlier(k, s) ==
  UNION {LET calls == Calls(k, p)
         IN {calls[i].span : i \in {j \in DOMAIN calls :
               \E m \in DOMAIN calls : j < m /\ calls[m].span = s}} : p \in Tree(k)}

\* How long the call of s sleeps before it runs anything else.
SleepTime(k, s) ==
  LET All == UNION {{Calls(k, p)[i] : i \in DOMAIN Calls(k, p)} : p \in Tree(k)}
  IN IF \E c \in All : c.span = s THEN (CHOOSE c \in All : c.span = s).ms ELSE 0
=============================================================================
