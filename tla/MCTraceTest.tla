----------------------------- MODULE MCTraceTest -----------------------------
(***************************************************************************)
(* TraceTest for TLC, with the handlers of the repository.  The tables are *)
(* constants, so TLC computes the call trees once.                         *)
(***************************************************************************)
EXTENDS TraceTest, FiniteSetsExt

CONSTANTS r1, r2

Handlers == INSTANCE Scripts

Table(Op(_, _)) == [k \in Kinds |-> [s \in Handlers!Tree(k) |-> Op(k, s)]]

SpansTable == [k \in Kinds |-> Handlers!Tree(k)]
AboveTable == Table(Handlers!Ancestors)
BeforeTable == Table(Handlers!Earlier)
SleepTable == Table(Handlers!SleepTime)
InsideTable == Table(Handlers!Children)
GroupTable == Table(Handlers!GroupOf)

ScriptKinds == Handlers!Endpoints
ScriptSpans(k) == SpansTable[k]
ScriptInside(k, s) == InsideTable[k][s]
ScriptAbove(k, s) == AboveTable[k][s]
ScriptBefore(k, s) == BeforeTable[k][s]
ScriptSleep(k, s) == SleepTable[k][s]
ScriptTotal(k, S) == MapThenSumSet(LAMBDA s : SleepTable[k][s], S)
ScriptGroup(k, s) == GroupTable[k][s]
ScriptFails(k, s) == Handlers!Errs(k, s)

\* The second request is there to compete with the first for the SDK's queue.
MCOffered(r) == IF r = r1 THEN Kinds ELSE {"failure"}
=============================================================================
