---------------------------- MODULE RoutePrinter ----------------------------
(***************************************************************************)
(* Which operation of the OpenAPI documents PrintRoutes describes a route  *)
(* with.  A route and an operation are pairs of a method and a path.       *)
(***************************************************************************)
EXTENDS Naturals, Sequences

\* docs/health.openapi.yaml and docs/users.openapi.yaml, as sets of operations.
HealthDocument == {<<"GET", "/healthz">>, <<"GET", "/livez">>, <<"GET", "/readyz">>}
UsersDocument == {<<"GET", "/users">>, <<"GET", "/user">>, <<"POST", "/user">>}

\* The order in which main passes them.
Documents == <<HealthDocument, UsersDocument>>

Documented == HealthDocument \cup UsersDocument

\* The routes that the two generated packages and the router itself register.
HealthRoutes == << <<"GET", "/healthz">>, <<"GET", "/livez">>, <<"GET", "/readyz">> >>
UserRoutes == << <<"GET", "/user">>, <<"POST", "/user">>, <<"GET", "/users">> >>
TestRoutes == << <<"GET", "/success">>, <<"GET", "/failure">>,
                 <<"GET", "/latency">>, <<"GET", "/heavy">> >>

\* What chi.Walk visits, in some order.
Registered == HealthRoutes \o UserRoutes \o TestRoutes

Undescribed == <<"", "">>

PathsOf(doc) == {op[2] : op \in doc}

\* Text a has text b in it.
Contains(a, b) == a = b \/ <<a, b>> = <<"/users", "/user">>

\* Mutant of Items: no exact match first.
ItemsAlike(doc, path) == {p \in PathsOf(doc) : Contains(path, p) \/ Contains(p, path)}

\* The paths of a document that the printer may take for a route: the route's own or,
\* failing that, whichever the random order of the map brings first of those that
\* contain it or are contained in it.
Items(doc, path) ==
  IF path \in PathsOf(doc) THEN {path}
  ELSE {p \in PathsOf(doc) : Contains(path, p) \/ Contains(p, path)}

\* The operations that the i-th document may be asked for.
Found(i, route) == {<<route[1], p>> : p \in Items(Documents[i], route[2])}

\* The i-th document may leave the route to the next: it has no path for it, or the path
\* it has is without an operation for the method.
MayPass(i, route) == ~ Found(i, route) \subseteq Documents[i] \/ Found(i, route) = {}

\* The descriptions that a route may get: from each document that all before it may pass
\* it on to, and none when all of them do.
Descriptions(route) ==
  LET Reached(i) == \A j \in 1..(i - 1) : MayPass(j, route)
  IN (UNION {Found(i, route) \cap Documents[i] : i \in {j \in DOMAIN Documents : Reached(j)}})
     \cup {d \in {Undescribed} : Reached(Len(Documents) + 1)}
=============================================================================
