--------------------------- MODULE MCRequestChain ---------------------------
(***************************************************************************)
(* RequestChain for TLC, over every configuration and every request whose  *)
(* parts matter: what no stage looks at has its plain value.  A body may   *)
(* be shorter or longer than the capture limit (4096 in the code).         *)
(***************************************************************************)
EXTENDS RequestChain

MCRequests ==
  {r \in AnyRequest :
    /\ r.authz # "bearer" => ~ (r.token = "valid") /\ r.keys
    /\ r.route \notin UserRoutes => r.authz = "none" /\ r.params = "good"
    /\ r.route # "getUser" => r.uuid
    /\ r.panics = "no" => ~ r.upgrade
    /\ r.preflight => r.authz = "none" /\ r.params = "good" /\ r.uuid /\ r.panics = "no"}
=============================================================================
