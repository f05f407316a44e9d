------------------------------ MODULE MCProcess ------------------------------
(***************************************************************************)
(* Process for TLC.  The environments are the one of the deployment and    *)
(* those that differ from it in what the code tells apart: one variable, a *)
(* password with or without PG_LOCAL, or the variables of OIDC.            *)
(***************************************************************************)
EXTENDS Process, TLC

MCAtoi == "8080" :> 8080 @@ "5432" :> 5432 @@ "0" :> 0 @@ "1" :> 1
          @@ "65535" :> 65535 @@ "65536" :> 65536 @@ "-1" :> -1

\* k8s/test-deployment.yaml
Deployed ==
  [PORT |-> "8080", LOG_LEVEL |-> "INFO",
   PG_LOCAL |-> "true", PG_HOST |-> "localhost", PG_PORT |-> "5432", PG_DB |-> "disabled",
   PG_USER |-> "disabled", PG_PASSWORD |-> "disabled",
   CORS_MAX_AGE |-> Unset,
   OIDC_ENABLED |-> "false", OIDC_ISSUER |-> Unset, OIDC_AUDIENCE |-> Unset,
   OTEL_EXPORTER_OTLP_PROTOCOL |-> "grpc", OTEL_EXPORTER_OTLP_ENDPOINT |-> "node:4317"]

MCEnvironments ==
  {[Deployed EXCEPT !.PORT = v] : v \in {Unset, "", "0", "1", "65535", "65536", "http"}}
  \cup {[Deployed EXCEPT !.LOG_LEVEL = v] : v \in {"", " Debug ", "loud"}}
  \cup {[Deployed EXCEPT ![k] = v] :
          k \in {"PG_HOST", "PG_PORT", "PG_DB", "PG_USER"}, v \in {Unset, "", "1"}}
  \cup {[Deployed EXCEPT !.PG_LOCAL = v, !.PG_PASSWORD = p] :
          v \in {Unset, "1", "no"}, p \in {Unset, ""}}
  \cup {[Deployed EXCEPT !.CORS_MAX_AGE = v] : v \in {"0", "-1", "long"}}
  \cup {[Deployed EXCEPT !.OTEL_EXPORTER_OTLP_ENDPOINT = v, !.OTEL_EXPORTER_OTLP_PROTOCOL = p] :
          v \in {Unset, " ", "node:4317"}, p \in {Unset, " GRPC", "http/protobuf", "udp"}}
  \cup {[Deployed EXCEPT !.OIDC_ENABLED = v, !.OIDC_ISSUER = i, !.OIDC_AUDIENCE = a] :
          v \in {Unset, "True", "yes", "0"}, i \in {Unset, "https://issuer"}, a \in {"", "me"}}
=============================================================================
