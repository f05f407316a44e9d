---------------------------- MODULE Configuration ----------------------------
(***************************************************************************)
(* What config.Load and tracing.Init make of the environment.  An          *)
(* environment gives each variable a text, or Unset; the texts are the     *)
(* spellings that the code tells apart.  The lists for CORS are left out.  *)
(***************************************************************************)
EXTENDS Integers

CONSTANT Atoi   \* Atoi[v]: the number that text v denotes; its domain has no other texts

Unset == "unset"

\* strconv.ParseBool
Trues == {"1", "t", "T", "true", "TRUE", "True"}
Falses == {"0", "f", "F", "false", "FALSE", "False"}

\* The texts that strings.TrimSpace leaves empty, and the empty one.
Blanks == {"", " "}

\* A variable that is set to nothing is set: the fallback is for one that is not.
GetEnv(env, key, fallback) == IF env[key] = Unset THEN fallback ELSE env[key]

\* Mutant of GetEnvBool: everything but a no is a yes.
GetEnvBoolLoosely(env, key, fallback) ==
  IF env[key] = Unset THEN fallback ELSE env[key] \notin Falses

\* A text that is no Boolean counts as not set.
GetEnvBool(env, key, fallback) ==
  CASE env[key] \in Trues  -> TRUE
    [] env[key] \in Falses -> FALSE
    [] OTHER -> fallback

GetEnvInt(env, key, fallback) ==
  IF env[key] \in DOMAIN Atoi THEN Atoi[env[key]] ELSE fallback

\* Case and surrounding blanks do not matter; a text that is no level counts as not set.
GetEnvLogLevel(env, key, fallback) ==
  CASE env[key] \in {"DEBUG", "debug", " Debug "} -> "debug"
    [] env[key] \in {"INFO", "info"} -> "info"
    [] env[key] \in {"WARN", "warn", "WARNING"} -> "warn"
    [] env[key] \in {"ERROR", "error"} -> "error"
    [] OTHER -> fallback

ConfigOf(env) ==
  [port       |-> GetEnv(env, "PORT", "8080"),
   logLevel   |-> GetEnvLogLevel(env, "LOG_LEVEL", "info"),
   pgHost     |-> GetEnv(env, "PG_HOST", "localhost"),
   pgPort     |-> GetEnv(env, "PG_PORT", "5432"),
   pgDB       |-> GetEnv(env, "PG_DB", "orbis"),
   pgUser     |-> GetEnv(env, "PG_USER", "user"),
   pgPassword |-> GetEnv(env, "PG_PASSWORD", "password"),
   pgLocal    |-> GetEnvBool(env, "PG_LOCAL", FALSE),
   corsMaxAge |-> GetEnvInt(env, "CORS_MAX_AGE", 300),
   oidc       |-> GetEnvBool(env, "OIDC_ENABLED", FALSE),
   issuer     |-> GetEnv(env, "OIDC_ISSUER", ""),
   audience   |-> GetEnv(env, "OIDC_AUDIENCE", "")]

IsPort(v) == v \in DOMAIN Atoi /\ Atoi[v] \in 1..65535

\* Config.Validate; where it fails, Load panics.
Valid(c) ==
  /\ IsPort(c.port)
  /\ c.pgHost # ""
  /\ IsPort(c.pgPort)
  /\ c.pgDB # ""
  /\ c.pgUser # ""
  /\ c.pgLocal \/ c.pgPassword # ""
  /\ c.corsMaxAge >= 0

-----------------------------------------------------------------------------
\* tracing.Init reads its variables itself.

\* There is no endpoint to export to, and Init installs nothing.
NoEndpoint(env) == env.OTEL_EXPORTER_OTLP_ENDPOINT \in Blanks \cup {Unset}

\* The protocol is one that newExporter knows, after trimming and in lower case.
KnownProtocol(env) ==
  env.OTEL_EXPORTER_OTLP_PROTOCOL \in
    Blanks \cup {Unset, "grpc", " GRPC", "http", "http/protobuf", "HTTP/Protobuf"}
=============================================================================
