------------------------------ MODULE ServerConfig ------------------------------
(***************************************************************************)
(* internal/config: what the process makes of its environment.              *)
(*                                                                         *)
(* An environment is a function from the variables that are set to their    *)
(* raw values. A number, a duration (in seconds) or a boolean is <<v>>, or   *)
(* << >> when it does not parse; a list is the set of its members; any other *)
(* text is a string. Load returns a configuration or, when Problems is not   *)
(* empty, every problem at once.                                            *)
(***************************************************************************)
EXTENDS Integers, FiniteSets

IsSet(env, key) == key \in DOMAIN env

\* getString, and getStringSlice over it: an empty value is a value.
getString(env, key, def) == IF IsSet(env, key) THEN env[key] ELSE def

\* getInt, getBool and getDuration: what does not parse is a problem and the
\* default takes its place.
getValue(env, key, def) ==
    IF IsSet(env, key) /\ env[key] # << >> THEN env[key][1] ELSE def

Hours(n) == n * 3600

\* The defaults of Load for numbers and durations.
Numbers == [
    SERVER_PORT |-> 8080, SERVER_READ_TIMEOUT |-> 15, SERVER_WRITE_TIMEOUT |-> 15,
    SERVER_IDLE_TIMEOUT |-> 60, SERVER_SHUTDOWN_TIMEOUT |-> 15,
    SERVER_MAX_BODY_BYTES |-> 1048576, MAX_UPLOAD_SIZE |-> 52428800,
    DATABASE_PORT |-> 5432, DATABASE_MAX_OPEN_CONNS |-> 25,
    DATABASE_MAX_IDLE_CONNS |-> 5, DATABASE_CONN_MAX_LIFETIME |-> 300,
    REDIS_DB |-> 0, JWT_ACCESS_TTL |-> 900, JWT_REFRESH_TTL |-> Hours(168),
    BCRYPT_COST |-> 12, LOGIN_RATE_LIMIT_IP_MAX |-> 20,
    LOGIN_RATE_LIMIT_IP_WINDOW |-> 900, LOGIN_RATE_LIMIT_ACCOUNT_MAX |-> 10,
    LOGIN_RATE_LIMIT_ACCOUNT_WINDOW |-> 900]

Flags == [CORS_ALLOW_CREDENTIALS |-> FALSE, REDIS_TLS |-> FALSE,
          REDIS_TLS_INSECURE |-> FALSE, MINIO_USE_SSL |-> FALSE,
          FABRIC_ENABLED |-> FALSE]

Texts == [APP_ENV |-> "development", APP_NAME |-> "evidentia-backend",
          DATABASE_SSLMODE |-> "disable", REDIS_ADDR |-> "localhost:6379",
          MINIO_ENDPOINT |-> "localhost:9000", LOG_LEVEL |-> "info",
          LOG_FORMAT |-> "json", JWT_ISSUER |-> "evidentia-api",
          JWT_AUDIENCE |-> "evidentia-client"]

\* requireString: credentials and names that have no default.
Required == {"DATABASE_USER", "DATABASE_PASSWORD", "DATABASE_NAME",
             "MINIO_ACCESS_KEY", "MINIO_SECRET_KEY", "MINIO_BUCKET",
             "JWT_SIGNING_KEY"}

BootstrapGroup == {"EVIDENTIA_BOOTSTRAP_ADMIN_EMAIL",
                   "EVIDENTIA_BOOTSTRAP_ADMIN_PASSWORD",
                   "EVIDENTIA_BOOTSTRAP_ADMIN_NAME"}

\* FabricConfig: those without a default, and those with one.
FabricDefaults == [
    FABRIC_PEER_ENDPOINT |-> "", FABRIC_CERT_PATH |-> "", FABRIC_KEY_PATH |-> "",
    FABRIC_TLS_CERT_PATH |-> "", FABRIC_CHANNEL |-> "evidentia-channel",
    FABRIC_CHAINCODE |-> "evidentia", FABRIC_MSP_ID |-> "PoliceMSP"]

num(env, key) == getValue(env, key, Numbers[key])
flag(env, key) == getValue(env, key, Flags[key])
text(env, key) == getString(env, key, Texts[key])
origins(env) == getString(env, "CORS_ALLOWED_ORIGINS", {"http://localhost:4200"})
methods(env) == getString(env, "CORS_ALLOWED_METHODS", {"GET", "POST", "PUT"})

\* requireString and the parsers, while Load reads the environment.
ReadProblems(env) ==
    {k \in Required : getString(env, k, "") = ""}
    \cup {k \in DOMAIN Numbers \cup DOMAIN Flags : IsSet(env, k) /\ env[k] = << >>}

validatePort(env) ==
    {k \in {"SERVER_PORT", "DATABASE_PORT"} : num(env, k) \notin 1 .. 65535}

\* validatePositiveDuration and the limits that must be above 0.
validatePositive(env) ==
    {k \in {"SERVER_READ_TIMEOUT", "SERVER_WRITE_TIMEOUT", "SERVER_IDLE_TIMEOUT",
            "SERVER_SHUTDOWN_TIMEOUT", "SERVER_MAX_BODY_BYTES", "MAX_UPLOAD_SIZE",
            "DATABASE_MAX_OPEN_CONNS", "LOGIN_RATE_LIMIT_IP_MAX",
            "LOGIN_RATE_LIMIT_IP_WINDOW", "LOGIN_RATE_LIMIT_ACCOUNT_MAX",
            "LOGIN_RATE_LIMIT_ACCOUNT_WINDOW"} : num(env, k) <= 0}

validateNames(env) ==
    {k \in {"APP_NAME", "REDIS_ADDR", "MINIO_ENDPOINT", "JWT_ISSUER", "JWT_AUDIENCE"} :
        text(env, k) = ""}
    \cup (IF text(env, "APP_ENV") \in {"development", "test", "staging", "production"}
            THEN {} ELSE {"APP_ENV"})
    \cup (IF text(env, "LOG_LEVEL") \in {"debug", "info", "warn", "warning", "error"}
            THEN {} ELSE {"LOG_LEVEL"})
    \cup (IF text(env, "LOG_FORMAT") \in {"json", "text"} THEN {} ELSE {"LOG_FORMAT"})

validSSLModes == {"disable", "allow", "prefer", "require", "verify-ca", "verify-full"}

validateDatabase(env) ==
    LET open == num(env, "DATABASE_MAX_OPEN_CONNS")
        idle == num(env, "DATABASE_MAX_IDLE_CONNS")
    IN  (IF text(env, "DATABASE_SSLMODE") \in validSSLModes THEN {} ELSE {"DATABASE_SSLMODE"})
        \cup (IF idle < 0 \/ (open > 0 /\ idle > open) THEN {"DATABASE_MAX_IDLE_CONNS"} ELSE {})
        \cup {k \in {"DATABASE_CONN_MAX_LIFETIME", "REDIS_DB"} : num(env, k) < 0}

\* A wildcard is refused in production, and with credentials everywhere.
validateCORS(env) ==
    LET wildcard == "*" \in origins(env)
        refused == \/ origins(env) = {}
                   \/ wildcard /\ text(env, "APP_ENV") = "production"
                   \/ wildcard /\ flag(env, "CORS_ALLOW_CREDENTIALS")
    IN  (IF refused THEN {"CORS_ALLOWED_ORIGINS"} ELSE {})
        \cup (IF methods(env) = {} THEN {"CORS_ALLOWED_METHODS"} ELSE {})

\* The signing key is "short" when it has fewer than 32 characters.
validateJWT(env) ==
    LET access == num(env, "JWT_ACCESS_TTL")
        refresh == num(env, "JWT_REFRESH_TTL")
    IN  (IF access \notin 1 .. Hours(24) THEN {"JWT_ACCESS_TTL"} ELSE {})
        \cup (IF refresh <= 0 \/ (access > 0 /\ refresh <= access)
                THEN {"JWT_REFRESH_TTL"} ELSE {})
        \cup (IF getString(env, "JWT_SIGNING_KEY", "") \in {"", "short"}
                THEN {"JWT_SIGNING_KEY"} ELSE {})
        \cup (IF num(env, "BCRYPT_COST") \notin 10 .. 31 THEN {"BCRYPT_COST"} ELSE {})

\* validateBootstrapAdmin: the whole group or none of it.
validateBootstrapAdmin(env) ==
    LET given == {k \in BootstrapGroup : getString(env, k, "") # ""}
    IN  IF given \in {{}, BootstrapGroup} THEN {} ELSE BootstrapGroup

validateFabric(env) ==
    IF flag(env, "FABRIC_ENABLED")
      THEN {k \in DOMAIN FabricDefaults : getString(env, k, FabricDefaults[k]) = ""}
      ELSE {}

validate(env) ==
    validatePort(env) \cup validatePositive(env) \cup validateNames(env)
    \cup validateDatabase(env) \cup validateCORS(env) \cup validateJWT(env)
    \cup validateBootstrapAdmin(env) \cup validateFabric(env)

\* Load returns a configuration only for an environment without problems.
Problems(env) == ReadProblems(env) \cup validate(env)

Loads(env) == Problems(env) = {}

\* The part of the configuration that the other modules use.
Load(env) == [
    env            |-> text(env, "APP_ENV"),
    allowedOrigins |-> origins(env),
    credentials    |-> flag(env, "CORS_ALLOW_CREDENTIALS"),
    maxBody        |-> num(env, "SERVER_MAX_BODY_BYTES"),
    maxUpload      |-> num(env, "MAX_UPLOAD_SIZE"),
    ipMax          |-> num(env, "LOGIN_RATE_LIMIT_IP_MAX"),
    accountMax     |-> num(env, "LOGIN_RATE_LIMIT_ACCOUNT_MAX"),
    fabric         |-> flag(env, "FABRIC_ENABLED"),
    bootstrap      |-> getString(env, "EVIDENTIA_BOOTSTRAP_ADMIN_EMAIL", "") # ""]

\* LoadMigrator wants the migrator's credentials and looks at nothing else.
LoadMigrator(env) ==
    /\ \A k \in {"DATABASE_MIGRATOR_USER", "DATABASE_MIGRATOR_PASSWORD", "DATABASE_NAME"} :
          getString(env, k, "") # ""
    /\ ~(IsSet(env, "DATABASE_PORT") /\ env["DATABASE_PORT"] = << >>)
    /\ num(env, "DATABASE_PORT") \in 1 .. 65535
    /\ text(env, "DATABASE_SSLMODE") \in validSSLModes
================================================================================
