---------------------------- MODULE MCServerProcess ----------------------------
(* A user who asks for a stream of a verification and for one of a case, of  *)
(* which he may hold one, and another who asks for one of the case;          *)
(* environments that load and some that do not.                              *)
EXTENDS ServerProcess, TLC

CONSTANTS u1, u2, w1, l1, l2

MCUserOf == [c \in Conns |-> IF c = l2 THEN u2 ELSE u1]

Complete == [k \in Required |-> "long"]
With(more) == [k \in Required \cup DOMAIN more |-> IF k \in DOMAIN more THEN more[k] ELSE Complete[k]]

FabricFiles == [FABRIC_ENABLED |-> <<TRUE>>, FABRIC_PEER_ENDPOINT |-> "peer",
    FABRIC_CERT_PATH |-> "cert", FABRIC_KEY_PATH |-> "key", FABRIC_TLS_CERT_PATH |-> "tls"]

Admin == [EVIDENTIA_BOOTSTRAP_ADMIN_EMAIL |-> "e", EVIDENTIA_BOOTSTRAP_ADMIN_PASSWORD |-> "p",
          EVIDENTIA_BOOTSTRAP_ADMIN_NAME |-> "n"]

MCEnvironments == {
    Complete,
    With(FabricFiles @@ Admin),
    With([EVIDENTIA_BOOTSTRAP_ADMIN_EMAIL |-> "e"]),
    With([FABRIC_ENABLED |-> <<TRUE>>]),
    With([SERVER_PORT |-> << >>])}
================================================================================
