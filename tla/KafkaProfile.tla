---------------------------- MODULE KafkaProfile ----------------------------
(***************************************************************************)
(* The Kafka production profile of the domain crate and the drift check of  *)
(* crates/craftrelay-kafka-delivery/src/profile.rs.  A profile is a record; *)
(* its string columns are compared with fixed strings only, so they are     *)
(* abstracted to whether they are among the accepted ones.                  *)
(***************************************************************************)
EXTENDS Integers

CONSTANTS
    MIN_P0_REPLICAS,   \* the 5 of validate_p0_production_profile
    MAX_IN_FLIGHT      \* the 5 of max_in_flight_requests_per_connection

ASSUME ProfileConstants == MIN_P0_REPLICAS \in Nat /\ MAX_IN_FLIGHT \in Nat

KafkaProductionProfile ==
    [profile_version : Int, replication_factor : Int, min_insync_replicas : Int,
     acks_all : BOOLEAN,              \* required_acks is "all" or "-1"
     enable_idempotence : BOOLEAN, delivery_timeout_ms : Int, request_timeout_ms : Int,
     linger_ms : Int, max_in_flight : Int,
     known_compression : BOOLEAN, retention_ms : Int, retention_bytes : Int,
     known_cleanup_policy : BOOLEAN, unclean_leader_election : BOOLEAN,
     topic_protected : BOOLEAN]       \* topic_deletion_policy is "PROTECTED"

validate_kafka_profile(profile) ==
    /\ profile.replication_factor > 0
    /\ profile.min_insync_replicas > 0
    /\ profile.min_insync_replicas <= profile.replication_factor
    /\ profile.acks_all

validate_production_profile(profile) ==
    /\ validate_kafka_profile(profile)
    /\ profile.enable_idempotence
    /\ profile.delivery_timeout_ms > 0
    /\ profile.request_timeout_ms > 0
    /\ profile.linger_ms >= 0
    /\ profile.max_in_flight \in 1..MAX_IN_FLIGHT
    /\ profile.known_compression
    /\ profile.retention_ms > 0
    /\ profile.retention_bytes > 0
    /\ profile.known_cleanup_policy
    /\ ~profile.unclean_leader_election
    /\ profile.topic_protected

\* Also is_profile_safe_for_delivery of profile.rs, which only calls it.
validate_p0_production_profile(profile) ==
    /\ validate_production_profile(profile)
    /\ profile.replication_factor >= MIN_P0_REPLICAS
    /\ profile.min_insync_replicas >= MIN_P0_REPLICAS

\* Variant: only the replication factor is compared.
detect_profile_drift_FactorOnly(current, previous) ==
    {drift \in {"RfWeakened"} : current.replication_factor < previous.replication_factor}

detect_profile_drift(current, previous) ==
    {drift \in {"VersionDowngrade", "RfWeakened", "MinIsrWeakened", "IdempotenceDisabled",
                "UncleanElectionEnabled", "AcksWeakened"} :
        \/ drift = "VersionDowngrade" /\ current.profile_version < previous.profile_version
        \/ drift = "RfWeakened" /\ current.replication_factor < previous.replication_factor
        \/ drift = "MinIsrWeakened"
               /\ current.min_insync_replicas < previous.min_insync_replicas
        \/ drift = "IdempotenceDisabled"
               /\ ~current.enable_idempotence /\ previous.enable_idempotence
        \/ drift = "UncleanElectionEnabled"
               /\ current.unclean_leader_election /\ ~previous.unclean_leader_election
        \/ drift = "AcksWeakened" /\ ~current.acks_all /\ previous.acks_all}
=============================================================================
