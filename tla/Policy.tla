------------------------------- MODULE Policy -------------------------------
(***************************************************************************)
(* The contracts of crates/craftrelay-domain/src/lib.rs that decide whether *)
(* a publish enters the system: registration, manifests, ACL, effective     *)
(* policy, ownership and admission.  Each function of the source is an      *)
(* operator of the same name; a chain of early returns is a sequence of     *)
(* checks, in the order of the source, of which the first that fails gives  *)
(* the reason.                                                              *)
(*                                                                          *)
(* Data are abstracted: a name is a model value or a string that is only    *)
(* compared, the empty string is Empty, and a namespace pattern is the set  *)
(* of the namespaces it matches.  The ordered enums are integers, smallest  *)
(* variant first.                                                           *)
(***************************************************************************)
EXTENDS Integers, Sequences, FiniteSets

CONSTANTS
    Empty,             \* the empty string
    ValidIdentifiers,  \* the names is_valid_identifier accepts
    MAX_LIMIT          \* 4_096 in validate_manifest

ASSUME PolicyConstants == Empty \notin ValidIdentifiers /\ MAX_LIMIT \in Nat \ {0}

DurabilityClass == 0..1     \* LocalDurable < ReplicatedDurable
RetentionClass == 0..2      \* Standard < Extended < Permanent
PriorityClass == 0..3       \* P0 < P1 < P2 < Background
P0 == 0

ProducerLifecycleState == {"Active", "Disabled", "Suspended"}
CredentialStatus == {"Active", "Revoked", "Expired", "Unknown"}

\* A sequence of checks, each with the reason it gives when it fails.
Check(fails, reason) == [fails |-> fails, reason |-> reason]
Passes(checks) == \A i \in DOMAIN checks : ~checks[i].fails
Rejection(checks) ==
    checks[CHOOSE i \in DOMAIN checks :
              checks[i].fails /\ \A j \in 1..(i - 1) : ~checks[j].fails].reason
Violations(checks) == {checks[i].reason : i \in {j \in DOMAIN checks : checks[j].fails}}

-----------------------------------------------------------------------------
(* Flush criteria *)

FlushField == {"max_records", "max_bytes", "max_age_millis"}
FlushCriteria == [FlushField -> Int]

Clamp(x, low, high) == IF x < low THEN low ELSE IF x > high THEN high ELSE x

\* Accepted carries the requested criteria, Clamped the clamped ones; clamping
\* changes nothing when the request is within the bounds.
resolve_flush_policy(requested, bounds, reject_if_clamped) ==
    LET effective == [f \in FlushField |->
                         Clamp(requested[f], bounds.minimum[f], bounds.maximum[f])]
    IN  IF \/ \E f \in FlushField : requested[f] <= 0
           \/ reject_if_clamped /\ effective # requested
        THEN [accepted |-> FALSE, effective |-> bounds.minimum]
        ELSE [accepted |-> TRUE, effective |-> effective]

-----------------------------------------------------------------------------
(* Registration and manifests *)

IsDuplicate(producer, existing) ==
    \E other \in existing : /\ other.producer_id = producer.producer_id
                            /\ other.installation_id = producer.installation_id

validate_producer_registration(producer, requested_installation_id, existing) ==
    << Check(producer.installation_id # requested_installation_id, "CrossInstallation"),
       Check(producer.lifecycle_state = "Disabled", "Disabled"),
       Check(producer.lifecycle_state = "Suspended", "Suspended"),
       Check(IsDuplicate(producer, existing), "Duplicate"),
       Check(producer.producer_id = Empty \/ producer.integration_id = Empty,
             "InvalidManifest") >>

Repeats(names) == \E i, j \in DOMAIN names : i < j /\ names[i] = names[j]

\* Every violation is collected: the order of these checks does not matter.
ManifestChecks(manifest, ceiling) ==
    LET events == manifest.events
        queries == manifest.queries
        limits == manifest.limits
        IsInvalid(name) == name \notin ValidIdentifiers
        BadVersions(d) == d.min_schema_version <= 0 \/ d.max_schema_version <= 0
    IN
    << Check(manifest.integration_id = Empty \/ manifest.paper_plugin_id = Empty,
             "InvalidEventName"),
       Check(manifest.integration_version <= 0, "InvalidSchemaVersion"),
       Check(\E l \in DOMAIN limits : limits[l] <= 0, "MissingLimit"),
       Check(\E l \in DOMAIN limits : limits[l] > MAX_LIMIT, "UnboundedLimit"),
       Check(manifest.requested_priority < ceiling, "SelfPromotionForbidden"),
       Check(\E i \in DOMAIN events : IsInvalid(events[i].event_type), "InvalidEventName"),
       Check(Repeats([i \in DOMAIN events |-> events[i].event_type]), "DuplicateEvent"),
       Check(\E i \in DOMAIN events :
                 \/ BadVersions(events[i])
                 \/ events[i].min_schema_version > events[i].max_schema_version,
             "InvalidSchemaVersion"),
       Check(\E i \in DOMAIN events : IsInvalid(events[i].namespace), "InvalidNamespaceName"),
       Check(\E i \in DOMAIN events : events[i].event_class = "BEST_EFFORT",
             "BestEffortForbidden"),
       Check(\E i \in DOMAIN events : events[i].requested_priority < ceiling,
             "SelfPromotionForbidden"),
       Check(\E i \in DOMAIN queries : IsInvalid(queries[i].query_id), "InvalidQueryName"),
       Check(Repeats([i \in DOMAIN queries |-> queries[i].query_id]), "DuplicateQuery"),
       Check(\E i \in DOMAIN queries : BadVersions(queries[i]), "InvalidSchemaVersion"),
       Check(\E i \in DOMAIN manifest.namespaces : IsInvalid(manifest.namespaces[i]),
             "InvalidNamespaceName"),
       Check(Repeats(manifest.namespaces), "DuplicateNamespace") >>

validate_manifest(manifest, ceiling) == Violations(ManifestChecks(manifest, ceiling))

-----------------------------------------------------------------------------
(* ACL *)

namespace_matches(pattern, namespace) == namespace \in pattern

\* Variant: the rule of lowest priority comes first.
SortsBefore_Ascending(rules, i, j) ==
    \/ rules[i].priority < rules[j].priority
    \/ rules[i].priority = rules[j].priority /\ i < j

\* The stable sort by descending priority.
SortsBefore(rules, i, j) ==
    \/ rules[i].priority > rules[j].priority
    \/ rules[i].priority = rules[j].priority /\ i < j

\* The rules of an action, sorted.
SortedRules(rules, action) ==
    LET applicable == {i \in DOMAIN rules : rules[i].action = action}
    IN  [k \in 1..Cardinality(applicable) |->
            rules[CHOOSE i \in applicable :
                     Cardinality({j \in applicable : SortsBefore(rules, j, i)}) = k - 1]]

Acl(decision, reason, version) ==
    [decision |-> decision, deny_reason |-> reason, policy_version |-> version]

evaluate_acl(principal, scope_installation_id, scope_namespace, action, rules, version) ==
    LET identity ==
            << Check(principal.installation_id # scope_installation_id, "CrossInstallation"),
               Check(principal.credential = "Revoked", "CredentialRevoked"),
               Check(principal.credential = "Expired", "CredentialExpired"),
               Check(principal.credential = "Unknown", "CredentialInvalid") >>
        sorted == SortedRules(rules, action)
        matching == {k \in DOMAIN sorted :
                        namespace_matches(sorted[k].namespace_pattern, scope_namespace)}
        first == CHOOSE k \in matching : \A l \in matching : k <= l
    IN  IF ~Passes(identity) THEN Acl("Deny", Rejection(identity), version)
        ELSE IF matching = {} THEN Acl("Deny", "NoMatchingRule", version)
        ELSE Acl(sorted[first].decision,
                 IF sorted[first].decision = "Deny" THEN "ExplicitDeny" ELSE "None", version)

-----------------------------------------------------------------------------
(* Ownership snapshots *)

validate_ownership_snapshot(snapshot) ==
    LET entries == snapshot.entries
    IN  Violations(
        << Check(snapshot.mode # "NodeLocal", "UnsupportedMode"),
           Check(\E i \in DOMAIN entries : \/ entries[i].owner_node_id = Empty
                                           \/ entries[i].owner_agent_id = Empty,
                 "MissingOwner"),
           Check(Repeats([i \in DOMAIN entries |-> entries[i].namespace]), "DuplicateNamespace"),
           Check(\E i \in DOMAIN entries :
                     entries[i].installation_id # snapshot.installation_id,
                 "CrossInstallation"),
           Check(\E i \in DOMAIN entries : entries[i].mode # "NodeLocal",
                 "UnsupportedMode") >>)

is_namespace_locally_owned(snapshot, namespace) ==
    \E i \in DOMAIN snapshot.entries :
        /\ snapshot.entries[i].namespace = namespace
        /\ snapshot.entries[i].owner_node_id = snapshot.node_id

-----------------------------------------------------------------------------
(* Effective policy.  A configuration with required_projection = Empty is one *)
(* whose required_projection_policy_id is None.                               *)

PolicyChecks(ctx, config, owned) ==
    << Check(ctx.installation_id # config.installation_id, "InstallationEscape"),
       Check(ctx.producer.installation_id # ctx.installation_id, "CrossInstallation"),
       Check(ctx.producer.lifecycle_state = "Disabled", "ProducerDisabled"),
       Check(ctx.producer.lifecycle_state = "Suspended", "ProducerSuspended"),
       Check(ctx.acl_result.decision = "Deny", "AclDenied"),
       Check(ctx.requested_durability < config.minimum_durability, "DurabilityWeakening"),
       Check(ctx.requested_retention < config.minimum_retention, "RetentionWeakening"),
       Check(config.required_projection # Empty
                 /\ ctx.requested_projection \notin {Empty, config.required_projection},
             "ProjectionBypass"),
       Check(ctx.requested_priority < config.priority_ceiling, "SelfPromotion"),
       Check(ctx.producer.policy_binding_id
                 \notin config.valid_policy_bindings \cup {Empty}, "UnknownPolicyBinding"),
       Check(ctx.namespace \notin owned, "NotLocallyOwned"),
       Check(~resolve_flush_policy(ctx.requested_flush, config.flush_bounds, FALSE).accepted,
             "InvalidPolicyBinding") >>

\* Variant: what the producer asks for is used as it is.
EffectiveProjection_Requested(ctx, config) == ctx.requested_projection

EffectiveProjection(ctx, config) ==
    IF config.required_projection # Empty THEN config.required_projection
    ELSE ctx.requested_projection

\* Only an admitted result is used further; a rejected one keeps its reason.
resolve_policy(ctx, config, owned) ==
    LET checks == PolicyChecks(ctx, config, owned)
    IN  IF ~Passes(checks)
        THEN [admitted |-> FALSE, rejection_reason |-> Rejection(checks)]
        ELSE [admitted |-> TRUE,
              effective_durability |-> ctx.requested_durability,
              effective_retention |-> ctx.requested_retention,
              effective_projection |-> EffectiveProjection(ctx, config),
              effective_priority_class |-> ctx.producer.priority_class,
              effective_flush |-> resolve_flush_policy(ctx.requested_flush,
                                                       config.flush_bounds, FALSE).effective,
              policy_version |-> config.policy_version]

-----------------------------------------------------------------------------
(* Quotas *)

NonNegative(n) == IF n < 0 THEN 0 ELSE n

IsDisabled(producer) == producer.lifecycle_state = "Disabled"

\* Variant: the bytes of this publish are not counted.
BytesExceeded_WithoutOwn(quota, payload_bytes) ==
    quota.in_flight_bytes > quota.max_in_flight_bytes

BytesExceeded(quota, payload_bytes) ==
    quota.in_flight_bytes + payload_bytes > quota.max_in_flight_bytes

\* Variant: off by one at the edge of the reserve.
P0Reserved_OffByOne(producer, available_global, remaining_p0) ==
    producer.priority_class # P0 /\ available_global - NonNegative(remaining_p0) < 0

P0Reserved(producer, available_global, remaining_p0) ==
    producer.priority_class # P0 /\ available_global - NonNegative(remaining_p0) <= 0

AdmissionChecks(producer, producer_quota, namespace_quota, global_quota, payload_bytes, owned) ==
    LET available_global == global_quota.max_in_flight_publishes
                                - global_quota.in_flight_publishes
        remaining_p0 == global_quota.reserved_p0_capacity - global_quota.used_p0_capacity
    IN
    << Check(IsDisabled(producer), "ProducerDisabled"),
       Check(~owned, "NotLocallyOwned"),
       Check(producer_quota.in_flight_publishes >= producer_quota.max_in_flight_publishes,
             "ProducerInFlightExceeded"),
       Check(producer_quota.queued_publishes >= producer_quota.max_queued_publishes,
             "ProducerQueueExceeded"),
       Check(BytesExceeded(producer_quota, payload_bytes), "ProducerBytesExceeded"),
       Check(namespace_quota.in_flight_publishes >= namespace_quota.max_in_flight_publishes,
             "NamespaceInFlightExceeded"),
       Check(available_global <= 0, "GlobalInFlightExceeded"),
       Check(P0Reserved(producer, available_global, remaining_p0), "P0CapacityReserved") >>
=============================================================================
