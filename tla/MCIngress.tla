------------------------------ MODULE MCIngress ------------------------------
(***************************************************************************)
(* A small installation: a P0 producer and a P1 producer, two namespaces,   *)
(* two publish threads, and an operator with policies, ownership snapshots, *)
(* profiles and manifests of which some are refused.                        *)
(***************************************************************************)
EXTENDS Ingress, TLC

CONSTANTS t1, t2, i1, i2, home, away, n1, n2, none

MCIdentifiers == {"ledger", "audit", "main", "chat", "price"}

MCManifest(events, priority, limit) ==
    [integration_id |-> "economy", paper_plugin_id |-> "economy", integration_version |-> 1,
     limits |-> [publishes |-> limit, queries |-> 1, watches |-> 1],
     requested_priority |-> priority, events |-> events,
     queries |-> <<[query_id |-> "price", min_schema_version |-> 1, max_schema_version |-> 1]>>,
     namespaces |-> <<"main">>]
MCEvent(type, priority) ==
    [event_type |-> type, min_schema_version |-> 1, max_schema_version |-> 2,
     namespace |-> "main", event_class |-> "AUDIT", requested_priority |-> priority]
MCGood == MCManifest(<<MCEvent("ledger", 1), MCEvent("audit", 2)>>, 1, 2)

MCProducer(id, installation, priority, binding) ==
    [producer_id |-> id, installation_id |-> installation, integration_id |-> "economy",
     lifecycle_state |-> "Active", priority_class |-> priority, policy_binding_id |-> binding]
MCPA == MCProducer("pa", home, 0, none)
MCPB == MCProducer("pb", home, 1, "gold")

MCRegistrations ==
    {[producer |-> p, manifest |-> MCGood] : p \in {MCPA, MCPB}}
    \cup {[producer |-> MCPB, manifest |-> m] :
              m \in {MCManifest(<<MCEvent("ledger", 1), MCEvent("ledger", 1)>>, 1, 2),
                     MCManifest(<<MCEvent("ledger", 0)>>, 1, 2),
                     MCManifest(<<>>, 1, 3)}}
    \cup {[producer |-> MCProducer("pa", away, 0, none), manifest |-> MCGood]}

MCRule(pattern, decision, priority) ==
    [action |-> "Publish", namespace_pattern |-> pattern, decision |-> decision,
     priority |-> priority]
MCFlush(n) == [f \in FlushField |-> n]
MCPolicy(durability, projection, bindings, flush, rules) ==
    [minimum_durability |-> durability,
     minimum_retention |-> durability, required_projection |-> projection,
     priority_ceiling |-> 1, valid_policy_bindings |-> bindings,
     flush_bounds |-> [minimum |-> MCFlush(1), maximum |-> MCFlush(flush)],
     rules |-> rules]
MCFirstPolicy ==
     MCPolicy(0, none, {"gold"}, 2,
              <<MCRule({n2}, "Deny", 1), MCRule({n1, n2}, "Allow", 1), MCRule({n2}, "Allow", 0)>>)
MCPolicies ==
    {MCFirstPolicy,
     MCPolicy(1, "ledger_view", {}, 1,
              <<MCRule({n1, n2}, "Allow", 1), MCRule({n1}, "Deny", 1), MCRule({n2}, "Deny", 0)>>)}

MCEntry(n, node) ==
    [namespace |-> n, owner_node_id |-> node, owner_agent_id |-> "agent",
     installation_id |-> home, mode |-> "NodeLocal"]
MCSnapshot(entries) ==
    [installation_id |-> home, node_id |-> "here", mode |-> "NodeLocal", entries |-> entries]
MCFirstSnapshot == MCSnapshot(<<MCEntry(n1, "here"), MCEntry(n2, "here")>>)
MCSnapshots ==
    {MCFirstSnapshot,
     MCSnapshot(<<MCEntry(n1, "there"), MCEntry(n2, "here")>>),
     MCSnapshot(<<MCEntry(n1, "here"), MCEntry(n1, "there")>>)}

MCRequest(p, n, durability, projection, priority, flush, bytes) ==
    [producer_id |-> p, installation_id |-> home, namespace |-> n, durability |-> durability,
     retention |-> durability, projection |-> projection, priority |-> priority,
     flush |-> MCFlush(flush), bytes |-> bytes]
MCRequests ==
    {MCRequest("pa", n1, 1, none, 1, 3, 2),
     MCRequest("pb", n1, 0, none, 2, 2, 1),
     MCRequest("pa", n2, 1, "own_view", 1, 1, 1)}

MCProfile(version, rf, isr, acks, unclean) ==
    [profile_version |-> version, replication_factor |-> rf, min_insync_replicas |-> isr,
     acks_all |-> acks, enable_idempotence |-> TRUE, delivery_timeout_ms |-> 1,
     request_timeout_ms |-> 1, linger_ms |-> 0, max_in_flight |-> 1,
     known_compression |-> TRUE, retention_ms |-> 1, retention_bytes |-> 1,
     known_cleanup_policy |-> TRUE, unclean_leader_election |-> unclean,
     topic_protected |-> TRUE]
MCFirstProfile == MCProfile(1, 5, 5, TRUE, FALSE)
MCProfiles ==
    {MCFirstProfile, MCProfile(2, 6, 5, TRUE, FALSE), MCProfile(2, 6, 4, TRUE, FALSE),
     MCProfile(3, 7, 7, FALSE, FALSE), MCProfile(2, 5, 5, TRUE, TRUE)}

MCSymmetry == Permutations({t1, t2}) \cup Permutations({i1, i2})
=============================================================================
