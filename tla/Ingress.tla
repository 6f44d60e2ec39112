------------------------------ MODULE Ingress ------------------------------
(***************************************************************************)
(* How publishes enter an installation: several threads each take a request *)
(* through evaluate_acl, resolve_policy and evaluate_admission of the       *)
(* domain crate, while an operator registers producers, changes their       *)
(* state, their credentials, the policy, the ownership snapshot and the     *)
(* Kafka profile between any two of these steps.                            *)
(*                                                                          *)
(* The decisions are the repository's.  What calls them is not in it: the   *)
(* order of the three steps is the one their parameters force (the context  *)
(* of resolve_policy holds an ACL result), and the counters admission reads *)
(* are the fields of the quota structs, updated with the decision.          *)
(***************************************************************************)
EXTENDS Policy, KafkaProfile

CONSTANTS
    Home,            \* the installation this node serves
    Threads,         \* concurrent publish calls
    Namespaces,
    Registrations,   \* registrations an operator may ask for
    Policies,        \* policies an operator may put in force
    Snapshots,       \* ownership snapshots an operator may install
    Requests,        \* publish requests
    PublishIds,      \* names of admitted publishes, at least MaxInFlight
    Profiles,        \* Kafka profiles an operator may install
    FirstPolicy, FirstSnapshot, FirstProfile,
    MaxInFlight, ReservedP0,           \* GlobalQuotaState
    MaxProducerInFlight, MaxQueued, MaxBytes,   \* ProducerQuotaState
    MaxNamespaceInFlight,              \* NamespaceQuotaState
    MaxChanges       \* bound on the operator's changes

\* A pattern is the set of the namespaces it matches.
AclRule == [action : {"Publish", "Query", "Watch", "Admin"},
            namespace_pattern : SUBSET Namespaces,
            decision : {"Allow", "Deny"}, priority : Int]

\* What a RegisteredProducer has here.
ProducerFields == {"producer_id", "installation_id", "integration_id", "lifecycle_state",
                   "priority_class", "policy_binding_id"}

ManifestEventDeclaration ==
    [event_type : STRING, min_schema_version : Int, max_schema_version : Int,
     namespace : STRING, event_class : STRING, requested_priority : PriorityClass]

ASSUME IngressConstants ==
    /\ MaxInFlight \in Nat /\ ReservedP0 \in 0..MaxInFlight
    /\ MaxProducerInFlight \in Nat /\ MaxQueued \in Nat /\ MaxBytes \in Nat
    /\ MaxNamespaceInFlight \in Nat /\ MaxChanges \in Nat
    /\ FirstPolicy \in Policies
    /\ \A p \in Policies, f \in FlushField :
           /\ p.flush_bounds.minimum[f] \in Int /\ p.flush_bounds.maximum[f] \in Int
           /\ p.flush_bounds.minimum[f] <= p.flush_bounds.maximum[f]
    /\ \A p \in Policies : p.minimum_durability \in DurabilityClass
                          /\ p.minimum_retention \in RetentionClass
                          /\ p.priority_ceiling \in PriorityClass
                          /\ p.rules \in Seq(AclRule)
    /\ FirstSnapshot \in Snapshots /\ validate_ownership_snapshot(FirstSnapshot) = {}
    /\ \A r \in Requests :
           /\ r.bytes \in Nat /\ r.namespace \in Namespaces
           /\ r.durability \in DurabilityClass /\ r.retention \in RetentionClass
           /\ r.priority \in PriorityClass /\ r.flush \in FlushCriteria
    /\ \A r \in Registrations :
           /\ DOMAIN r.producer = ProducerFields
           /\ r.manifest.limits \in [{"publishes", "queries", "watches"} -> Int]
           /\ r.manifest.events \in Seq(ManifestEventDeclaration)
    /\ Profiles \subseteq KafkaProductionProfile
    /\ FirstProfile \in Profiles /\ validate_p0_production_profile(FirstProfile)

ProducerIds == {r.producer.producer_id : r \in Registrations}

VARIABLES
    registry,      \* registered producers, with the manifest and policy version they passed
    credential,    \* status of the credential of each producer's principal
    policies,      \* every policy put in force, by version; the last one is in force
    ownership,     \* the ownership snapshot installed
    profile,       \* the Kafka profile installed
    call,          \* what each thread is doing
    inflight,      \* publishes admitted and not yet completed
    producer_quota, namespace_quota, global_quota,
    changes

admin == <<registry, credential, policies, ownership, profile>>
quotas == <<producer_quota, namespace_quota, global_quota>>
vars == <<admin, call, inflight, quotas, changes>>

Version == Len(policies)
Config ==
    LET policy == policies[Version]
    IN  [installation_id |-> Home,
         minimum_durability |-> policy.minimum_durability,
         minimum_retention |-> policy.minimum_retention,
         required_projection |-> policy.required_projection,
         priority_ceiling |-> policy.priority_ceiling,
         valid_policy_bindings |-> policy.valid_policy_bindings,
         flush_bounds |-> policy.flush_bounds,
         policy_version |-> Version]
Owned == {n \in Namespaces : is_namespace_locally_owned(ownership, n)}
Registered(p) == \E r \in registry : r.producer.producer_id = p
Producer(p) == (CHOOSE r \in registry : r.producer.producer_id = p).producer

\* GlobalQuotaState with these counters; its limits never change.
GlobalQuotaState(in_flight, used_p0) ==
    [in_flight_publishes |-> in_flight, max_in_flight_publishes |-> MaxInFlight,
     reserved_p0_capacity |-> ReservedP0, used_p0_capacity |-> used_p0]

Idle == [step |-> "idle"]

Init ==
    /\ registry = {}
    /\ credential = [p \in ProducerIds |-> "Active"]
    /\ policies = <<FirstPolicy>>
    /\ ownership = FirstSnapshot
    /\ profile = FirstProfile
    /\ call = [t \in Threads |-> Idle]
    /\ inflight = {}
    /\ producer_quota = [p \in ProducerIds |->
            [in_flight_publishes |-> 0, max_in_flight_publishes |-> MaxProducerInFlight,
             queued_publishes |-> 0, max_queued_publishes |-> MaxQueued,
             in_flight_bytes |-> 0, max_in_flight_bytes |-> MaxBytes]]
    /\ namespace_quota = [n \in Namespaces |->
            [in_flight_publishes |-> 0, max_in_flight_publishes |-> MaxNamespaceInFlight]]
    /\ global_quota = GlobalQuotaState(0, 0)
    /\ changes = 0

-----------------------------------------------------------------------------
(* The operator *)

Change == changes < MaxChanges /\ changes' = changes + 1

Register(r) ==
    /\ validate_manifest(r.manifest, Config.priority_ceiling) = {}
    /\ Passes(validate_producer_registration(r.producer, Home, {o.producer : o \in registry}))
    /\ registry' = registry \cup
           {[producer |-> r.producer, manifest |-> r.manifest, version |-> Version]}
    /\ UNCHANGED <<credential, policies, ownership, profile, call, inflight, quotas, changes>>

SetLifecycle(p, state) ==
    /\ Change
    /\ Registered(p) /\ Producer(p).lifecycle_state # state
    /\ registry' = {IF r.producer.producer_id = p
                    THEN [r EXCEPT !.producer = [r.producer EXCEPT !.lifecycle_state = state]]
                    ELSE r : r \in registry}
    /\ UNCHANGED <<credential, policies, ownership, profile, call, inflight, quotas>>

SetCredential(p, status) ==
    /\ Change
    /\ credential[p] # status
    /\ credential' = [credential EXCEPT ![p] = status]
    /\ UNCHANGED <<registry, policies, ownership, profile, call, inflight, quotas>>

ChangePolicy(policy) ==
    /\ Change
    /\ policies' = Append(policies, policy)
    /\ UNCHANGED <<registry, credential, ownership, profile, call, inflight, quotas>>

InstallOwnership(snapshot) ==
    /\ Change
    /\ snapshot # ownership
    /\ validate_ownership_snapshot(snapshot) = {}
    /\ ownership' = snapshot
    /\ UNCHANGED <<registry, credential, policies, profile, call, inflight, quotas>>

InstallProfile(new) ==
    /\ Change
    /\ new # profile
    /\ validate_production_profile(new)
    /\ detect_profile_drift(new, profile) = {}
    /\ profile' = new
    /\ UNCHANGED <<registry, credential, policies, ownership, call, inflight, quotas>>

-----------------------------------------------------------------------------
(* A publish call *)

EvaluateAcl(t, request) ==
    /\ call[t] = Idle
    /\ Registered(request.producer_id)
    /\ LET p == Producer(request.producer_id)
           principal == [installation_id |-> p.installation_id,
                         credential |-> credential[p.producer_id]]
       IN  call' = [call EXCEPT ![t] =
               [step |-> "policy", request |-> request,
                acl |-> evaluate_acl(principal, request.installation_id, request.namespace,
                                     "Publish", policies[Version].rules, Version)]]
    /\ UNCHANGED <<admin, inflight, quotas, changes>>

ResolvePolicy(t) ==
    /\ call[t].step = "policy"
    /\ LET request == call[t].request
           ctx == [installation_id |-> request.installation_id,
                   producer |-> Producer(request.producer_id),
                   acl_result |-> call[t].acl,
                   namespace |-> request.namespace,
                   requested_durability |-> request.durability,
                   requested_retention |-> request.retention,
                   requested_projection |-> request.projection,
                   requested_priority |-> request.priority,
                   requested_flush |-> request.flush]
           result == resolve_policy(ctx, Config, Owned)
       IN  call' = [call EXCEPT ![t] =
               IF result.admitted
               THEN [step |-> "admission", request |-> request, acl |-> call[t].acl,
                     policy |-> result]
               ELSE Idle]
    /\ UNCHANGED <<admin, inflight, quotas, changes>>

\* evaluate_admission, applied to the state it reads.
Admission(t) ==
    LET request == call[t].request
    IN  AdmissionChecks(Producer(request.producer_id), producer_quota[request.producer_id],
                        namespace_quota[request.namespace], global_quota, request.bytes,
                        is_namespace_locally_owned(ownership, request.namespace))

\* The publish a call becomes when it is admitted.
Publish(t, id) ==
    [id |-> id,
     request |-> call[t].request, acl |-> call[t].acl, policy |-> call[t].policy,
     p0 |-> Producer(call[t].request.producer_id).priority_class = P0]

Admit(t, id) ==
    LET p == call[t].request.producer_id
        n == call[t].request.namespace
        bytes == call[t].request.bytes
    IN
    /\ call[t].step = "admission"
    /\ Passes(Admission(t))
    /\ \A x \in inflight : x.id # id
    /\ inflight' = inflight \cup {Publish(t, id)}
    /\ producer_quota' = [producer_quota EXCEPT
           ![p].in_flight_publishes = producer_quota[p].in_flight_publishes + 1,
           ![p].in_flight_bytes = producer_quota[p].in_flight_bytes + bytes,
           ![p].queued_publishes = producer_quota[p].queued_publishes + 1]
    /\ namespace_quota' = [namespace_quota EXCEPT
           ![n].in_flight_publishes = namespace_quota[n].in_flight_publishes + 1]
    /\ global_quota' = GlobalQuotaState(
           global_quota.in_flight_publishes + 1,
           global_quota.used_p0_capacity + (IF Publish(t, id).p0 THEN 1 ELSE 0))
    /\ call' = [call EXCEPT ![t] = Idle]
    /\ UNCHANGED <<admin, changes>>

Reject(t) ==
    /\ call[t].step = "admission"
    /\ ~Passes(Admission(t))
    /\ call' = [call EXCEPT ![t] = Idle]
    /\ UNCHANGED <<admin, inflight, quotas, changes>>

\* A queued publish of p leaves the queue; it stays in flight.
Dequeue(p) ==
    /\ producer_quota[p].queued_publishes > 0
    /\ producer_quota' = [producer_quota EXCEPT
           ![p].queued_publishes = producer_quota[p].queued_publishes - 1]
    /\ UNCHANGED <<admin, call, inflight, namespace_quota, global_quota, changes>>

\* An admitted publish is accepted or refused by the journal and gives back
\* what it took at its admission.
Complete(x) ==
    LET p == x.request.producer_id
        n == x.request.namespace
    IN
    /\ producer_quota[p].queued_publishes < producer_quota[p].in_flight_publishes
    /\ inflight' = inflight \ {x}
    /\ producer_quota' = [producer_quota EXCEPT
           ![p].in_flight_publishes = producer_quota[p].in_flight_publishes - 1,
           ![p].in_flight_bytes = producer_quota[p].in_flight_bytes - x.request.bytes]
    /\ namespace_quota' = [namespace_quota EXCEPT
           ![n].in_flight_publishes = namespace_quota[n].in_flight_publishes - 1]
    /\ global_quota' = GlobalQuotaState(
           global_quota.in_flight_publishes - 1,
           global_quota.used_p0_capacity - (IF x.p0 THEN 1 ELSE 0))
    /\ UNCHANGED <<admin, call, changes>>

Operator ==
    \/ \E r \in Registrations : Register(r)
    \/ \E p \in ProducerIds, s \in ProducerLifecycleState : SetLifecycle(p, s)
    \/ \E p \in ProducerIds, s \in CredentialStatus : SetCredential(p, s)
    \/ \E policy \in Policies : ChangePolicy(policy)
    \/ \E s \in Snapshots : InstallOwnership(s)
    \/ \E new \in Profiles : InstallProfile(new)

PublishStep ==
    \/ \E t \in Threads, r \in Requests : EvaluateAcl(t, r)
    \/ \E t \in Threads : ResolvePolicy(t) \/ Reject(t)
    \/ \E t \in Threads, id \in PublishIds : Admit(t, id)
    \/ \E p \in ProducerIds : Dequeue(p)
    \/ \E x \in inflight : Complete(x)

Next == Operator \/ PublishStep

Spec == Init /\ [][Next]_vars

-----------------------------------------------------------------------------
(* Properties *)

\* However many threads are admitted, no counter of the quota structs leaves the range
\* its limits give it.  The registry holds a producer once, whatever its state was
\* changed to, and every manifest in it has distinct names, limits within bounds and
\* no priority above the ceiling validate_manifest checked it against.
IngressTypeOK ==
    /\ \A t \in Threads : call[t].step \in {"idle", "policy", "admission"}
    /\ \A p \in ProducerIds :
           /\ producer_quota[p].in_flight_publishes \in 0..MaxProducerInFlight
           /\ producer_quota[p].queued_publishes \in 0..MaxQueued
           /\ producer_quota[p].in_flight_bytes \in 0..MaxBytes
    /\ \A n \in Namespaces :
           namespace_quota[n].in_flight_publishes \in 0..MaxNamespaceInFlight
    /\ global_quota.in_flight_publishes \in 0..MaxInFlight
    /\ \A r, o \in registry : r.producer.producer_id = o.producer.producer_id => r = o
    /\ \A r \in registry :
           /\ \A l \in DOMAIN r.manifest.limits : r.manifest.limits[l] \in 1..MAX_LIMIT
           /\ Cardinality({r.manifest.events[i].event_type : i \in DOMAIN r.manifest.events})
                  = Len(r.manifest.events)
           /\ \A i \in DOMAIN r.manifest.events :
                  r.manifest.events[i].requested_priority
                      >= policies[r.version].priority_ceiling

\* Whatever lower-priority producers do, the part of the reserved P0 capacity that
\* P0 publishes do not use yet is free: the P0CapacityReserved check of
\* evaluate_admission is enough, also when P0 publishes exceed the reserve and
\* shrink back.
ReservedRoomKept ==
    MaxInFlight - global_quota.in_flight_publishes
        >= NonNegative(ReservedP0 - global_quota.used_p0_capacity)

\* What the rules of a policy say of a namespace: an allowing rule with no denying
\* rule above it, nor beside it and before it.
AclAllows(rules, n) ==
    \E i \in DOMAIN rules :
        LET Applies(k) == rules[k].action = "Publish" /\ n \in rules[k].namespace_pattern
        IN  /\ Applies(i) /\ rules[i].decision = "Allow"
            /\ \A j \in DOMAIN rules : Applies(j) /\ rules[j].decision = "Deny" =>
                   \/ rules[j].priority < rules[i].priority
                   \/ rules[j].priority = rules[i].priority /\ i < j

\* Every publish in flight was allowed by the rules of the policy version its ACL
\* result names, as evaluate_acl promises: the rule of highest priority decides, and
\* among equals the first.
AllowedByItsRules ==
    \A x \in inflight :
        AclAllows(policies[x.acl.policy_version].rules, x.request.namespace)

\* What resolve_policy promises of a request and its effective policy.
WithinPolicy(request, acl, effective) ==
    LET policy == policies[effective.policy_version]
    IN  /\ effective.policy_version \in 1..Version
        /\ acl.policy_version \in 1..effective.policy_version
        /\ effective.effective_durability >= policy.minimum_durability
        /\ effective.effective_retention >= policy.minimum_retention
        /\ request.priority >= policy.priority_ceiling
        /\ policy.required_projection # Empty =>
               effective.effective_projection = policy.required_projection
        /\ \A f \in FlushField :
               effective.effective_flush[f]
                   \in policy.flush_bounds.minimum[f]..policy.flush_bounds.maximum[f]

\* Every publish in flight meets every minimum of the policy version its effective
\* policy names, which is no older than the one its ACL result names, however often
\* the policy changed meanwhile: the producer cannot weaken it by what it requests.
AdmittedWithinPolicy == \A x \in inflight : WithinPolicy(x.request, x.acl, x.policy)

\* A chain of profile changes that passes the validation of any production profile
\* and shows no drift never leaves the profiles that are safe for P0 delivery.
ProfileStaysP0Safe == validate_p0_production_profile(profile)
=============================================================================
