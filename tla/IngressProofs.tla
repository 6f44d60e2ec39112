---------------------------- MODULE IngressProofs ----------------------------
(***************************************************************************)
(* Proofs about the ingress for any number of producers, threads, policies  *)
(* and profiles: the reserved P0 room, the policy minimums, the safety of   *)
(* the installed Kafka profile, the order of the access rules, the quota    *)
(* counters and the registry.                                               *)
(***************************************************************************)
EXTENDS Ingress, FiniteSetTheorems, WellFoundedInduction, TLAPS

\* Of a list of checks that passes, none fails: the two about the global quota.
LEMMA AdmissionPasses ==
    ASSUME NEW producer, NEW pq, NEW nq, NEW gq, NEW bytes, NEW owned,
           Passes(AdmissionChecks(producer, pq, nq, gq, bytes, owned))
    PROVE  /\ ~(gq.max_in_flight_publishes - gq.in_flight_publishes <= 0)
           /\ producer.priority_class # P0 =>
                ~(gq.max_in_flight_publishes - gq.in_flight_publishes
                    - NonNegative(gq.reserved_p0_capacity - gq.used_p0_capacity) <= 0)
<1> DEFINE checks == AdmissionChecks(producer, pq, nq, gq, bytes, owned)
<1>1. DOMAIN checks = 1..8
  BY DEF AdmissionChecks
<1>2. ~checks[7].fails /\ ~checks[8].fails
  BY <1>1 DEF Passes
<1>3. /\ checks[7].fails = (gq.max_in_flight_publishes - gq.in_flight_publishes <= 0)
      /\ checks[8].fails = (/\ producer.priority_class # P0
                            /\ gq.max_in_flight_publishes - gq.in_flight_publishes
                                 - NonNegative(gq.reserved_p0_capacity - gq.used_p0_capacity)
                                 <= 0)
  BY Zenon DEF AdmissionChecks, Check, P0Reserved
<1> QED
  BY <1>2, <1>3, Zenon

-----------------------------------------------------------------------------
(* The reserved P0 room *)

\* The global quota keeps its limits; only its two counters change.
GlobalQuotaOK ==
    global_quota = GlobalQuotaState(global_quota.in_flight_publishes,
                                    global_quota.used_p0_capacity)

GlobalCountersOK ==
    /\ global_quota.in_flight_publishes \in Int
    /\ global_quota.used_p0_capacity \in Int

RoomInv == GlobalQuotaOK /\ GlobalCountersOK /\ ReservedRoomKept

\* The first quota has its reserve free and no P0 use.
LEMMA RoomInit == Init => RoomInv
BY IngressConstants DEF Init, RoomInv, GlobalQuotaOK, GlobalCountersOK, ReservedRoomKept,
   NonNegative, GlobalQuotaState

\* A step that moves both counters keeps the rest of the global quota.
LEMMA RoomCounters ==
    ASSUME NEW n \in Int, NEW u \in Int,
           global_quota' = GlobalQuotaState(n, u),
           MaxInFlight - n >= NonNegative(ReservedP0 - u)
    PROVE  RoomInv'
<1>1. global_quota'.in_flight_publishes = n /\ global_quota'.used_p0_capacity = u
  BY Zenon DEF GlobalQuotaState
<1>2. GlobalQuotaOK'
  BY <1>1, Zenon DEF GlobalQuotaOK
<1>3. GlobalCountersOK' /\ ReservedRoomKept'
  BY <1>1, Zenon DEF GlobalCountersOK, ReservedRoomKept
<1> QED
  BY <1>2, <1>3, Zenon DEF RoomInv

\* Every admission and every completion keeps the reserve free.
LEMMA RoomStep == RoomInv /\ [Next]_vars => RoomInv'
<1> SUFFICES ASSUME RoomInv, [Next]_vars PROVE RoomInv'
  OBVIOUS
<1>k. MaxInFlight \in Int /\ ReservedP0 \in Int
  BY IngressConstants
<1>n. PICK n \in Int : n = global_quota.in_flight_publishes
  BY Zenon DEF RoomInv, GlobalCountersOK
<1>u. PICK u \in Int : u = global_quota.used_p0_capacity
  BY Zenon DEF RoomInv, GlobalCountersOK
<1>1. ASSUME NEW t \in Threads, NEW id \in PublishIds, Admit(t, id) PROVE RoomInv'
  <2>1. /\ Passes(Admission(t))
        /\ global_quota' = GlobalQuotaState(n + 1, u + (IF Publish(t, id).p0 THEN 1 ELSE 0))
    BY <1>1, <1>n, <1>u, Zenon DEF Admit
  <2>2. global_quota.max_in_flight_publishes = MaxInFlight
        /\ global_quota.reserved_p0_capacity = ReservedP0
    BY DEF RoomInv, GlobalQuotaOK, GlobalQuotaState
  <2>3. /\ ~(MaxInFlight - n <= 0)
        /\ Producer(call[t].request.producer_id).priority_class # P0 =>
               ~(MaxInFlight - n - NonNegative(ReservedP0 - u) <= 0)
    BY <1>n, <1>u, <2>1, <2>2, AdmissionPasses, Zenon DEF Admission
  <2>4. CASE Publish(t, id).p0
    <3>1. global_quota' = GlobalQuotaState(n + 1, u + 1)
      BY <2>1, <2>4, Zenon
    <3>2. MaxInFlight - (n + 1) >= NonNegative(ReservedP0 - (u + 1))
      BY <1>k, <1>n, <1>u, <2>3 DEF NonNegative, RoomInv, ReservedRoomKept
    <3> QED
      BY <3>1, <3>2, RoomCounters
  <2>5. CASE ~Publish(t, id).p0
    <3>1. global_quota' = GlobalQuotaState(n + 1, u)
      BY <2>1, <2>5
    <3>2. Producer(call[t].request.producer_id).priority_class # P0
      BY <2>5, Zenon DEF Publish
    <3>3. MaxInFlight - (n + 1) >= NonNegative(ReservedP0 - u)
      BY <1>k, <2>3, <3>2 DEF NonNegative
    <3> QED
      BY <3>1, <3>3, RoomCounters
  <2> QED
    BY <2>4, <2>5, Zenon
<1>2. ASSUME NEW x \in inflight, Complete(x) PROVE RoomInv'
  <2>1. global_quota' = GlobalQuotaState(n - 1, u - (IF x.p0 THEN 1 ELSE 0))
    BY <1>2, <1>n, <1>u, Zenon DEF Complete
  <2>2. PICK d \in {0, 1} :
            global_quota' = GlobalQuotaState(n - 1, u - d)
    BY <2>1, Zenon
  <2>3. MaxInFlight - (n - 1) >= NonNegative(ReservedP0 - (u - d))
    BY <1>k, <1>n, <1>u DEF NonNegative, RoomInv, ReservedRoomKept
  <2>4. n - 1 \in Int /\ u - d \in Int
    OBVIOUS
  <2> QED
    BY <2>2, <2>3, <2>4, RoomCounters, Zenon
<1>3. ASSUME UNCHANGED global_quota PROVE RoomInv'
  BY <1>3, Zenon DEF RoomInv, GlobalQuotaOK, GlobalCountersOK, ReservedRoomKept
<1>4. ASSUME Operator PROVE UNCHANGED global_quota
  BY <1>4, Zenon DEF Operator, Register, SetLifecycle, SetCredential, ChangePolicy,
     InstallOwnership, InstallProfile, quotas
<1>5. ASSUME \/ \E t \in Threads, r \in Requests : EvaluateAcl(t, r)
             \/ \E t \in Threads : ResolvePolicy(t) \/ Reject(t)
             \/ \E p \in ProducerIds : Dequeue(p)
             \/ UNCHANGED vars
      PROVE  UNCHANGED global_quota
  BY <1>5, Zenon DEF EvaluateAcl, ResolvePolicy, Reject, Dequeue, quotas, vars
<1> QED
  BY <1>1, <1>2, <1>3, <1>4, <1>5, Zenon DEF Next, PublishStep

\* For every quota and every mix of producers, the unused part of the reserved P0
\* capacity stays free: the admission check of evaluate_admission is sufficient.
THEOREM ReservedRoomHolds == Spec => []ReservedRoomKept
<1>1. RoomInv => ReservedRoomKept
  BY Zenon DEF RoomInv
<1> QED
  BY RoomInit, RoomStep, <1>1, PTL DEF Spec

-----------------------------------------------------------------------------
(* The Kafka profile *)

\* One change of profile: validation as any production profile and no drift from a
\* profile that is safe for P0 delivery are together the P0 validation.
LEMMA NoDriftKeepsP0Safe ==
    ASSUME NEW new \in KafkaProductionProfile, NEW old \in KafkaProductionProfile,
           validate_p0_production_profile(old),
           validate_production_profile(new),
           detect_profile_drift(new, old) = {}
    PROVE  validate_p0_production_profile(new)
<1>1. /\ ~(new.replication_factor < old.replication_factor)
      /\ ~(new.min_insync_replicas < old.min_insync_replicas)
  BY Zenon DEF detect_profile_drift
<1>2. /\ old.replication_factor >= MIN_P0_REPLICAS
      /\ old.min_insync_replicas >= MIN_P0_REPLICAS
  BY Zenon DEF validate_p0_production_profile
<1>3. /\ new.replication_factor \in Int /\ old.replication_factor \in Int
      /\ new.min_insync_replicas \in Int /\ old.min_insync_replicas \in Int
  BY Zenon DEF KafkaProductionProfile
<1>4. /\ new.replication_factor >= MIN_P0_REPLICAS
      /\ new.min_insync_replicas >= MIN_P0_REPLICAS
  BY <1>1, <1>2, <1>3, ProfileConstants
<1> QED
  BY <1>4, Zenon DEF validate_p0_production_profile

\* For every set of profiles and any chain of changes, the profile in use stays safe
\* for P0 delivery: detect_profile_drift compares with the previous profile only,
\* and that is enough.
THEOREM ProfileHolds == Spec => []ProfileStaysP0Safe
<1> DEFINE Inv == profile \in Profiles /\ ProfileStaysP0Safe
<1> USE IngressConstants
<1>1. Init => Inv
  BY Zenon DEF Init, ProfileStaysP0Safe
<1>2. ASSUME Inv, [Next]_vars PROVE Inv'
  <2>1. ASSUME NEW new \in Profiles, InstallProfile(new) PROVE Inv'
    <3>1. profile' = new /\ validate_production_profile(new)
          /\ detect_profile_drift(new, profile) = {}
      BY <2>1, Zenon DEF InstallProfile
    <3>2. new \in KafkaProductionProfile /\ profile \in KafkaProductionProfile
      BY <1>2, Zenon
    <3>3. validate_p0_production_profile(new)
      BY <1>2, <3>1, <3>2, NoDriftKeepsP0Safe, Zenon DEF ProfileStaysP0Safe
    <3> QED
      BY <3>1, <3>3, Zenon DEF ProfileStaysP0Safe
  <2>2. ASSUME UNCHANGED profile PROVE Inv'
    BY <1>2, <2>2, Zenon DEF ProfileStaysP0Safe
  <2>3. ASSUME \/ \E r \in Registrations : Register(r)
               \/ \E p \in ProducerIds, s \in ProducerLifecycleState : SetLifecycle(p, s)
               \/ \E p \in ProducerIds, s \in CredentialStatus : SetCredential(p, s)
               \/ \E policy \in Policies : ChangePolicy(policy)
               \/ \E s \in Snapshots : InstallOwnership(s)
               \/ PublishStep \/ UNCHANGED vars
        PROVE  UNCHANGED profile
    BY <2>3, Zenon DEF Register, SetLifecycle, SetCredential, ChangePolicy, InstallOwnership,
       PublishStep, EvaluateAcl, ResolvePolicy, Admit, Reject, Dequeue, Complete, admin, vars
  <2> QED
    BY <1>2, <2>1, <2>2, <2>3, Zenon DEF Next, Operator
<1>3. Inv => ProfileStaysP0Safe
  OBVIOUS
<1> QED
  BY <1>1, <1>2, <1>3, PTL DEF Spec

-----------------------------------------------------------------------------
(* The policy minimums *)

\* Clamping to ordered bounds ends within them.
LEMMA ClampWithin ==
    ASSUME NEW x \in Int, NEW low \in Int, NEW high \in Int, low <= high
    PROVE  Clamp(x, low, high) \in low..high /\ low \in low..high
BY DEF Clamp

\* A request resolved against the configuration in force meets its minimums.
LEMMA ResolvedWithin ==
    ASSUME NEW ctx, NEW owned, NEW acl, NEW request \in Requests,
           policies \in Seq(Policies), Len(policies) >= 1,
           ctx.requested_durability = request.durability,
           ctx.requested_retention = request.retention,
           ctx.requested_priority = request.priority,
           ctx.requested_flush = request.flush,
           acl.policy_version \in 1..Version,
           resolve_policy(ctx, Config, owned).admitted
    PROVE  WithinPolicy(request, acl, resolve_policy(ctx, Config, owned))
<1> DEFINE checks == PolicyChecks(ctx, Config, owned)
           result == resolve_policy(ctx, Config, owned)
           bounds == policies[Version].flush_bounds
           flush == resolve_flush_policy(request.flush, bounds, FALSE)
<1>1. Version \in Nat /\ Version >= 1 /\ policies[Version] \in Policies
  BY DEF Version
<1>a. /\ policies[Version].minimum_durability \in DurabilityClass
      /\ policies[Version].minimum_retention \in RetentionClass
      /\ policies[Version].priority_ceiling \in PriorityClass
  BY <1>1, IngressConstants, Zenon
<1>b. /\ request.durability \in DurabilityClass /\ request.retention \in RetentionClass
      /\ request.priority \in PriorityClass /\ request.flush \in FlushCriteria
  BY IngressConstants, Zenon
<1>2. Passes(checks)
  BY Zenon DEF resolve_policy
<1>3. DOMAIN checks = 1..12
  BY DEF PolicyChecks
<1>4. ~checks[6].fails /\ ~checks[7].fails /\ ~checks[9].fails
  BY <1>2, <1>3 DEF Passes
<1>5. /\ checks[6].fails = (request.durability < policies[Version].minimum_durability)
      /\ checks[7].fails = (request.retention < policies[Version].minimum_retention)
      /\ checks[9].fails = (request.priority < policies[Version].priority_ceiling)
  BY Zenon DEF PolicyChecks, Check, Config
<1>c. /\ Config.required_projection = policies[Version].required_projection
      /\ Config.flush_bounds = bounds
      /\ Config.policy_version = Version
  BY Zenon DEF Config
<1> HIDE DEF Config
<1>6. /\ result.effective_durability = request.durability
      /\ result.effective_retention = request.retention
      /\ result.effective_flush = flush.effective
      /\ result.policy_version = Version
      /\ policies[Version].required_projection # Empty =>
             result.effective_projection = policies[Version].required_projection
  BY <1>2, <1>c, Zenon DEF resolve_policy, EffectiveProjection
<1>7. /\ request.durability >= policies[Version].minimum_durability
      /\ request.retention >= policies[Version].minimum_retention
      /\ request.priority >= policies[Version].priority_ceiling
  <2>1. /\ ~(request.durability < policies[Version].minimum_durability)
        /\ ~(request.retention < policies[Version].minimum_retention)
        /\ ~(request.priority < policies[Version].priority_ceiling)
    BY <1>4, <1>5, Zenon
  <2> QED
    BY <1>a, <1>b, <2>1 DEF DurabilityClass, RetentionClass, PriorityClass
<1>8. ASSUME NEW f \in FlushField
      PROVE  flush.effective[f] \in bounds.minimum[f]..bounds.maximum[f]
  <2>1. /\ bounds.minimum[f] \in Int /\ bounds.maximum[f] \in Int
        /\ bounds.minimum[f] <= bounds.maximum[f]
    BY <1>1, IngressConstants, Zenon
  <2>2. request.flush[f] \in Int
    BY <1>b, Zenon DEF FlushCriteria
  <2>3. flush.effective[f] \in {bounds.minimum[f],
                                Clamp(request.flush[f], bounds.minimum[f], bounds.maximum[f])}
    BY Zenon DEF resolve_flush_policy
  <2> QED
    BY <2>1, <2>2, <2>3, ClampWithin, ZenonT(40)
<1>9. result.policy_version \in 1..Version /\ acl.policy_version \in 1..result.policy_version
  BY <1>1, <1>6
<1> HIDE DEF result, bounds, flush
<1>10. WithinPolicy(request, acl, result)
  BY <1>6, <1>7, <1>8, <1>9, Zenon DEF WithinPolicy, bounds
<1> QED
  BY <1>10, Zenon DEF result

\* The policy history is a growing sequence, and what a call or a publish has been
\* promised refers to versions that are part of it.
PolicyInv ==
    /\ policies \in Seq(Policies) /\ Len(policies) >= 1
    /\ call = [t \in Threads |-> call[t]]
    /\ \A t \in Threads : call[t].step = "policy" =>
           call[t].request \in Requests /\ call[t].acl.policy_version \in 1..Version
    /\ \A t \in Threads : call[t].step = "admission" =>
           WithinPolicy(call[t].request, call[t].acl, call[t].policy)
    /\ AdmittedWithinPolicy

\* Putting another policy in force changes nothing of the versions named so far.
LEMMA WithinPolicyStays ==
    ASSUME policies \in Seq(Policies), NEW policy \in Policies,
           policies' = Append(policies, policy),
           NEW request, NEW acl, NEW effective, WithinPolicy(request, acl, effective)
    PROVE  WithinPolicy(request, acl, effective)'
<1>1. effective.policy_version \in 1..Len(policies)
  BY Zenon DEF WithinPolicy, Version
<1>2. /\ policies'[effective.policy_version] = policies[effective.policy_version]
      /\ effective.policy_version \in 1..Len(policies')
  BY <1>1
<1> QED
  BY <1>1, <1>2, Zenon DEF WithinPolicy, Version

\* Nothing is resolved or in flight at first.
LEMMA PolicyInit == Init => PolicyInv
<1> SUFFICES ASSUME Init PROVE PolicyInv
  OBVIOUS
<1>1. policies \in Seq(Policies) /\ Len(policies) >= 1
  BY IngressConstants DEF Init
<1>2. call = [t \in Threads |-> call[t]] /\ \A t \in Threads : call[t].step = "idle"
  BY Zenon DEF Init, Idle
<1>3. AdmittedWithinPolicy
  BY Zenon DEF Init, AdmittedWithinPolicy
<1> QED
  BY <1>1, <1>2, <1>3, Zenon DEF PolicyInv

\* A step of one thread leaves the invariant of the others and of the publishes alone.
LEMMA PolicyCallStep ==
    ASSUME PolicyInv, NEW t \in Threads, NEW c, call' = [call EXCEPT ![t] = c],
           c.step = "policy" => c.request \in Requests /\ c.acl.policy_version \in 1..Version,
           c.step = "admission" => WithinPolicy(c.request, c.acl, c.policy),
           UNCHANGED policies, AdmittedWithinPolicy'
    PROVE  PolicyInv'
<1>1. call' = [s \in Threads |-> call'[s]]
      /\ \A s \in Threads : call'[s] = IF s = t THEN c ELSE call[s]
  BY Zenon DEF PolicyInv
<1>2. \A s \in Threads : call'[s].step = "policy" =>
          call'[s].request \in Requests /\ call'[s].acl.policy_version \in 1..Version'
  BY <1>1, Zenon DEF PolicyInv, Version
<1>3. \A s \in Threads : call'[s].step = "admission" =>
          WithinPolicy(call'[s].request, call'[s].acl, call'[s].policy)
  BY <1>1, Zenon DEF PolicyInv
<1>4. \A s \in Threads : call'[s].step = "admission" =>
          WithinPolicy(call[s].request, call[s].acl, call[s].policy)'
  BY <1>3, Zenon DEF WithinPolicy, Version
<1> QED
  BY <1>1, <1>2, <1>4, Zenon DEF PolicyInv

\* A step records a resolution that is within its policy, or passes one on.
LEMMA PolicyStep == PolicyInv /\ [Next]_vars => PolicyInv'
<1> SUFFICES ASSUME PolicyInv, [Next]_vars PROVE PolicyInv'
  OBVIOUS
<1>1. ASSUME UNCHANGED policies, inflight' \subseteq inflight PROVE AdmittedWithinPolicy'
  BY <1>1, Zenon DEF PolicyInv, AdmittedWithinPolicy, WithinPolicy, Version
<1>2. ASSUME UNCHANGED <<policies, call>>, inflight' \subseteq inflight PROVE PolicyInv'
  <2>1. AdmittedWithinPolicy'
    BY <1>1, <1>2, Zenon
  <2> QED
    BY <2>1, <1>2, Zenon DEF PolicyInv, WithinPolicy, Version
<1>3. ASSUME NEW policy \in Policies, ChangePolicy(policy) PROVE PolicyInv'
  <2>1. policies' = Append(policies, policy) /\ UNCHANGED <<call, inflight>>
    BY <1>3, Zenon DEF ChangePolicy
  <2>2. policies \in Seq(Policies) /\ Len(policies) >= 1
    BY Zenon DEF PolicyInv
  <2>3. policies' \in Seq(Policies) /\ Len(policies') >= 1 /\ Version' = Version + 1
    BY <2>1, <2>2 DEF Version
  <2>4. \A t \in Threads : call[t].step = "admission" =>
            WithinPolicy(call[t].request, call[t].acl, call[t].policy)'
    BY <2>1, <2>2, WithinPolicyStays, Zenon DEF PolicyInv
  <2>5. \A x \in inflight : WithinPolicy(x.request, x.acl, x.policy)'
    BY <2>1, <2>2, WithinPolicyStays, Zenon DEF PolicyInv, AdmittedWithinPolicy
  <2>6. AdmittedWithinPolicy'
    BY <2>1, <2>5, Zenon DEF AdmittedWithinPolicy
  <2>7. \A t \in Threads : call[t].step = "policy" =>
            call[t].request \in Requests /\ call[t].acl.policy_version \in 1..Version'
    BY <2>2, <2>3 DEF PolicyInv, Version
  <2> QED
    BY <2>1, <2>3, <2>4, <2>6, <2>7, Zenon DEF PolicyInv
<1>4. ASSUME NEW t \in Threads, NEW r \in Requests, EvaluateAcl(t, r) PROVE PolicyInv'
  <2>1. PICK a : /\ a.policy_version = Version
                 /\ call' = [call EXCEPT ![t] = [step |-> "policy", request |-> r, acl |-> a]]
                 /\ UNCHANGED <<policies, inflight>>
    <3> DEFINE p == Producer(r.producer_id)
               a == evaluate_acl([installation_id |-> p.installation_id,
                                  credential |-> credential[p.producer_id]],
                                 r.installation_id, r.namespace, "Publish",
                                 policies[Version].rules, Version)
    <3>1. call' = [call EXCEPT ![t] = [step |-> "policy", request |-> r, acl |-> a]]
      BY <1>4, Zenon DEF EvaluateAcl
    <3>2. UNCHANGED <<policies, inflight>>
      BY <1>4, Zenon DEF EvaluateAcl, admin
    <3>3. a.policy_version = Version
      BY Zenon DEF evaluate_acl, Acl
    <3> QED
      BY <3>1, <3>2, <3>3, Zenon
  <2>2. AdmittedWithinPolicy'
    BY <1>1, <2>1, Zenon
  <2>3. a.policy_version \in 1..Version
    BY <2>1 DEF PolicyInv, Version
  <2> DEFINE c == [step |-> "policy", request |-> r, acl |-> a]
  <2>4. c.step # "admission" /\ c.request \in Requests /\ c.acl.policy_version \in 1..Version
    BY <2>3, Zenon
  <2> HIDE DEF c
  <2> QED
    BY <2>1, <2>2, <2>4, PolicyCallStep, Zenon DEF c
<1>5. ASSUME NEW t \in Threads, ResolvePolicy(t) PROVE PolicyInv'
  <2> DEFINE request == call[t].request
             ctx == [installation_id |-> request.installation_id,
                     producer |-> Producer(request.producer_id),
                     acl_result |-> call[t].acl,
                     namespace |-> request.namespace,
                     requested_durability |-> request.durability,
                     requested_retention |-> request.retention,
                     requested_projection |-> request.projection,
                     requested_priority |-> request.priority,
                     requested_flush |-> request.flush]
             result == resolve_policy(ctx, Config, Owned)
             admission == [step |-> "admission", request |-> request,
                           acl |-> call[t].acl, policy |-> result]
  <2>1. /\ call[t].step = "policy"
        /\ call' = [call EXCEPT ![t] = IF result.admitted THEN admission ELSE Idle]
    BY <1>5, Zenon DEF ResolvePolicy
  <2>2. UNCHANGED <<policies, inflight>>
    BY <1>5, Zenon DEF ResolvePolicy, admin
  <2>3. AdmittedWithinPolicy'
    BY <1>1, <2>2, Zenon
  <2>4. CASE result.admitted
    <3>1. /\ ctx.requested_durability = request.durability
          /\ ctx.requested_retention = request.retention
          /\ ctx.requested_priority = request.priority
          /\ ctx.requested_flush = request.flush
      OBVIOUS
    <3>2. request \in Requests /\ call[t].acl.policy_version \in 1..Version
      BY <2>1, Zenon DEF PolicyInv
    <3>3. policies \in Seq(Policies) /\ Len(policies) >= 1
      BY Zenon DEF PolicyInv
    <3> HIDE DEF ctx, request
    <3>4. WithinPolicy(request, call[t].acl, result)
      BY <2>4, <3>1, <3>2, <3>3, ResolvedWithin, Zenon
    <3> HIDE DEF result
    <3>5. /\ admission.step # "policy" /\ admission.request = request
          /\ admission.acl = call[t].acl /\ admission.policy = result
      OBVIOUS
    <3>6. call' = [call EXCEPT ![t] = admission]
      BY <2>1, <2>4, Zenon
    <3> HIDE DEF admission
    <3> QED
      BY <2>2, <2>3, <3>4, <3>5, <3>6, PolicyCallStep, Zenon
  <2>5. CASE ~result.admitted
    <3>1. call' = [call EXCEPT ![t] = Idle] /\ Idle.step = "idle"
      BY <2>1, <2>5, Zenon DEF Idle
    <3> QED
      BY <2>2, <2>3, <3>1, PolicyCallStep, Zenon
  <2> QED
    BY <2>4, <2>5, Zenon
<1>6. ASSUME NEW t \in Threads, NEW id \in PublishIds, Admit(t, id) PROVE PolicyInv'
  <2>1. /\ call[t].step = "admission"
        /\ inflight' = inflight \cup {Publish(t, id)}
        /\ call' = [call EXCEPT ![t] = Idle]
    BY <1>6, Zenon DEF Admit
  <2>2. UNCHANGED policies
    BY <1>6, Zenon DEF Admit, admin
  <2>3. /\ Publish(t, id).request = call[t].request
        /\ Publish(t, id).acl = call[t].acl /\ Publish(t, id).policy = call[t].policy
    BY Zenon DEF Publish
  <2>4. \A x \in inflight' : WithinPolicy(x.request, x.acl, x.policy)
    BY <2>1, <2>3, Zenon DEF PolicyInv, AdmittedWithinPolicy
  <2>5. AdmittedWithinPolicy'
    BY <2>2, <2>4, Zenon DEF AdmittedWithinPolicy, WithinPolicy, Version
  <2>6. Idle.step = "idle"
    BY Zenon DEF Idle
  <2> QED
    BY <2>1, <2>2, <2>5, <2>6, PolicyCallStep, Zenon
<1>7. ASSUME NEW t \in Threads, Reject(t) PROVE PolicyInv'
  <2>1. call' = [call EXCEPT ![t] = Idle] /\ UNCHANGED <<policies, inflight>>
    BY <1>7, Zenon DEF Reject, admin
  <2>2. Idle.step = "idle"
    BY Zenon DEF Idle
  <2>3. AdmittedWithinPolicy'
    BY <1>1, <2>1, Zenon
  <2> QED
    BY <2>1, <2>2, <2>3, PolicyCallStep, Zenon
<1>8. ASSUME NEW x \in inflight, Complete(x) PROVE PolicyInv'
  <2>1. inflight' = inflight \ {x} /\ UNCHANGED <<policies, call>>
    BY <1>8, Zenon DEF Complete, admin
  <2> QED
    BY <1>2, <2>1, Zenon
<1>9. ASSUME \/ \E r \in Registrations : Register(r)
             \/ \E p \in ProducerIds, s \in ProducerLifecycleState : SetLifecycle(p, s)
             \/ \E p \in ProducerIds, s \in CredentialStatus : SetCredential(p, s)
             \/ \E s \in Snapshots : InstallOwnership(s)
             \/ \E new \in Profiles : InstallProfile(new)
             \/ \E p \in ProducerIds : Dequeue(p)
             \/ UNCHANGED vars
      PROVE  UNCHANGED <<policies, call, inflight>>
  BY <1>9, Zenon DEF Register, SetLifecycle, SetCredential, InstallOwnership, InstallProfile,
     Dequeue, admin, vars
<1>10. ASSUME UNCHANGED <<policies, call, inflight>> PROVE PolicyInv'
  BY <1>2, <1>10, Zenon
<1> QED
  BY <1>3, <1>4, <1>5, <1>6, <1>7, <1>8, <1>9, <1>10, Zenon DEF Next, Operator, PublishStep

\* For every set of policies, requests and threads, and any number of policy changes
\* between the steps of a call, a publish in flight meets the minimums of the policy
\* version it was resolved under: resolve_policy lets no request weaken them.
THEOREM PolicyHolds == Spec => []AdmittedWithinPolicy
<1>1. PolicyInv => AdmittedWithinPolicy
  BY Zenon DEF PolicyInv
<1> QED
  BY PolicyInit, PolicyStep, <1>1, PTL DEF Spec

-----------------------------------------------------------------------------
(* The ACL *)

\* The rules of A that the sort puts before rule i.
Before(rules, A, i) == {j \in A : SortsBefore(rules, j, i)}

\* A nonempty set of naturals has a least element.
LEMMA LeastNatural ==
    ASSUME NEW S, S \subseteq Nat, S # {}
    PROVE  \E m \in S : \A n \in S : m <= n
<1>1. PICK m \in S : \A n \in S : <<n, m>> \notin OpToRel(<, Nat)
  BY NatLessThanWellFounded, WFMin, Zenon
<1>2. \A n \in S : ~(n < m)
  BY <1>1, Zenon DEF OpToRel
<1> QED
  BY <1>2

\* A priority is an integer.
LEMMA PriorityType ==
    ASSUME NEW rules \in Seq(AclRule), NEW k \in DOMAIN rules
    PROVE  rules[k].priority \in Int /\ k \in Int /\ rules[k].decision \in {"Allow", "Deny"}
<1>1. rules[k] \in AclRule /\ k \in Int
  OBVIOUS
<1> QED
  BY <1>1, Zenon DEF AclRule

\* A rule that comes before another one has fewer rules before it.
LEMMA RankGrows ==
    ASSUME NEW rules \in Seq(AclRule), NEW A \in SUBSET (DOMAIN rules),
           NEW i \in A, NEW j \in A, SortsBefore(rules, j, i)
    PROVE  Cardinality(Before(rules, A, j)) < Cardinality(Before(rules, A, i))
<1>1. IsFiniteSet(A)
  <2>1. IsFiniteSet(DOMAIN rules)
    BY FS_Interval
  <2> QED
    BY <2>1, FS_Subset, Zenon
<1>2. \A k \in A : rules[k].priority \in Int /\ k \in Int
  BY PriorityType, Zenon
<1>3. Before(rules, A, j) \subseteq Before(rules, A, i)
  BY <1>2 DEF Before, SortsBefore
<1>4. j \in Before(rules, A, i) /\ j \notin Before(rules, A, j)
  BY <1>2 DEF Before, SortsBefore
<1>5. IsFiniteSet(Before(rules, A, i))
  BY <1>1, FS_Subset, Zenon DEF Before
<1>6. /\ Cardinality(Before(rules, A, j)) <= Cardinality(Before(rules, A, i))
      /\ Cardinality(Before(rules, A, j)) # Cardinality(Before(rules, A, i))
      /\ IsFiniteSet(Before(rules, A, j))
  BY <1>3, <1>4, <1>5, FS_Subset, Zenon
<1> QED
  BY <1>5, <1>6, FS_CardinalityType

\* Every rank from 0 on is the rank of exactly one rule: the sort loses no rule.
LEMMA RanksFill ==
    ASSUME NEW rules \in Seq(AclRule), NEW A \in SUBSET (DOMAIN rules)
    PROVE  /\ IsFiniteSet(A) /\ Cardinality(A) \in Nat
           /\ \A i \in A : Cardinality(Before(rules, A, i)) \in 0..(Cardinality(A) - 1)
           /\ \A i, j \in A : Cardinality(Before(rules, A, i)) = Cardinality(Before(rules, A, j))
                  => i = j
           /\ \A r \in 0..(Cardinality(A) - 1) :
                  \E i \in A : Cardinality(Before(rules, A, i)) = r
<1> DEFINE n == Cardinality(A)
           rank == [i \in A |-> Cardinality(Before(rules, A, i))]
<1>1. IsFiniteSet(A) /\ n \in Nat
  <2>1. IsFiniteSet(DOMAIN rules)
    BY FS_Interval
  <2>2. IsFiniteSet(A)
    BY <2>1, FS_Subset, Zenon
  <2> QED
    BY <2>2, FS_CardinalityType, Zenon
<1>2. ASSUME NEW i \in A PROVE Cardinality(Before(rules, A, i)) \in 0..(n - 1)
  <2>1. i \notin Before(rules, A, i)
    BY PriorityType DEF Before, SortsBefore
  <2>2. Before(rules, A, i) \in SUBSET A /\ Before(rules, A, i) # A
    BY <2>1, Zenon DEF Before
  <2>3. /\ IsFiniteSet(Before(rules, A, i))
        /\ Cardinality(Before(rules, A, i)) <= n /\ Cardinality(Before(rules, A, i)) # n
    BY <1>1, <2>2, FS_Subset, Zenon
  <2>4. Cardinality(Before(rules, A, i)) \in Nat
    BY <2>3, FS_CardinalityType, Zenon
  <2> QED
    BY <1>1, <2>3, <2>4
<1>3. ASSUME NEW i \in A, NEW j \in A,
             Cardinality(Before(rules, A, i)) = Cardinality(Before(rules, A, j))
      PROVE  i = j
  <2>1. Cardinality(Before(rules, A, i)) \in Nat
    BY <1>1, <1>2
  <2>2. ~SortsBefore(rules, i, j) /\ ~SortsBefore(rules, j, i)
    BY <1>3, <2>1, RankGrows
  <2>3. rules[i].priority \in Int /\ rules[j].priority \in Int /\ i \in Int /\ j \in Int
    BY PriorityType, Zenon
  <2> QED
    BY <2>2, <2>3 DEF SortsBefore
<1>4. rank \in Surjection(A, 0..(n - 1))
  <2>1. rank \in [A -> 0..(n - 1)]
    BY <1>2, Zenon
  <2>2. \A i, j \in A : rank[i] = rank[j] => i = j
    BY <1>3, Zenon
  <2>3. rank \in Injection(A, 0..(n - 1))
    BY <2>1, <2>2, Zenon DEF Injection, IsInjective
  <2>4. IsFiniteSet(0..(n - 1)) /\ Cardinality(0..(n - 1)) = n
    <3>1. n - 1 \in Int /\ (0 > n - 1 => n = 0) /\ (n - 1) - 0 + 1 = n
      BY <1>1
    <3> HIDE DEF n
    <3>2. /\ IsFiniteSet(0..(n - 1))
          /\ Cardinality(0..(n - 1)) = IF 0 > n - 1 THEN 0 ELSE (n - 1) - 0 + 1
      <4>1. 0 \in Int
        OBVIOUS
      <4> QED
        BY <3>1, <4>1, FS_Interval, Zenon
    <3> QED
      BY <3>1, <3>2, Zenon
  <2> QED
    BY <2>3, <2>4, FS_Injection, Zenon
<1>5. \A r \in 0..(n - 1) : \E i \in A : rank[i] = r
  BY <1>4, Zenon DEF Surjection
<1> QED
  BY <1>1, <1>2, <1>3, <1>5, Zenon

\* What evaluate_acl does not deny, the rule it finds first allows, and that rule
\* comes before every other rule of the action that matches the namespace.
LEMMA FirstRuleDecides ==
    ASSUME NEW principal, NEW scope, NEW n, NEW rules \in Seq(AclRule), NEW version,
           evaluate_acl(principal, scope, n, "Publish", rules, version).decision # "Deny"
    PROVE  AclAllows(rules, n)
<1> DEFINE A == {i \in DOMAIN rules : rules[i].action = "Publish"}
           rank(i) == Cardinality(Before(rules, A, i))
           At(k) == CHOOSE i \in A : rank(i) = k - 1
           sorted == SortedRules(rules, "Publish")
           matching == {k \in DOMAIN sorted : n \in sorted[k].namespace_pattern}
           first == CHOOSE k \in matching : \A l \in matching : k <= l
<1>1. /\ DOMAIN sorted = 1..Cardinality(A)
      /\ \A k \in 1..Cardinality(A) : sorted[k] = rules[At(k)]
  BY Zenon DEF SortedRules, Before
<1>2. Cardinality(A) \in Nat /\ \A k \in 1..Cardinality(A) : At(k) \in A /\ rank(At(k)) = k - 1
  <2>1. /\ Cardinality(A) \in Nat
        /\ \A r \in 0..(Cardinality(A) - 1) : \E i \in A : rank(i) = r
    BY RanksFill, Zenon
  <2> HIDE DEF A, rank
  <2>2. ASSUME NEW k \in 1..Cardinality(A) PROVE At(k) \in A /\ rank(At(k)) = k - 1
    <3>1. k - 1 \in 0..(Cardinality(A) - 1)
      BY <2>1
    <3>2. \E i \in A : rank(i) = k - 1
      BY <2>1, <3>1, Zenon
    <3> QED
      BY <3>2, Zenon
  <2> QED
    BY <2>1, <2>2, Zenon
<1>3. ASSUME NEW i \in A
      PROVE  rank(i) + 1 \in 1..Cardinality(A) /\ At(rank(i) + 1) = i
  <2>1. rank(i) \in 0..(Cardinality(A) - 1)
    BY RanksFill, Zenon
  <2>2. \A j \in A : rank(j) = rank(i) => j = i
    BY RanksFill, Zenon
  <2> HIDE DEF A, rank, At
  <2>3. rank(i) + 1 \in 1..Cardinality(A) /\ (rank(i) + 1) - 1 = rank(i)
    BY <1>2, <2>1
  <2> QED
    BY <1>2, <2>2, <2>3, Zenon
<1> HIDE DEF sorted, rank, At
<1>4. matching # {} /\ sorted[first].decision # "Deny"
  BY Zenon DEF evaluate_acl, Acl, namespace_matches, sorted
<1>5. first \in matching /\ \A l \in matching : first <= l
  <2>1. matching \subseteq Nat
    BY <1>1, <1>2
  <2>2. \E k \in matching : \A l \in matching : k <= l
    BY <1>4, <2>1, LeastNatural, Zenon
  <2> HIDE DEF matching
  <2> QED
    BY <2>2, Zenon
<1> HIDE DEF first
<1> DEFINE i == At(first)
<1>6. /\ first \in 1..Cardinality(A) /\ i \in A /\ rank(i) = first - 1
      /\ sorted[first] = rules[i] /\ n \in rules[i].namespace_pattern
  BY <1>1, <1>2, <1>5, Zenon
<1> HIDE DEF i
<1>7. ASSUME NEW j \in A, n \in rules[j].namespace_pattern, j # i PROVE SortsBefore(rules, i, j)
  <2>1. rank(j) + 1 \in matching
    BY <1>1, <1>3, <1>7, Zenon
  <2>2. first <= rank(j) + 1
    BY <1>5, <2>1, Zenon
  <2>3. rank(j) \in Nat /\ rank(i) \in Nat /\ ~(rank(j) < rank(i))
    BY <1>2, <1>3, <1>6, <2>2
  <2>4. ~SortsBefore(rules, j, i)
    BY <1>6, <2>3, RankGrows, Zenon DEF rank
  <2>5. rules[i].priority \in Int /\ rules[j].priority \in Int /\ i \in Int /\ j \in Int
    BY <1>6, PriorityType, Zenon
  <2> QED
    BY <1>7, <2>4, <2>5 DEF SortsBefore
<1>8. i \in DOMAIN rules /\ rules[i].action = "Publish" /\ rules[i].decision = "Allow"
  BY <1>4, <1>6, PriorityType, Zenon
<1>9. \A j \in DOMAIN rules :
          rules[j].action = "Publish" /\ n \in rules[j].namespace_pattern
            /\ rules[j].decision = "Deny" =>
              \/ rules[j].priority < rules[i].priority
              \/ rules[j].priority = rules[i].priority /\ i < j
  BY <1>6, <1>7, <1>8, PriorityType, Zenon DEF SortsBefore
<1> QED
  BY <1>6, <1>8, <1>9, Zenon DEF AclAllows

\* A denied request is not admitted by resolve_policy.
LEMMA ResolvedNotDenied ==
    ASSUME NEW ctx, NEW config, NEW owned, resolve_policy(ctx, config, owned).admitted
    PROVE  ctx.acl_result.decision # "Deny"
<1> DEFINE checks == PolicyChecks(ctx, config, owned)
<1>1. Passes(checks)
  BY Zenon DEF resolve_policy
<1>2. DOMAIN checks = 1..12
  BY DEF PolicyChecks
<1>3. ~checks[5].fails
  BY <1>1, <1>2 DEF Passes
<1>4. checks[5].fails = (ctx.acl_result.decision = "Deny")
  BY Zenon DEF PolicyChecks, Check
<1> QED
  BY <1>3, <1>4, Zenon

\* The rules of the policy version that acl names allow the request.
Granted(request, acl) == AclAllows(policies[acl.policy_version].rules, request.namespace)

\* The strengthening of AllowedByItsRules: it speaks also of the calls on their way,
\* those that still wait for resolve_policy to look at the decision included.
AclInv ==
    /\ \A t \in Threads : call[t].step = "policy" /\ call[t].acl.decision # "Deny" =>
           Granted(call[t].request, call[t].acl)
    /\ \A t \in Threads : call[t].step = "admission" => Granted(call[t].request, call[t].acl)
    /\ AllowedByItsRules

\* A step changes no policy version that is named already.
LEMMA VersionsStay ==
    ASSUME PolicyInv, [Next]_vars
    PROVE  \A v \in 1..Version : v \in 1..Version' /\ policies'[v] = policies[v]
<1>1. policies \in Seq(Policies)
  BY Zenon DEF PolicyInv
<1>2. ASSUME NEW policy \in Policies, ChangePolicy(policy)
      PROVE  \A v \in 1..Version : v \in 1..Version' /\ policies'[v] = policies[v]
  BY <1>1, <1>2 DEF ChangePolicy, Version
<1>3. ASSUME \/ \E r \in Registrations : Register(r)
             \/ \E p \in ProducerIds, s \in ProducerLifecycleState : SetLifecycle(p, s)
             \/ \E p \in ProducerIds, s \in CredentialStatus : SetCredential(p, s)
             \/ \E s \in Snapshots : InstallOwnership(s)
             \/ \E new \in Profiles : InstallProfile(new)
             \/ PublishStep \/ UNCHANGED vars
      PROVE  UNCHANGED policies
  BY <1>3, Zenon DEF Register, SetLifecycle, SetCredential, InstallOwnership, InstallProfile,
     PublishStep, EvaluateAcl, ResolvePolicy, Admit, Reject, Dequeue, Complete, admin, vars
<1> QED
  BY <1>2, <1>3, Zenon DEF Next, Operator, Version

\* A call reaches resolve_policy with the answer evaluate_acl gave for the version then
\* in force, and passes it only with a decision that is not a denial.
LEMMA CallStep ==
    ASSUME PolicyInv, [Next]_vars, NEW t \in Threads
    PROVE  \/ call'[t] = call[t]
           \/ call'[t].step = "idle"
           \/ /\ call'[t].step = "policy" /\ call'[t].acl.policy_version = Version
              /\ call'[t].request \in Requests /\ Registered(call'[t].request.producer_id)
              /\ call'[t].acl.decision # "Deny" =>
                     AclAllows(policies[Version].rules, call'[t].request.namespace)
           \/ /\ call'[t].step = "admission" /\ call[t].step = "policy"
              /\ call'[t].request = call[t].request /\ call'[t].acl = call[t].acl
              /\ call[t].acl.decision # "Deny"
<1> DEFINE Goal == \/ call'[t] = call[t]
                   \/ call'[t].step = "idle"
                   \/ /\ call'[t].step = "policy" /\ call'[t].acl.policy_version = Version
                      /\ call'[t].request \in Requests
                      /\ Registered(call'[t].request.producer_id)
                      /\ call'[t].acl.decision # "Deny" =>
                             AclAllows(policies[Version].rules, call'[t].request.namespace)
                   \/ /\ call'[t].step = "admission" /\ call[t].step = "policy"
                      /\ call'[t].request = call[t].request /\ call'[t].acl = call[t].acl
                      /\ call[t].acl.decision # "Deny"
<1>0. \A c : \A u \in Threads : call' = [call EXCEPT ![u] = c] =>
          call'[u] = c /\ (u # t => call'[t] = call[t])
  BY Zenon DEF PolicyInv
<1>1. ASSUME NEW u \in Threads, NEW r \in Requests, EvaluateAcl(u, r) PROVE Goal
  <2> DEFINE p == Producer(r.producer_id)
             a == evaluate_acl([installation_id |-> p.installation_id,
                                credential |-> credential[p.producer_id]],
                               r.installation_id, r.namespace, "Publish",
                               policies[Version].rules, Version)
             c == [step |-> "policy", request |-> r, acl |-> a]
  <2>1. call' = [call EXCEPT ![u] = c] /\ Registered(r.producer_id)
    BY <1>1, Zenon DEF EvaluateAcl
  <2>2. a.policy_version = Version
    BY Zenon DEF evaluate_acl, Acl
  <2>3. policies[Version].rules \in Seq(AclRule)
    <3>1. policies[Version] \in Policies
      BY DEF PolicyInv, Version
    <3> QED
      BY <3>1, IngressConstants, Zenon
  <2>4. a.decision # "Deny" => AclAllows(policies[Version].rules, r.namespace)
    BY <2>3, FirstRuleDecides, Zenon
  <2> HIDE DEF a
  <2>5. c.step = "policy" /\ c.request = r /\ c.acl = a
    OBVIOUS
  <2> HIDE DEF c
  <2> QED
    BY <1>0, <2>1, <2>2, <2>4, <2>5, ZenonT(40)
<1>2. ASSUME NEW u \in Threads, ResolvePolicy(u) PROVE Goal
  <2> DEFINE request == call[u].request
             ctx == [installation_id |-> request.installation_id,
                     producer |-> Producer(request.producer_id),
                     acl_result |-> call[u].acl,
                     namespace |-> request.namespace,
                     requested_durability |-> request.durability,
                     requested_retention |-> request.retention,
                     requested_projection |-> request.projection,
                     requested_priority |-> request.priority,
                     requested_flush |-> request.flush]
             result == resolve_policy(ctx, Config, Owned)
             c == [step |-> "admission", request |-> request,
                   acl |-> call[u].acl, policy |-> result]
  <2>1. /\ call[u].step = "policy"
        /\ call' = [call EXCEPT ![u] = IF result.admitted THEN c ELSE Idle]
    BY <1>2, Zenon DEF ResolvePolicy
  <2>2. ctx.acl_result = call[u].acl
    OBVIOUS
  <2> HIDE DEF ctx
  <2>3. result.admitted => call[u].acl.decision # "Deny"
    BY <2>2, ResolvedNotDenied, Zenon
  <2> HIDE DEF result
  <2>4. c.step = "admission" /\ c.request = request /\ c.acl = call[u].acl /\ Idle.step = "idle"
    BY Zenon DEF Idle
  <2> HIDE DEF c, Idle
  <2>5. CASE result.admitted
    BY <1>0, <2>1, <2>3, <2>4, <2>5, ZenonT(40)
  <2>6. CASE ~result.admitted
    BY <1>0, <2>1, <2>4, <2>6, Zenon
  <2> QED
    BY <2>5, <2>6, Zenon
<1>3. ASSUME NEW u \in Threads, Reject(u) \/ \E id \in PublishIds : Admit(u, id) PROVE Goal
  <2>1. call' = [call EXCEPT ![u] = Idle]
    BY <1>3, Zenon DEF Reject, Admit
  <2>2. Idle.step = "idle"
    BY Zenon DEF Idle
  <2> HIDE DEF Idle
  <2> QED
    BY <1>0, <2>1, <2>2, Zenon
<1>4. ASSUME \/ Operator
             \/ \E p \in ProducerIds : Dequeue(p)
             \/ \E x \in inflight : Complete(x)
             \/ UNCHANGED vars
      PROVE  UNCHANGED call
  BY <1>4, Zenon DEF Operator, Register, SetLifecycle, SetCredential, ChangePolicy,
     InstallOwnership, InstallProfile, Dequeue, Complete, vars
<1> QED
  BY <1>1, <1>2, <1>3, <1>4, Zenon DEF Next, PublishStep

\* A publish is in flight already or comes from a call that has resolved its policy.
LEMMA InFlightStep ==
    ASSUME [Next]_vars, NEW x \in inflight', x \notin inflight
    PROVE  \E t \in Threads, id \in PublishIds : Admit(t, id) /\ x = Publish(t, id)
<1>1. ASSUME NEW t \in Threads, NEW id \in PublishIds, Admit(t, id) PROVE x = Publish(t, id)
  BY <1>1, Zenon DEF Admit
<1>2. ASSUME NEW y \in inflight, Complete(y) PROVE FALSE
  <2>1. inflight' = inflight \ {y}
    BY <1>2, Zenon DEF Complete
  <2> QED
    BY <2>1, Zenon
<1>3. ASSUME \/ Operator
             \/ \E t \in Threads, r \in Requests : EvaluateAcl(t, r)
             \/ \E t \in Threads : ResolvePolicy(t) \/ Reject(t)
             \/ \E p \in ProducerIds : Dequeue(p)
             \/ UNCHANGED vars
      PROVE  inflight' = inflight
  BY <1>3, Zenon DEF Operator, Register, SetLifecycle, SetCredential, ChangePolicy,
     InstallOwnership, InstallProfile, EvaluateAcl, ResolvePolicy, Reject, Dequeue, vars
<1> QED
  BY <1>1, <1>2, <1>3, Zenon DEF Next, PublishStep

\* A version up to one that exists exists.
LEMMA EarlierVersion ==
    ASSUME policies \in Seq(Policies), NEW k \in 1..Version, NEW i \in 1..k
    PROVE  i \in 1..Version
BY DEF Version

\* Every step keeps what the rules have granted.
LEMMA AclStep == PolicyInv /\ AclInv /\ [Next]_vars => AclInv'
<1> SUFFICES ASSUME PolicyInv, AclInv, [Next]_vars PROVE AclInv'
  OBVIOUS
<1>1. \A v \in 1..Version : policies'[v] = policies[v]
  BY VersionsStay, Zenon
<1>2. Version \in 1..Version
  BY DEF PolicyInv, Version
<1>3. \A rules, n : AclAllows(rules, n)' <=> AclAllows(rules, n)
  BY ZenonT(40) DEF AclAllows
<1>4. ASSUME NEW request, NEW acl, Granted(request, acl), acl.policy_version \in 1..Version
      PROVE  Granted(request, acl)'
  <2>1. AclAllows(policies[acl.policy_version].rules, request.namespace)
    BY <1>4, Zenon DEF Granted
  <2>2. policies'[acl.policy_version].rules = policies[acl.policy_version].rules
    BY <1>1, <1>4, Zenon
  <2> QED
    BY <2>1, <2>2 DEF Granted, AclAllows
<1>5. ASSUME NEW request, NEW acl, NEW effective, WithinPolicy(request, acl, effective)
      PROVE  acl.policy_version \in 1..Version
  <2>1. effective.policy_version \in 1..Version /\ acl.policy_version \in 1..effective.policy_version
    BY <1>5, Zenon DEF WithinPolicy
  <2>2. policies \in Seq(Policies)
    BY Zenon DEF PolicyInv
  <2> QED
    BY <2>1, <2>2, EarlierVersion, Zenon
<1>6. ASSUME NEW t \in Threads, call'[t].step = "policy", call'[t].acl.decision # "Deny"
      PROVE  Granted(call[t].request, call[t].acl)'
  <2>1. CASE call'[t] = call[t]
    <3>1. Granted(call[t].request, call[t].acl) /\ call[t].acl.policy_version \in 1..Version
      BY <1>6, <2>1, Zenon DEF AclInv, PolicyInv
    <3>2. PICK request, acl : request = call[t].request /\ acl = call[t].acl
      OBVIOUS
    <3>3. Granted(request, acl)'
      BY <1>4, <3>1, <3>2, Zenon
    <3> QED
      BY <2>1, <3>2, <3>3, Zenon
  <2>2. CASE /\ call'[t].acl.policy_version = Version
             /\ AclAllows(policies[Version].rules, call'[t].request.namespace)
    <3>1. PICK request, acl : request = call'[t].request /\ acl = call'[t].acl
      OBVIOUS
    <3>2. Granted(request, acl)
      BY <2>2, <3>1, Zenon DEF Granted
    <3>3. Granted(request, acl)'
      BY <1>2, <1>4, <2>2, <3>1, <3>2, Zenon
    <3> QED
      BY <3>1, <3>3, Zenon
  <2> QED
    BY <1>6, <2>1, <2>2, CallStep, Zenon
<1>7. ASSUME NEW t \in Threads, call'[t].step = "admission"
      PROVE  Granted(call[t].request, call[t].acl)'
  <2>1. PICK request, acl : request = call'[t].request /\ acl = call'[t].acl
    OBVIOUS
  <2>2. Granted(request, acl) /\ acl.policy_version \in 1..Version
    <3>1. CASE call'[t] = call[t]
      BY <1>5, <1>7, <2>1, <3>1, Zenon DEF AclInv, PolicyInv
    <3>2. CASE /\ call[t].step = "policy" /\ call[t].acl.decision # "Deny"
               /\ call'[t].request = call[t].request /\ call'[t].acl = call[t].acl
      BY <2>1, <3>2, Zenon DEF AclInv, PolicyInv
    <3> QED
      BY <1>7, <3>1, <3>2, CallStep, Zenon
  <2>3. Granted(request, acl)'
    BY <1>4, <2>2, Zenon
  <2> QED
    BY <2>1, <2>3, Zenon
<1>8. ASSUME NEW x \in inflight' PROVE Granted(x.request, x.acl)'
  <2>1. CASE x \in inflight
    <3>1. Granted(x.request, x.acl) /\ WithinPolicy(x.request, x.acl, x.policy)
      BY <2>1, Zenon DEF AclInv, AllowedByItsRules, PolicyInv, AdmittedWithinPolicy, Granted
    <3> QED
      BY <1>4, <1>5, <3>1, Zenon
  <2>2. CASE x \notin inflight
    <3>1. PICK t \in Threads, id \in PublishIds : Admit(t, id) /\ x = Publish(t, id)
      BY <2>2, InFlightStep, Zenon
    <3>2. call[t].step = "admission" /\ x.request = call[t].request /\ x.acl = call[t].acl
      BY <3>1, Zenon DEF Admit, Publish
    <3>3. Granted(x.request, x.acl) /\ x.acl.policy_version \in 1..Version
      BY <1>5, <3>2, Zenon DEF AclInv, PolicyInv
    <3> QED
      BY <1>4, <3>3, Zenon
  <2> QED
    BY <2>1, <2>2, Zenon
<1>9. AllowedByItsRules'
  BY <1>8, Zenon DEF AllowedByItsRules, Granted
<1> QED
  BY <1>6, <1>7, <1>9, Zenon DEF AclInv

\* For every set of rules, with any priorities, ties included, and any number of policy
\* changes between the steps of a call: a publish in flight was allowed by the rules of
\* the version its ACL result names, as the first rule in stable priority order decides.
THEOREM AclHolds == Spec => []AllowedByItsRules
<1>1. Init => AclInv
  BY DEF Init, Idle, AclInv, AllowedByItsRules
<1>2. AclInv => AllowedByItsRules
  BY Zenon DEF AclInv
<1> QED
  BY <1>1, <1>2, PolicyInit, PolicyStep, AclStep, PTL DEF Spec

-----------------------------------------------------------------------------
(* The counters *)

ProducerQuota ==
    [in_flight_publishes : 0..MaxProducerInFlight, max_in_flight_publishes : {MaxProducerInFlight},
     queued_publishes : 0..MaxQueued, max_queued_publishes : {MaxQueued},
     in_flight_bytes : 0..MaxBytes, max_in_flight_bytes : {MaxBytes}]

NamespaceQuota ==
    [in_flight_publishes : 0..MaxNamespaceInFlight, max_in_flight_publishes : {MaxNamespaceInFlight}]

\* The publishes of S in namespace n, and the bytes of those of producer p, one by one:
\* a sum of sizes is the cardinality of this set.
InNamespace(S, n) == {x \in S : x.request.namespace = n}
BytesOf(S, p) == {u \in S \X Nat : /\ u[1].request.producer_id = p
                                   /\ u[2] \in 1..u[1].request.bytes}

IsRequest(r) == r \in Requests /\ r.producer_id \in ProducerIds

\* A call that is on its way, and a publish in flight, is of a producer that has quotas.
RequestInv ==
    /\ \A t \in Threads :
           /\ call[t].step \in {"idle", "policy", "admission"}
           /\ call[t].step # "idle" => IsRequest(call[t].request)
    /\ \A x \in inflight : IsRequest(x.request)

\* The strengthening of the counters' ranges: they count the publishes in flight, so
\* that a completion never takes one below zero.
QuotaInv ==
    /\ producer_quota \in [ProducerIds -> ProducerQuota]
    /\ namespace_quota \in [Namespaces -> NamespaceQuota]
    /\ IsFiniteSet(inflight)
    /\ \A p \in ProducerIds :
           /\ IsFiniteSet(BytesOf(inflight, p))
           /\ producer_quota[p].in_flight_bytes = Cardinality(BytesOf(inflight, p))
    /\ \A n \in Namespaces :
           namespace_quota[n].in_flight_publishes = Cardinality(InNamespace(inflight, n))
    /\ global_quota.in_flight_publishes = Cardinality(inflight)

ManifestOK(manifest, ceiling) ==
    /\ \A l \in DOMAIN manifest.limits : manifest.limits[l] \in 1..MAX_LIMIT
    /\ Cardinality({manifest.events[i].event_type : i \in DOMAIN manifest.events})
           = Len(manifest.events)
    /\ \A i \in DOMAIN manifest.events : manifest.events[i].requested_priority >= ceiling

\* The strengthening of the registry's conditions: IsDuplicate compares the installation
\* too, which is enough because every registered producer is of this one.
RegistryInv ==
    /\ \A r, o \in registry : r.producer.producer_id = o.producer.producer_id => r = o
    /\ \A r \in registry :
           /\ DOMAIN r = {"producer", "manifest", "version"} /\ DOMAIN r.producer = ProducerFields
           /\ r.producer.producer_id \in ProducerIds /\ r.producer.installation_id = Home
           /\ r.version \in 1..Version
           /\ ManifestOK(r.manifest, policies[r.version].priority_ceiling)

\* A publish that joins the others brings its bytes.
LEMMA BytesAdd ==
    ASSUME NEW S, NEW x, x \notin S, x.request.bytes \in Nat, NEW p, IsFiniteSet(BytesOf(S, p))
    PROVE  /\ IsFiniteSet(BytesOf(S \cup {x}, p))
           /\ x.request.producer_id = p =>
                  Cardinality(BytesOf(S \cup {x}, p)) = Cardinality(BytesOf(S, p)) + x.request.bytes
           /\ x.request.producer_id # p => BytesOf(S \cup {x}, p) = BytesOf(S, p)
<1> DEFINE bytes == x.request.bytes
           own == {x} \X (1..bytes)
<1>1. ASSUME x.request.producer_id = p
      PROVE  BytesOf(S \cup {x}, p) = BytesOf(S, p) \cup own /\ BytesOf(S, p) \cap own = {}
  <2>1. \A u : u \in BytesOf(S \cup {x}, p) <=> u \in BytesOf(S, p) \cup own
    BY <1>1 DEF BytesOf
  <2>2. \A u \in own : u[1] = x
    OBVIOUS
  <2>3. \A u \in BytesOf(S, p) : u[1] \in S
    BY Zenon DEF BytesOf
  <2> HIDE DEF own
  <2> QED
    BY <2>1, <2>2, <2>3, Zenon
<1>2. ASSUME x.request.producer_id # p PROVE BytesOf(S \cup {x}, p) = BytesOf(S, p)
  <2>1. \A u : u \in BytesOf(S \cup {x}, p) <=> u \in BytesOf(S, p)
    BY <1>2, Zenon DEF BytesOf
  <2> QED
    BY <2>1, Zenon
<1>3. IsFiniteSet(own) /\ Cardinality(own) = bytes
  <2>1. IsFiniteSet({x}) /\ Cardinality({x}) = 1
    BY FS_Singleton, Zenon
  <2>2. IsFiniteSet(1..bytes) /\ Cardinality(1..bytes) = bytes
    <3>1. bytes \in Nat
      OBVIOUS
    <3> HIDE DEF bytes
    <3>2. IsFiniteSet(1..bytes) /\ Cardinality(1..bytes) = IF 1 > bytes THEN 0 ELSE bytes - 1 + 1
      <4>1. 1 \in Int /\ bytes \in Int
        BY <3>1
      <4> QED
        BY <4>1, FS_Interval, Zenon
    <3> QED
      BY <3>1, <3>2
  <2> HIDE DEF bytes
  <2>3. IsFiniteSet(own) /\ Cardinality(own) = Cardinality({x}) * Cardinality(1..bytes)
    BY <2>1, <2>2, FS_Product, ZenonT(30)
  <2> QED
    <3>1. bytes \in Nat
      BY DEF bytes
    <3>2. 1 * bytes = bytes
      BY <3>1
    <3> HIDE DEF own
    <3> QED
      BY <2>1, <2>2, <2>3, <3>2, Zenon
<1> HIDE DEF own
<1>4. CASE x.request.producer_id = p
  <2>1. /\ IsFiniteSet(BytesOf(S, p) \cup own)
        /\ Cardinality(BytesOf(S, p) \cup own)
               = Cardinality(BytesOf(S, p)) + Cardinality(own) - Cardinality(BytesOf(S, p) \cap own)
    BY <1>3, FS_Union, Zenon
  <2>2. Cardinality(BytesOf(S, p) \cap own) = 0
    BY <1>1, <1>4, FS_EmptySet, Zenon
  <2>3. Cardinality(BytesOf(S, p)) \in Nat
    BY FS_CardinalityType, Zenon
  <2>4. bytes \in Nat
    OBVIOUS
  <2> HIDE DEF bytes
  <2>5. Cardinality(BytesOf(S, p)) + Cardinality(own) - Cardinality(BytesOf(S, p) \cap own)
          = Cardinality(BytesOf(S, p)) + bytes
    BY <1>3, <2>2, <2>3, <2>4
  <2>6. /\ IsFiniteSet(BytesOf(S \cup {x}, p))
        /\ Cardinality(BytesOf(S \cup {x}, p)) = Cardinality(BytesOf(S, p)) + bytes
    BY <1>1, <1>4, <2>1, <2>5, Zenon
  <2> QED
    BY <1>4, <2>6, Zenon DEF bytes
<1>5. CASE x.request.producer_id # p
  BY <1>2, <1>5, Zenon
<1> QED
  BY <1>4, <1>5, Zenon

\* A publish that leaves takes its bytes with it.
LEMMA BytesRemove ==
    ASSUME NEW S, NEW x \in S, x.request.bytes \in Nat, NEW p, IsFiniteSet(BytesOf(S, p))
    PROVE  /\ IsFiniteSet(BytesOf(S \ {x}, p))
           /\ x.request.producer_id = p =>
                  Cardinality(BytesOf(S \ {x}, p)) = Cardinality(BytesOf(S, p)) - x.request.bytes
           /\ x.request.producer_id # p => BytesOf(S \ {x}, p) = BytesOf(S, p)
<1> DEFINE T == S \ {x}
<1>1. T \cup {x} = S /\ x \notin T
  OBVIOUS
<1>2. BytesOf(T, p) \in SUBSET BytesOf(S, p)
  BY Zenon DEF BytesOf
<1> HIDE DEF T
<1>3. IsFiniteSet(BytesOf(T, p))
  BY <1>2, FS_Subset, Zenon
<1>4. /\ x.request.producer_id = p =>
             Cardinality(BytesOf(S, p)) = Cardinality(BytesOf(T, p)) + x.request.bytes
      /\ x.request.producer_id # p => BytesOf(S, p) = BytesOf(T, p)
  <2>1. /\ x.request.producer_id = p =>
               Cardinality(BytesOf(T \cup {x}, p)) = Cardinality(BytesOf(T, p)) + x.request.bytes
        /\ x.request.producer_id # p => BytesOf(T \cup {x}, p) = BytesOf(T, p)
    BY <1>1, <1>3, BytesAdd, Zenon
  <2> QED
    BY <1>1, <2>1, Zenon
<1>5. Cardinality(BytesOf(T, p)) \in Nat
  BY <1>3, FS_CardinalityType, Zenon
<1> QED
  BY <1>3, <1>4, <1>5 DEF T

\* The same for the publishes of a namespace.
LEMMA NamespaceAdd ==
    ASSUME NEW S, NEW x, x \notin S, NEW n, IsFiniteSet(S)
    PROVE  Cardinality(InNamespace(S \cup {x}, n))
             = Cardinality(InNamespace(S, n)) + (IF x.request.namespace = n THEN 1 ELSE 0)
<1>1. IsFiniteSet(InNamespace(S, n)) /\ x \notin InNamespace(S, n)
  BY FS_Subset, Zenon DEF InNamespace
<1>2. Cardinality(InNamespace(S, n)) \in Nat
  BY <1>1, FS_CardinalityType, Zenon
<1>3. CASE x.request.namespace = n
  <2>1. InNamespace(S \cup {x}, n) = InNamespace(S, n) \cup {x}
    BY <1>3, Zenon DEF InNamespace
  <2> QED
    BY <1>1, <1>3, <2>1, FS_AddElement, ZenonT(40)
<1>4. CASE x.request.namespace # n
  <2>1. InNamespace(S \cup {x}, n) = InNamespace(S, n)
    BY <1>4, Zenon DEF InNamespace
  <2> QED
    BY <1>2, <1>4, <2>1
<1> QED
  BY <1>3, <1>4, Zenon

\* Taking a member out lowers the count of its own namespace by one.
LEMMA NamespaceRemove ==
    ASSUME NEW S, NEW x \in S, NEW n, IsFiniteSet(S)
    PROVE  /\ Cardinality(InNamespace(S, n)) \in Nat
           /\ Cardinality(InNamespace(S \ {x}, n))
                = Cardinality(InNamespace(S, n)) - (IF x.request.namespace = n THEN 1 ELSE 0)
           /\ Cardinality(InNamespace(S \ {x}, n)) \in Nat
<1> DEFINE T == S \ {x}
<1>1. T \cup {x} = S /\ x \notin T /\ IsFiniteSet(T)
  BY FS_RemoveElement, Zenon
<1>2. IsFiniteSet(InNamespace(T, n)) /\ IsFiniteSet(InNamespace(S, n))
  BY <1>1, FS_Subset, Zenon DEF InNamespace
<1>3. Cardinality(InNamespace(T, n)) \in Nat /\ Cardinality(InNamespace(S, n)) \in Nat
  BY <1>2, FS_CardinalityType, Zenon
<1> HIDE DEF T
<1>4. Cardinality(InNamespace(T \cup {x}, n))
        = Cardinality(InNamespace(T, n)) + (IF x.request.namespace = n THEN 1 ELSE 0)
  BY <1>1, NamespaceAdd, Zenon
<1>5. Cardinality(InNamespace(S, n))
        = Cardinality(InNamespace(T, n)) + (IF x.request.namespace = n THEN 1 ELSE 0)
  BY <1>1, <1>4, Zenon
<1>6. Cardinality(InNamespace(T, n))
        = Cardinality(InNamespace(S, n)) - (IF x.request.namespace = n THEN 1 ELSE 0)
  <2>1. CASE x.request.namespace = n
    BY <1>3, <1>5, <2>1
  <2>2. CASE x.request.namespace # n
    BY <1>3, <1>5, <2>2
  <2> QED
    BY <2>1, <2>2, Zenon
<1> QED
  BY <1>3, <1>6, Zenon DEF T

\* What the quota checks of evaluate_admission leave room for.
LEMMA AdmissionWithinQuota ==
    ASSUME NEW producer, NEW pq, NEW nq, NEW gq, NEW bytes, NEW owned,
           Passes(AdmissionChecks(producer, pq, nq, gq, bytes, owned))
    PROVE  /\ ~(pq.in_flight_publishes >= pq.max_in_flight_publishes)
           /\ ~(pq.queued_publishes >= pq.max_queued_publishes)
           /\ ~(pq.in_flight_bytes + bytes > pq.max_in_flight_bytes)
           /\ ~(nq.in_flight_publishes >= nq.max_in_flight_publishes)
<1> DEFINE checks == AdmissionChecks(producer, pq, nq, gq, bytes, owned)
<1>1. DOMAIN checks = 1..8
  BY DEF AdmissionChecks
<1>2. ~checks[3].fails /\ ~checks[4].fails /\ ~checks[5].fails /\ ~checks[6].fails
  BY <1>1 DEF Passes
<1>3. /\ checks[3].fails = (pq.in_flight_publishes >= pq.max_in_flight_publishes)
      /\ checks[4].fails = (pq.queued_publishes >= pq.max_queued_publishes)
      /\ checks[5].fails = (pq.in_flight_bytes + bytes > pq.max_in_flight_bytes)
      /\ checks[6].fails = (nq.in_flight_publishes >= nq.max_in_flight_publishes)
  BY Zenon DEF AdmissionChecks, Check, BytesExceeded
<1> QED
  BY <1>2, <1>3, Zenon

\* A step that gives the quota of one producer and of one namespace new counters.
LEMMA QuotaMove ==
    ASSUME QuotaInv, NEW p \in ProducerIds, NEW n \in Namespaces,
           NEW q \in ProducerQuota, NEW m \in NamespaceQuota,
           producer_quota' = [producer_quota EXCEPT ![p] = q],
           namespace_quota' = [namespace_quota EXCEPT ![n] = m],
           IsFiniteSet(inflight'),
           \A o \in ProducerIds : IsFiniteSet(BytesOf(inflight', o)),
           \A o \in ProducerIds : o # p => BytesOf(inflight', o) = BytesOf(inflight, o),
           \A k \in Namespaces : k # n =>
               Cardinality(InNamespace(inflight', k)) = Cardinality(InNamespace(inflight, k)),
           q.in_flight_bytes = Cardinality(BytesOf(inflight', p)),
           m.in_flight_publishes = Cardinality(InNamespace(inflight', n)),
           global_quota'.in_flight_publishes = Cardinality(inflight')
    PROVE  QuotaInv'
<1>1. /\ producer_quota' \in [ProducerIds -> ProducerQuota]
      /\ \A o \in ProducerIds : producer_quota'[o] = IF o = p THEN q ELSE producer_quota[o]
  BY Zenon DEF QuotaInv
<1>2. /\ namespace_quota' \in [Namespaces -> NamespaceQuota]
      /\ \A k \in Namespaces : namespace_quota'[k] = IF k = n THEN m ELSE namespace_quota[k]
  BY Zenon DEF QuotaInv
<1>3. \A o \in ProducerIds :
          producer_quota'[o].in_flight_bytes = Cardinality(BytesOf(inflight', o))
  BY <1>1, Zenon DEF QuotaInv
<1>4. \A k \in Namespaces :
          namespace_quota'[k].in_flight_publishes = Cardinality(InNamespace(inflight', k))
  BY <1>2, Zenon DEF QuotaInv
<1>5. PICK S : S = inflight'
  OBVIOUS
<1>6. /\ \A o \in ProducerIds : BytesOf(inflight, o)' = BytesOf(S, o)
      /\ \A k \in Namespaces : InNamespace(inflight, k)' = InNamespace(S, k)
  BY <1>5, Zenon DEF BytesOf, InNamespace
<1>7. ProducerQuota' = ProducerQuota /\ NamespaceQuota' = NamespaceQuota
      /\ ProducerIds' = ProducerIds
  BY Zenon DEF ProducerQuota, NamespaceQuota, ProducerIds
<1> QED
  BY <1>1, <1>2, <1>3, <1>4, <1>5, <1>6, <1>7, Zenon DEF QuotaInv

\* An admission counts its publish, within every limit.
LEMMA AdmitQuota ==
    ASSUME QuotaInv, RequestInv, RoomInv, NEW t \in Threads, NEW id \in PublishIds, Admit(t, id)
    PROVE  QuotaInv'
<1> DEFINE r == call[t].request
           x == Publish(t, id)
           p == r.producer_id
           n == r.namespace
           pq == producer_quota[p]
           nq == namespace_quota[n]
<1>1. /\ call[t].step = "admission" /\ Passes(Admission(t)) /\ \A y \in inflight : y.id # id
      /\ inflight' = inflight \cup {x}
      /\ producer_quota' = [producer_quota EXCEPT
             ![p].in_flight_publishes = pq.in_flight_publishes + 1,
             ![p].in_flight_bytes = pq.in_flight_bytes + r.bytes,
             ![p].queued_publishes = pq.queued_publishes + 1]
      /\ namespace_quota' = [namespace_quota EXCEPT
             ![n].in_flight_publishes = nq.in_flight_publishes + 1]
      /\ global_quota'.in_flight_publishes = global_quota.in_flight_publishes + 1
  BY Zenon DEF Admit, GlobalQuotaState
<1>2. x.request = r /\ x.id = id
  BY Zenon DEF Publish
<1>3. x \notin inflight
  BY <1>1, <1>2, Zenon
<1>4. r \in Requests /\ p \in ProducerIds /\ n \in Namespaces /\ r.bytes \in Nat
  BY <1>1, IngressConstants, Zenon DEF RequestInv, IsRequest
<1>5. pq \in ProducerQuota /\ nq \in NamespaceQuota
  BY <1>4, Zenon DEF QuotaInv
<1>6. /\ ~(pq.in_flight_publishes >= pq.max_in_flight_publishes)
      /\ ~(pq.queued_publishes >= pq.max_queued_publishes)
      /\ ~(pq.in_flight_bytes + r.bytes > pq.max_in_flight_bytes)
      /\ ~(nq.in_flight_publishes >= nq.max_in_flight_publishes)
  BY <1>1, AdmissionWithinQuota, Zenon DEF Admission
<1> DEFINE q == [pq EXCEPT !.in_flight_publishes = pq.in_flight_publishes + 1,
                           !.in_flight_bytes = pq.in_flight_bytes + r.bytes,
                           !.queued_publishes = pq.queued_publishes + 1]
           m == [nq EXCEPT !.in_flight_publishes = nq.in_flight_publishes + 1]
<1> HIDE DEF x, r, p, n
<1>7. producer_quota' = [producer_quota EXCEPT ![p] = q]
  BY <1>1, <1>4, Zenon DEF QuotaInv
<1>8. namespace_quota' = [namespace_quota EXCEPT ![n] = m]
  BY <1>1, <1>4, Zenon DEF QuotaInv
<1>9. /\ q \in ProducerQuota /\ q.in_flight_bytes = pq.in_flight_bytes + r.bytes
      /\ m \in NamespaceQuota /\ m.in_flight_publishes = nq.in_flight_publishes + 1
  <2>1. /\ pq.in_flight_publishes + 1 \in 0..MaxProducerInFlight
        /\ pq.in_flight_bytes + r.bytes \in 0..MaxBytes
        /\ pq.queued_publishes + 1 \in 0..MaxQueued
    <3>1. pq.in_flight_publishes + 1 \in 0..MaxProducerInFlight
      BY <1>5, <1>6, IngressConstants DEF ProducerQuota
    <3>2. pq.in_flight_bytes + r.bytes \in 0..MaxBytes
      BY <1>4, <1>5, <1>6, IngressConstants DEF ProducerQuota
    <3>3. pq.queued_publishes + 1 \in 0..MaxQueued
      BY <1>5, <1>6, IngressConstants DEF ProducerQuota
    <3> QED
      BY <3>1, <3>2, <3>3, Zenon
  <2>2. nq.in_flight_publishes + 1 \in 0..MaxNamespaceInFlight
    BY <1>5, <1>6, IngressConstants DEF NamespaceQuota
  <2>3. q \in ProducerQuota /\ q.in_flight_bytes = pq.in_flight_bytes + r.bytes
    BY <1>5, <2>1, Zenon DEF ProducerQuota
  <2>4. m \in NamespaceQuota /\ m.in_flight_publishes = nq.in_flight_publishes + 1
    BY <1>5, <2>2, Zenon DEF NamespaceQuota
  <2> QED
    BY <2>3, <2>4, Zenon
<1> HIDE DEF q, m
<1>10. ASSUME NEW o \in ProducerIds
       PROVE  /\ IsFiniteSet(BytesOf(inflight', o))
              /\ o # p => BytesOf(inflight', o) = BytesOf(inflight, o)
              /\ o = p => Cardinality(BytesOf(inflight', o))
                            = Cardinality(BytesOf(inflight, o)) + r.bytes
  <2>1. IsFiniteSet(BytesOf(inflight, o)) /\ x.request.bytes \in Nat
    BY <1>2, <1>4, Zenon DEF QuotaInv
  <2> QED
    BY <1>1, <1>2, <1>3, <2>1, BytesAdd, ZenonT(40) DEF p
<1>11. ASSUME NEW k \in Namespaces
       PROVE  Cardinality(InNamespace(inflight', k))
                = Cardinality(InNamespace(inflight, k)) + (IF n = k THEN 1 ELSE 0)
  <2>1. IsFiniteSet(inflight)
    BY Zenon DEF QuotaInv
  <2>2. Cardinality(InNamespace(inflight \cup {x}, k))
          = Cardinality(InNamespace(inflight, k)) + (IF x.request.namespace = k THEN 1 ELSE 0)
    BY <1>3, <2>1, NamespaceAdd, Zenon
  <2> QED
    BY <1>1, <1>2, <2>2, Zenon DEF n
<1>12. IsFiniteSet(inflight') /\ Cardinality(inflight') = Cardinality(inflight) + 1
  BY <1>1, <1>3, FS_AddElement, Zenon DEF QuotaInv
<1>13. /\ q.in_flight_bytes = Cardinality(BytesOf(inflight', p))
       /\ m.in_flight_publishes = Cardinality(InNamespace(inflight', n))
       /\ global_quota'.in_flight_publishes = Cardinality(inflight')
  BY <1>1, <1>4, <1>9, <1>10, <1>11, <1>12, Zenon DEF QuotaInv
<1>14. \A k \in Namespaces : k # n =>
           Cardinality(InNamespace(inflight', k)) = Cardinality(InNamespace(inflight, k))
  <2>1. ASSUME NEW k \in Namespaces PROVE Cardinality(InNamespace(inflight, k)) \in Nat
    BY FS_Subset, FS_CardinalityType, Zenon DEF QuotaInv, InNamespace
  <2> QED
    BY <1>11, <2>1
<1> QED
  BY <1>4, <1>7, <1>8, <1>9, <1>10, <1>12, <1>13, <1>14, QuotaMove, ZenonT(40)

\* A completion gives back what its admission took, and no counter falls below zero.
LEMMA CompleteQuota ==
    ASSUME QuotaInv, RequestInv, NEW x \in inflight, Complete(x)
    PROVE  QuotaInv'
<1> DEFINE r == x.request
           p == r.producer_id
           n == r.namespace
           pq == producer_quota[p]
           nq == namespace_quota[n]
<1>1. /\ pq.queued_publishes < pq.in_flight_publishes
      /\ inflight' = inflight \ {x}
      /\ producer_quota' = [producer_quota EXCEPT
             ![p].in_flight_publishes = pq.in_flight_publishes - 1,
             ![p].in_flight_bytes = pq.in_flight_bytes - r.bytes]
      /\ namespace_quota' = [namespace_quota EXCEPT
             ![n].in_flight_publishes = nq.in_flight_publishes - 1]
      /\ global_quota'.in_flight_publishes = global_quota.in_flight_publishes - 1
  BY Zenon DEF Complete, GlobalQuotaState
<1>2. r \in Requests /\ p \in ProducerIds /\ n \in Namespaces /\ r.bytes \in Nat
  BY IngressConstants, Zenon DEF RequestInv, IsRequest
<1>3. pq \in ProducerQuota /\ nq \in NamespaceQuota
  BY <1>2, Zenon DEF QuotaInv
<1> DEFINE q == [pq EXCEPT !.in_flight_publishes = pq.in_flight_publishes - 1,
                           !.in_flight_bytes = pq.in_flight_bytes - r.bytes]
           m == [nq EXCEPT !.in_flight_publishes = nq.in_flight_publishes - 1]
<1> HIDE DEF r, p, n
<1>4. producer_quota' = [producer_quota EXCEPT ![p] = q]
  BY <1>1, <1>2, Zenon DEF QuotaInv
<1>5. namespace_quota' = [namespace_quota EXCEPT ![n] = m]
  BY <1>1, <1>2, Zenon DEF QuotaInv
<1>6. ASSUME NEW o \in ProducerIds
      PROVE  /\ IsFiniteSet(BytesOf(inflight', o))
             /\ o # p => BytesOf(inflight', o) = BytesOf(inflight, o)
             /\ o = p => Cardinality(BytesOf(inflight', o))
                           = Cardinality(BytesOf(inflight, o)) - r.bytes
  <2>1. IsFiniteSet(BytesOf(inflight, o)) /\ x.request.bytes \in Nat
    BY <1>2, Zenon DEF QuotaInv, r
  <2> QED
    BY <1>1, <2>1, BytesRemove, Zenon DEF p, r
<1>7. ASSUME NEW k \in Namespaces
      PROVE  /\ Cardinality(InNamespace(inflight, k)) \in Nat
             /\ Cardinality(InNamespace(inflight', k))
                  = Cardinality(InNamespace(inflight, k)) - (IF n = k THEN 1 ELSE 0)
             /\ Cardinality(InNamespace(inflight', k)) \in Nat
  <2>1. IsFiniteSet(inflight)
    BY Zenon DEF QuotaInv
  <2> QED
    BY <1>1, <2>1, NamespaceRemove, Zenon DEF n, r
<1>8. IsFiniteSet(inflight') /\ Cardinality(inflight') = Cardinality(inflight) - 1
  BY <1>1, FS_RemoveElement, Zenon DEF QuotaInv
<1>9. Cardinality(BytesOf(inflight', p)) \in Nat
  BY <1>2, <1>6, FS_CardinalityType, Zenon
<1>10. /\ pq.in_flight_bytes - r.bytes = Cardinality(BytesOf(inflight', p))
       /\ nq.in_flight_publishes - 1 = Cardinality(InNamespace(inflight', n))
       /\ global_quota'.in_flight_publishes = Cardinality(inflight')
  BY <1>1, <1>2, <1>6, <1>7, <1>8, Zenon DEF QuotaInv
<1>11. /\ pq.in_flight_publishes - 1 \in 0..MaxProducerInFlight
       /\ pq.in_flight_bytes - r.bytes \in 0..MaxBytes
       /\ nq.in_flight_publishes - 1 \in 0..MaxNamespaceInFlight
  <2>1. pq.in_flight_bytes - r.bytes \in Nat /\ nq.in_flight_publishes - 1 \in Nat
    BY <1>2, <1>7, <1>9, <1>10, Zenon
  <2>2. /\ pq.in_flight_publishes \in 0..MaxProducerInFlight /\ pq.queued_publishes \in 0..MaxQueued
        /\ pq.in_flight_bytes \in 0..MaxBytes
        /\ nq.in_flight_publishes \in 0..MaxNamespaceInFlight
    BY <1>3, Zenon DEF ProducerQuota, NamespaceQuota
  <2>3. /\ MaxProducerInFlight \in Nat /\ MaxQueued \in Nat /\ MaxBytes \in Nat
        /\ MaxNamespaceInFlight \in Nat
    BY IngressConstants, Zenon
  <2>4. pq.in_flight_publishes - 1 \in 0..MaxProducerInFlight
    BY <1>1, <2>2, <2>3
  <2>5. pq.in_flight_bytes - r.bytes \in 0..MaxBytes
    BY <1>2, <2>1, <2>2, <2>3
  <2>6. nq.in_flight_publishes - 1 \in 0..MaxNamespaceInFlight
    BY <2>1, <2>2, <2>3
  <2> QED
    BY <2>4, <2>5, <2>6, Zenon
<1>12. /\ q \in ProducerQuota /\ q.in_flight_bytes = pq.in_flight_bytes - r.bytes
       /\ m \in NamespaceQuota /\ m.in_flight_publishes = nq.in_flight_publishes - 1
  BY <1>3, <1>11, Zenon DEF ProducerQuota, NamespaceQuota
<1>13. \A k \in Namespaces : k # n =>
           Cardinality(InNamespace(inflight', k)) = Cardinality(InNamespace(inflight, k))
  BY <1>7
<1> HIDE DEF q, m
<1> QED
  BY <1>2, <1>4, <1>5, <1>6, <1>8, <1>10, <1>12, <1>13, QuotaMove, ZenonT(40)

\* Every step keeps the books.
LEMMA QuotaStep == QuotaInv /\ RequestInv /\ RoomInv /\ [Next]_vars => QuotaInv'
<1> SUFFICES ASSUME QuotaInv, RequestInv, RoomInv, [Next]_vars PROVE QuotaInv'
  OBVIOUS
<1>1. ASSUME NEW p \in ProducerIds, Dequeue(p) PROVE QuotaInv'
  <2> DEFINE pq == producer_quota[p]
             q == [pq EXCEPT !.queued_publishes = pq.queued_publishes - 1]
  <2>1. /\ pq.queued_publishes > 0
        /\ producer_quota' = [producer_quota EXCEPT
               ![p].queued_publishes = pq.queued_publishes - 1]
        /\ UNCHANGED <<inflight, namespace_quota, global_quota>>
    BY <1>1, Zenon DEF Dequeue
  <2>2. pq \in ProducerQuota
    BY Zenon DEF QuotaInv
  <2>3. producer_quota' = [producer_quota EXCEPT ![p] = q]
    BY <2>1, Zenon DEF QuotaInv
  <2>4. q \in ProducerQuota /\ q.in_flight_bytes = pq.in_flight_bytes
    <3>1. pq.queued_publishes - 1 \in 0..MaxQueued
      BY <2>1, <2>2, IngressConstants, SMTT(30) DEF ProducerQuota
    <3> QED
      BY <2>2, <3>1, Zenon DEF ProducerQuota
  <2> HIDE DEF q
  <2>5. /\ producer_quota' \in [ProducerIds -> ProducerQuota]
        /\ \A o \in ProducerIds : producer_quota'[o].in_flight_bytes
                                      = producer_quota[o].in_flight_bytes
    BY <2>3, <2>4, Zenon DEF QuotaInv
  <2> QED
    BY <2>1, <2>5, Zenon DEF QuotaInv, ProducerIds, ProducerQuota, NamespaceQuota, BytesOf, InNamespace
<1>2. ASSUME UNCHANGED <<inflight, quotas>> PROVE QuotaInv'
  BY <1>2, Zenon DEF QuotaInv, quotas, ProducerIds, ProducerQuota, NamespaceQuota, BytesOf, InNamespace
<1>3. ASSUME \/ Operator
             \/ \E t \in Threads, r \in Requests : EvaluateAcl(t, r)
             \/ \E t \in Threads : ResolvePolicy(t) \/ Reject(t)
             \/ UNCHANGED vars
      PROVE  UNCHANGED <<inflight, quotas>>
  BY <1>3, Zenon DEF Operator, Register, SetLifecycle, SetCredential, ChangePolicy,
     InstallOwnership, InstallProfile, EvaluateAcl, ResolvePolicy, Reject, vars
<1> QED
  BY <1>1, <1>2, <1>3, AdmitQuota, CompleteQuota, Zenon DEF Next, PublishStep

-----------------------------------------------------------------------------
(* The registry *)

\* Names without a repetition are as many as their positions.
LEMMA DistinctNames ==
    ASSUME NEW names, NEW n \in Nat, DOMAIN names = 1..n, ~Repeats(names)
    PROVE  Cardinality({names[i] : i \in 1..n}) = n
<1> DEFINE T == {names[i] : i \in 1..n}
           f == [i \in 1..n |-> names[i]]
<1>1. \A i, j \in 1..n : names[i] = names[j] => i = j
  BY DEF Repeats
<1>2. f \in [1..n -> T]
  BY Zenon
<1>3. \A c \in T : \E i \in 1..n : f[i] = c
  BY Zenon
<1>4. \A i, j \in 1..n : f[i] = f[j] => i = j
  BY <1>1, Zenon
<1> HIDE DEF f, T
<1>5. f \in Bijection(1..n, T)
  BY <1>2, <1>3, <1>4, Zenon DEF Bijection, Injection, IsInjective, Surjection
<1>6. ExistsBijection(1..n, T)
  BY <1>5, Zenon DEF ExistsBijection
<1>7. IsFiniteSet(1..n) /\ Cardinality(1..n) = n
  BY FS_Interval
<1>8. Cardinality(T) = n
  BY <1>6, <1>7, FS_Bijection, Zenon
<1> QED
  BY <1>8, Zenon DEF T

\* What validate_manifest lets through has limits within bounds, distinct event names
\* and no priority above the ceiling.
LEMMA ValidManifest ==
    ASSUME NEW r \in Registrations, NEW ceiling \in PriorityClass,
           validate_manifest(r.manifest, ceiling) = {}
    PROVE  ManifestOK(r.manifest, ceiling)
<1> DEFINE manifest == r.manifest
           events == manifest.events
           limits == manifest.limits
           checks == ManifestChecks(manifest, ceiling)
           names == [i \in DOMAIN events |-> events[i].event_type]
<1>1. DOMAIN checks = 1..16
  BY DEF ManifestChecks
<1>2. \A i \in DOMAIN checks : ~checks[i].fails
  BY Zenon DEF validate_manifest, Violations
<1>3. ~checks[3].fails /\ ~checks[4].fails /\ ~checks[7].fails /\ ~checks[11].fails
  BY <1>1, <1>2
<1>4. /\ checks[3].fails = (\E l \in DOMAIN limits : limits[l] <= 0)
      /\ checks[4].fails = (\E l \in DOMAIN limits : limits[l] > MAX_LIMIT)
  BY Zenon DEF ManifestChecks, Check
<1>5. checks[7].fails = Repeats(names)
  BY Zenon DEF ManifestChecks, Check
<1>6. checks[11].fails = (\E i \in DOMAIN events : events[i].requested_priority < ceiling)
  BY Zenon DEF ManifestChecks, Check
<1>7. /\ limits \in [{"publishes", "queries", "watches"} -> Int]
      /\ events \in Seq(ManifestEventDeclaration)
  BY IngressConstants, Zenon
<1> HIDE DEF checks
<1>8. \A l \in DOMAIN limits : limits[l] \in 1..MAX_LIMIT
  <2>1. \A l \in DOMAIN limits : ~(limits[l] <= 0) /\ ~(limits[l] > MAX_LIMIT)
    BY <1>3, <1>4, Zenon
  <2>2. \A l \in DOMAIN limits : limits[l] \in Int
    BY <1>7, Zenon
  <2> HIDE DEF limits
  <2> QED
    BY <2>1, <2>2, PolicyConstants
<1>9. \A i \in DOMAIN events : events[i].requested_priority >= ceiling
  <2>1. \A i \in DOMAIN events : ~(events[i].requested_priority < ceiling)
    BY <1>3, <1>6, Zenon
  <2>2. ASSUME NEW i \in DOMAIN events PROVE events[i].requested_priority \in PriorityClass
    <3>1. events[i] \in ManifestEventDeclaration
      BY <1>7
    <3> QED
      BY <3>1, Zenon DEF ManifestEventDeclaration
  <2> HIDE DEF events
  <2> QED
    BY <2>1, <2>2 DEF PriorityClass
<1>10. Cardinality({events[i].event_type : i \in DOMAIN events}) = Len(events)
  <2>1. PICK n \in Nat : n = Len(events) /\ DOMAIN events = 1..n
    BY <1>7
  <2>2. DOMAIN names = 1..n /\ ~Repeats(names)
    BY <1>3, <1>5, <2>1, Zenon
  <2>3. {events[i].event_type : i \in DOMAIN events} = {names[i] : i \in 1..n}
    BY <2>1, Zenon
  <2> HIDE DEF names
  <2>4. Cardinality({names[i] : i \in 1..n}) = n
    BY <2>2, DistinctNames, Zenon
  <2> QED
    BY <2>1, <2>3, <2>4, Zenon
<1> QED
  BY <1>8, <1>9, <1>10, Zenon DEF ManifestOK

\* A producer that validate_producer_registration lets through is of this installation,
\* and no producer of the registry has its name.
LEMMA ValidRegistration ==
    ASSUME NEW producer, NEW existing,
           Passes(validate_producer_registration(producer, Home, existing))
    PROVE  producer.installation_id = Home /\ ~IsDuplicate(producer, existing)
<1> DEFINE checks == validate_producer_registration(producer, Home, existing)
<1>1. DOMAIN checks = 1..5
  BY DEF validate_producer_registration
<1>2. ~checks[1].fails /\ ~checks[4].fails
  BY <1>1 DEF Passes
<1>3. /\ checks[1].fails = (producer.installation_id # Home)
      /\ checks[4].fails = IsDuplicate(producer, existing)
  BY Zenon DEF validate_producer_registration, Check
<1> QED
  BY <1>2, <1>3, Zenon

\* What RegistryInv says of one entry.
EntryOK(r) ==
    /\ DOMAIN r = {"producer", "manifest", "version"} /\ DOMAIN r.producer = ProducerFields
    /\ r.producer.producer_id \in ProducerIds /\ r.producer.installation_id = Home
    /\ r.version \in 1..Version
    /\ ManifestOK(r.manifest, policies[r.version].priority_ceiling)

\* Every change of the registry keeps its entries right and its names distinct.
LEMMA RegistryStep == PolicyInv /\ RegistryInv /\ [Next]_vars => RegistryInv'
<1> SUFFICES ASSUME PolicyInv, RegistryInv, [Next]_vars PROVE RegistryInv'
  OBVIOUS
<1>1. \A v \in 1..Version : v \in 1..Version' /\ policies'[v] = policies[v]
  BY VersionsStay, Zenon
<1>2. ASSUME NEW r, EntryOK(r) PROVE EntryOK(r)'
  BY <1>1, <1>2, Zenon DEF EntryOK, ManifestOK, ProducerIds, ProducerFields
<1>3. \A r \in registry : EntryOK(r)
  BY Zenon DEF RegistryInv, EntryOK
<1>4. ASSUME \A r \in registry' : EntryOK(r),
             \A r, o \in registry' : r.producer.producer_id = o.producer.producer_id => r = o
      PROVE  RegistryInv'
  <2>1. \A r \in registry' : EntryOK(r)'
    BY <1>2, <1>4, Zenon
  <2> QED
    BY <1>4, <2>1, Zenon DEF RegistryInv, EntryOK
<1>5. ASSUME NEW r \in Registrations, Register(r) PROVE RegistryInv'
  <2> DEFINE new == [producer |-> r.producer, manifest |-> r.manifest, version |-> Version]
  <2>1. /\ validate_manifest(r.manifest, Config.priority_ceiling) = {}
        /\ Passes(validate_producer_registration(r.producer, Home, {o.producer : o \in registry}))
        /\ registry' = registry \cup {new}
    BY <1>5, Zenon DEF Register
  <2>2. policies[Version] \in Policies /\ Version \in 1..Version
    BY DEF PolicyInv, Version
  <2>3. policies[Version].priority_ceiling \in PriorityClass
        /\ Config.priority_ceiling = policies[Version].priority_ceiling
    BY <2>2, IngressConstants, Zenon DEF Config
  <2>4. ManifestOK(r.manifest, policies[Version].priority_ceiling)
    BY <2>1, <2>3, ValidManifest, Zenon
  <2>5. /\ r.producer.installation_id = Home
        /\ ~IsDuplicate(r.producer, {o.producer : o \in registry})
    BY <2>1, ValidRegistration, Zenon
  <2>6. DOMAIN r.producer = ProducerFields /\ r.producer.producer_id \in ProducerIds
    BY IngressConstants, Zenon DEF ProducerIds
  <2>7. /\ DOMAIN new = {"producer", "manifest", "version"}
        /\ new.producer = r.producer /\ new.manifest = r.manifest /\ new.version = Version
    OBVIOUS
  <2> HIDE DEF new
  <2>8. EntryOK(new)
    BY <2>2, <2>4, <2>5, <2>6, <2>7, Zenon DEF EntryOK
  <2>9. \A o \in registry : o.producer.producer_id # new.producer.producer_id
    BY <2>5, <2>7, Zenon DEF IsDuplicate, RegistryInv
  <2>10. \A o \in registry' : EntryOK(o)
    BY <1>3, <2>1, <2>8, Zenon
  <2>11. \A o, q \in registry' : o.producer.producer_id = q.producer.producer_id => o = q
    BY <2>1, <2>9, Zenon DEF RegistryInv
  <2> QED
    BY <1>4, <2>10, <2>11, Zenon
<1>6. ASSUME NEW p \in ProducerIds, NEW state, SetLifecycle(p, state) PROVE RegistryInv'
  <2> DEFINE After(r) == IF r.producer.producer_id = p
                         THEN [r EXCEPT !.producer = [r.producer EXCEPT !.lifecycle_state = state]]
                         ELSE r
  <2>1. registry' = {After(r) : r \in registry}
    BY <1>6, Zenon DEF SetLifecycle
  <2>2. ASSUME NEW r \in registry
        PROVE  /\ DOMAIN After(r) = DOMAIN r /\ DOMAIN After(r).producer = DOMAIN r.producer
               /\ After(r).producer.producer_id = r.producer.producer_id
               /\ After(r).producer.installation_id = r.producer.installation_id
               /\ After(r).manifest = r.manifest /\ After(r).version = r.version
    <3>1. DOMAIN r = {"producer", "manifest", "version"} /\ DOMAIN r.producer = ProducerFields
      BY Zenon DEF RegistryInv
    <3> QED
      BY <3>1, Zenon DEF ProducerFields
  <2> HIDE DEF After
  <2>3. \A r \in registry : EntryOK(After(r))
    BY <1>3, <2>2, ZenonT(40) DEF EntryOK
  <2>4. \A r, o \in registry :
            After(r).producer.producer_id = After(o).producer.producer_id => After(r) = After(o)
    BY <2>2 DEF RegistryInv
  <2> QED
    BY <1>4, <2>1, <2>3, <2>4
<1>7. ASSUME UNCHANGED registry PROVE RegistryInv'
  BY <1>3, <1>4, <1>7, Zenon DEF RegistryInv
<1>8. ASSUME \/ \E p \in ProducerIds, s \in CredentialStatus : SetCredential(p, s)
             \/ \E policy \in Policies : ChangePolicy(policy)
             \/ \E s \in Snapshots : InstallOwnership(s)
             \/ \E new \in Profiles : InstallProfile(new)
             \/ PublishStep \/ UNCHANGED vars
      PROVE  UNCHANGED registry
  BY <1>8, Zenon DEF SetCredential, ChangePolicy, InstallOwnership, InstallProfile,
     PublishStep, EvaluateAcl, ResolvePolicy, Admit, Reject, Dequeue, Complete, admin, vars
<1> QED
  BY <1>5, <1>6, <1>7, <1>8, Zenon DEF Next, Operator

\* A call starts with a registered producer, and keeps its request.
LEMMA RequestStep == PolicyInv /\ RegistryInv /\ RequestInv /\ [Next]_vars => RequestInv'
<1> SUFFICES ASSUME PolicyInv, RegistryInv, RequestInv, [Next]_vars PROVE RequestInv'
  OBVIOUS
<1>1. \A r \in Requests : Registered(r.producer_id) => IsRequest(r)
  BY Zenon DEF Registered, RegistryInv, IsRequest
<1>2. \A r : IsRequest(r)' <=> IsRequest(r)
  BY Zenon DEF IsRequest, ProducerIds
<1>3. ASSUME NEW t \in Threads
      PROVE  /\ call'[t].step \in {"idle", "policy", "admission"}
             /\ call'[t].step # "idle" => IsRequest(call'[t].request)
  BY <1>1, CallStep, Zenon DEF RequestInv
<1>4. ASSUME NEW x \in inflight' PROVE IsRequest(x.request)
  <2>1. CASE x \in inflight
    BY <2>1, Zenon DEF RequestInv
  <2>2. CASE x \notin inflight
    <3>1. PICK t \in Threads, id \in PublishIds : Admit(t, id) /\ x = Publish(t, id)
      BY <2>2, InFlightStep, Zenon
    <3>2. call[t].step = "admission" /\ x.request = call[t].request
      BY <3>1, Zenon DEF Admit, Publish
    <3> QED
      BY <3>2, Zenon DEF RequestInv
  <2> QED
    BY <2>1, <2>2, Zenon
<1>5. \A t \in Threads : call'[t].step # "idle" => IsRequest(call[t].request)'
  BY <1>3, Zenon DEF IsRequest, ProducerIds
<1>6. \A x \in inflight' : IsRequest(x.request)'
  BY <1>2, <1>4, Zenon
<1> QED
  BY <1>3, <1>5, <1>6, Zenon DEF RequestInv

\* The counters start at zero, with no producer registered.
LEMMA QuotaInit == Init => QuotaInv /\ RequestInv /\ RegistryInv
<1> SUFFICES ASSUME Init PROVE QuotaInv /\ RequestInv /\ RegistryInv
  OBVIOUS
<1>1. /\ MaxProducerInFlight \in Nat /\ MaxQueued \in Nat /\ MaxBytes \in Nat
      /\ MaxNamespaceInFlight \in Nat
  BY IngressConstants, Zenon
<1>2. /\ producer_quota \in [ProducerIds -> ProducerQuota]
      /\ \A p \in ProducerIds : producer_quota[p].in_flight_bytes = 0
  BY <1>1 DEF Init, ProducerQuota
<1>3. /\ namespace_quota \in [Namespaces -> NamespaceQuota]
      /\ \A n \in Namespaces : namespace_quota[n].in_flight_publishes = 0
  BY <1>1 DEF Init, NamespaceQuota
<1>4. global_quota.in_flight_publishes = 0 /\ inflight = {} /\ registry = {}
  BY Zenon DEF Init, GlobalQuotaState
<1>5. /\ \A p \in ProducerIds : BytesOf(inflight, p) = {}
      /\ \A n \in Namespaces : InNamespace(inflight, n) = {}
  BY <1>4, Zenon DEF BytesOf, InNamespace
<1>6. \A t \in Threads : call[t].step = "idle"
  BY Zenon DEF Init, Idle
<1>7. QuotaInv
  BY <1>2, <1>3, <1>4, <1>5, FS_EmptySet, Zenon DEF QuotaInv
<1> QED
  BY <1>4, <1>6, <1>7, Zenon DEF RequestInv, RegistryInv

\* Type correctness of the ingress, for every limit and any number of producers and
\* threads: no counter of the quota structs ever leaves the range its limits give it,
\* and the registry holds only distinct producers with valid manifests.
THEOREM IngressTypeCorrect == Spec => []IngressTypeOK
<1>1. QuotaInv /\ RequestInv /\ RegistryInv /\ RoomInv => IngressTypeOK
  <2> SUFFICES ASSUME QuotaInv, RequestInv, RegistryInv, RoomInv PROVE IngressTypeOK
    OBVIOUS
  <2>1. \A p \in ProducerIds :
            /\ producer_quota[p].in_flight_publishes \in 0..MaxProducerInFlight
            /\ producer_quota[p].queued_publishes \in 0..MaxQueued
            /\ producer_quota[p].in_flight_bytes \in 0..MaxBytes
    BY Zenon DEF QuotaInv, ProducerQuota
  <2>2. \A n \in Namespaces :
            namespace_quota[n].in_flight_publishes \in 0..MaxNamespaceInFlight
    BY Zenon DEF QuotaInv, NamespaceQuota
  <2>3. global_quota.in_flight_publishes \in 0..MaxInFlight
    <3>1. global_quota.in_flight_publishes \in Nat
      BY FS_CardinalityType, Zenon DEF QuotaInv
    <3>2. MaxInFlight \in Nat /\ ReservedP0 \in Int
      BY IngressConstants
    <3>3. global_quota.used_p0_capacity \in Int
      BY Zenon DEF RoomInv, GlobalCountersOK
    <3>4. MaxInFlight - global_quota.in_flight_publishes
            >= NonNegative(ReservedP0 - global_quota.used_p0_capacity)
      BY Zenon DEF RoomInv, ReservedRoomKept
    <3> QED
      BY <3>1, <3>2, <3>3, <3>4 DEF NonNegative
  <2>4. \A t \in Threads : call[t].step \in {"idle", "policy", "admission"}
    BY Zenon DEF RequestInv
  <2> QED
    BY <2>1, <2>2, <2>3, <2>4, Zenon DEF IngressTypeOK, RegistryInv, ManifestOK
<1> QED
  BY <1>1, RoomInit, RoomStep, PolicyInit, PolicyStep, QuotaInit, QuotaStep, RequestStep,
     RegistryStep, PTL DEF Spec
=============================================================================
