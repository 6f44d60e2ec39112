------------------------------- MODULE Journal -------------------------------
(***************************************************************************)
(* The local durable journal: crates/craftrelay-journal/src/lib.rs.        *)
(*                                                                         *)
(* A table of the SQLite schema is a function from its primary key to its  *)
(* rows; the domain grows when a row is inserted and rows are never        *)
(* deleted (the two audit tables, which are pruned, are modelled by the    *)
(* number of rows kept for each event).  Every public operation runs one   *)
(* transaction while it holds the mutex around the only connection, so it  *)
(* is one atomic action.  An operation that returns an error, a conflict   *)
(* or a stale revision rolls back and leaves every table alone: it is a    *)
(* stuttering step, except where the code commits an audit row first.      *)
(*                                                                         *)
(* Checksums: a row written by the code always carries the checksum of its *)
(* content, so checksum verification only fails on rows damaged outside    *)
(* the program, which are not modelled.  The structural validation that    *)
(* accompanies it (validate_delivery_state_invariants) is modelled.        *)
(***************************************************************************)
EXTENDS Integers, FiniteSets

CONSTANTS
    EventIds,               \* event_id values
    Streams,                \* (installation, namespace, type, stream_key)
    Producers,              \* producer_key values
    Fingerprints,           \* request_fingerprint values
    Routes,                 \* routing fingerprint + topic + profile id/version
    Requests,               \* the AcceptRequests clients may submit
    MAX_ATTEMPTS,           \* write_attempt rows kept for each event
    MAX_DELIVERY_ATTEMPTS,  \* delivery_attempt rows kept for each event
    MaxRevision,            \* bound on revisions (i64 in the code)
    MaxAttemptCount,        \* bound on attempt_count (i32 in the code)
    MaxPosition             \* bound on Kafka positions

ASSUME JournalConstants ==
    /\ IsFiniteSet(EventIds)
    /\ Requests \subseteq [event_id : EventIds, fingerprint : Fingerprints,
                           producer : Producers, seq : Nat \ {0},
                           stream : Streams]
    /\ MAX_ATTEMPTS \in Nat \ {0} /\ MAX_DELIVERY_ATTEMPTS \in Nat \ {0}
    /\ MaxRevision \in Nat /\ MaxAttemptCount \in Nat /\ MaxPosition \in Nat

VARIABLES
    stored_envelope,    \* event_id -> immutable envelope (and dedup entry)
    lifecycle_state,    \* event_id -> [status, revision]
    producer_sequence,  \* producer -> [highest_seq, last_event_id]
    stream_head,        \* stream -> head_sequence
    write_attempt,      \* event_id -> number of audit rows kept
    delivery_state,     \* event_id -> delivery row
    delivery_attempt    \* event_id -> number of attempt rows kept

acceptVars == <<stored_envelope, producer_sequence, stream_head, write_attempt>>
deliveryVars == <<delivery_state, delivery_attempt>>
journalVars == <<acceptVars, lifecycle_state, deliveryVars>>

-----------------------------------------------------------------------------
(* Rows *)

\* Variant: an untyped status argument.
LocalDeliveryStatus_Untyped ==
    {"LOCAL_ACCEPTED", "DELIVERY_PENDING", "DELIVERY_BLOCKED", "REPLICATED"}

LocalDeliveryStatus == {"LOCAL_ACCEPTED", "DELIVERY_PENDING", "DELIVERY_BLOCKED"}

LifecycleStatus == LocalDeliveryStatus \cup {"DELIVERY_RETRYING", "REPLICATED"}

DeliveryStatus ==
    {"DELIVERY_PENDING", "DELIVERY_RETRYING", "DELIVERY_BLOCKED", "REPLICATED"}

Envelope == [journal_sequence : Nat \ {0}, stream_sequence : Nat \ {0},
             stream : Streams, producer : Producers, seq : Nat \ {0},
             fingerprint : Fingerprints]

Lifecycle == [status : LifecycleStatus, revision : Nat \ {0}]

ProducerHead == [highest_seq : Nat \ {0}, last_event_id : EventIds]

\* next_retry and blocked_reason say whether the nullable column is set;
\* position stands for (kafka_partition, kafka_offset, confirmed_at_ms),
\* which are set together: 0 is NULL.
DeliveryRow == [status : DeliveryStatus, revision : Nat \ {0},
                attempt_count : Nat, next_retry : BOOLEAN,
                blocked_reason : BOOLEAN, route : Routes, position : Nat]

\* INSERT or UPDATE of one row.
Put(table, key, row) ==
    [k \in DOMAIN table \cup {key} |-> IF k = key THEN row ELSE table[k]]

\* validate_delivery_state_invariants: load_delivery_state returns Found
\* exactly for these rows and Corrupted for the others.
ValidRow(r) ==
    /\ r.status = "REPLICATED" <=> r.position # 0
    /\ r.status = "DELIVERY_RETRYING" <=> r.next_retry
    /\ r.status = "DELIVERY_BLOCKED" <=> r.blocked_reason

\* load_delivery_state answers Found.
DeliveryFound(e) == e \in DOMAIN delivery_state /\ ValidRow(delivery_state[e])

\* load_delivery_candidate answers Found: the row and the envelope it routes.
CandidateFound(e) == DeliveryFound(e) /\ e \in DOMAIN stored_envelope

-----------------------------------------------------------------------------
(* accept: the atomic local acceptance transaction.  The rejections before  *)
(* the transaction (shutdown, disk guard, payload size, empty ids) leave    *)
(* every table alone and only restrict which requests get this far.         *)

\* Variant: a repeated operation sequence passes.
ProducerConflict_AllowsEqual(req) ==
    /\ req.producer \in DOMAIN producer_sequence
    /\ req.seq < producer_sequence[req.producer].highest_seq
    /\ producer_sequence[req.producer].last_event_id # req.event_id

\* check_producer_sequence
ProducerConflict(req) ==
    /\ req.producer \in DOMAIN producer_sequence
    /\ req.seq <= producer_sequence[req.producer].highest_seq
    /\ producer_sequence[req.producer].last_event_id # req.event_id

\* Variant: the producer sequence is checked before the event id.
AcceptAnswer_SequenceFirst(req) ==
    CASE ProducerConflict(req) -> "SequenceConflict"
      [] ~ProducerConflict(req) /\ req.event_id \notin DOMAIN stored_envelope -> "Accepted"
      [] OTHER -> IF stored_envelope[req.event_id].fingerprint = req.fingerprint
                  THEN "ExistingDuplicate" ELSE "FingerprintConflict"

\* check_dedup, and check_producer_sequence only for a new event id.
AcceptAnswer(req) ==
    CASE req.event_id \in DOMAIN stored_envelope ->
            IF stored_envelope[req.event_id].fingerprint = req.fingerprint
            THEN "ExistingDuplicate" ELSE "FingerprintConflict"
      [] req.event_id \notin DOMAIN stored_envelope ->
            IF ProducerConflict(req) THEN "SequenceConflict" ELSE "Accepted"

\* COALESCE(MAX(journal_sequence), 0) + 1
JournalSequences == {stored_envelope[e].journal_sequence : e \in DOMAIN stored_envelope}

\* Variant: MAX without + 1.
allocate_journal_sequence_NoIncrement ==
    CHOOSE m \in JournalSequences \cup {0} : \A n \in JournalSequences : n <= m

allocate_journal_sequence ==
    1 + CHOOSE m \in JournalSequences \cup {0} : \A n \in JournalSequences : n <= m

allocate_stream_sequence(s) ==
    1 + (IF s \in DOMAIN stream_head THEN stream_head[s] ELSE 0)

\* Variants: one row too many, or one too few, survives the pruning.
Pruned_TooLate(count, max) == IF count <= max THEN count + 1 ELSE max
Pruned_TooEarly(count, max) == IF count + 1 < max THEN count + 1 ELSE max - 1

\* One more audit row, then all but the newest MAX_ATTEMPTS are deleted.
Pruned(count, max) == IF count + 1 <= max THEN count + 1 ELSE max

record_attempt(e) ==
    write_attempt' = [write_attempt EXCEPT ![e] = Pruned(@, MAX_ATTEMPTS)]

AcceptNew(req) ==
    /\ AcceptAnswer(req) = "Accepted"
    /\ stored_envelope' =
          Put(stored_envelope, req.event_id,
              [journal_sequence |-> allocate_journal_sequence,
               stream_sequence |-> allocate_stream_sequence(req.stream),
               stream |-> req.stream, producer |-> req.producer,
               seq |-> req.seq, fingerprint |-> req.fingerprint])
    /\ stream_head' =
          Put(stream_head, req.stream, allocate_stream_sequence(req.stream))
    /\ lifecycle_state' =
          Put(lifecycle_state, req.event_id,
              [status |-> "LOCAL_ACCEPTED", revision |-> 1])
    /\ producer_sequence' =
          Put(producer_sequence, req.producer,
              [highest_seq |-> req.seq, last_event_id |-> req.event_id])
    /\ record_attempt(req.event_id)
    /\ UNCHANGED deliveryVars

\* Variant: the stream sequence is allocated before the request is rejected.
AcceptAuditOnly_Allocates(req) ==
    /\ AcceptAnswer(req) # "Accepted"
    /\ record_attempt(req.event_id)
    /\ stream_head' =
          Put(stream_head, req.stream, allocate_stream_sequence(req.stream))
    /\ UNCHANGED <<stored_envelope, producer_sequence, lifecycle_state, deliveryVars>>

\* EXISTING_DUPLICATE, FINGERPRINT_CONFLICT and SEQUENCE_CONFLICT answers:
\* only the audit row is committed.
AcceptAuditOnly(req) ==
    /\ AcceptAnswer(req) # "Accepted"
    /\ record_attempt(req.event_id)
    /\ UNCHANGED <<stored_envelope, producer_sequence, stream_head,
                   lifecycle_state, deliveryVars>>

accept(req) == AcceptNew(req) \/ AcceptAuditOnly(req)

-----------------------------------------------------------------------------
(* Lifecycle and delivery transitions.  Callers pass the revision they read  *)
(* earlier; the transaction compares it with the stored one.                 *)

\* Variant: the revision stays.
SetLifecycle_SameRevision(e, status) ==
    lifecycle_state' = [lifecycle_state EXCEPT ![e].status = status]

SetLifecycle(e, status) ==
    lifecycle_state' = [lifecycle_state EXCEPT
        ![e] = [status |-> status, revision |-> @.revision + 1]]

\* get_status_impl answers Found: the envelope joined with its lifecycle row.
StatusFound(e) == e \in DOMAIN stored_envelope /\ e \in DOMAIN lifecycle_state

update_lifecycle(e, expected, status) ==
    /\ StatusFound(e)
    /\ lifecycle_state[e].revision = expected
    /\ SetLifecycle(e, status)
    /\ UNCHANGED <<acceptVars, deliveryVars>>

create_delivery_pending(e, route) ==
    /\ e \in DOMAIN stored_envelope
    /\ e \notin DOMAIN delivery_state
    /\ delivery_state' =
          Put(delivery_state, e,
              [status |-> "DELIVERY_PENDING", revision |-> 1,
               attempt_count |-> 0, next_retry |-> FALSE,
               blocked_reason |-> FALSE, route |-> route, position |-> 0])
    /\ UNCHANGED <<acceptVars, lifecycle_state, delivery_attempt>>

\* The revision is neither checked against the caller's nor incremented.
record_delivery_attempt(e) ==
    /\ DeliveryFound(e)
    /\ delivery_attempt' =
          [delivery_attempt EXCEPT ![e] = Pruned(@, MAX_DELIVERY_ATTEMPTS)]
    /\ delivery_state' = [delivery_state EXCEPT ![e].attempt_count = @ + 1]
    /\ UNCHANGED <<acceptVars, lifecycle_state>>

\* The row each transition writes.  A retry leaves blocked_reason as it is.
ConfirmedRow(row, position) ==
    [status |-> "REPLICATED", revision |-> row.revision + 1,
     attempt_count |-> row.attempt_count, next_retry |-> FALSE,
     blocked_reason |-> FALSE, route |-> row.route, position |-> position]

BlockedRow(row) ==
    [status |-> "DELIVERY_BLOCKED", revision |-> row.revision + 1,
     attempt_count |-> row.attempt_count, next_retry |-> FALSE,
     blocked_reason |-> TRUE, route |-> row.route, position |-> row.position]

RetryingRow(row) ==
    [status |-> "DELIVERY_RETRYING", revision |-> row.revision + 1,
     attempt_count |-> row.attempt_count, next_retry |-> TRUE,
     blocked_reason |-> row.blocked_reason, route |-> row.route,
     position |-> row.position]

\* Variants: no special case for a REPLICATED row; the topic is not compared;
\* the revision is not compared.
ConfirmAnswer_NoReplay(e, expected, route, sameTopic, position) ==
    IF /\ DeliveryFound(e) /\ delivery_state[e].revision = expected
       /\ delivery_state[e].route = route /\ sameTopic
    THEN "Updated" ELSE "Rejected"
ConfirmAnswer_AnyTopic(e, expected, route, sameTopic, position) ==
    IF /\ DeliveryFound(e) /\ delivery_state[e].revision = expected
       /\ delivery_state[e].route = route
       /\ delivery_state[e].status # "REPLICATED"
    THEN "Updated" ELSE "Rejected"
ConfirmAnswer_AnyRevision(e, expected, route, sameTopic, position) ==
    IF /\ DeliveryFound(e) /\ delivery_state[e].route = route /\ sameTopic
       /\ delivery_state[e].status # "REPLICATED"
    THEN "Updated" ELSE "Rejected"

\* The answer of confirm_replicated_delivery to a confirmation that names
\* route (fingerprint and profile), a topic equal to the stored one or not,
\* and a position; Rejected stands for the answers that change nothing.
ConfirmAnswer(e, expected, route, sameTopic, position) ==
    IF ~DeliveryFound(e) THEN "Rejected"
    ELSE LET row == delivery_state[e]
             sameMetadata == sameTopic /\ row.route = route
         IN  IF row.status = "REPLICATED"
             THEN IF /\ lifecycle_state[e].status = "REPLICATED"
                     /\ sameMetadata
                     /\ row.position = position
                  THEN "AlreadyConfirmed" ELSE "Rejected"
             ELSE IF row.revision = expected /\ sameMetadata
                  THEN "Updated" ELSE "Rejected"

confirm_replicated_delivery(e, expected, route, sameTopic, position) ==
    /\ ConfirmAnswer(e, expected, route, sameTopic, position) = "Updated"
    /\ delivery_state' = [delivery_state EXCEPT ![e] = ConfirmedRow(@, position)]
    /\ SetLifecycle(e, "REPLICATED")
    /\ UNCHANGED <<acceptVars, delivery_attempt>>

\* Variant: the revision is not compared.
CanTransition_AnyRevision(e, expected) ==
    DeliveryFound(e) /\ delivery_state[e].status # "REPLICATED"

\* The compare-and-set guard shared by block_delivery and
\* update_delivery_retry: anything else is NotFound, Corrupted,
\* StaleRevision or InvalidTransition.
CanTransition(e, expected) ==
    /\ DeliveryFound(e)
    /\ delivery_state[e].revision = expected
    /\ delivery_state[e].status # "REPLICATED"

\* Variant: the lifecycle row is forgotten.
block_delivery_RowOnly(e, expected) ==
    /\ CanTransition(e, expected)
    /\ delivery_state' = [delivery_state EXCEPT ![e] = BlockedRow(@)]
    /\ UNCHANGED <<acceptVars, lifecycle_state, delivery_attempt>>

block_delivery(e, expected) ==
    /\ CanTransition(e, expected)
    /\ delivery_state' = [delivery_state EXCEPT ![e] = BlockedRow(@)]
    /\ SetLifecycle(e, "DELIVERY_BLOCKED")
    /\ UNCHANGED <<acceptVars, delivery_attempt>>

\* The lifecycle row is left as it is.
update_delivery_retry(e, expected) ==
    /\ CanTransition(e, expected)
    /\ delivery_state' = [delivery_state EXCEPT ![e] = RetryingRow(@)]
    /\ UNCHANGED <<acceptVars, lifecycle_state, delivery_attempt>>

\* Variant: the newest events first.
GateScan_NewestFirst(limit) ==
    {e \in DOMAIN delivery_state :
        Cardinality({f \in DOMAIN delivery_state :
            stored_envelope[f].journal_sequence
                > stored_envelope[e].journal_sequence}) < limit}

\* scan_delivery_gate_states(limit): the rows of the oldest events.
GateScan(limit) ==
    {e \in DOMAIN delivery_state :
        Cardinality({f \in DOMAIN delivery_state :
            stored_envelope[f].journal_sequence
                < stored_envelope[e].journal_sequence}) < limit}

\* collect_delivery_scan: one bad row fails the whole scan.
GateScanOk(limit) == \A e \in GateScan(limit) : ValidRow(delivery_state[e])

-----------------------------------------------------------------------------
(* The journal on its own: any number of clients call any operation at any   *)
(* time, with any revision they may have read, current or stale.             *)

JournalInit ==
    /\ stored_envelope = [e \in {} |-> 0]
    /\ lifecycle_state = [e \in {} |-> 0]
    /\ producer_sequence = [p \in {} |-> 0]
    /\ stream_head = [s \in {} |-> 0]
    /\ write_attempt = [e \in EventIds |-> 0]
    /\ delivery_state = [e \in {} |-> 0]
    /\ delivery_attempt = [e \in EventIds |-> 0]

AcceptCall == \E req \in Requests : accept(req)

UpdateLifecycleCall ==
    \E e \in EventIds, expected \in 1..MaxRevision, status \in LocalDeliveryStatus :
        expected < MaxRevision /\ update_lifecycle(e, expected, status)

CreatePendingCall ==
    \E e \in EventIds, route \in Routes : create_delivery_pending(e, route)

RecordAttemptCall ==
    \E e \in DOMAIN delivery_state :
        /\ delivery_state[e].attempt_count < MaxAttemptCount
        /\ record_delivery_attempt(e)

\* MaxRevision also bounds the lifecycle revisions of the calls that move
\* both rows.
RevisionsBelowMax(e) ==
    /\ e \in DOMAIN delivery_state /\ delivery_state[e].revision < MaxRevision
    /\ e \in DOMAIN lifecycle_state /\ lifecycle_state[e].revision < MaxRevision

ConfirmCall ==
    \E e \in EventIds, expected \in 1..MaxRevision, route \in Routes,
       sameTopic \in BOOLEAN, position \in 1..MaxPosition :
        /\ RevisionsBelowMax(e)
        /\ confirm_replicated_delivery(e, expected, route, sameTopic, position)

BlockCall ==
    \E e \in EventIds, expected \in 1..MaxRevision :
        RevisionsBelowMax(e) /\ block_delivery(e, expected)

RetryCall ==
    \E e \in EventIds, expected \in 1..MaxRevision :
        RevisionsBelowMax(e) /\ update_delivery_retry(e, expected)

JournalNext ==
    \/ AcceptCall
    \/ UpdateLifecycleCall
    \/ CreatePendingCall
    \/ RecordAttemptCall
    \/ ConfirmCall
    \/ BlockCall
    \/ RetryCall

JournalSpec == JournalInit /\ [][JournalNext]_journalVars

-----------------------------------------------------------------------------
(* Properties *)

\* Every table holds rows of its schema, the lifecycle row is written in the
\* transaction that writes the envelope, and delivery rows reference
\* envelopes (the foreign keys of the schema).
JournalTypeOK ==
    /\ stored_envelope \in [DOMAIN stored_envelope -> Envelope]
    /\ DOMAIN stored_envelope \subseteq EventIds
    /\ lifecycle_state \in [DOMAIN stored_envelope -> Lifecycle]
    /\ producer_sequence \in [DOMAIN producer_sequence -> ProducerHead]
    /\ DOMAIN producer_sequence \subseteq Producers
    /\ stream_head \in [DOMAIN stream_head -> Nat \ {0}]
    /\ DOMAIN stream_head \subseteq Streams
    /\ write_attempt \in [EventIds -> 0..MAX_ATTEMPTS]
    /\ delivery_state \in [DOMAIN delivery_state -> DeliveryRow]
    /\ DOMAIN delivery_state \subseteq DOMAIN stored_envelope
    /\ delivery_attempt \in [EventIds -> 0..MAX_DELIVERY_ATTEMPTS]

EventsOf(s) == {e \in DOMAIN stored_envelope : stored_envelope[e].stream = s}

\* allocate_stream_sequence: the stream sequences of a stream are exactly
\* 1..head, each used once, and the head row exists for every stream that has
\* events: no gap and no reuse, whatever requests were rejected in between.
StreamSequencesDense ==
    \A s \in Streams :
        LET head == IF s \in DOMAIN stream_head THEN stream_head[s] ELSE 0
        IN  /\ {stored_envelope[e].stream_sequence : e \in EventsOf(s)} = 1..head
            /\ \A e, f \in EventsOf(s) :
                  stored_envelope[e].stream_sequence = stored_envelope[f].stream_sequence
                      => e = f

\* allocate_journal_sequence: journal sequences are unique, and reading a
\* stream in journal order (what the recovery scan does) is reading it in
\* stream order.
JournalOrderIsStreamOrder ==
    \A e, f \in DOMAIN stored_envelope :
        LET a == stored_envelope[e]
            b == stored_envelope[f]
        IN  /\ a.journal_sequence = b.journal_sequence => e = f
            /\ a.stream = b.stream =>
                 (a.journal_sequence < b.journal_sequence
                     <=> a.stream_sequence < b.stream_sequence)

\* check_producer_sequence: events of one producer instance are stored in the
\* order of their operation sequence, and no operation sequence is accepted
\* for two events.
ProducerOrder ==
    \A e, f \in DOMAIN stored_envelope :
        LET a == stored_envelope[e]
            b == stored_envelope[f]
        IN  a.producer = b.producer /\ a.journal_sequence < b.journal_sequence
                => a.seq < b.seq

\* accept checks the fingerprint before the producer sequence, so from the
\* acceptance of a request on, whatever else happens and however far the
\* producer has moved on, a client that retries it is told ExistingDuplicate;
\* it is never told that the request conflicts.
RetryIsDuplicate ==
    [][\A req \in Requests :
          AcceptNew(req) \/ AcceptAnswer(req) = "ExistingDuplicate"
              => AcceptAnswer(req)' = "ExistingDuplicate"
      ]_journalVars

\* Only confirm_replicated_delivery makes an event REPLICATED: the lifecycle
\* never says so without a delivery row that carries Kafka coordinates.
ReplicatedIsConfirmed ==
    \A e \in DOMAIN lifecycle_state :
        lifecycle_state[e].status = "REPLICATED" =>
            /\ e \in DOMAIN delivery_state
            /\ delivery_state[e].status = "REPLICATED"
            /\ delivery_state[e].position # 0

\* The pruned history agrees with the counter it documents.
AttemptHistoryMatches ==
    \A e \in DOMAIN delivery_state :
        delivery_attempt[e] =
            IF delivery_state[e].attempt_count <= MAX_DELIVERY_ATTEMPTS
            THEN delivery_state[e].attempt_count ELSE MAX_DELIVERY_ATTEMPTS

\* Accepted events are never lost or rewritten, and a lifecycle row changes
\* only by going to the next revision.
AcceptedIsPermanent ==
    [][\A e \in DOMAIN stored_envelope :
          /\ e \in DOMAIN stored_envelope'
          /\ stored_envelope'[e] = stored_envelope[e]
          /\ \/ lifecycle_state'[e] = lifecycle_state[e]
             \/ lifecycle_state'[e].revision = lifecycle_state[e].revision + 1
      ]_journalVars

\* A confirmed delivery stays REPLICATED at the coordinates of the first
\* confirmation, and a delivery row keeps the route it was created with.
ConfirmationIsFinal ==
    [][\A e \in DOMAIN delivery_state :
          /\ e \in DOMAIN delivery_state'
          /\ delivery_state'[e].route = delivery_state[e].route
          /\ delivery_state[e].status = "REPLICATED" =>
                /\ delivery_state'[e].status = "REPLICATED"
                /\ delivery_state'[e].position = delivery_state[e].position
      ]_journalVars

-----------------------------------------------------------------------------
(* Statements the repository makes about the journal, checked as they stand. *)

\* replicated.rs: the transition table of the delivery status.
validate_transition(from, to) ==
    <<from, to>> \in {<<"DELIVERY_PENDING", "DELIVERY_RETRYING">>,
                     <<"DELIVERY_PENDING", "REPLICATED">>,
                     <<"DELIVERY_PENDING", "DELIVERY_BLOCKED">>,
                     <<"DELIVERY_RETRYING", "REPLICATED">>,
                     <<"DELIVERY_RETRYING", "DELIVERY_BLOCKED">>,
                     <<"DELIVERY_BLOCKED", "DELIVERY_RETRYING">>}

\* A delivery row changes status only along the table of replicated.rs.
LegalTransitions ==
    [][\A e \in DOMAIN delivery_state :
          \/ delivery_state'[e].status = delivery_state[e].status
          \/ validate_transition(delivery_state[e].status, delivery_state'[e].status)
      ]_journalVars
=============================================================================
