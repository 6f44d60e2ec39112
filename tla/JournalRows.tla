---------------------------- MODULE JournalRows ----------------------------
(***************************************************************************)
(* The rows of the journal with their digests and checksums, the functions  *)
(* of crates/craftrelay-journal/src/lib.rs that verify a row before it is   *)
(* used, and the retry schedule of crates/craftrelay-kafka-delivery.        *)
(* Storage may damage a column or put one blob in the place of another;     *)
(* several processes share the file.  A delivery attempt reads its candidate *)
(* and its payload in separate steps, and the two updates that are not      *)
(* transactions (update_lifecycle, update_delivery_retry) read and write in *)
(* separate steps.                                                          *)
(*                                                                          *)
(* SHA-256 is injective here: a digest is what it is computed from.  The    *)
(* payload and the other immutable columns of an event are the event        *)
(* itself, and Damaged is content no program wrote.                         *)
(***************************************************************************)
EXTENDS JournalOpen, Integers

CONSTANTS
    Events,
    Delivered,               \* the events that have a delivery row
    None, Damaged,
    MAX_RETRY_ATTEMPTS, BASE_BACKOFF_MS, MAX_BACKOFF_MS,
    MaxTime, MaxDamage, MaxLifecycle,  \* bounds
    MaxAttempts              \* bound: a damaged lifecycle row lets attempts repeat for ever

ASSUME RowConstants ==
    /\ MAX_RETRY_ATTEMPTS \in Nat /\ BASE_BACKOFF_MS \in Nat \ {0}
    /\ MAX_BACKOFF_MS \in Nat /\ MAX_BACKOFF_MS >= BASE_BACKOFF_MS
    /\ Delivered \subseteq Events
    /\ MaxDamage \in Nat

VARIABLES
    stored_envelope, payload_blob, lifecycle_state, delivery_state,   \* None: no row
    written,     \* the contents the program wrote: [lifecycle, delivery], without checksums
    work,        \* what each process is doing
    now,
    earliest,    \* history: when the failure that last scheduled the event lets it be retried
    damaged,     \* events with a row storage has damaged
    raced,       \* events whose attempt count moved under an unfinished retry update
    repaired,    \* events retried from DELIVERY_BLOCKED
    faults

tableVars == <<stored_envelope, payload_blob, lifecycle_state, delivery_state>>
causes == <<damaged, raced, repaired, faults>>
rowVars == <<tableVars, written, work, now, earliest, causes>>

LocalDeliveryStatus == {"LOCAL_ACCEPTED", "DELIVERY_PENDING", "DELIVERY_BLOCKED"}
\* The statuses the program writes into lifecycle rows.
LifecycleStatus == LocalDeliveryStatus \union {"REPLICATED"}
DeliveryStatus == {"DELIVERY_PENDING", "DELIVERY_RETRYING", "DELIVERY_BLOCKED", "REPLICATED"}

-----------------------------------------------------------------------------
(* Checksums and the functions that verify them *)

compute_sha256(payload) == <<"sha256", payload>>

compute_envelope_checksum(e, row) == <<e, row.columns, row.payload_digest>>

compute_lifecycle_checksum(e, row) == <<e, row.revision, row.status>>

\* Variant: the attempt count is left out, like updated_at_ms.
compute_delivery_checksum_NoCount(e, row) ==
    <<e, row.status, row.next_retry_at, row.blocked, row.confirmed, row.revision>>

\* updated_at_ms, which no property reads, is left out of the rows.
compute_delivery_checksum(e, row) ==
    <<e, row.status, row.attempt_count, row.next_retry_at, row.blocked, row.confirmed,
      row.revision>>

Digests == {compute_sha256(payload) : payload \in Events \union {Damaged}}
EnvelopeChecksums == Events \X (Events \union {Damaged}) \X Digests

LifecycleChecksums == Events \X Nat \X LifecycleStatus
LifecycleRows ==
    [revision : Nat, status : LifecycleStatus, checksum : LifecycleChecksums \union {Damaged}]

Times == Nat \union {None}
DeliveryChecksums == Events \X DeliveryStatus \X Nat \X Times \X BOOLEAN \X BOOLEAN \X Nat
DeliveryRows ==
    [status : DeliveryStatus, attempt_count : Nat, next_retry_at : Times, blocked : BOOLEAN,
     confirmed : BOOLEAN, revision : Nat, checksum : DeliveryChecksums \union {Damaged}]

\* None is neither a time nor a row, and Damaged is no content and no checksum of one.
ASSUME ContentAssumption ==
    /\ None \notin Nat \union LifecycleRows \union DeliveryRows
    /\ Damaged \notin Events \union EnvelopeChecksums \union LifecycleChecksums

EnvelopeVerifies(e) ==
    /\ stored_envelope[e] # None
    /\ stored_envelope[e].checksum = compute_envelope_checksum(e, stored_envelope[e])

LifecycleVerifies(e) ==
    /\ lifecycle_state[e] # None
    /\ lifecycle_state[e].checksum = compute_lifecycle_checksum(e, lifecycle_state[e])

\* Found: the lifecycle and the envelope checksum are both right.
get_status(e) ==
    IF stored_envelope[e] = None \/ lifecycle_state[e] = None THEN [answer |-> "NotFound"]
    ELSE IF ~LifecycleVerifies(e) \/ ~EnvelopeVerifies(e) THEN [answer |-> "Corrupted"]
    ELSE [answer |-> "Found", revision |-> lifecycle_state[e].revision,
          status |-> lifecycle_state[e].status]

\* The columns of the route, which every row has, are left out; confirmed stands for
\* the Kafka position and the time of the confirmation.
validate_delivery_state_invariants(row) ==
    /\ (row.status = "DELIVERY_RETRYING") = (row.next_retry_at # None)
    /\ (row.status = "DELIVERY_BLOCKED") = row.blocked
    /\ (row.status = "REPLICATED") = row.confirmed

DeliveryFound(e) ==
    /\ delivery_state[e] # None
    /\ delivery_state[e].checksum = compute_delivery_checksum(e, delivery_state[e])
    /\ validate_delivery_state_invariants(delivery_state[e])

CandidateFound(e) == DeliveryFound(e) /\ EnvelopeVerifies(e)

\* verify_payload, and the check a duplicate accept makes: the blob agrees with itself.
verify_payload_digest(e) ==
    /\ payload_blob[e] # None
    /\ compute_sha256(payload_blob[e].payload) = payload_blob[e].payload_digest

\* Variant: the blob is only compared with itself.
read_verified_payload_OwnDigest(e) ==
    IF stored_envelope[e] = None THEN [answer |-> "NotFound"]
    ELSE IF ~verify_payload_digest(e) THEN [answer |-> "Corrupted"]
    ELSE [answer |-> "Found", payload |-> payload_blob[e].payload]

\* The blob also agrees with the envelope.
read_verified_payload(e) ==
    IF stored_envelope[e] = None THEN [answer |-> "NotFound"]
    ELSE IF \/ payload_blob[e] = None
            \/ payload_blob[e].payload_digest # stored_envelope[e].payload_digest
            \/ compute_sha256(payload_blob[e].payload) # stored_envelope[e].payload_digest
    THEN [answer |-> "Corrupted"]
    ELSE [answer |-> "Found", payload |-> payload_blob[e].payload]

\* The answer of accept to an event it already holds, fingerprints being equal.
DuplicateAnswer(e) ==
    IF get_status(e).answer # "Found" THEN [answer |-> "Corrupted"]
    ELSE IF ~verify_payload_digest(e) THEN [answer |-> "Corrupted"]
    ELSE [answer |-> "ExistingDuplicate",
          status |-> IF get_status(e).status \in {"LOCAL_ACCEPTED", "DELIVERY_PENDING"}
                     THEN get_status(e).status ELSE "DELIVERY_BLOCKED"]

-----------------------------------------------------------------------------
(* The scan for due retries, with a limit above the number of rows: all the *)
(* rows, or none when one of them does not verify.  It holds the lock for    *)
(* itself alone, and only tests call it before an attempt.                   *)

collect_delivery_scan(rows) ==
    IF \A e \in rows : CandidateFound(e)
    THEN [answer |-> "Ok", rows |-> rows] ELSE [answer |-> "Corrupted"]

scan_retrying_deliveries ==
    collect_delivery_scan(
        {e \in Events :
            /\ delivery_state[e] # None
            /\ delivery_state[e].status = "DELIVERY_RETRYING"
            /\ delivery_state[e].next_retry_at # None /\ delivery_state[e].next_retry_at <= now})

-----------------------------------------------------------------------------
(* Retry and repair decisions *)

Minimum(a, b) == IF a <= b THEN a ELSE b
Maximum(a, b) == IF a >= b THEN a ELSE b

\* Variant: every wait is the base.
compute_next_retry_NoGrowth(attempt_count, time) ==
    IF attempt_count >= MAX_RETRY_ATTEMPTS THEN None ELSE time + BASE_BACKOFF_MS

\* When to try again after this many attempts, or None when they are exhausted.
compute_next_retry(attempt_count, time) ==
    IF attempt_count >= MAX_RETRY_ATTEMPTS THEN None
    ELSE time + Minimum(BASE_BACKOFF_MS * 2^Maximum(attempt_count - 1, 0), MAX_BACKOFF_MS)

\* The wait a failure is meant to cause when this many came before it: the base, doubled
\* for each of them, up to the maximum.
Backoff(earlier) == Minimum(BASE_BACKOFF_MS * 2^earlier, MAX_BACKOFF_MS)

classify_for_repair(status, drifted, checksum_valid) ==
    IF ~checksum_valid THEN "Inconsistent"
    ELSE IF drifted THEN "ProfileDrift"
    ELSE IF status = "DELIVERY_BLOCKED" THEN "EligibleForRetry"
    ELSE "Stuck"

-----------------------------------------------------------------------------
(* Accepting an event and creating its delivery row *)

Signed(row, checksum) ==
    [column \in DOMAIN row \union {"checksum"} |->
        IF column = "checksum" THEN checksum ELSE row[column]]
LifecycleRow(e, row) == Signed(row, compute_lifecycle_checksum(e, row))
DeliveryRow(e, row) == Signed(row, compute_delivery_checksum(e, row))

Idle == [step |-> "idle"]

RowInit ==
    /\ stored_envelope = [e \in Events |-> None]
    /\ payload_blob = [e \in Events |-> None]
    /\ lifecycle_state = [e \in Events |-> None]
    /\ delivery_state = [e \in Events |-> None]
    /\ written = [e \in Events |-> [lifecycle |-> None, delivery |-> None]]
    /\ work = [p \in Procs |-> Idle]
    /\ now = 0
    /\ earliest = [e \in Events |-> 0]
    /\ damaged = {} /\ raced = {} /\ repaired = {} /\ faults = 0

\* accept of an event the journal does not hold; the other answers change no row here.
accept(p, e) ==
    LET digest == compute_sha256(e)
        row == [columns |-> e, payload_digest |-> digest]
        first == [revision |-> 1, status |-> "LOCAL_ACCEPTED"]
    IN
    /\ work[p] = Idle
    /\ stored_envelope[e] = None
    /\ stored_envelope' = [stored_envelope EXCEPT ![e] =
                              Signed(row, compute_envelope_checksum(e, row))]
    /\ payload_blob' = [payload_blob EXCEPT ![e] = [payload |-> e, payload_digest |-> digest]]
    /\ lifecycle_state' = [lifecycle_state EXCEPT ![e] = LifecycleRow(e, first)]
    /\ written' = [written EXCEPT ![e].lifecycle = first]
    /\ UNCHANGED <<delivery_state, work, now, earliest, causes>>

PendingRow ==
    [status |-> "DELIVERY_PENDING", attempt_count |-> 0, next_retry_at |-> None,
     blocked |-> FALSE, confirmed |-> FALSE, revision |-> 1]

CanCreate(e) ==
    e \in Delivered /\ stored_envelope[e] # None /\ delivery_state[e] = None

create_delivery_pending(p, e) ==
    /\ work[p] = Idle
    /\ CanCreate(e)
    /\ delivery_state' = [delivery_state EXCEPT ![e] = DeliveryRow(e, PendingRow)]
    /\ written' = [written EXCEPT ![e].delivery = PendingRow]
    /\ UNCHANGED <<stored_envelope, payload_blob, lifecycle_state, work, now, earliest, causes>>

-----------------------------------------------------------------------------
(* One delivery attempt of a process *)

\* attempt_delivery of any event, offered by a scan now, earlier or never: it reads the
\* candidate and does not look at next_retry_at.  For one that is not found, does not
\* verify, is replicated or is blocked it returns, and no row changes.  The gate, and the
\* routing checks that block an event before it is sent, are in Delivery.
TakeCandidate(p, e) ==
    /\ work[p] = Idle
    /\ CandidateFound(e)
    /\ delivery_state[e].status \notin {"REPLICATED", "DELIVERY_BLOCKED"}
    /\ work' = [work EXCEPT ![p] =
                   [step |-> "candidate", event |-> e,
                    revision |-> delivery_state[e].revision,
                    attempts |-> delivery_state[e].attempt_count]]
    /\ UNCHANGED <<tableVars, written, now, earliest, causes>>

\* The second call of the attempt reads the payload and sends it; without one the
\* attempt answers an error.
ReadPayload(p) ==
    LET read == read_verified_payload(work[p].event)
    IN
    /\ work[p].step = "candidate"
    /\ work' = [work EXCEPT ![p] =
                   IF read.answer = "Found"
                   THEN [step |-> "sending", event |-> work[p].event,
                         revision |-> work[p].revision, attempts |-> work[p].attempts,
                         payload |-> read.payload]
                   ELSE Idle]
    /\ UNCHANGED <<tableVars, written, now, earliest, causes>>

\* The checks confirm_replicated_delivery and block_delivery make in their transaction.
CanTransition(e, expected) ==
    /\ DeliveryFound(e) /\ get_status(e).answer = "Found"
    /\ delivery_state[e].revision = expected
    /\ delivery_state[e].status # "REPLICATED"

\* Writes the delivery row and, in the same transaction, the lifecycle row.
Transition(e, row) ==
    LET lifecycle == [revision |-> lifecycle_state[e].revision + 1, status |-> row.status]
    IN  /\ delivery_state' = [delivery_state EXCEPT ![e] = DeliveryRow(e, row)]
        /\ lifecycle_state' = [lifecycle_state EXCEPT ![e] = LifecycleRow(e, lifecycle)]
        /\ written' = [written EXCEPT ![e] = [lifecycle |-> lifecycle, delivery |-> row]]

NoTransition == UNCHANGED <<delivery_state, lifecycle_state, written>>

NextRow(e, status) ==
    [status |-> status, attempt_count |-> delivery_state[e].attempt_count,
     next_retry_at |-> None, blocked |-> status = "DELIVERY_BLOCKED",
     confirmed |-> status = "REPLICATED", revision |-> delivery_state[e].revision + 1]

\* Kafka has acknowledged the send.
confirm_replicated_delivery(p) ==
    LET e == work[p].event
    IN
    /\ work[p].step = "sending"
    /\ IF CanTransition(e, work[p].revision)
       THEN Transition(e, NextRow(e, "REPLICATED")) ELSE NoTransition
    /\ work' = [work EXCEPT ![p] = Idle]
    /\ UNCHANGED <<stored_envelope, payload_blob, now, earliest, causes>>

block_delivery(p) ==
    LET e == work[p].event
    IN
    /\ work[p].step = "failed"
    /\ ~work[p].retriable \/ work[p].attempts + 1 >= MAX_RETRY_ATTEMPTS
    /\ IF CanTransition(e, work[p].revision)
       THEN Transition(e, NextRow(e, "DELIVERY_BLOCKED")) ELSE NoTransition
    /\ work' = [work EXCEPT ![p] = Idle]
    /\ UNCHANGED <<stored_envelope, payload_blob, now, earliest, causes>>

Counted(row) == [row EXCEPT !.attempt_count = row.attempt_count + 1]

\* The send failed; record_delivery_attempt counts the attempt and leaves the revision.
record_delivery_attempt(p, retriable) ==
    LET e == work[p].event
        row == Counted(delivery_state[e])
    IN
    /\ work[p].step = "sending"
    /\ delivery_state[e].attempt_count < MaxAttempts
    /\ IF DeliveryFound(e)
       THEN /\ delivery_state' = [delivery_state EXCEPT ![e] =
                  [row EXCEPT !.checksum = compute_delivery_checksum(e, row)]]
            /\ written' = [written EXCEPT ![e].delivery = Counted(written[e].delivery)]
            /\ work' = [work EXCEPT ![p] =
                  [step |-> "failed", event |-> e, revision |-> work[p].revision,
                   attempts |-> work[p].attempts, retriable |-> retriable, at |-> now]]
            /\ raced' = IF \E q \in Procs : work[q].step = "retry" /\ work[q].event = e
                        THEN raced \union {e} ELSE raced
       ELSE /\ work' = [work EXCEPT ![p] = Idle]
            /\ UNCHANGED <<delivery_state, written, raced>>
    /\ UNCHANGED <<stored_envelope, payload_blob, lifecycle_state, now, earliest,
                   damaged, repaired, faults>>

-----------------------------------------------------------------------------
(* The updates that are not transactions: load and check, then store *)

RetryLoaded(e, expected, next, allowed) ==
    IF /\ DeliveryFound(e)
       /\ delivery_state[e].revision = expected /\ delivery_state[e].status # "REPLICATED"
    THEN [step |-> "retry", event |-> e, loaded |-> delivery_state[e], next |-> next,
          allowed |-> allowed]
    ELSE Idle

\* The first half of update_delivery_retry after a retriable failure.
LoadForRetry(p) ==
    LET failed == work[p]
        next == compute_next_retry(failed.attempts + 1, failed.at)
    IN
    /\ failed.step = "failed"
    /\ failed.retriable /\ failed.attempts + 1 < MAX_RETRY_ATTEMPTS
    /\ next # None
    /\ work' = [work EXCEPT ![p] = RetryLoaded(failed.event, failed.revision, next,
                                               failed.at + Backoff(failed.attempts))]
    /\ UNCHANGED <<tableVars, written, now, earliest, causes>>

\* An operator's tool retries a row that classify_for_repair calls eligible.
LoadForRepair(p, e) ==
    /\ work[p] = Idle
    /\ delivery_state[e] # None
    /\ classify_for_repair(delivery_state[e].status, FALSE, DeliveryFound(e))
           = "EligibleForRetry"
    /\ work' = [work EXCEPT ![p] = RetryLoaded(e, delivery_state[e].revision, now, now)]
    /\ UNCHANGED <<tableVars, written, now, earliest, causes>>

\* Variant: the UPDATE names the event only.
StoreMatches_AnyRevision(e, loaded) == TRUE

\* WHERE event_id = ? AND delivery_revision = ?
StoreMatches(e, loaded) == delivery_state[e].revision = loaded.revision

\* The columns the UPDATE names.
Retrying(row, next, revision) ==
    [row EXCEPT !.status = "DELIVERY_RETRYING", !.next_retry_at = next, !.revision = revision]

\* The second half of update_delivery_retry: the checksum is that of the loaded row,
\* and the columns the UPDATE does not name stay as they are.
update_delivery_retry(p) ==
    LET e == work[p].event
        loaded == work[p].loaded
        retrying(row) == Retrying(row, work[p].next, loaded.revision + 1)
    IN
    /\ work[p].step = "retry"
    /\ IF StoreMatches(e, loaded)
       THEN /\ delivery_state' = [delivery_state EXCEPT ![e] =
                  [retrying(delivery_state[e]) EXCEPT !.checksum =
                      compute_delivery_checksum(e, retrying(loaded))]]
            /\ written' = [written EXCEPT ![e].delivery = retrying(written[e].delivery)]
            /\ earliest' = [earliest EXCEPT ![e] = work[p].allowed]
            /\ repaired' = IF loaded.blocked THEN repaired \union {e} ELSE repaired
       ELSE UNCHANGED <<delivery_state, written, earliest, repaired>>
    /\ work' = [work EXCEPT ![p] = Idle]
    /\ UNCHANGED <<stored_envelope, payload_blob, lifecycle_state, now,
                   damaged, raced, faults>>

\* The first half of update_lifecycle, by a caller that knows the current revision.
LoadLifecycle(p, e, status) ==
    /\ work[p] = Idle
    /\ get_status(e).answer = "Found" /\ get_status(e).revision < MaxLifecycle
    /\ work' = [work EXCEPT ![p] = [step |-> "lifecycle", event |-> e,
                                    revision |-> get_status(e).revision, status |-> status]]
    /\ UNCHANGED <<tableVars, written, now, earliest, causes>>

update_lifecycle(p) ==
    LET e == work[p].event
        row == [revision |-> work[p].revision + 1, status |-> work[p].status]
    IN
    /\ work[p].step = "lifecycle"
    /\ IF lifecycle_state[e].revision = work[p].revision
       THEN /\ lifecycle_state' = [lifecycle_state EXCEPT ![e] = LifecycleRow(e, row)]
            /\ written' = [written EXCEPT ![e].lifecycle = row]
       ELSE UNCHANGED <<lifecycle_state, written>>
    /\ work' = [work EXCEPT ![p] = Idle]
    /\ UNCHANGED <<stored_envelope, payload_blob, delivery_state, now, earliest, causes>>

-----------------------------------------------------------------------------
(* What storage and time do *)

\* Every way to change one column of one row.
DamagedEnvelopes(row) ==
    {[row EXCEPT !.columns = Damaged], [row EXCEPT !.checksum = Damaged]}
        \union {[row EXCEPT !.payload_digest = compute_sha256(f)] : f \in Events \union {Damaged}}

DamagedBlobs(row) == {[row EXCEPT !.payload = Damaged], [row EXCEPT !.payload_digest = Damaged]}

DamagedLifecycles(row) ==
    {[row EXCEPT !.checksum = Damaged]}
        \union {[row EXCEPT !.revision = r] : r \in 1 .. row.revision + 1}
        \union {[row EXCEPT !.status = s] : s \in LifecycleStatus}

DamagedDeliveries(row) ==
    {[row EXCEPT !.checksum = Damaged], [row EXCEPT !.next_retry_at = 0],
     [row EXCEPT !.attempt_count = 0], [row EXCEPT !.blocked = ~row.blocked],
     [row EXCEPT !.confirmed = ~row.confirmed]}
        \union {[row EXCEPT !.revision = r] : r \in 1 .. row.revision + 1}
        \union {[row EXCEPT !.status = s] : s \in DeliveryStatus}

Fault(e) ==
    /\ faults < MaxDamage
    /\ faults' = faults + 1
    /\ damaged' = damaged \union {e}
    /\ UNCHANGED <<written, work, now, earliest, raced, repaired>>

Damage(e) ==
    /\ Fault(e)
    /\ \/ /\ stored_envelope[e] # None
          /\ \E row \in DamagedEnvelopes(stored_envelope[e]) :
                 stored_envelope' = [stored_envelope EXCEPT ![e] = row]
          /\ UNCHANGED <<payload_blob, lifecycle_state, delivery_state>>
       \/ /\ payload_blob[e] # None
          /\ \E row \in DamagedBlobs(payload_blob[e]) :
                 payload_blob' = [payload_blob EXCEPT ![e] = row]
          /\ UNCHANGED <<stored_envelope, lifecycle_state, delivery_state>>
       \/ /\ lifecycle_state[e] # None
          /\ \E row \in DamagedLifecycles(lifecycle_state[e]) :
                 lifecycle_state' = [lifecycle_state EXCEPT ![e] = row]
          /\ UNCHANGED <<stored_envelope, payload_blob, delivery_state>>
       \/ /\ delivery_state[e] # None
          /\ \E row \in DamagedDeliveries(delivery_state[e]) :
                 delivery_state' = [delivery_state EXCEPT ![e] = row]
          /\ UNCHANGED <<stored_envelope, payload_blob, lifecycle_state>>

\* The blob of one event is read where that of another was written.
Misdirect(e, f) ==
    /\ Fault(e)
    /\ payload_blob[e] # None /\ payload_blob[f] # None
    /\ payload_blob' = [payload_blob EXCEPT ![e] = payload_blob[f]]
    /\ UNCHANGED <<stored_envelope, lifecycle_state, delivery_state>>

Tick ==
    /\ now < MaxTime
    /\ now' = now + 1
    /\ UNCHANGED <<tableVars, written, work, earliest, causes>>

-----------------------------------------------------------------------------
Columns(row) == [column \in DOMAIN row \ {"checksum"} |-> row[column]]

\* What verifies is what the program wrote.  Whatever one column storage changes, and at
\* whatever point of another process's update, get_status and get_delivery_state never
\* return a row that differs from the last write.
VerifiedIsWritten ==
    \A e \in Events :
        /\ get_status(e).answer = "Found" => Columns(lifecycle_state[e]) = written[e].lifecycle
        /\ DeliveryFound(e) => Columns(delivery_state[e]) = written[e].delivery

\* A client that repeats an accepted request is told its latest status: accept answers a
\* duplicate with the status get_status returns.
RepeatIsToldStatus ==
    \A e \in Events :
        DuplicateAnswer(e).answer = "ExistingDuplicate" =>
            DuplicateAnswer(e).status = get_status(e).status

\* A payload read for delivery is the accepted one, whichever blob or digest storage
\* spoils or misplaces, before the candidate is read, between the two reads of an attempt
\* or during its send: read_verified_payload compares the blob with the envelope.
ServedPayloadIsAccepted ==
    /\ \A e \in Events :
           read_verified_payload(e).answer = "Found" => read_verified_payload(e).payload = e
    /\ \A p \in Procs : work[p].step = "sending" => work[p].payload = work[p].event

\* A row stops verifying for three reasons only: storage damaged it, an attempt was
\* recorded between the load and the store of another process's update_delivery_retry,
\* or update_delivery_retry was applied to a blocked row.  Nothing else the processes
\* do to one another's rows spoils a checksum or a field combination.
UnverifiedIsExplained ==
    \A e \in Events :
        /\ (stored_envelope[e] # None /\ get_status(e).answer # "Found") => e \in damaged
        /\ (delivery_state[e] # None /\ ~DeliveryFound(e)) =>
               e \in damaged \union raced \union repaired

\* scan_retrying_deliveries offers an event neither early nor late.  Whatever column
\* storage changes and however updates interleave, an event it offers has waited for the
\* backoff of the failure that scheduled it (or an operator has asked for it), and of the
\* rows storage has left alone it leaves out none that is due.
RetryWaits ==
    scan_retrying_deliveries.answer = "Ok" =>
        /\ \A e \in scan_retrying_deliveries.rows : earliest[e] <= now
        /\ \A e \in Events \ damaged :
               /\ delivery_state[e] # None
               /\ written[e].delivery.status = "DELIVERY_RETRYING"
               /\ earliest[e] <= now
               => e \in scan_retrying_deliveries.rows
=============================================================================
