------------------------------- MODULE Delivery -------------------------------
(***************************************************************************)
(* The Kafka delivery service of                                           *)
(* crates/craftrelay-kafka-delivery/src/service.rs over the local journal. *)
(*                                                                         *)
(* A DeliveryService holds an in-memory gate and a profile and runs one    *)
(* attempt_delivery call at a time (&mut self).  It shares the journal     *)
(* with the acceptance path, with operators who block and repair events,   *)
(* and with any other DeliveryService that is open on the same journal (an *)
(* old process that overlaps with its successor).  An attempt is split at  *)
(* its journal and broker calls: each call is one step, other clients of   *)
(* the journal run in between, and a crash may fall between any two.       *)
(* Attempts that answer GateHeld, and those that fail before the gate is   *)
(* touched, change nothing and are stuttering steps.                       *)
(***************************************************************************)
EXTENDS Journal, OrderingGate, Sequences

CONSTANTS
    Services,            \* delivery services open on the journal
    NoEvent,             \* the event of an idle service
    StreamKey,           \* Streams -> the bare stream_key the gate is keyed on
    UnsafeRoutes,        \* routes whose profile is unsafe for delivery
    ScanLimit,           \* rows recover() reads (10_000 in the code)
    MAX_RETRY_ATTEMPTS,  \* 32 in the code
    InOrderPending,      \* delivery rows of a stream are created in stream order
    Repairable,          \* blocked events an operator may send back to retry
    FaultPoints,         \* the journal calls that may fail with an I/O error
    MaxFaults,           \* bound on I/O errors and misdirected acks
    MaxCrashes           \* bound on crashes

ASSUME DeliveryConstants ==
    /\ NoEvent \notin EventIds
    /\ StreamKey \in [Streams -> {StreamKey[s] : s \in Streams}]
    /\ UnsafeRoutes \subseteq Routes
    /\ ScanLimit \in Nat /\ MAX_RETRY_ATTEMPTS \in Nat \ {0}
    /\ InOrderPending \in BOOLEAN
    /\ MaxFaults \in Nat /\ MaxCrashes \in Nat

VARIABLES
    gate,      \* service -> its OrderingGate
    profile,   \* service -> the route its profile and routing resolve to
    call,      \* service -> the attempt_delivery call in progress
    kafka,     \* the records the broker holds, in the order it appended them;
               \* a position in it stands for a (partition, offset) pair
    late,      \* timed-out sends the broker may still append
    reported,  \* events some attempt answered Replicated for
    faults, crashes

serviceVars == <<gate, profile, call, kafka, late, reported, faults, crashes>>
vars == <<journalVars, serviceVars>>

-----------------------------------------------------------------------------
Idle == [pc |-> "idle", event |-> NoEvent, revision |-> 0, attempt_count |-> 0,
         same_topic |-> TRUE, position |-> 0, error |-> "none"]

SeqOf(e) == stored_envelope[e].stream_sequence
KeyOf(e) == StreamKey[stored_envelope[e].stream]

Status(e) == delivery_state[e].status
IsReplicated(e) == e \in DOMAIN delivery_state /\ Status(e) = "REPLICATED"

\* What a service tells its gate about an event.
MarkInFlight(s, e) ==
    gate' = [gate EXCEPT ![s] = mark_in_flight(@, KeyOf(e), SeqOf(e))]
MarkBlocking(s, e) ==
    gate' = [gate EXCEPT ![s] = mark_blocking(@, KeyOf(e), SeqOf(e))]
MarkCompleted(s, e) ==
    gate' = [gate EXCEPT ![s] = mark_completed(@, KeyOf(e), SeqOf(e))]

Return(s) == call' = [call EXCEPT ![s] = Idle]
Goto(s, pc) == call' = [call EXCEPT ![s].pc = pc]

\* A journal call fails: I/O errors are bounded by MaxFaults.
Fault(point) ==
    /\ point \in FaultPoints
    /\ faults < MaxFaults
    /\ faults' = faults + 1

Init ==
    /\ JournalInit
    /\ gate = [s \in Services |-> EmptyGate]
    /\ profile \in [Services -> Routes]
    /\ call = [s \in Services |-> Idle]
    /\ kafka = <<>>
    /\ late = {}
    /\ reported = {}
    /\ faults = 0
    /\ crashes = 0

-----------------------------------------------------------------------------
(* Other clients of the journal *)

AcceptEvent ==
    /\ \E req \in Requests : accept(req)
    /\ UNCHANGED serviceVars

\* The caller of accept creates the delivery row in a second transaction.
CreatePending(e, route) ==
    /\ e \in DOMAIN stored_envelope
    /\ InOrderPending =>
         \A f \in DOMAIN stored_envelope :
             stored_envelope[f].stream = stored_envelope[e].stream
                 /\ SeqOf(f) < SeqOf(e) => f \in DOMAIN delivery_state
    /\ create_delivery_pending(e, route)
    /\ UNCHANGED serviceVars

OperatorBlock(e) ==
    /\ e \in DOMAIN delivery_state
    /\ Status(e) \in {"DELIVERY_PENDING", "DELIVERY_RETRYING"}
    /\ block_delivery(e, delivery_state[e].revision)
    /\ UNCHANGED serviceVars

\* The repair transition: a blocked event goes back to DELIVERY_RETRYING.
OperatorRepair(e) ==
    /\ e \in Repairable
    /\ e \in DOMAIN delivery_state
    /\ Status(e) = "DELIVERY_BLOCKED"
    /\ update_delivery_retry(e, delivery_state[e].revision)
    /\ UNCHANGED serviceVars

-----------------------------------------------------------------------------
(* attempt_delivery *)

\* get_delivery_candidate answers Found and the gate lets the event through.
Admitted(s, e) ==
    /\ call[s].pc = "idle"
    /\ CandidateFound(e)
    /\ Allowed(gate[s], KeyOf(e), SeqOf(e))

AttemptReplicated(s, e) ==
    /\ Admitted(s, e)
    /\ Status(e) = "REPLICATED"
    /\ MarkCompleted(s, e)
    /\ reported' = reported \cup {e}
    /\ UNCHANGED <<journalVars, profile, call, kafka, late, faults, crashes>>

AttemptBlocked(s, e) ==
    /\ Admitted(s, e)
    /\ Status(e) = "DELIVERY_BLOCKED"
    /\ MarkBlocking(s, e)
    /\ UNCHANGED <<journalVars, profile, call, kafka, late, reported, faults, crashes>>

\* The routing fingerprint, profile and topic of the row are those the service
\* resolves now, and the profile is safe.
RouteAccepted(s, e) ==
    /\ delivery_state[e].route = profile[s]
    /\ profile[s] \notin UnsafeRoutes

\* The row is loaded into the call; the next step blocks it or reads the
\* payload.
AttemptOpen(s, e) ==
    /\ Admitted(s, e)
    /\ Status(e) \in {"DELIVERY_PENDING", "DELIVERY_RETRYING"}
    /\ call' = [call EXCEPT ![s] =
          [Idle EXCEPT !.pc = IF RouteAccepted(s, e) THEN "payload" ELSE "block",
                       !.event = e,
                       !.revision = delivery_state[e].revision,
                       !.attempt_count = delivery_state[e].attempt_count]]
    /\ UNCHANGED <<journalVars, gate, profile, kafka, late, reported, faults, crashes>>

\* read_verified_payload, then mark_in_flight.
ReadPayload(s) ==
    /\ call[s].pc = "payload"
    /\ MarkInFlight(s, call[s].event)
    /\ Goto(s, "send")
    /\ UNCHANGED <<journalVars, profile, kafka, late, reported, faults, crashes>>

ReadPayloadFails(s) ==
    /\ call[s].pc = "payload"
    /\ Fault("payload")
    /\ MarkBlocking(s, call[s].event)
    /\ Return(s)
    /\ UNCHANGED <<journalVars, profile, kafka, late, reported, crashes>>

\* Variant: success is reported on the ack, before the local commit.
SendAcked_Reports(s) ==
    /\ call[s].pc = "send"
    /\ Len(kafka) < MaxPosition
    /\ kafka' = Append(kafka, call[s].event)
    /\ call' = [call EXCEPT ![s].pc = "confirm", ![s].position = Len(kafka')]
    /\ reported' = reported \cup {call[s].event}
    /\ UNCHANGED <<journalVars, gate, profile, late, faults, crashes>>

\* producer.send returns Ok.
SendAcked(s) ==
    /\ call[s].pc = "send"
    /\ Len(kafka) < MaxPosition
    /\ kafka' = Append(kafka, call[s].event)
    /\ call' = [call EXCEPT ![s].pc = "confirm", ![s].position = Len(kafka')]
    /\ UNCHANGED <<journalVars, gate, profile, late, reported, faults, crashes>>

\* producer.send returns Ok for a record of another topic.
SendMisdirected(s) ==
    /\ call[s].pc = "send"
    /\ Fault("topic")
    /\ call' = [call EXCEPT ![s].pc = "confirm", ![s].position = 1,
                            ![s].same_topic = FALSE]
    /\ UNCHANGED <<journalVars, gate, profile, kafka, late, reported, crashes>>

\* producer.send returns Err: BrokerUnavailable or QueueFull (retriable),
\* TopicNotFound, AuthorizationFailed, MessageTooLarge or Unknown (not).
SendFailed(s, error) ==
    /\ call[s].pc = "send"
    /\ call' = [call EXCEPT ![s].pc = "record", ![s].error = error]
    /\ UNCHANGED <<journalVars, gate, profile, kafka, late, reported, faults, crashes>>

\* Timeout: retriable, and the broker may append the record later or never.
SendTimedOut(s) ==
    /\ call[s].pc = "send"
    /\ call' = [call EXCEPT ![s].pc = "record", ![s].error = "retriable"]
    /\ late' = late \cup {call[s].event}
    /\ UNCHANGED <<journalVars, gate, profile, kafka, reported, faults, crashes>>

LateAppend(e) ==
    /\ e \in late
    /\ Len(kafka) < MaxPosition
    /\ kafka' = Append(kafka, e)
    /\ late' = late \ {e}
    /\ UNCHANGED <<journalVars, gate, profile, call, reported, faults, crashes>>

\* confirm_replicated_delivery with the revision loaded at the start: the
\* event is done on Updated and AlreadyConfirmed.
Confirm(s) ==
    LET c == call[s]
        answer == ConfirmAnswer(c.event, c.revision, profile[s], c.same_topic, c.position)
    IN  /\ c.pc = "confirm"
        /\ answer \in {"Updated", "AlreadyConfirmed"}
        /\ IF answer = "Updated"
           THEN confirm_replicated_delivery(c.event, c.revision, profile[s],
                                            c.same_topic, c.position)
           ELSE UNCHANGED journalVars
        /\ MarkCompleted(s, c.event)
        /\ reported' = reported \cup {c.event}
        /\ Return(s)
        /\ UNCHANGED <<profile, kafka, late, faults, crashes>>

\* Variants: the gate is told that the event is done, or not told at all.
ConfirmFails_Completes(s) ==
    /\ call[s].pc = "confirm"
    /\ Fault("confirm")
    /\ MarkCompleted(s, call[s].event)
    /\ Return(s)
    /\ UNCHANGED <<journalVars, profile, kafka, late, reported, crashes>>
ConfirmFails_KeepsInFlight(s) ==
    /\ call[s].pc = "confirm"
    /\ Fault("confirm")
    /\ Return(s)
    /\ UNCHANGED <<journalVars, gate, profile, kafka, late, reported, crashes>>

\* StaleRevision, Corrupted or an I/O error.
ConfirmFails(s) ==
    LET c == call[s]
    IN  /\ c.pc = "confirm"
        /\ \/ /\ ConfirmAnswer(c.event, c.revision, profile[s], c.same_topic,
                               c.position) = "Rejected"
              /\ UNCHANGED faults
           \/ Fault("confirm")
        /\ MarkBlocking(s, c.event)
        /\ Return(s)
        /\ UNCHANGED <<journalVars, profile, kafka, late, reported, crashes>>

\* retry.rs
should_retry(error, attempts) ==
    error = "retriable" /\ attempts < MAX_RETRY_ATTEMPTS

\* record_delivery_attempt, then the decision on the count loaded at the start.
RecordAttempt(s) ==
    /\ call[s].pc = "record"
    /\ record_delivery_attempt(call[s].event)
    /\ Goto(s, IF should_retry(call[s].error, call[s].attempt_count + 1)
               THEN "retry" ELSE "block")
    /\ UNCHANGED <<gate, profile, kafka, late, reported, faults, crashes>>

\* The attempt ends with an error and the gate keeps the event in flight.
RecordAttemptFails(s) ==
    /\ call[s].pc = "record"
    /\ \/ ~DeliveryFound(call[s].event) /\ UNCHANGED faults
       \/ Fault("record")
    /\ Return(s)
    /\ UNCHANGED <<journalVars, gate, profile, kafka, late, reported, crashes>>

PersistRetry(s) ==
    /\ call[s].pc = "retry"
    /\ update_delivery_retry(call[s].event, call[s].revision)
    /\ MarkBlocking(s, call[s].event)
    /\ Return(s)
    /\ UNCHANGED <<profile, kafka, late, reported, faults, crashes>>

\* persist_block_before_send, and block_delivery after a failed send.
PersistBlock(s) ==
    /\ call[s].pc = "block"
    /\ block_delivery(call[s].event, call[s].revision)
    /\ MarkBlocking(s, call[s].event)
    /\ Return(s)
    /\ UNCHANGED <<profile, kafka, late, reported, faults, crashes>>

\* Neither call is repeated, and the gate is left as it is.
PersistFails(s) ==
    /\ call[s].pc \in {"retry", "block"}
    /\ \/ ~CanTransition(call[s].event, call[s].revision) /\ UNCHANGED faults
       \/ Fault(call[s].pc)
    /\ Return(s)
    /\ UNCHANGED <<journalVars, gate, profile, kafka, late, reported, crashes>>

-----------------------------------------------------------------------------
(* recover, crash and restart *)

\* Variant: blocked rows are recovered as completed.
recover_SkipsBlocked(s) ==
    /\ call[s].pc = "idle"
    /\ GateScanOk(ScanLimit)
    /\ gate' = [gate EXCEPT ![s] = recover_from_scan(
          {[key |-> KeyOf(e), seq |-> SeqOf(e),
            replicated |-> Status(e) \in {"REPLICATED", "DELIVERY_BLOCKED"}]
              : e \in GateScan(ScanLimit)})]
    /\ UNCHANGED <<journalVars, profile, call, kafka, late, reported, faults, crashes>>

recover(s) ==
    /\ call[s].pc = "idle"
    /\ GateScanOk(ScanLimit)
    /\ gate' = [gate EXCEPT ![s] = recover_from_scan(
          {[key |-> KeyOf(e), seq |-> SeqOf(e), replicated |-> Status(e) = "REPLICATED"]
              : e \in GateScan(ScanLimit)})]
    /\ UNCHANGED <<journalVars, profile, call, kafka, late, reported, faults, crashes>>

\* The process stops at any point and DeliveryService::new builds another one,
\* possibly with another profile.  Whether recover follows is up to its owner.
Crash(s) ==
    /\ crashes < MaxCrashes
    /\ crashes' = crashes + 1
    /\ gate' = [gate EXCEPT ![s] = EmptyGate]
    /\ call' = [call EXCEPT ![s] = Idle]
    /\ \E route \in Routes : profile' = [profile EXCEPT ![s] = route]
    /\ UNCHANGED <<journalVars, kafka, late, reported, faults>>

Environment ==
    \/ AcceptEvent
    \/ \E e \in EventIds :
          \/ \E route \in Routes : CreatePending(e, route)
          \/ OperatorBlock(e)
          \/ OperatorRepair(e)
          \/ LateAppend(e)

Attempt(s) ==
    \/ \E e \in EventIds :
          \/ AttemptReplicated(s, e)
          \/ AttemptBlocked(s, e)
          \/ AttemptOpen(s, e)
    \/ ReadPayload(s)
    \/ ReadPayloadFails(s)
    \/ SendAcked(s)
    \/ SendMisdirected(s)
    \/ \E error \in {"retriable", "final"} : SendFailed(s, error)
    \/ SendTimedOut(s)
    \/ Confirm(s)
    \/ ConfirmFails(s)
    \/ RecordAttempt(s)
    \/ RecordAttemptFails(s)
    \/ PersistRetry(s)
    \/ PersistBlock(s)
    \/ PersistFails(s)

Next ==
    \/ Environment
    \/ \E s \in Services : Attempt(s) \/ recover(s) \/ Crash(s)

Spec == Init /\ [][Next]_vars

\* The owner of a service keeps attempting the events of the journal, and an
\* attempt that has begun runs on: each of its calls returns (the broker
\* client gives up with Timeout, SQLite with a busy error).  Nothing is
\* assumed of operators, of the broker's answers, of crashes or of recover.
FairSpec == Spec /\ \A s \in Services : WF_vars(Attempt(s))

-----------------------------------------------------------------------------
(* Properties *)

Predecessors(e) ==
    {f \in DOMAIN stored_envelope :
        stored_envelope[f].stream = stored_envelope[e].stream /\ SeqOf(f) < SeqOf(e)}

\* The per-stream gate: whenever a record is in the topic, every earlier event
\* of its logical stream is in the topic before it.  Records may be repeated
\* (a retry after a lost ack, a late append), but first occurrences are in
\* stream order.
PublishedInOrder ==
    \A i \in DOMAIN kafka :
        \A f \in Predecessors(kafka[i]) : \E j \in 1..(i - 1) : kafka[j] = f

\* Nothing of a stream is published past an event that is not confirmed: in
\* particular a pending, retrying or blocked event stops its stream.
PublishedAfterConfirmed ==
    \A i \in DOMAIN kafka : \A f \in Predecessors(kafka[i]) : IsReplicated(f)

\* The gate of every service, however it was rebuilt, admits an event only
\* when its predecessors are confirmed, and an attempt in progress never
\* outlives that condition.
GateOpensInOrder ==
    \A s \in Services, e \in DOMAIN stored_envelope :
        Allowed(gate[s], KeyOf(e), SeqOf(e)) \/ call[s].event = e
            => \A f \in Predecessors(e) : IsReplicated(f)

\* A REPLICATED row names a record of this very event in the topic.
ConfirmedAtPosition ==
    \A e \in DOMAIN delivery_state :
        Status(e) = "REPLICATED" =>
            /\ delivery_state[e].position \in DOMAIN kafka
            /\ kafka[delivery_state[e].position] = e

\* attempt_delivery answers Replicated only for an event whose confirmation
\* is committed, in the delivery row and in the lifecycle row.
ReportedIsDurable ==
    \A e \in reported : IsReplicated(e) /\ lifecycle_state[e].status = "REPLICATED"

\* The two rows move together: an event is REPLICATED in one exactly when it
\* is in the other, and a blocked delivery is blocked in the lifecycle.
RowsAgree ==
    \A e \in DOMAIN delivery_state :
        /\ Status(e) = "REPLICATED" <=> lifecycle_state[e].status = "REPLICATED"
        /\ Status(e) = "DELIVERY_BLOCKED" => lifecycle_state[e].status = "DELIVERY_BLOCKED"

\* The revision protects an operator's block from an attempt that loaded the
\* row before it: a blocked event leaves DELIVERY_BLOCKED only by repair.
BlockedNeedsRepair ==
    [][\A e \in DOMAIN delivery_state :
          Status(e) = "DELIVERY_BLOCKED" /\ delivery_state'[e].status # "DELIVERY_BLOCKED"
              => OperatorRepair(e)]_vars

\* An event is settled when it is replicated or its stream is blocked at it
\* or before it.
Settled(e) ==
    /\ e \in DOMAIN delivery_state
    /\ \/ IsReplicated(e)
       \/ \E f \in (Predecessors(e) \cup {e}) \cap DOMAIN delivery_state :
             Status(f) = "DELIVERY_BLOCKED"

\* Bounded retries: every event with a delivery row is eventually replicated,
\* or it or an earlier event of its stream is blocked.
DeliverySettles ==
    \A e \in EventIds : (e \in DOMAIN delivery_state) ~> Settled(e)

-----------------------------------------------------------------------------
(* Refinement *)

\* The accepted events of each stream in stream order.
StreamQueue ==
    [s \in Streams |->
        [n \in 1..(IF s \in DOMAIN stream_head THEN stream_head[s] ELSE 0) |->
            CHOOSE e \in EventsOf(s) : SeqOf(e) = n]]

Abstract == INSTANCE StreamDelivery WITH
    Events <- EventIds, StreamIds <- Streams, queue <- StreamQueue,
    log <- kafka, confirmed <- {e \in EventIds : IsReplicated(e)}

\* Journal, gates, services, crashes and operators together implement
\* at-least-once publication in stream order with truthful confirmation.
ImplementsStreamDelivery == Abstract!AbsSpec
=============================================================================
