# CraftRelay: TLA+ models, model checking and proofs

CraftRelay takes events from Paper server plugins, stores them in a local
durable journal, and publishes them to Kafka in the order of their logical
streams.  This directory holds a formal model of the parts of the repository
where that promise is kept or lost: the journal, its file and its checksums, the
ordering gate, the delivery service, the decisions that admit a publish, the
bridge's publish tracking, and the pipeline the repository benchmarks its journal
layouts with.

Contents

1. The system
2. Modules and how they correspond to the code
3. Runs
4. Proofs
5. Where the code and its documents disagree
6. What is not modelled
7. What would come next

## 1. The system

| Part | Code | State | Operations that change it |
|---|---|---|---|
| Local journal, acceptance | `crates/craftrelay-journal/src/lib.rs` | envelopes with journal and stream sequences, dedup fingerprints, producer heads, stream heads, audit rows | `accept` |
| Local journal, rows | same file | lifecycle rows, delivery rows, attempt history | `update_lifecycle`, `create_delivery_pending`, `record_delivery_attempt`, `confirm_replicated_delivery`, `block_delivery`, `update_delivery_retry` |
| Journal schema and shutdown | same file | tables, version row, shutdown flag | `open`, `init_schema`, `shutdown` |
| Ordering gate | `crates/craftrelay-kafka-delivery/src/gate.rs` | per stream key: highest completed, in flight, blocking | `mark_in_flight`, `mark_blocking`, `mark_completed`, `recover_from_scan` |
| Delivery service | `.../service.rs` | a gate, a profile, the attempt in progress | `new`, `recover`, `attempt_delivery`, `shutdown` |
| Retry, transitions, routing, profile, repair | `.../retry.rs`, `replicated.rs`, `routing.rs`, `profile.rs`, `repair.rs` | none | pure decisions |
| Kafka producer | `.../producer.rs` | the broker (external) | `send` |
| Agent barrier capture | `crates/craftrelay-agent/src/barrier_capture.rs` | none | a scan of partition watermarks |
| Domain contracts | `crates/craftrelay-domain/src/lib.rs` | quota structs, filled in by the caller | policy, ACL, admission, ownership, flush and profile decisions |
| Protocol, test kit | `crates/craftrelay-protocol`, `crates/craftrelay-testkit` | none | types, test vectors |
| Journal benchmark | `crates/craftrelay-journal-bench` | bounded queues, segments | benchmark pipeline |
| Java bridge | `java/craftrelay-paper-bridge` | bounded trackers, sequence counter, readiness | `submit`, `detachTracking`, `watch`, `close` |
| Java client | `java/craftrelay-client-core` | last lifecycle snapshot | `LifecycleSnapshotTracker.apply`, token and barrier checks, policy decisions |

How the parts interact.  A client submits an event; `accept` stores it and its
sequences in one transaction.  The caller then creates the delivery row in a
second transaction.  A delivery service is asked to attempt events; it loads
the row, asks its in-memory gate, sends the stored payload to Kafka, and writes
the outcome back with the revision it loaded at the start.  After a restart the
gate is rebuilt from a scan of the delivery rows.

What makes this hard, and hardly reachable by a unit test: the row loaded before
the send may have changed when the outcome is written; a crash may fall between
the broker's append and the confirmation; a send that timed out may still be
appended later; the gate is volatile while the rows are durable; an old process
may overlap with its successor; operators block and repair events meanwhile;
each journal call may fail on its own; storage may return what nobody wrote; rules,
policies and producers change between the steps of a publish.  `PROJECT.json` lists these hazards with
the line where each bites and the properties that would catch it.

## 2. Modules and how they correspond to the code

**`Journal`** models `LocalJournal`.  A table is a function from its primary key
to rows; its domain is the set of keys present.  Every public operation holds
the mutex around the only connection for one transaction, so each is one atomic
action with the name it has in the code.  An answer that rolls back (an error, a
stale revision, a corrupted row) changes nothing and is a stuttering step; the
three answers of `accept` that commit an audit row are `AcceptAuditOnly`.
Rows are intact here, and verification is modelled by its answer, but the
structural check of a delivery row (`validate_delivery_state_invariants`) is
modelled exactly (`ValidRow`), since the code can write rows that fail it;
checksums and damage are `JournalRows`.  The two pruned tables are modelled by the
number of rows they keep for each event.  Partition, offset and confirmation time
are set together and are one number, `position`; 0 is NULL.  A `route` stands for
routing fingerprint, topic, profile id and profile version.

**`JournalOpen`** models `open` and `init_schema`: create the meta table, read the
version and refuse a later one, run the statements of `SCHEMA_SQL` and, below
version 2, of `SCHEMA_V2_SQL`, record the version.  Each statement commits by
itself and is an action; several processes run them on one file, which is new,
of version 1 or of a later program, and may stop anywhere.

**`JournalRows`** models the columns that checksums cover.  SHA-256 is injective:
a digest is the value it is computed from.  `get_status`, `DeliveryFound`
(`load_delivery_state`), `read_verified_payload`, `verify_payload_digest`, the
duplicate answer of `accept` and the retrying scan are operators that answer as the
functions do.  Operations in a transaction are one action.
`update_lifecycle` and `update_delivery_retry` read and write outside one: a
second process that has the file open may run in between, so each has a load
action and a store action guarded by the revision.  An attempt is two reads under
separate locks, `TakeCandidate` and `ReadPayload`; as in the code, it may be asked
for any event at any time, and the retry time is no part of its guard.  Nothing in
the repository but its tests calls a scan before an attempt, so the scans are not
actions.  Retry times are those of `compute_next_retry`; `earliest` follows
`Backoff`, a definition of the wait apart from it.  `LoadForRepair` follows
`classify_for_repair`.  `Damage`
changes one column of one row, `Misdirect` puts the blob of one event in the place
of another's.  `written` holds what the program last wrote, `damaged`, `raced` and
`repaired` the reasons why a row may fail to verify; they exist for the properties
and guard nothing.  **`JournalFile`** composes the two: rows are used only by a
process whose open call has returned.

**`OrderingGate`** gives each method of the gate as an operator on its value.

**`Delivery`** composes the journal with any number of services.
`attempt_delivery` is split at its journal and broker calls: `AttemptOpen` loads
the row and passes the gate, `ReadPayload` reads the payload and marks the event
in flight, `SendAcked`, `SendMisdirected`, `SendFailed` and `SendTimedOut` are
the outcomes of `producer.send`, `Confirm`/`ConfirmFails` the confirmation,
`RecordAttempt`/`RecordAttemptFails` the attempt record, and `PersistRetry`,
`PersistBlock`, `PersistFails` the last write.  Everything the code does between
two calls is part of one action.  Between any two, other clients run, a crash
may happen (`Crash`: a new service with an empty gate and possibly another
profile), and `LateAppend` may append the record of a timed-out send.  Journal
calls fail with I/O errors at the points in `FaultPoints`.  `recover` may be
called at any idle moment or never: nothing in the repository forces it.

The environment of the services is explicit in constants.  `StreamKey` maps a
logical stream to the bare key the gate is keyed on; `InOrderPending` says that
the owner creates the delivery rows of a stream in stream order; `Repairable`
are the blocked events an operator sends back to retry.  The passing runs assume
distinct keys and rows created in order; section 5 shows what happens without.
`update_lifecycle` has no caller outside tests and is not part of `Delivery`.

**`StreamDelivery`** is the abstract promise: a queue for each stream, a log and
a set of confirmed events; publication may be repeated but only of an event all
of whose predecessors are confirmed, and only published events are confirmed.
`ImplementsStreamDelivery` maps rows, sequences and broker records onto it.

**`Policy`** holds the decisions of the domain crate under their own names:
manifest validation, `validate_producer_registration`, `evaluate_acl`,
`resolve_flush_policy` with its clamping, `resolve_policy`,
`validate_ownership_snapshot`, `is_namespace_locally_owned`,
`evaluate_admission`.  A function that returns at the first failing check is a
list of checks in the code's order, and its answer the first that fails.  Classes
that the code orders are numbers.  **`KafkaProfile`** holds the validation of
production profiles and `detect_profile_drift`.

**`Ingress`** puts them to use: threads take publish requests through ACL, policy
and admission in three steps, an operator registers, suspends and disables
producers, revokes credentials, and installs policies, ownership snapshots and
profiles between any two of them.  The repository has the decisions and the quota
structs but not yet the loop that calls them.  The order of the steps is the one
the parameters force, and a quota counter moves in the step of the decision that
read it, so that two decisions on one count cannot happen here; whether they can in
an agent is for the code that will call `evaluate_admission`.  The definitions for
that loop are marked external in `PROJECT.json`.

**`PublishTracking`** models a `LogicalProducerClient` of the Java bridge with
any number of plugin threads.  `submit` is split at its accesses to shared state,
each a synchronized method or an atomic: look up the tracked request
(`SubmitTracked`, `SubmitNew`), `AllocateSequence`, `AttachRequest` or
`AttachRefused`, `StatusLookup`, `Send`, `ReturnHandle`.  The callback of
`detachTracking` is `DropHandle` and then `DropRequest`.  `superseded` remembers the
events whose tracked request was replaced by an overlapping submission or released;
it exists for the properties and guards nothing.  The agent is
`FakeAgentFixture`, the only implementation in the repository; its stages are
complete when it returns them, so a submission runs on the calling thread.  Its
lists of producers and namespaces are seen from this producer: empty (everyone is
admitted), only others, or listed.  `MaxHandles` bounds the submissions.

**`BenchPipeline`** models `run_pipeline` of the benchmark: the producer thread,
the bounded channel, and the writer that fills a batch and cuts it into
transactions by records, bytes and room in the segment.  `CommitTransaction` and
`RollbackTransaction` are one iteration of `write_batch`, rollover included.
The monolithic candidate is the segmented one without a rollover limit.

**`JournalProofs`, `JournalRowProofs`, `JournalFileProofs`, `DeliveryProofs`,
`DeliveryOrderProofs`, `IngressProofs`, `PublishTrackingProofs`,
`BenchPipelineProofs`** hold the theorems (section 4).
**`MCJournal`, `MCJournalFile`, `MCIngress`, `MCDelivery`, `MCPublishTracking`,
`MCBenchPipeline`** give the constants their small values.
Definitions whose name ends in `_Something` after the name of another one are
variants of it with a plausible mistake; they document what each property
notices and are used by no specification.

## 3. Runs

| Run | Instance | Shows |
|---|---|---|
| `journal` | 2 events, 2 streams, 2 fingerprints, every request over them with operation sequences to 2, revisions to 3, current and stale | sequences stay dense, ordered and unique; a repeated request is a duplicate; REPLICATED only with coordinates, history matches counter, confirmations final |
| `journal_file` | 2 processes, a new, an old or a future file, 2 events of which 1 is delivered, 1 stop, 1 damaged column or misplaced blob | a recorded version means a complete schema; a later file is left alone; what verifies is what was written; a served payload is the accepted one, also in a send under way; a row stops verifying for three named reasons only; the retry scan offers an event from the end of its backoff on and not before |
| `ingress` | 2 threads, a P0 and a P1 producer, 2 namespaces, 2 places of which 1 reserved, a queue of 1, 2 operator changes | the reserve stays free, publishes meet the policy they were resolved under and the rules they were allowed by, registry sound, profile stays safe |
| `delivery_crash` | 1 service, 3 events of a stream, 1 fault, 1 crash, 3 broker records | nothing published past an unconfirmed event, gate soundness, durable reports, agreement of the two rows, refinement of `StreamDelivery` |
| `delivery_overlap` | 2 services, 2 events, operator | order with overlapping services; an operator's block is only undone by repair; statuses follow the table of `replicated.rs` |
| `delivery_live` | 2 events of a stream, 2 routes (one unsafe), scan limit 1, 1 fault, 1 crash, fairness | every event is settled; profile changes and truncated recovery never open the gate early |
| `publish_tracking` | 2 threads, 2 events, 2 payloads, tracking for 1, agent room for 1, 3 submissions | trackers within bounds, no sequence for two requests; one request for an event and acceptance of its own payload until submissions overlap or a handle is detached; no leaked capacity |
| `bench_pipeline` | 7 records, channel of 3, transactions of 3 records or 6 bytes, rollover after 2, 3 or never, 2 failures, fairness | every record accounted for, segments partition the journal, records in order, the run ends |
| `duplicate_status`, `delivery_shared_key`, `delivery_missing_row`, `delivery_stuck` | as small as the case allows | counterexamples, section 5 |

Bounds.  Three events of one stream are enough for a predecessor, an event and a
successor; two services for every pairwise interleaving of attempts; `MAX_RETRY_ATTEMPTS = 2` reaches
retry and exhaustion; the audit limits of 1 are exceeded by the attempts that
fit in the other bounds.  `MaxPosition` bounds the broker's records: in
`delivery_crash` they hold each of the three events, or the first two and a
duplicate of one of them; when it is reached, sends can still fail or time out.
`MaxRevision` and `MaxAttemptCount` bound only the journal on its own; three
revisions let a call follow a confirmation.  Events, streams and fingerprints are
symmetric there, and two operation sequences let the second request come above, at
or below the first.  Two events are the least for every property of the
`journal` run; the theorems establish them for any number.

In `journal_file` the two schema parts have one table each: the theorems cover any
list.  A fault is one column or one misplaced blob.  With two faults
`VerifiedIsWritten` can fail: the first sets a revision back between the load and
the store of a second process's update, the second undoes by chance the columns in
which the stored row then differs from its checksum; a checksum over a row promises
nothing against a pair of faults chosen to agree.  `MaxLifecycle` and `MaxAttempts`
bound the calls of `update_lifecycle` and the attempts, `MaxStops` the stops, since
a stop between the attempt record and the write after it lets the count grow.  Two
attempts make the backoff double once; that attempts are exhausted is reached in
the `delivery` runs and covered by the theorems, not in `journal_file`.  In
`ingress` two places with one reserved let P0 use go above the reserve and come
back, and let the reserve refuse a second P1 publish; the two policies differ in
their minimums and in the order of their rules; two changes put one between each
pair of a call's steps.

The scan limit of 1 in `delivery_live` stands for the 10 000 of the code: fewer rows
than exist.  The run has one stream, because a stream of which the scan reaches no row
has no gate entry, and its events wait until a later `recover`; the order theorems
cover any number of streams.
In `publish_tracking` two events compete for one place in the trackers and one
at the agent, and three submissions let an event be submitted, retried or
detached and submitted again; the agent's in-flight quota is larger than its
capacity there, and refuses as the capacity does.  In `bench_pipeline` the
channel overflows, one record exceeds the byte limit alone, and a batch is cut
by each of the three limits.

Fairness.  `FairSpec` assumes weak fairness of `Attempt(s)`: the owner of a
service keeps attempting the events of the journal, and a call that has begun
returns (the client gives up with a timeout, SQLite with a busy error).  Nothing
is assumed of operators, of the broker's answers, of crashes or of `recover`.
`DeliverySettles` then follows from the bounded number of retries.  The run admits
faults at the payload read, at the confirmation and on the topic; a fault at the
writes after a failed send leaves the gate closed, which is `delivery_stuck`.

`PipelineSpec` assumes weak fairness of the producer thread and of the writer:
both are operating system threads, and block only in `recv`.

Deadlock is checked in every run but `journal_file` and `duplicate_status`: there a process that meets a
later file has nothing more to do, and time and faults are bounded.

## 4. Proofs

Every safety property of every passing run is proved, for every value of the
constants; so is the refinement of `StreamDelivery`.  The runs come first: TLC
checks a formula on a small instance, the proof shows that the size did not matter.
The theorems rest on no assumption but the ones named below, each of which TLC
evaluates for the constants of the runs.

**The journal** (`JournalProofs`; any events, streams, producers, routes, limits).
`JournalConstants`: finitely many event ids, requests well typed with positive
operation sequences, positive pruning limits.

- `JournalTypeCorrect`: `[]JournalTypeOK`.  The invariant is strengthened by
  `JournalDense`, that the journal sequences in use are `1..n`: without it
  `MAX(...) + 1` is an arbitrary choice, and the next sequence could not be
  shown to be a number.
- `ProducerOrderHolds`: `[]ProducerOrder`.  Strengthened by `ProducerHeads`: a
  head bounds the stored operation sequences and its `last_event_id` is stored.
  The second part is what rules out the exception in `check_producer_sequence`
  (an equal `last_event_id`) for a new event.
- `StreamOrderHolds`, `JournalOrderHolds`: `[]StreamSequencesDense` and
  `[]JournalOrderIsStreamOrder`.  Inductive together: density bounds the sequences
  of a stream by its head, so the next one is above them all, and the next journal
  sequence is as well.
- `RetryIsDuplicateHolds`: the action property `RetryIsDuplicate`.  The answer to a
  stored request depends on the stored fingerprint alone, which no call changes,
  however far the producer's head has moved on.
- `ReplicatedIsConfirmedHolds`, `ConfirmationIsFinalHolds`: by two lemmas,
  `StepKinds` (a step writes no delivery row, or changes the rows of one event)
  and `RowStepEffect` (what such a change may do).
- `AcceptedIsPermanentHolds`: envelopes are never removed or rewritten and
  lifecycle rows move one revision at a time.
- `AttemptHistoryHolds`: strengthened by "an event without a row has no history".

**Delivery** (`DeliveryProofs`, `DeliveryOrderProofs`; any services, events, streams,
routes, faults and crashes).  `DeliveryConstants`: types of the constants.  The calls
of `Delivery` are calls of the journal (`NextIsJournalStep`), so what is proved of the
journal holds here.  The actions are then summarised once for each variable
(`JournalShape`, `TopicShape`, `CallShape`, `GateShape`, `ReportShape`, `StatusShape`),
and the arguments below use the summaries and not the actions.

- `BaseInv` holds of every deployment: the journal's invariants, the types of the
  services, that an acknowledged position holds the event unless the ack names another
  topic and that a loaded revision is never ahead of the row (`CallsOK`), and that what
  is in the topic has a row.  From it: `RowsAgreeHolds`,
  `ConfirmedAtPositionHolds`, `ReportedIsDurableHolds`, `BlockedNeedsRepairHolds`,
  `LegalTransitionsHold`, and `SettledIsKept`, the safety half of `DeliverySettles`:
  only an operator's repair in its stream unsettles an event.
- The order theorems assume `OrderedDeployment`: delivery rows are created in stream
  order, and different streams have different keys.  Neither can be dropped; the runs
  `delivery_missing_row` and `delivery_shared_key` are the counterexamples.
- `OrderInv` says that whoever may still publish an event knows one whose
  predecessors are all confirmed: rows are confirmed in stream order
  (`RowsInOrder`), a gate's completed sequence is that of a confirmed event and its
  blocking one that of a ready event (`GatesKnow`), attempts in progress, late
  sends and the topic have ready events (`CallsReady`, `TopicReady`).  The gates of
  the other services appear in it because their rows move under them.  From it:
  `GateOpensInOrderHolds`, `PublishedAfterConfirmedHolds`, `PublishedInOrderHolds`.
- `DeliveryImplementsStreamDelivery`: the refinement.  `QueueLists` shows that the
  mapped queue of a stream lists its events by stream sequence; then an accept maps
  to an append to one queue, a new record in the topic to a publication, a
  confirmation to a confirmation, and every other step to a stutter.

**Opening the file** (`JournalFileProofs`; any processes and lists of tables).
`SchemaConstants`: the version is 2.

- `SchemaHolds`: `[]SchemaIsReady`.  The inductive invariant `OpenInv` relates, for
  each process, the tables that exist and the statements it still has to run: the
  two together are the whole schema.  That is what makes it harmless that another
  process records the version first.
- `FutureFileHolds`: `FutureFileUntouched`, by the same invariant: no process that
  passed the version check is at work on a later file.
- `FileImplementsOpen`: the composition `JournalFile` implements `OpenSpec`, so both
  hold whatever happens to the rows.

**The rows of the file** (`JournalRowProofs`, `JournalFileProofs`; any processes,
events, attempts and retry bounds).  `RowConstants`: a positive first backoff not above
the longest.  `ContentAssumption`: NULL is no number and no row, a damaged value no
event and no checksum, which is how the model names them.

- The invariant of delivery rows (`DeliveryInv`) has to say more than that what
  verifies was written, because two processes may be between the load and the store
  of `update_delivery_retry`.  A row no fault has hit is `Clean`: its columns are the
  written ones, its checksum lags at most in the attempt count, and every loaded row
  is of an earlier revision or agrees with it.  A row one fault has hit is `Dirty`:
  its checksum contradicts the damaged column.  Storing over a dirty row either
  overwrites the damaged column or leaves the contradiction.
- `VerifiedHolds`, `ServedHolds` and `RetryHolds` have the hypothesis `faults <= 1`,
  the number of faults so far and not a bound on the run; section 3 says how two
  faults defeat a checksum.
- `ServedHolds`: a payload in a send was read when there was at most one fault
  (`SendsRead`, `FaultsGrow`), and then digest or blob was intact.  The candidate's
  envelope may have been damaged since its own check: the second read compares again.
- For any number of faults: `ExplainedHolds`, and `StatusIsWritten`, since lifecycle
  rows are written whole and with their own checksum.
- `RetryHolds`: `RetryWaits`, in both directions.  The invariant `Due` says that a
  retrying row was written with the end of the backoff of the failure that scheduled
  it; the lemma `RetryBackoff` compares `compute_next_retry` with `Backoff`.  That
  `2^k` is a positive number is taken from the cardinality of the subsets of `1..k`,
  as it cannot be shown by induction here.

**The ingress** (`IngressProofs`; any threads, producers, requests, policies, profiles
and limits).  `IngressConstants`: types, ordered flush bounds, a valid first policy,
snapshot and profile.

- `ReservedRoomHolds`: `[]ReservedRoomKept`.  It is inductive once it is known that
  the limits of the global quota never change and its counters are integers: a P0
  publish takes from both sides of the inequality, and a completion gives to both.
- `PolicyHolds`: `[]AdmittedWithinPolicy`.  Strengthened to calls between policy and
  admission; `WithinPolicyStays` shows that putting another policy in force changes
  nothing of the versions named so far.
- `AclHolds`: `[]AllowedByItsRules`.  `evaluate_acl` sorts the rules and takes the
  first match; the property asks for an allowing rule that no denying one precedes, by
  priority and then by position.  The proof relates the two through the rank of a rule,
  the number of rules before it, which is its place in the sorted list.
- `IngressTypeCorrect`: `[]IngressTypeOK`.  A counter is within its limits and never
  negative because it counts the publishes in flight (`QuotaInv`); the bytes of a
  producer are counted as a set of (publish, byte) pairs, so that its cardinality is
  their sum.  `RegistryInv` adds that every registered producer is of this
  installation, which the duplicate check relies on.
- `ProfileHolds`: `[]ProfileStaysP0Safe`.  The lemma `NoDriftKeepsP0Safe` is the
  point: validation as any production profile and no drift from a safe profile
  together imply the stricter P0 validation.

**Publish tracking** (`PublishTrackingProofs`; any threads, events, payloads,
capacities).  `TrackingConstants`: positive capacities.

- `TrackingTypeCorrect`: `[]TrackingTypeOK`, that neither tracker exceeds its
  capacity.  Strengthened by the finiteness of both trackers, without which their
  cardinality says nothing.
- `SequenceNotSharedHolds`: `[]SequenceNotShared`.  The inductive invariant
  (`SequenceInv`) speaks of every request that was or may still be sent, in a
  thread, in the tracker or at the agent: its sequence is below `nextSequence`,
  and two with one sequence are equal.
- `RetryRepeatsHolds`: `[]RetryRepeatsRequest`.  Strengthened (`RetryInv`) to every
  request that may still be sent: what is tracked or on its way for an event that was
  never replaced or released is what was sent for it.
- `AcceptedIsStoredHolds`: `[]AcceptedIsStored`.  Strengthened (`StoredInv`): what the
  agent holds was sent, so for an event that was never replaced or released it is the
  payload of the request the answer is given to.
- `TrackedHasOwnerHolds`: `[]TrackedHasOwner`, inductive with the type.

**The benchmark** (`BenchPipelineProofs`; any channel, batch, byte and segment limits,
any number of streams and failures).  `BenchConstants`: positive limits and sizes.

- `RecordsAccounted`, `SegmentsPartitionHolds`, `WrittenInOrderHolds`, from one
  invariant, `BenchInv`: the three properties with the shape of each segment
  (`StoreInv`: count, range and stream heads agree with its rows) and
  `WaitingInOrder`, that written rows, batch and channel follow each other in
  submission order.  The cut of a transaction is the first position where it is
  full; `BatchEnd` shows that it takes at least one record and fits the segment.
- `EndIsComplete`: once the writer has left its loop, `PipelineFinishes` holds.  What
  needs fairness is only that it leaves.

Only model-checked: that something happens at all.  `DeliverySettles` and
`PipelineFinishes` are liveness under fairness, which the proof system cannot handle;
`SettledIsKept` and `EndIsComplete` are their safety halves.  What a recursive
definition computes for every input is out of reach as well; the models use
functions, sets and minima instead, so no property is left to it.

## 5. Where the code and its documents disagree

Each of these is a run that TLC violates; `PROJECT.json` quotes the sentence.

- `duplicate_status`: the duplicate answer of `accept` knows two statuses.  A client
  that repeats the request of a replicated event is told DELIVERY_BLOCKED, where
  `MASTER_PLAN.md` asks for the latest status.
- `delivery_shared_key`: the gate is keyed on the bare `stream_key` while
  sequences are allocated per installation, namespace, type and key.  Completing
  event 1 of one stream opens the gate for event 2 of another.
- `delivery_missing_row`: `recover` while an earlier accepted event has no
  delivery row yet lets the later event through.
- `delivery_stuck`: when recording a failed attempt fails, the gate keeps the
  event in flight and the service never attempts it again.

More behaviours are visible in the models and have no run of their own.

- `update_delivery_retry` keeps `blocked_reason`, so a row sent back to retry from
  DELIVERY_BLOCKED no longer validates, and every scan that meets it fails as a
  whole.  It is one of the three reasons in `UnverifiedIsExplained`.
- `update_delivery_retry` is not a transaction: an attempt that another process
  records between its load and its update leaves the revision as it was, and the
  checksum that is then stored does not fit the row.  It is the second reason.
- When storage damages a lifecycle row but not the delivery row, `confirm` and
  `block` refuse, the event stays deliverable, and it is sent at every attempt.
- `verify_payload` and the duplicate check of `accept` compare a blob with its own
  digest only, so a misplaced blob passes them; `read_verified_payload`, which
  delivery uses, also compares it with the envelope.
- `attempt_delivery` does not look at `next_retry_at_ms`: an owner that attempts a
  retrying event without the scan does not wait.  `RetryWaits` is about the scan.
- A recovery scan cut off at its limit leaves a stream all of whose rows lie beyond it
  without a gate entry; its events are held until a later `recover` reaches one.
- `evaluate_admission` refuses a disabled producer but not a suspended one: a
  suspension between policy and admission comes too late for that publish.
- An ACL result is not evaluated again when the policy changes before
  `resolve_policy`: `AllowedByItsRules` speaks of the version the result names.
- Flush bounds whose minimum exceeds the maximum make `clamp` panic; nothing checks a
  `PolicyConfiguration` for it.
- A program that passed its version check writes its version even if a later program
  has upgraded the file meanwhile.
- `record_delivery_attempt` changes a row and its checksum under the same
  revision; ADR 0007 calls equal revision with another checksum an integrity
  conflict.
- The journal itself confirms a blocked row (the service never does,
  `LegalTransitions`), and `update_lifecycle` takes a REPLICATED lifecycle back to
  a local status.  Nothing outside tests calls them that way.
- Two threads that submit one event id at the same time both find no tracked request
  and send the event under two sequences, or with two payloads, although
  `SharedBridgeTransportRuntime` says "Retry preserves the exact immutable request,
  including event ID and producer sequence."  `RetryRepeatsRequest` shows that this
  overlap, or a detach before the second submission, is needed for it.  The second
  request replaces the first in the tracker; detaching either handle removes the
  entry of both.
- After a detach, a submit of the same event id with another payload is reported
  as accepted when the agent still holds the first one: the status lookup does
  not compare the payload.
- Sequences may be sent in another order than they were allocated in; the journal
  would refuse the lower one.
- The fixture's in-flight count of a producer is never decremented.
- Stream sequences of the segmented benchmark candidate begin again at 1 in every
  segment.  A rollover limit of 0, which the command line admits and
  `BenchConstants` excludes, makes `write_batch` roll segments for ever.

## 6. What is not modelled

- The shutdown flag of the journal: `accept` reads it once before it takes the lock
  and nothing else does, so a request that passed behaves like an earlier one.
- Damage to the dedup, producer and sequence tables, which have no checksums.
- Names as strings: `is_valid_identifier` is the set of valid names, a namespace
  pattern the set of names it matches, a topic and its fingerprint a route.
- `open` applies its pragmas (`journal_mode=WAL` among them) before it reads the
  version; they are not modelled, so `FutureFileUntouched` is about tables and rows.
- A required projection policy whose id is the empty string; it is not told apart from
  none.
- Data races between the administration methods of `FakeAgentFixture`, which are not
  synchronized, and its `submit`; they are single steps here.
- Panics of the benchmark's writer: an error of `begin`, of `commit` or of the update
  of a stream head ends the process; the modelled failures are those of an insert.
- The wording of errors, logging, and times other than retry times.
- Types without behaviour: lifecycle views, tokens, the protocol crate, the test kit.
  `should_flush` and the barrier capture are functions of their arguments that
  nothing in the repository calls from a concurrent context.
- The bridge's service lifecycle, queries and watches, and the Java client apart from
  its trackers and fixture.  The client's policy functions are the Java counterparts
  of those in `Policy`, which is translated from the Rust source.
- The measuring half of the benchmark: timings, sizes, comparisons, reports, and the
  command line.  It computes and prints; its state changes are the pipeline's.

`PROJECT.json` gives the reason for each part.
Liveness is outside what the proof system handles and stays with TLC (section 4).

## 7. What would come next

1. `LifecycleSnapshotTracker` over the journal's revisions with lost, repeated and
   reordered snapshots, once something in the repository delivers them.
2. A composition of `PublishTracking` with an agent that behaves as `accept` does.
