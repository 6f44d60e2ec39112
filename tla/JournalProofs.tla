---------------------------- MODULE JournalProofs ----------------------------
(***************************************************************************)
(* Proofs about the journal for every number of events, streams, producers *)
(* and every value of the limits.                                          *)
(***************************************************************************)
EXTENDS Journal, TLAPS

\* Pruning keeps at least one row and at most the limit.
LEMMA PrunedBound ==
    ASSUME NEW max \in Nat \ {0}, NEW count \in 0..max
    PROVE  Pruned(count, max) \in 0..max
  BY DEF Pruned

\* The journal sequences in use are an initial segment of the positive numbers.
JournalDense == \E n \in Nat : JournalSequences = 1..n

\* The next journal sequence is new and larger than every one in use.
LEMMA AllocateJournalSequence ==
    ASSUME JournalDense
    PROVE  /\ allocate_journal_sequence \in Nat \ {0}
           /\ \A e \in DOMAIN stored_envelope :
                stored_envelope[e].journal_sequence < allocate_journal_sequence
           /\ JournalSequences \cup {allocate_journal_sequence}
                = 1..allocate_journal_sequence
  <1>1. PICK n \in Nat : JournalSequences = 1..n
    BY Zenon DEF JournalDense
  <1>2. n \in JournalSequences \cup {0} /\ \A m \in JournalSequences : m <= n
    BY <1>1
  <1>3. \A k \in JournalSequences \cup {0} :
            (\A m \in JournalSequences : m <= k) => k = n
    BY <1>1
  <1>4. allocate_journal_sequence = 1 + n
    BY <1>2, <1>3, Zenon DEF allocate_journal_sequence
  <1>5. \A e \in DOMAIN stored_envelope : stored_envelope[e].journal_sequence \in 1..n
    BY <1>1, Zenon DEF JournalSequences
  <1> QED
    BY <1>1, <1>4, <1>5

-----------------------------------------------------------------------------
(* Type correctness *)

TypeInv == JournalTypeOK /\ JournalDense

\* The type invariant holds of an empty journal.
LEMMA InitType == JournalInit => TypeInv
  <1> SUFFICES ASSUME JournalInit PROVE TypeInv
    OBVIOUS
  <1>1. JournalTypeOK
    BY JournalConstants DEF JournalInit, JournalTypeOK
  <1>2. JournalSequences = 1..0
    BY DEF JournalInit, JournalSequences
  <1> QED
    BY <1>1, <1>2, Zenon DEF TypeInv, JournalDense

\* An accepted request fills the next journal and stream sequences.
LEMMA AcceptNewType ==
    ASSUME TypeInv, NEW req \in Requests, AcceptNew(req)
    PROVE  TypeInv'
  <1> DEFINE js == allocate_journal_sequence
             ss == allocate_stream_sequence(req.stream)
             env == [journal_sequence |-> js, stream_sequence |-> ss,
                     stream |-> req.stream, producer |-> req.producer,
                     seq |-> req.seq, fingerprint |-> req.fingerprint]
  <1>1. /\ req.event_id \in EventIds /\ req.fingerprint \in Fingerprints
        /\ req.producer \in Producers /\ req.stream \in Streams
        /\ req.seq \in Nat \ {0}
    BY JournalConstants, Zenon
  <1>2. req.event_id \notin DOMAIN stored_envelope
    BY Zenon DEF AcceptNew, AcceptAnswer
  <1>3. js \in Nat \ {0} /\ JournalSequences \cup {js} = 1..js
    BY AllocateJournalSequence, Zenon DEF TypeInv
  <1>4. ss \in Nat \ {0}
    BY DEF TypeInv, JournalTypeOK, allocate_stream_sequence
  <1>5. env \in Envelope
    BY <1>1, <1>3, <1>4, Zenon DEF Envelope
  <1>6. stored_envelope' = Put(stored_envelope, req.event_id, env)
    BY Zenon DEF AcceptNew
  <1> HIDE DEF env
  <1>7. /\ stored_envelope' \in [DOMAIN stored_envelope \cup {req.event_id} -> Envelope]
        /\ DOMAIN stored_envelope' = DOMAIN stored_envelope \cup {req.event_id}
        /\ stored_envelope'[req.event_id] = env
        /\ \A e \in DOMAIN stored_envelope : stored_envelope'[e] = stored_envelope[e]
    <2>1. stored_envelope \in [DOMAIN stored_envelope -> Envelope]
      BY Zenon DEF TypeInv, JournalTypeOK
    <2> QED
      BY <1>2, <1>5, <1>6, <2>1, Zenon DEF Put
  <1>8. lifecycle_state' \in [DOMAIN stored_envelope' -> Lifecycle]
    <2>1. [status |-> "LOCAL_ACCEPTED", revision |-> 1] \in Lifecycle
      BY DEF Lifecycle, LifecycleStatus, LocalDeliveryStatus
    <2>2. DOMAIN lifecycle_state = DOMAIN stored_envelope
          /\ lifecycle_state \in [DOMAIN lifecycle_state -> Lifecycle]
      BY Zenon DEF TypeInv, JournalTypeOK
    <2> QED
      BY <1>7, <2>1, <2>2, Zenon DEF AcceptNew, Put
  <1>9. producer_sequence' \in [DOMAIN producer_sequence' -> ProducerHead]
        /\ DOMAIN producer_sequence' \subseteq Producers
    <2>1. [highest_seq |-> req.seq, last_event_id |-> req.event_id] \in ProducerHead
      BY <1>1, Zenon DEF ProducerHead
    <2>2. producer_sequence \in [DOMAIN producer_sequence -> ProducerHead]
          /\ DOMAIN producer_sequence \subseteq Producers
      BY Zenon DEF TypeInv, JournalTypeOK
    <2> QED
      BY <1>1, <2>1, <2>2, Zenon DEF AcceptNew, Put
  <1>10. stream_head' \in [DOMAIN stream_head' -> Nat \ {0}]
         /\ DOMAIN stream_head' \subseteq Streams
    <2>1. stream_head \in [DOMAIN stream_head -> Nat \ {0}]
          /\ DOMAIN stream_head \subseteq Streams
      BY Zenon DEF TypeInv, JournalTypeOK
    <2> QED
      BY <1>1, <1>4, <2>1, Zenon DEF AcceptNew, Put
  <1>11. write_attempt' \in [EventIds -> 0..MAX_ATTEMPTS]
    BY <1>1, PrunedBound, JournalConstants, Zenon
    DEF AcceptNew, record_attempt, TypeInv, JournalTypeOK
  <1>12. delivery_state' = delivery_state /\ delivery_attempt' = delivery_attempt
    BY Zenon DEF AcceptNew, deliveryVars
  <1>13. JournalTypeOK'
    BY <1>1, <1>7, <1>8, <1>9, <1>10, <1>11, <1>12, Zenon DEF TypeInv, JournalTypeOK
  <1>14. JournalSequences' = JournalSequences \cup {js}
    BY <1>7 DEF JournalSequences, env
  <1> QED
    BY <1>3, <1>13, <1>14, Zenon DEF TypeInv, JournalDense

\* The operations on lifecycle and delivery rows leave envelopes alone, so
\* they preserve the types once the rows they write have theirs.
LEMMA RowsType ==
    ASSUME TypeInv, UNCHANGED <<stored_envelope, producer_sequence, stream_head>>,
           write_attempt' \in [EventIds -> 0..MAX_ATTEMPTS],
           lifecycle_state' \in [DOMAIN stored_envelope -> Lifecycle],
           delivery_state' \in [DOMAIN delivery_state' -> DeliveryRow],
           DOMAIN delivery_state' \subseteq DOMAIN stored_envelope,
           delivery_attempt' \in [EventIds -> 0..MAX_DELIVERY_ATTEMPTS]
    PROVE  TypeInv'
  BY Zenon DEF TypeInv, JournalTypeOK, JournalDense, JournalSequences

\* SetLifecycle writes one row of the next revision.
LEMMA SetLifecycleType ==
    ASSUME TypeInv, NEW e \in DOMAIN stored_envelope, NEW st \in LifecycleStatus,
           SetLifecycle(e, st)
    PROVE  lifecycle_state' \in [DOMAIN stored_envelope -> Lifecycle]
  <1>1. lifecycle_state \in [DOMAIN stored_envelope -> Lifecycle]
    BY Zenon DEF TypeInv, JournalTypeOK
  <1>2. lifecycle_state[e].revision + 1 \in Nat \ {0}
    BY <1>1 DEF Lifecycle
  <1>3. [status |-> st, revision |-> lifecycle_state[e].revision + 1] \in Lifecycle
    BY <1>2, Zenon DEF Lifecycle
  <1> QED
    BY <1>1, <1>3, Zenon DEF SetLifecycle

\* The tables an operation on rows does not touch keep their types.
LEMMA UntouchedType ==
    ASSUME TypeInv
    PROVE  /\ write_attempt \in [EventIds -> 0..MAX_ATTEMPTS]
           /\ lifecycle_state \in [DOMAIN stored_envelope -> Lifecycle]
           /\ delivery_state \in [DOMAIN delivery_state -> DeliveryRow]
           /\ DOMAIN delivery_state \subseteq DOMAIN stored_envelope
           /\ delivery_attempt \in [EventIds -> 0..MAX_DELIVERY_ATTEMPTS]
           /\ DOMAIN stored_envelope \subseteq EventIds
  BY Zenon DEF TypeInv, JournalTypeOK

-----------------------------------------------------------------------------
(* The calls without the bounds JournalNext puts on revisions, counts and     *)
(* positions: what is proved of them holds for every client of the journal.   *)

\* The calls that write the delivery row of e.
RowStep(e) ==
    \/ \E route \in Routes : create_delivery_pending(e, route)
    \/ record_delivery_attempt(e)
    \/ \E expected \in Nat, route \in Routes, sameTopic \in BOOLEAN, position \in Nat \ {0} :
          confirm_replicated_delivery(e, expected, route, sameTopic, position)
    \/ \E expected \in Nat : block_delivery(e, expected)
    \/ \E expected \in Nat : update_delivery_retry(e, expected)

JournalStep ==
    \/ \E req \in Requests : accept(req)
    \/ \E e \in EventIds, expected \in Nat, status \in LocalDeliveryStatus :
          update_lifecycle(e, expected, status)
    \/ \E e \in EventIds : RowStep(e)

\* The calls the model bounds are calls of the journal.
LEMMA BoundedStep ==
    ASSUME TypeInv, [JournalNext]_journalVars
    PROVE  [JournalStep]_journalVars
  <1>1. CASE AcceptCall
    BY <1>1, Zenon DEF AcceptCall, JournalStep
  <1>2. CASE UpdateLifecycleCall
    BY <1>2, JournalConstants DEF UpdateLifecycleCall, JournalStep
  <1>3. CASE CreatePendingCall
    BY <1>3, Zenon DEF CreatePendingCall, RowStep, JournalStep
  <1>4. CASE RecordAttemptCall
    BY <1>4, UntouchedType, Zenon DEF RecordAttemptCall, RowStep, JournalStep
  <1>5. CASE ConfirmCall
    <2>1. PICK e \in EventIds, expected \in 1..MaxRevision, route \in Routes,
              sameTopic \in BOOLEAN, position \in 1..MaxPosition :
              confirm_replicated_delivery(e, expected, route, sameTopic, position)
      BY <1>5, Zenon DEF ConfirmCall
    <2>2. expected \in Nat /\ position \in Nat \ {0}
      BY JournalConstants
    <2> QED
      BY <2>1, <2>2, Zenon DEF RowStep, JournalStep
  <1>6. CASE BlockCall
    BY <1>6, JournalConstants DEF BlockCall, RowStep, JournalStep
  <1>7. CASE RetryCall
    BY <1>7, JournalConstants DEF RetryCall, RowStep, JournalStep
  <1> QED
    BY <1>1, <1>2, <1>3, <1>4, <1>5, <1>6, <1>7, Zenon DEF JournalNext

\* The delivery operations keep the type invariant.
LEMMA RowStepType ==
    ASSUME TypeInv, NEW e \in EventIds, RowStep(e)
    PROVE  TypeInv'
  <1> USE UntouchedType
  <1>1. ASSUME NEW route \in Routes, create_delivery_pending(e, route) PROVE TypeInv'
    <2>1. [status |-> "DELIVERY_PENDING", revision |-> 1,
           attempt_count |-> 0, next_retry |-> FALSE,
           blocked_reason |-> FALSE, route |-> route, position |-> 0] \in DeliveryRow
      BY DEF DeliveryRow, DeliveryStatus
    <2>2. /\ delivery_state' \in [DOMAIN delivery_state' -> DeliveryRow]
          /\ DOMAIN delivery_state' \subseteq DOMAIN stored_envelope
      BY <1>1, <2>1, Zenon DEF create_delivery_pending, Put
    <2> QED
      BY <1>1, <2>2, RowsType, Zenon DEF create_delivery_pending, acceptVars
  <1>2. CASE record_delivery_attempt(e)
    <2>1. delivery_attempt' \in [EventIds -> 0..MAX_DELIVERY_ATTEMPTS]
      BY <1>2, PrunedBound, JournalConstants, Zenon DEF record_delivery_attempt
    <2>2. /\ delivery_state' \in [DOMAIN delivery_state' -> DeliveryRow]
          /\ DOMAIN delivery_state' = DOMAIN delivery_state
      BY <1>2 DEF record_delivery_attempt, DeliveryFound, DeliveryRow
    <2> QED
      BY <1>2, <2>1, <2>2, RowsType, Zenon DEF record_delivery_attempt, acceptVars
  <1>3. ASSUME NEW row \in DeliveryRow, e \in DOMAIN delivery_state,
               delivery_state' = [delivery_state EXCEPT ![e] = row]
        PROVE  /\ delivery_state' \in [DOMAIN delivery_state' -> DeliveryRow]
               /\ DOMAIN delivery_state' = DOMAIN delivery_state
    BY <1>3, Zenon
  <1>4. ASSUME NEW expected \in Nat, NEW route \in Routes, NEW sameTopic \in BOOLEAN,
               NEW position \in Nat \ {0},
               confirm_replicated_delivery(e, expected, route, sameTopic, position)
        PROVE  TypeInv'
    <2>1. e \in DOMAIN delivery_state
      BY <1>4, Zenon DEF confirm_replicated_delivery, ConfirmAnswer, DeliveryFound
    <2>2. lifecycle_state' \in [DOMAIN stored_envelope -> Lifecycle]
      BY <1>4, <2>1, SetLifecycleType, Zenon DEF confirm_replicated_delivery, LifecycleStatus
    <2>3. ConfirmedRow(delivery_state[e], position) \in DeliveryRow
      BY <2>1 DEF ConfirmedRow, DeliveryRow, DeliveryStatus
    <2> QED
      BY <1>3, <1>4, <2>1, <2>2, <2>3, RowsType, Zenon DEF confirm_replicated_delivery, acceptVars
  <1>5. ASSUME NEW expected \in Nat, block_delivery(e, expected) PROVE TypeInv'
    <2>1. e \in DOMAIN delivery_state
      BY <1>5, Zenon DEF block_delivery, CanTransition, DeliveryFound
    <2>2. lifecycle_state' \in [DOMAIN stored_envelope -> Lifecycle]
      BY <1>5, <2>1, SetLifecycleType, Zenon DEF block_delivery, LifecycleStatus, LocalDeliveryStatus
    <2>3. BlockedRow(delivery_state[e]) \in DeliveryRow
      BY <2>1 DEF BlockedRow, DeliveryRow, DeliveryStatus
    <2> QED
      BY <1>3, <1>5, <2>1, <2>2, <2>3, RowsType, Zenon DEF block_delivery, acceptVars
  <1>6. ASSUME NEW expected \in Nat, update_delivery_retry(e, expected) PROVE TypeInv'
    <2>1. e \in DOMAIN delivery_state
      BY <1>6, Zenon DEF update_delivery_retry, CanTransition, DeliveryFound
    <2>2. RetryingRow(delivery_state[e]) \in DeliveryRow
      BY <2>1 DEF RetryingRow, DeliveryRow, DeliveryStatus
    <2> QED
      BY <1>3, <1>6, <2>1, <2>2, RowsType, Zenon DEF update_delivery_retry, acceptVars
  <1> QED
    BY <1>1, <1>2, <1>4, <1>5, <1>6, Zenon DEF RowStep

\* Every operation of the journal keeps the type invariant.
LEMMA TypeStep == TypeInv /\ [JournalStep]_journalVars => TypeInv'
  <1> SUFFICES ASSUME TypeInv, [JournalStep]_journalVars PROVE TypeInv'
    OBVIOUS
  <1> USE UntouchedType
  <1>1. ASSUME NEW req \in Requests, accept(req) PROVE TypeInv'
    <2>1. CASE AcceptNew(req)
      BY <2>1, AcceptNewType, Zenon
    <2>2. CASE AcceptAuditOnly(req)
      <3>1. req.event_id \in EventIds
        BY JournalConstants, Zenon
      <3>2. write_attempt' \in [EventIds -> 0..MAX_ATTEMPTS]
        BY <2>2, <3>1, PrunedBound, JournalConstants, Zenon DEF AcceptAuditOnly, record_attempt
      <3> QED
        BY <2>2, <3>2, RowsType, Zenon DEF AcceptAuditOnly, deliveryVars
    <2> QED
      BY <1>1, <2>1, <2>2, Zenon DEF accept
  <1>2. ASSUME NEW e \in EventIds, NEW expected \in Nat, NEW status \in LocalDeliveryStatus,
               update_lifecycle(e, expected, status)
        PROVE  TypeInv'
    <2>1. e \in DOMAIN stored_envelope /\ status \in LifecycleStatus
      BY <1>2, Zenon DEF update_lifecycle, StatusFound, LifecycleStatus
    <2>2. lifecycle_state' \in [DOMAIN stored_envelope -> Lifecycle]
      BY <1>2, <2>1, SetLifecycleType, Zenon DEF update_lifecycle
    <2> QED
      BY <1>2, <2>2, RowsType, Zenon DEF update_lifecycle, acceptVars, deliveryVars
  <1>3. CASE UNCHANGED journalVars
    BY <1>3, RowsType, Zenon DEF journalVars, acceptVars, deliveryVars
  <1> QED
    BY <1>1, <1>2, <1>3, RowStepType, Zenon DEF JournalStep

\* Every client of the bounded journal takes unbounded steps between states of
\* the right type.
LEMMA JournalSteps == JournalSpec => []TypeInv /\ [][JournalStep]_journalVars
  <1>1. TypeInv /\ [JournalNext]_journalVars => TypeInv' /\ [JournalStep]_journalVars
    BY TypeStep, BoundedStep, Zenon
  <1> QED
    BY InitType, <1>1, PTL DEF JournalSpec

\* Every table of the journal keeps its schema: an envelope always has its
\* lifecycle row, a delivery row its envelope, and the audit tables their
\* limits, whatever calls are made and in whatever order.
THEOREM JournalTypeCorrect == JournalSpec => []JournalTypeOK
  <1>1. TypeInv => JournalTypeOK
    BY Zenon DEF TypeInv
  <1> QED
    BY <1>1, JournalSteps, PTL

-----------------------------------------------------------------------------
(* Safety: the order and density of the sequences accept allocates, the     *)
(* meaning of REPLICATED, and what no call may do to rows already written.  *)

\* Only an accepted request touches envelopes, producer heads and stream heads.
LEMMA EnvelopeStep ==
    ASSUME [JournalStep]_journalVars
    PROVE  \/ \E req \in Requests : AcceptNew(req)
           \/ UNCHANGED <<stored_envelope, producer_sequence, stream_head>>
  BY Zenon DEF JournalStep, RowStep, accept, AcceptAuditOnly, update_lifecycle,
         create_delivery_pending, record_delivery_attempt,
         confirm_replicated_delivery, block_delivery, update_delivery_retry,
         journalVars, acceptVars

\* The envelopes after an accepted request: one more, at the next journal
\* sequence and the next sequence of its stream.
LEMMA AcceptNewEnvelope ==
    ASSUME TypeInv, NEW req \in Requests, AcceptNew(req)
    PROVE  /\ req.event_id \notin DOMAIN stored_envelope
           /\ DOMAIN stored_envelope' = DOMAIN stored_envelope \cup {req.event_id}
           /\ \A e \in DOMAIN stored_envelope : stored_envelope'[e] = stored_envelope[e]
           /\ stored_envelope'[req.event_id].journal_sequence = allocate_journal_sequence
           /\ stored_envelope'[req.event_id].stream_sequence
                = allocate_stream_sequence(req.stream)
           /\ stored_envelope'[req.event_id].stream = req.stream
           /\ stored_envelope'[req.event_id].producer = req.producer
           /\ stored_envelope'[req.event_id].seq = req.seq
  <1>1. req.event_id \notin DOMAIN stored_envelope
    BY Zenon DEF AcceptNew, AcceptAnswer
  <1> QED
    BY <1>1, Zenon DEF AcceptNew, Put

-----------------------------------------------------------------------------
(* Producer order.  The invariant is inductive once each producer's head     *)
(* bounds the operation sequences stored for it and names a stored event.    *)

ProducerHeads ==
    /\ \A e \in DOMAIN stored_envelope :
          /\ stored_envelope[e].producer \in DOMAIN producer_sequence
          /\ stored_envelope[e].seq
                <= producer_sequence[stored_envelope[e].producer].highest_seq
    /\ \A p \in DOMAIN producer_sequence :
          producer_sequence[p].last_event_id \in DOMAIN stored_envelope

ProducerInv == ProducerHeads /\ ProducerOrder

\* Accepting an event moves the head of its producer up to it.
LEMMA ProducerAccept ==
    ASSUME TypeInv, ProducerInv, NEW req \in Requests, AcceptNew(req)
    PROVE  ProducerInv'
  <1> DEFINE new == req.event_id
  <1>1. /\ req.producer \in Producers /\ req.seq \in Nat \ {0}
    BY JournalConstants, Zenon
  <1>2. /\ producer_sequence \in [DOMAIN producer_sequence -> ProducerHead]
        /\ stored_envelope \in [DOMAIN stored_envelope -> Envelope]
    BY Zenon DEF TypeInv, JournalTypeOK
  <1>3. req.producer \in DOMAIN producer_sequence =>
            producer_sequence[req.producer].highest_seq < req.seq
    <2>1. ~ProducerConflict(req)
      BY AcceptNewEnvelope, Zenon DEF AcceptNew, AcceptAnswer
    <2>2. req.producer \in DOMAIN producer_sequence =>
              producer_sequence[req.producer].last_event_id # new
      BY AcceptNewEnvelope, Zenon DEF ProducerInv, ProducerHeads
    <2>3. req.producer \in DOMAIN producer_sequence =>
              producer_sequence[req.producer].highest_seq \in Nat
      BY <1>2, Zenon DEF ProducerHead
    <2> QED
      BY <1>1, <2>1, <2>2, <2>3 DEF ProducerConflict
  <1>4. \A e \in DOMAIN stored_envelope :
            stored_envelope[e].producer = req.producer => stored_envelope[e].seq < req.seq
    BY <1>1, <1>2, <1>3 DEF ProducerInv, ProducerHeads, Envelope, ProducerHead
  <1>5. /\ stored_envelope'[new].journal_sequence \in Nat
        /\ \A e \in DOMAIN stored_envelope :
              /\ stored_envelope'[e] = stored_envelope[e]
              /\ stored_envelope[e].journal_sequence \in Nat
              /\ stored_envelope[e].journal_sequence
                    < stored_envelope'[new].journal_sequence
    <2>1. JournalDense
      BY Zenon DEF TypeInv
    <2> QED
      BY <1>2, <2>1, AllocateJournalSequence, AcceptNewEnvelope, Zenon DEF Envelope
  <1>6. /\ DOMAIN producer_sequence' = DOMAIN producer_sequence \cup {req.producer}
        /\ producer_sequence'[req.producer].highest_seq = req.seq
        /\ producer_sequence'[req.producer].last_event_id = new
        /\ \A p \in DOMAIN producer_sequence :
              p # req.producer => producer_sequence'[p] = producer_sequence[p]
    BY Zenon DEF AcceptNew, Put
  <1>7. ProducerHeads'
    <2>1. ASSUME NEW e \in DOMAIN stored_envelope'
          PROVE  /\ stored_envelope'[e].producer \in DOMAIN producer_sequence'
                 /\ stored_envelope'[e].seq
                       <= producer_sequence'[stored_envelope'[e].producer].highest_seq
      <3>1. CASE e = new
        <4>1. stored_envelope'[e].producer = req.producer /\ stored_envelope'[e].seq = req.seq
          BY <3>1, AcceptNewEnvelope, Zenon
        <4> QED
          BY <1>1, <1>6, <4>1
      <3>2. CASE e \in DOMAIN stored_envelope
        <4>1. stored_envelope'[e] = stored_envelope[e] /\ stored_envelope[e].seq \in Nat
          BY <1>2, <3>2, AcceptNewEnvelope, Zenon DEF Envelope
        <4>2. CASE stored_envelope[e].producer = req.producer
          <5>1. stored_envelope[e].seq < req.seq
            BY <1>4, <3>2, <4>2, Zenon
          <5>2. producer_sequence'[stored_envelope'[e].producer].highest_seq = req.seq
            BY <1>6, <4>1, <4>2, Zenon
          <5> QED
            BY <1>1, <1>6, <4>1, <4>2, <5>1, <5>2
        <4>3. CASE stored_envelope[e].producer # req.producer
          BY <1>6, <3>2, <4>1, <4>3, ZenonT(40) DEF ProducerInv, ProducerHeads
        <4> QED
          BY <4>2, <4>3, Zenon
      <3> QED
        BY <3>1, <3>2, AcceptNewEnvelope, Zenon
    <2>2. \A p \in DOMAIN producer_sequence' :
              producer_sequence'[p].last_event_id \in DOMAIN stored_envelope'
      BY <1>6, AcceptNewEnvelope, ZenonT(40) DEF ProducerInv, ProducerHeads
    <2> QED
      BY <2>1, <2>2, Zenon DEF ProducerHeads
  <1>8. ProducerOrder'
    <2> SUFFICES ASSUME NEW e \in DOMAIN stored_envelope', NEW f \in DOMAIN stored_envelope',
                        stored_envelope'[e].producer = stored_envelope'[f].producer,
                        stored_envelope'[e].journal_sequence
                            < stored_envelope'[f].journal_sequence
                 PROVE  stored_envelope'[e].seq < stored_envelope'[f].seq
      BY Zenon DEF ProducerOrder
    <2>1. CASE e \in DOMAIN stored_envelope /\ f \in DOMAIN stored_envelope
      BY <2>1, AcceptNewEnvelope, Zenon DEF ProducerInv, ProducerOrder
    <2>2. CASE e \in DOMAIN stored_envelope /\ f = new
      BY <1>4, <2>2, AcceptNewEnvelope, Zenon
    <2>3. CASE e = new
      <3>1. f \in DOMAIN stored_envelope => FALSE
        BY <1>5, <2>3
      <3>2. f = new => FALSE
        BY <1>5, <2>3
      <3> QED
        BY <3>1, <3>2, AcceptNewEnvelope, Zenon
    <2> QED
      BY <2>1, <2>2, <2>3, AcceptNewEnvelope, ZenonT(30)
  <1> QED
    BY <1>7, <1>8, Zenon DEF ProducerInv

\* Events of one producer instance are stored in the order of their operation
\* sequence, and no operation sequence is stored twice.
THEOREM ProducerOrderHolds == JournalSpec => []ProducerOrder
  <1>1. JournalInit => ProducerInv
    BY Zenon DEF JournalInit, ProducerInv, ProducerHeads, ProducerOrder
  <1>2. TypeInv /\ ProducerInv /\ [JournalStep]_journalVars => ProducerInv'
    <2> SUFFICES ASSUME TypeInv, ProducerInv, [JournalStep]_journalVars
                 PROVE  ProducerInv'
      OBVIOUS
    <2>1. CASE UNCHANGED <<stored_envelope, producer_sequence, stream_head>>
      BY <2>1, Zenon DEF ProducerInv, ProducerHeads, ProducerOrder
    <2> QED
      BY <2>1, ProducerAccept, EnvelopeStep, Zenon
  <1>3. ProducerInv => ProducerOrder
    BY Zenon DEF ProducerInv
  <1> QED
    BY <1>1, <1>2, <1>3, JournalSteps, PTL DEF JournalSpec

-----------------------------------------------------------------------------
(* Stream order.  Density bounds the stored sequences by the head, so the    *)
(* sequence accept allocates next is above all of them.                      *)

HeadOf(s) == IF s \in DOMAIN stream_head THEN stream_head[s] ELSE 0

StreamInv == StreamSequencesDense /\ JournalOrderIsStreamOrder

\* Accepting an event gives it the next sequence of its stream, and of the
\* journal.
LEMMA StreamAccept ==
    ASSUME TypeInv, StreamInv, NEW req \in Requests, AcceptNew(req)
    PROVE  StreamInv'
  <1> DEFINE new == req.event_id
             ss == allocate_stream_sequence(req.stream)
  <1>1. req.stream \in Streams
    BY JournalConstants, Zenon
  <1>2. /\ stored_envelope \in [DOMAIN stored_envelope -> Envelope]
        /\ stream_head \in [DOMAIN stream_head -> Nat \ {0}]
    BY Zenon DEF TypeInv, JournalTypeOK
  <1>3. \A s \in Streams : HeadOf(s) \in Nat
    BY <1>2, Zenon DEF HeadOf
  <1>4. ss = 1 + HeadOf(req.stream)
    BY Zenon DEF allocate_stream_sequence, HeadOf
  <1>5. HeadOf(req.stream)' = ss /\ \A s \in Streams \ {req.stream} : HeadOf(s)' = HeadOf(s)
    BY Zenon DEF AcceptNew, Put, HeadOf
  <1>6. /\ new \notin DOMAIN stored_envelope
        /\ DOMAIN stored_envelope' = DOMAIN stored_envelope \cup {new}
        /\ \A e \in DOMAIN stored_envelope : stored_envelope'[e] = stored_envelope[e]
        /\ stored_envelope'[new].stream_sequence = ss
        /\ stored_envelope'[new].stream = req.stream
    BY AcceptNewEnvelope, Zenon
  <1>7. /\ stored_envelope'[new].journal_sequence \in Nat
        /\ \A e \in DOMAIN stored_envelope :
              /\ stored_envelope[e].journal_sequence \in Nat
              /\ stored_envelope[e].journal_sequence
                    < stored_envelope'[new].journal_sequence
    <2>1. JournalDense
      BY Zenon DEF TypeInv
    <2> QED
      BY <1>2, <2>1, AllocateJournalSequence, AcceptNewEnvelope, Zenon DEF Envelope
  <1>8. \A s \in Streams :
            /\ {stored_envelope[e].stream_sequence : e \in EventsOf(s)} = 1..HeadOf(s)
            /\ \A e, f \in EventsOf(s) :
                  stored_envelope[e].stream_sequence = stored_envelope[f].stream_sequence
                      => e = f
    BY Zenon DEF StreamInv, StreamSequencesDense, HeadOf
  <1>9. \A e \in EventsOf(req.stream) :
            stored_envelope[e].stream_sequence \in 1..HeadOf(req.stream)
    BY <1>1, <1>8
  <1>10. /\ EventsOf(req.stream)' = EventsOf(req.stream) \cup {new}
         /\ \A s \in Streams \ {req.stream} : EventsOf(s)' = EventsOf(s)
         /\ \A s \in Streams : EventsOf(s) \subseteq DOMAIN stored_envelope
    BY <1>6, Zenon DEF EventsOf
  <1> HIDE DEF ss, new
  <1>11. StreamSequencesDense'
    <2>1. ASSUME NEW s \in Streams
          PROVE  /\ {stored_envelope'[e].stream_sequence : e \in EventsOf(s)'} = 1..HeadOf(s)'
                 /\ \A e, f \in EventsOf(s)' :
                       stored_envelope'[e].stream_sequence
                           = stored_envelope'[f].stream_sequence => e = f
      <3>1. CASE s # req.stream
        BY <1>5, <1>6, <1>8, <1>10, <3>1
      <3>2. CASE s = req.stream
        <4>1. {stored_envelope'[e].stream_sequence : e \in EventsOf(s)'}
                = {stored_envelope[e].stream_sequence : e \in EventsOf(s)} \cup {ss}
          BY <1>6, <1>10, <3>2
        <4>2. 1..HeadOf(s) \cup {ss} = 1..ss
          BY <1>3, <1>4, <3>2
        <4>3. \A e \in EventsOf(s) : stored_envelope[e].stream_sequence # ss
          BY <1>3, <1>4, <1>9, <3>2
        <4> QED
          BY <1>5, <1>6, <1>8, <1>10, <3>2, <4>1, <4>2, <4>3
      <3> QED
        BY <3>1, <3>2, Zenon
    <2> QED
      BY <2>1, Zenon DEF StreamSequencesDense, HeadOf
  <1>12. JournalOrderIsStreamOrder'
    <2>1. \A e \in EventsOf(req.stream) :
              stored_envelope[e].stream_sequence < ss
              /\ stored_envelope[e].stream_sequence \in Nat /\ ss \in Nat
      BY <1>1, <1>3, <1>4, <1>9
    <2>2. ss \in Nat
      BY <1>1, <1>3, <1>4
    <2> SUFFICES ASSUME NEW e \in DOMAIN stored_envelope', NEW f \in DOMAIN stored_envelope'
                 PROVE  LET a == stored_envelope'[e]
                            b == stored_envelope'[f]
                        IN  /\ a.journal_sequence = b.journal_sequence => e = f
                            /\ a.stream = b.stream =>
                                 (a.journal_sequence < b.journal_sequence
                                     <=> a.stream_sequence < b.stream_sequence)
      BY Zenon DEF JournalOrderIsStreamOrder
    <2>3. CASE e \in DOMAIN stored_envelope /\ f \in DOMAIN stored_envelope
      BY <1>6, <2>3, Zenon DEF StreamInv, JournalOrderIsStreamOrder
    <2>4. CASE e \in DOMAIN stored_envelope /\ f = new
      BY <1>6, <1>7, <2>1, <2>4 DEF EventsOf
    <2>5. CASE e = new /\ f \in DOMAIN stored_envelope
      BY <1>6, <1>7, <2>1, <2>5 DEF EventsOf
    <2>6. CASE e = new /\ f = new
      BY <1>6, <1>7, <2>2, <2>6
    <2> QED
      BY <1>6, <2>3, <2>4, <2>5, <2>6, Zenon
  <1> QED
    BY <1>11, <1>12, Zenon DEF StreamInv

\* The stream invariant holds of an empty journal.
LEMMA StreamInit == JournalInit => StreamInv
  <1> SUFFICES ASSUME JournalInit PROVE StreamInv
    OBVIOUS
  <1>1. StreamSequencesDense
    BY DEF JournalInit, StreamSequencesDense, EventsOf
  <1>2. JournalOrderIsStreamOrder
    BY Zenon DEF JournalInit, JournalOrderIsStreamOrder
  <1> QED
    BY <1>1, <1>2, Zenon DEF StreamInv

\* Every operation of the journal keeps the stream invariant.
LEMMA StreamStep == TypeInv /\ StreamInv /\ [JournalStep]_journalVars => StreamInv'
  <1> SUFFICES ASSUME TypeInv, StreamInv, [JournalStep]_journalVars
               PROVE  StreamInv'
    OBVIOUS
  <1>1. CASE UNCHANGED <<stored_envelope, producer_sequence, stream_head>>
    BY <1>1 DEF StreamInv, StreamSequencesDense, JournalOrderIsStreamOrder, EventsOf
  <1> QED
    BY <1>1, StreamAccept, EnvelopeStep, Zenon

\* The sequences of every stream are exactly 1..head, each used once: a
\* rejected or repeated request never leaves a gap, whatever the interleaving
\* of the clients.
THEOREM StreamOrderHolds == JournalSpec => []StreamSequencesDense
  <1>1. StreamInv => StreamSequencesDense
    BY Zenon DEF StreamInv
  <1> QED
    BY <1>1, StreamInit, StreamStep, JournalSteps, PTL DEF JournalSpec

\* Journal sequences are unique and their order is the order of every stream,
\* so the recovery scan, which reads by journal sequence, never sees an event
\* of a stream without having seen those before it.
THEOREM JournalOrderHolds == JournalSpec => []JournalOrderIsStreamOrder
  <1>1. StreamInv => JournalOrderIsStreamOrder
    BY Zenon DEF StreamInv
  <1> QED
    BY <1>1, StreamInit, StreamStep, JournalSteps, PTL DEF JournalSpec

-----------------------------------------------------------------------------
(* Every step either writes no delivery row or changes the rows of one       *)
(* event; the properties below are checked against these two kinds.          *)

\* The steps that write no delivery row and promote no lifecycle row.
LocalStep ==
    /\ UNCHANGED deliveryVars
    /\ \A e \in DOMAIN lifecycle_state' :
          \/ e \in DOMAIN lifecycle_state /\ lifecycle_state'[e] = lifecycle_state[e]
          \/ lifecycle_state'[e].status # "REPLICATED"

\* A step either leaves delivery alone or is a delivery operation.
LEMMA StepKinds ==
    ASSUME TypeInv, [JournalStep]_journalVars
    PROVE  LocalStep \/ \E e \in EventIds : RowStep(e)
  <1>1. CASE UNCHANGED journalVars
    BY <1>1, Zenon DEF journalVars, LocalStep
  <1>2. ASSUME NEW req \in Requests, accept(req) PROVE LocalStep
    <2>1. CASE AcceptNew(req)
      <3>1. /\ DOMAIN lifecycle_state' = DOMAIN lifecycle_state \cup {req.event_id}
            /\ lifecycle_state'[req.event_id].status = "LOCAL_ACCEPTED"
            /\ \A e \in DOMAIN lifecycle_state :
                  e # req.event_id => lifecycle_state'[e] = lifecycle_state[e]
        BY <2>1, Zenon DEF AcceptNew, Put
      <3> QED
        BY <2>1, <3>1, Zenon DEF AcceptNew, LocalStep
    <2>2. CASE AcceptAuditOnly(req)
      BY <2>2, Zenon DEF AcceptAuditOnly, LocalStep
    <2> QED
      BY <1>2, <2>1, <2>2, Zenon DEF accept
  <1>3. ASSUME NEW e \in EventIds, NEW expected \in Nat, NEW status \in LocalDeliveryStatus,
               update_lifecycle(e, expected, status)
        PROVE  LocalStep
    <2>1. status # "REPLICATED"
      BY Zenon DEF LocalDeliveryStatus
    <2> QED
      BY <1>3, <2>1, Zenon DEF update_lifecycle, SetLifecycle, LocalStep
  <1> QED
    BY <1>1, <1>2, <1>3, Zenon DEF JournalStep

\* What a RowStep does to the rows of e, and that it leaves the others alone.
RowEffect(e) ==
    /\ e \in DOMAIN stored_envelope
    /\ DOMAIN delivery_state' = DOMAIN delivery_state \cup {e}
    /\ DOMAIN lifecycle_state' = DOMAIN lifecycle_state
    /\ \A f \in DOMAIN delivery_state : f # e => delivery_state'[f] = delivery_state[f]
    /\ \A f \in DOMAIN lifecycle_state : f # e => lifecycle_state'[f] = lifecycle_state[f]
    /\ e \in DOMAIN delivery_state => delivery_state'[e].route = delivery_state[e].route
    /\ (e \in DOMAIN delivery_state /\ delivery_state[e].status = "REPLICATED") =>
          /\ delivery_state'[e].status = "REPLICATED"
          /\ delivery_state'[e].position = delivery_state[e].position
    /\ lifecycle_state'[e].status = "REPLICATED" =>
          \/ lifecycle_state' = lifecycle_state
          \/ /\ delivery_state'[e].status = "REPLICATED"
             /\ delivery_state'[e].position # 0

\* Every delivery operation has this effect.
LEMMA RowStepEffect ==
    ASSUME TypeInv, NEW e \in EventIds, RowStep(e)
    PROVE  RowEffect(e)
  <1>0. /\ lifecycle_state \in [DOMAIN stored_envelope -> Lifecycle]
        /\ delivery_state \in [DOMAIN delivery_state -> DeliveryRow]
        /\ DOMAIN delivery_state \subseteq DOMAIN stored_envelope
    BY UntouchedType, Zenon
  <1>1. ASSUME NEW route \in Routes, create_delivery_pending(e, route) PROVE RowEffect(e)
    BY <1>0, <1>1, Zenon DEF create_delivery_pending, Put, RowEffect
  <1>2. CASE record_delivery_attempt(e)
    BY <1>0, <1>2, Zenon DEF record_delivery_attempt, DeliveryFound, RowEffect, DeliveryRow
  <1>3. ASSUME NEW expected \in Nat, NEW route \in Routes, NEW sameTopic \in BOOLEAN,
               NEW position \in Nat \ {0},
               confirm_replicated_delivery(e, expected, route, sameTopic, position)
        PROVE  RowEffect(e)
    <2>1. e \in DOMAIN delivery_state /\ delivery_state[e].status # "REPLICATED"
      BY <1>3, Zenon DEF confirm_replicated_delivery, ConfirmAnswer, DeliveryFound
    <2> QED
      BY <1>0, <1>3, <2>1, Zenon
      DEF confirm_replicated_delivery, SetLifecycle, ConfirmedRow, RowEffect
  <1>4. ASSUME NEW expected \in Nat, block_delivery(e, expected) PROVE RowEffect(e)
    BY <1>0, <1>4, Zenon
    DEF block_delivery, CanTransition, DeliveryFound, SetLifecycle, BlockedRow, RowEffect
  <1>5. ASSUME NEW expected \in Nat, update_delivery_retry(e, expected) PROVE RowEffect(e)
    BY <1>0, <1>5, Zenon
    DEF update_delivery_retry, CanTransition, DeliveryFound, RetryingRow, RowEffect
  <1> QED
    BY <1>1, <1>2, <1>3, <1>4, <1>5, Zenon DEF RowStep

-----------------------------------------------------------------------------
(* REPLICATED.  The invariant is inductive: a lifecycle row only becomes     *)
(* REPLICATED together with its delivery row, and a REPLICATED delivery row  *)
(* keeps its status and position.                                            *)

\* No row of an empty journal is REPLICATED.
LEMMA ReplicatedInit == JournalInit => ReplicatedIsConfirmed
  BY Zenon DEF JournalInit, ReplicatedIsConfirmed

\* Every operation of the journal keeps the invariant.
LEMMA ReplicatedStep ==
    TypeInv /\ ReplicatedIsConfirmed /\ [JournalStep]_journalVars => ReplicatedIsConfirmed'
  <1> SUFFICES ASSUME TypeInv, ReplicatedIsConfirmed, [JournalStep]_journalVars
               PROVE  ReplicatedIsConfirmed'
    OBVIOUS
  <1>1. CASE LocalStep
    BY <1>1, Zenon DEF LocalStep, deliveryVars, ReplicatedIsConfirmed
  <1>2. ASSUME NEW e \in EventIds, RowStep(e) PROVE ReplicatedIsConfirmed'
    <2>1. RowEffect(e)
      BY <1>2, RowStepEffect, Zenon
    <2>2. ASSUME NEW f \in DOMAIN lifecycle_state', lifecycle_state'[f].status = "REPLICATED"
          PROVE  /\ f \in DOMAIN delivery_state'
                 /\ delivery_state'[f].status = "REPLICATED"
                 /\ delivery_state'[f].position # 0
      <3>1. CASE f # e
        BY <2>1, <2>2, <3>1, Zenon DEF RowEffect, ReplicatedIsConfirmed
      <3>2. CASE f = e
        BY <2>1, <2>2, <3>2, Zenon DEF RowEffect, ReplicatedIsConfirmed
      <3> QED
        BY <3>1, <3>2, Zenon
    <2> QED
      BY <2>2, Zenon DEF ReplicatedIsConfirmed
  <1> QED
    BY <1>1, <1>2, StepKinds, Zenon

\* An event whose lifecycle says REPLICATED has a delivery row confirmed at
\* Kafka coordinates: success is never reported from the local tables alone.
THEOREM ReplicatedIsConfirmedHolds == JournalSpec => []ReplicatedIsConfirmed
  BY ReplicatedInit, ReplicatedStep, JournalSteps, PTL DEF JournalSpec

\* What no step does to the delivery rows already there.
RowsFinal ==
    \A e \in DOMAIN delivery_state :
        /\ e \in DOMAIN delivery_state'
        /\ delivery_state'[e].route = delivery_state[e].route
        /\ delivery_state[e].status = "REPLICATED" =>
              /\ delivery_state'[e].status = "REPLICATED"
              /\ delivery_state'[e].position = delivery_state[e].position

\* No operation of the journal takes a REPLICATED row back.
LEMMA FinalStep ==
    ASSUME TypeInv, [JournalStep]_journalVars
    PROVE  RowsFinal
  <1>1. CASE LocalStep
    BY <1>1, Zenon DEF LocalStep, deliveryVars, RowsFinal
  <1>2. ASSUME NEW e \in EventIds, RowStep(e) PROVE RowsFinal
    BY <1>2, RowStepEffect, Zenon DEF RowEffect, RowsFinal
  <1> QED
    BY <1>1, <1>2, StepKinds, Zenon

\* A confirmed delivery keeps its status and the coordinates of its first
\* confirmation, and every delivery row its route, through every later call.
THEOREM ConfirmationIsFinalHolds == JournalSpec => ConfirmationIsFinal
  <1>1. TypeInv /\ [JournalStep]_journalVars
            => [\A e \in DOMAIN delivery_state :
                   /\ e \in DOMAIN delivery_state'
                   /\ delivery_state'[e].route = delivery_state[e].route
                   /\ delivery_state[e].status = "REPLICATED" =>
                         /\ delivery_state'[e].status = "REPLICATED"
                         /\ delivery_state'[e].position = delivery_state[e].position
               ]_journalVars
    BY FinalStep, Zenon DEF RowsFinal
  <1> QED
    BY <1>1, JournalSteps, PTL DEF ConfirmationIsFinal

-----------------------------------------------------------------------------
(* Accepted events and lifecycle revisions. *)

\* No envelope is lost or rewritten, and a lifecycle row that changes goes to
\* the next revision.
AcceptedKept ==
    \A e \in DOMAIN stored_envelope :
        /\ e \in DOMAIN stored_envelope'
        /\ stored_envelope'[e] = stored_envelope[e]
        /\ \/ lifecycle_state'[e] = lifecycle_state[e]
           \/ lifecycle_state'[e].revision = lifecycle_state[e].revision + 1

\* No operation of the journal changes or drops an accepted event.
LEMMA AcceptedKeptStep == TypeInv /\ [JournalStep]_journalVars => AcceptedKept
  <1> SUFFICES ASSUME TypeInv, [JournalStep]_journalVars PROVE AcceptedKept
    OBVIOUS
  <1>1. lifecycle_state \in [DOMAIN stored_envelope -> Lifecycle]
    BY UntouchedType, Zenon
  <1>2. ASSUME NEW req \in Requests, accept(req) PROVE AcceptedKept
    <2>1. CASE AcceptNew(req)
      <3>1. req.event_id \notin DOMAIN stored_envelope
        BY <2>1, Zenon DEF AcceptNew, AcceptAnswer
      <3> QED
        BY <1>1, <2>1, <3>1, Zenon DEF AcceptNew, Put, AcceptedKept
    <2>2. CASE AcceptAuditOnly(req)
      BY <2>2, Zenon DEF AcceptAuditOnly, AcceptedKept
    <2> QED
      BY <1>2, <2>1, <2>2, Zenon DEF accept
  <1>3. ASSUME NEW e, NEW status, SetLifecycle(e, status), UNCHANGED acceptVars
        PROVE  AcceptedKept
    BY <1>1, <1>3, Zenon DEF SetLifecycle, acceptVars, AcceptedKept
  <1>4. ASSUME UNCHANGED <<acceptVars, lifecycle_state>> PROVE AcceptedKept
    BY <1>4, Zenon DEF acceptVars, AcceptedKept
  <1>5. ASSUME NEW e \in EventIds, NEW expected \in Nat, NEW status \in LocalDeliveryStatus,
               update_lifecycle(e, expected, status)
        PROVE  AcceptedKept
    BY <1>3, <1>5, Zenon DEF update_lifecycle
  <1>6. ASSUME NEW e \in EventIds, RowStep(e) PROVE AcceptedKept
    BY <1>3, <1>4, <1>6, Zenon DEF RowStep, create_delivery_pending, record_delivery_attempt,
       update_delivery_retry, confirm_replicated_delivery, block_delivery
  <1>7. CASE UNCHANGED journalVars
    BY <1>4, <1>7, Zenon DEF journalVars
  <1> QED
    BY <1>2, <1>5, <1>6, <1>7, Zenon DEF JournalStep

\* An accepted event keeps its envelope for ever, and its lifecycle row moves
\* one revision at a time.
THEOREM AcceptedIsPermanentHolds == JournalSpec => AcceptedIsPermanent
  <1>1. TypeInv /\ [JournalStep]_journalVars =>
          \A e \in DOMAIN stored_envelope :
              /\ e \in DOMAIN stored_envelope'
              /\ stored_envelope'[e] = stored_envelope[e]
              /\ \/ lifecycle_state'[e] = lifecycle_state[e]
                 \/ lifecycle_state'[e].revision = lifecycle_state[e].revision + 1
    BY AcceptedKeptStep, Zenon DEF AcceptedKept
  <1> QED
    BY <1>1, JournalSteps, PTL DEF AcceptedIsPermanent

\* Whatever happens after a request was accepted, a retry of it is answered
\* ExistingDuplicate and never with a conflict.
THEOREM RetryIsDuplicateHolds == JournalSpec => RetryIsDuplicate
  <1> DEFINE Answered == \A req \in Requests :
                 AcceptNew(req) \/ AcceptAnswer(req) = "ExistingDuplicate"
                     => AcceptAnswer(req)' = "ExistingDuplicate"
  <1>1. TypeInv /\ [JournalStep]_journalVars => Answered
    <2> SUFFICES ASSUME TypeInv, [JournalStep]_journalVars, NEW req \in Requests,
                        AcceptNew(req) \/ AcceptAnswer(req) = "ExistingDuplicate"
                 PROVE  AcceptAnswer(req)' = "ExistingDuplicate"
      OBVIOUS
    <2>1. /\ req.event_id \in DOMAIN stored_envelope'
          /\ stored_envelope'[req.event_id].fingerprint = req.fingerprint
      <3>1. CASE AcceptNew(req)
        BY <3>1, Zenon DEF AcceptNew, Put
      <3>2. CASE AcceptAnswer(req) = "ExistingDuplicate"
        <4>1. /\ req.event_id \in DOMAIN stored_envelope
              /\ stored_envelope[req.event_id].fingerprint = req.fingerprint
          BY <3>2, Zenon DEF AcceptAnswer
        <4> QED
          BY <4>1, AcceptedKeptStep, Zenon DEF AcceptedKept
      <3> QED
        BY <3>1, <3>2, Zenon
    <2> QED
      BY <2>1, Zenon DEF AcceptAnswer
  <1> QED
    BY <1>1, JournalSteps, PTL DEF RetryIsDuplicate

-----------------------------------------------------------------------------
(* Attempt history.  A row is created with no attempts, so the invariant     *)
(* needs to know that an event without a row has no history.                 *)

HistoryInv ==
    /\ AttemptHistoryMatches
    /\ \A e \in EventIds \ DOMAIN delivery_state : delivery_attempt[e] = 0

\* The pruned attempt history has as many rows as attempts were counted, up
\* to MAX_DELIVERY_ATTEMPTS.
THEOREM AttemptHistoryHolds == JournalSpec => []AttemptHistoryMatches
  <1>1. JournalInit => HistoryInv
    BY Zenon DEF JournalInit, HistoryInv, AttemptHistoryMatches
  <1>2. TypeInv /\ HistoryInv /\ [JournalStep]_journalVars => HistoryInv'
    <2> SUFFICES ASSUME TypeInv, HistoryInv, [JournalStep]_journalVars PROVE HistoryInv'
      OBVIOUS
    <2>0. /\ delivery_state \in [DOMAIN delivery_state -> DeliveryRow]
          /\ DOMAIN delivery_state \subseteq EventIds
          /\ delivery_attempt \in [EventIds -> 0..MAX_DELIVERY_ATTEMPTS]
          /\ MAX_DELIVERY_ATTEMPTS \in Nat \ {0}
      BY UntouchedType, JournalConstants, Zenon
    <2>1. CASE LocalStep
      BY <2>1, Zenon DEF LocalStep, deliveryVars, HistoryInv, AttemptHistoryMatches
    <2>2. ASSUME NEW e \in EventIds, RowStep(e) PROVE HistoryInv'
      <3>1. ASSUME NEW route \in Routes, create_delivery_pending(e, route) PROVE HistoryInv'
        BY <2>0, <3>1 DEF create_delivery_pending, Put, HistoryInv, AttemptHistoryMatches
      <3>2. CASE record_delivery_attempt(e)
        <4>1. /\ e \in DOMAIN delivery_state
              /\ DOMAIN delivery_state' = DOMAIN delivery_state
              /\ delivery_attempt'[e] = Pruned(delivery_attempt[e], MAX_DELIVERY_ATTEMPTS)
              /\ delivery_state'[e].attempt_count = delivery_state[e].attempt_count + 1
              /\ delivery_state[e].attempt_count \in Nat
              /\ \A f \in EventIds \ {e} : delivery_attempt'[f] = delivery_attempt[f]
              /\ \A f \in DOMAIN delivery_state \ {e} : delivery_state'[f] = delivery_state[f]
          BY <2>0, <3>2, Zenon DEF record_delivery_attempt, DeliveryFound, DeliveryRow
        <4>2. delivery_attempt'[e] =
                 IF delivery_state'[e].attempt_count <= MAX_DELIVERY_ATTEMPTS
                 THEN delivery_state'[e].attempt_count ELSE MAX_DELIVERY_ATTEMPTS
          BY <2>0, <4>1 DEF Pruned, HistoryInv, AttemptHistoryMatches
        <4>3. AttemptHistoryMatches'
          BY <2>0, <4>1, <4>2, Zenon DEF HistoryInv, AttemptHistoryMatches
        <4> QED
          BY <2>0, <4>1, <4>3, Zenon DEF HistoryInv
      <3>3. ASSUME NEW row, row.attempt_count = delivery_state[e].attempt_count,
                   e \in DOMAIN delivery_state,
                   delivery_state' = [delivery_state EXCEPT ![e] = row],
                   UNCHANGED delivery_attempt
            PROVE  HistoryInv'
        BY <2>0, <3>3, Zenon DEF HistoryInv, AttemptHistoryMatches
      <3>4. ASSUME NEW expected \in Nat, NEW route \in Routes, NEW sameTopic \in BOOLEAN,
                   NEW position \in Nat \ {0},
                   confirm_replicated_delivery(e, expected, route, sameTopic, position)
            PROVE  HistoryInv'
        BY <3>3, <3>4, Zenon DEF confirm_replicated_delivery, ConfirmAnswer, DeliveryFound, ConfirmedRow
      <3>5. ASSUME NEW expected \in Nat, block_delivery(e, expected) PROVE HistoryInv'
        BY <3>3, <3>5, Zenon DEF block_delivery, CanTransition, DeliveryFound, BlockedRow
      <3>6. ASSUME NEW expected \in Nat, update_delivery_retry(e, expected) PROVE HistoryInv'
        BY <3>3, <3>6, Zenon DEF update_delivery_retry, CanTransition, DeliveryFound, RetryingRow
      <3> QED
        BY <2>2, <3>1, <3>2, <3>4, <3>5, <3>6, Zenon DEF RowStep
    <2> QED
      BY <2>1, <2>2, StepKinds, Zenon
  <1>3. HistoryInv => AttemptHistoryMatches
    BY Zenon DEF HistoryInv
  <1> QED
    BY <1>1, <1>2, <1>3, JournalSteps, PTL DEF JournalSpec
=============================================================================
