------------------------- MODULE DeliveryOrderProofs -------------------------
(***************************************************************************)
(* Publication in stream order, for any number of services on one journal, *)
(* whatever crashes, overlaps, faults and late appends there are, and the  *)
(* refinement of StreamDelivery.                                           *)
(*                                                                         *)
(* The theorems are about a deployment that creates its delivery rows in   *)
(* stream order and whose streams have different stream keys.  Neither can *)
(* be dropped: the runs MCDeliveryMissingRow and MCDeliverySharedKey show  *)
(* the order lost without one of them.                                     *)
(***************************************************************************)
EXTENDS DeliveryProofs

OrderedDeployment ==
    /\ InOrderPending
    /\ \A s, t \in Streams : StreamKey[s] = StreamKey[t] => s = t

-----------------------------------------------------------------------------
(* The inductive invariant: whoever may still publish an event (a gate, an   *)
(* attempt in progress, a send that timed out) knows one whose predecessors  *)
(* are all confirmed.                                                        *)

Ready(e) == \A f \in Predecessors(e) : IsReplicated(f)

\* Rows are created in stream order and confirmed in stream order.
RowsInOrder ==
    \A e \in DOMAIN delivery_state :
        /\ Predecessors(e) \subseteq DOMAIN delivery_state
        /\ IsReplicated(e) => Ready(e)

\* The entry a gate has for a stream completes a confirmed event of the stream
\* and blocks at one that is ready.
GateKnows(g, t) ==
    LET state == Entry(g, StreamKey[t])
    IN  /\ state.highest_completed # 0 =>
              \E e \in EventsOf(t) : SeqOf(e) = state.highest_completed /\ IsReplicated(e)
        /\ state.blocking # 0 =>
              \E e \in EventsOf(t) : SeqOf(e) = state.blocking /\ Ready(e)

GatesKnow == \A s \in Services, t \in Streams : GateKnows(gate[s], t)

CallsReady == \A s \in Services : Busy(s) => Ready(call[s].event)

TopicReady ==
    /\ \A e \in late : Ready(e)
    /\ \A i \in DOMAIN kafka : Ready(kafka[i])

OrderInv == RowsInOrder /\ GatesKnow /\ CallsReady /\ TopicReady

-----------------------------------------------------------------------------
(* Stream positions *)

\* Density: two events of a stream have different positive sequences, none
\* above the head.
LEMMA StreamPositions ==
    ASSUME BaseInv
    PROVE  /\ \A e \in DOMAIN stored_envelope :
                 /\ stored_envelope[e].stream \in Streams /\ SeqOf(e) \in Nat \ {0}
                 /\ SeqOf(e) <= HeadOf(stored_envelope[e].stream)
           /\ \A e, f \in DOMAIN stored_envelope :
                 stored_envelope[e].stream = stored_envelope[f].stream /\ SeqOf(e) = SeqOf(f)
                     => e = f
           /\ \A s \in Streams : HeadOf(s) \in Nat
  <1>1. /\ stored_envelope \in [DOMAIN stored_envelope -> Envelope]
        /\ stream_head \in [DOMAIN stream_head -> Nat \ {0}]
        /\ StreamSequencesDense
    BY Zenon DEF BaseInv, TypeInv, JournalTypeOK, StreamInv
  <1>2. \A e \in DOMAIN stored_envelope :
          stored_envelope[e].stream \in Streams /\ SeqOf(e) \in Nat \ {0}
    BY <1>1, Zenon DEF Envelope, SeqOf
  <1>3. \A s \in Streams : HeadOf(s) \in Nat
    BY <1>1, Zenon DEF HeadOf
  <1>4. \A e \in DOMAIN stored_envelope : SeqOf(e) \in 1..HeadOf(stored_envelope[e].stream)
    BY <1>1, <1>2 DEF StreamSequencesDense, EventsOf, HeadOf, SeqOf
  <1>5. \A e, f \in DOMAIN stored_envelope :
           stored_envelope[e].stream = stored_envelope[f].stream /\ SeqOf(e) = SeqOf(f)
               => e = f
    BY <1>1, <1>2, Zenon DEF StreamSequencesDense, EventsOf, SeqOf
  <1> QED
    BY <1>2, <1>3, <1>4, <1>5

\* Envelopes do not change, and a new one goes behind the others of its stream.
LEMMA EnvelopesKept ==
    ASSUME BaseInv, [Next]_vars
    PROVE  \A e \in DOMAIN stored_envelope :
              /\ e \in DOMAIN stored_envelope'
              /\ stored_envelope'[e] = stored_envelope[e]
              /\ Predecessors(e)' = Predecessors(e)
  <1> TAKE e \in DOMAIN stored_envelope
  <1>1. CASE UNCHANGED <<stored_envelope, producer_sequence, stream_head>>
    BY <1>1, Zenon DEF Predecessors, SeqOf
  <1>2. ASSUME NEW req \in Requests, AcceptNew(req)
        PROVE  /\ e \in DOMAIN stored_envelope'
               /\ stored_envelope'[e] = stored_envelope[e]
               /\ Predecessors(e)' = Predecessors(e)
    <2>1. /\ DOMAIN stored_envelope' = DOMAIN stored_envelope \cup {req.event_id}
          /\ \A f \in DOMAIN stored_envelope : stored_envelope'[f] = stored_envelope[f]
          /\ stored_envelope'[req.event_id].stream = req.stream
          /\ stored_envelope'[req.event_id].stream_sequence = 1 + HeadOf(req.stream)
      BY <1>2, AcceptNewEnvelope, Zenon DEF BaseInv, allocate_stream_sequence, HeadOf
    <2>2. req.stream \in Streams
      BY JournalConstants, Zenon
    <2>3. stored_envelope[e].stream = req.stream => ~(1 + HeadOf(req.stream) < SeqOf(e))
      BY <2>2, StreamPositions
    <2> QED
      BY <2>1, <2>3, Zenon DEF Predecessors, SeqOf
  <1> QED
    BY <1>1, <1>2, NextIsJournalStep, EnvelopeStep, Zenon

\* What is confirmed stays confirmed and what is ready stays ready.
LEMMA ReadyKept ==
    ASSUME BaseInv, [Next]_vars
    PROVE  /\ \A e : IsReplicated(e) => IsReplicated(e)'
           /\ \A e \in DOMAIN stored_envelope : Ready(e) => Ready(e)'
           /\ \A e : IsReplicated(e) => e \in DOMAIN stored_envelope
  <1>1. \A e : IsReplicated(e) => IsReplicated(e)'
    BY NextIsJournalStep, FinalStep, Zenon DEF BaseInv, RowsFinal, IsReplicated, Status
  <1>2. \A e \in DOMAIN stored_envelope : Ready(e) => Ready(e)'
    BY <1>1, EnvelopesKept, Zenon DEF Ready
  <1>3. \A e : IsReplicated(e) => e \in DOMAIN stored_envelope
    BY UntouchedType, Zenon DEF BaseInv, IsReplicated
  <1> QED
    BY <1>1, <1>2, <1>3, Zenon

\* The gate opens for ready events only: at its blocking sequence, which is
\* ready, and behind its highest completed one, whose predecessors are
\* confirmed like itself.
LEMMA AllowedReady ==
    ASSUME BaseInv, OrderInv, NEW s \in Services, NEW e \in DOMAIN stored_envelope,
           Allowed(gate[s], KeyOf(e), SeqOf(e))
    PROVE  Ready(e)
  <1> DEFINE t == stored_envelope[e].stream
             state == Entry(gate[s], StreamKey[t])
  <1>1. t \in Streams /\ SeqOf(e) \in Nat \ {0} /\ e \in EventsOf(t)
    BY StreamPositions, Zenon DEF EventsOf
  <1>2. GateKnows(gate[s], t)
    BY <1>1, Zenon DEF OrderInv, GatesKnow
  <1>3. state \in StreamGateState
    BY EntryType, Zenon DEF BaseInv, ServiceTypeOK
  <1>4. SeqOf(e) = IF state.blocking # 0 THEN state.blocking ELSE state.highest_completed + 1
    BY Zenon DEF Allowed, KeyOf
  <1>5. CASE state.blocking # 0
    <2>1. PICK f \in EventsOf(t) : SeqOf(f) = SeqOf(e) /\ Ready(f)
      BY <1>2, <1>4, <1>5, Zenon DEF GateKnows
    <2> QED
      BY <1>1, <2>1, StreamPositions, Zenon DEF EventsOf
  <1>6. CASE state.blocking = 0 /\ state.highest_completed = 0
    BY <1>4, <1>6, StreamPositions DEF Ready, Predecessors
  <1>7. CASE state.blocking = 0 /\ state.highest_completed # 0
    <2>1. PICK f \in EventsOf(t) : SeqOf(e) = SeqOf(f) + 1 /\ IsReplicated(f)
      BY <1>2, <1>4, <1>7, Zenon DEF GateKnows
    <2>2. Ready(f)
      BY <2>1, Zenon DEF OrderInv, RowsInOrder, IsReplicated
    <2>3. ASSUME NEW p \in Predecessors(e) PROVE p = f \/ p \in Predecessors(f)
      BY <1>1, <2>1, <2>3, StreamPositions DEF Predecessors, EventsOf
    <2> QED
      BY <2>1, <2>2, <2>3, Zenon DEF Ready
  <1> QED
    BY <1>5, <1>6, <1>7, Zenon

-----------------------------------------------------------------------------
(* The invariant is inductive *)

\* A delivery row is created behind those of its stream.
LEMMA NewRowInOrder ==
    ASSUME OrderedDeployment, BaseInv, [Next]_vars, NEW e \in DOMAIN delivery_state',
           e \notin DOMAIN delivery_state
    PROVE  e \in DOMAIN stored_envelope /\ Predecessors(e) \subseteq DOMAIN delivery_state
  <1>1. ASSUME NEW route \in Routes, NEW f \in EventIds, CreatePending(f, route)
        PROVE  e \in DOMAIN stored_envelope /\ Predecessors(e) \subseteq DOMAIN delivery_state
    <2>1. e = f
      BY <1>1, Zenon DEF CreatePending, create_delivery_pending, Put
    <2> QED
      BY <1>1, <2>1, Zenon DEF CreatePending, OrderedDeployment, Predecessors
  <1>2. ASSUME NEW f, \/ record_delivery_attempt(f)
                      \/ \E n : block_delivery(f, n) \/ update_delivery_retry(f, n)
                      \/ \E n, r, b, p : confirm_replicated_delivery(f, n, r, b, p)
        PROVE  DOMAIN delivery_state' = DOMAIN delivery_state
    BY <1>2, Zenon DEF record_delivery_attempt, block_delivery, update_delivery_retry,
       confirm_replicated_delivery
  <1>3. ASSUME NEW s \in Services, Attempt(s)
        PROVE  DOMAIN delivery_state' = DOMAIN delivery_state
    BY <1>2, <1>3, Zenon DEF Attempt, AttemptReplicated, AttemptBlocked, AttemptOpen, ReadPayload,
       ReadPayloadFails, SendAcked, SendMisdirected, SendFailed, SendTimedOut, Confirm,
       ConfirmFails, RecordAttempt, RecordAttemptFails, PersistRetry, PersistBlock,
       PersistFails, journalVars, deliveryVars
  <1>4. CASE AcceptEvent
    BY <1>4, Zenon DEF AcceptEvent, accept, AcceptNew, AcceptAuditOnly, deliveryVars
  <1>5. ASSUME NEW f \in EventIds, OperatorBlock(f) \/ OperatorRepair(f)
        PROVE  DOMAIN delivery_state' = DOMAIN delivery_state
    BY <1>2, <1>5, Zenon DEF OperatorBlock, OperatorRepair
  <1> QED
    BY <1>1, <1>3, <1>4, <1>5, Zenon DEF Next, Environment, vars, LateAppend, recover, Crash,
       journalVars, deliveryVars

\* A row is created after the rows of the earlier events and becomes REPLICATED
\* after they are.
LEMMA RowsInOrderStep ==
    ASSUME OrderedDeployment, BaseInv, OrderInv, [Next]_vars
    PROVE  RowsInOrder'
  <1> SUFFICES ASSUME NEW e \in DOMAIN delivery_state'
               PROVE  /\ Predecessors(e)' \subseteq DOMAIN delivery_state'
                      /\ IsReplicated(e)' => Ready(e)'
    BY Zenon DEF RowsInOrder
  <1>1. DOMAIN delivery_state \subseteq DOMAIN delivery_state'
    BY JournalShapeHolds, RowsAdvanceHolds, Zenon DEF BaseInv, RowsAdvance
  <1>2. e \in DOMAIN stored_envelope /\ Predecessors(e) \subseteq DOMAIN delivery_state
    <2>1. CASE e \in DOMAIN delivery_state
      BY <2>1, UntouchedType, Zenon DEF BaseInv, OrderInv, RowsInOrder
    <2>2. CASE e \notin DOMAIN delivery_state
      BY <2>2, NewRowInOrder, Zenon
    <2> QED
      BY <2>1, <2>2, Zenon
  <1>3. Predecessors(e)' = Predecessors(e) /\ (Ready(e) => Ready(e)')
    BY <1>2, EnvelopesKept, ReadyKept, Zenon
  <1>4. ASSUME IsReplicated(e)' PROVE Ready(e)
    <2>1. CASE IsReplicated(e)
      BY <2>1, Zenon DEF OrderInv, RowsInOrder, IsReplicated
    <2>2. ASSUME NEW s \in Services, Confirm(s), call[s].event = e PROVE Ready(e)
      BY <2>2, Zenon DEF OrderInv, CallsReady, Busy, Confirm
    <2> QED
      BY <1>4, <2>1, <2>2, StatusShapeHolds, Zenon DEF StatusShape
  <1> QED
    BY <1>1, <1>2, <1>3, <1>4, Zenon

\* An attempt is opened for a ready event, and readiness is kept.
LEMMA CallsReadyStep ==
    ASSUME BaseInv, OrderInv, [Next]_vars
    PROVE  CallsReady'
  <1> SUFFICES ASSUME NEW s \in Services, call'[s].pc # "idle", NEW e, e = call'[s].event
               PROVE  Ready(e)'
    BY Zenon DEF CallsReady, Busy
  <1>0. call \in [Services -> Calls]
    BY Zenon DEF BaseInv, ServiceTypeOK
  <1>1. ASSUME Busy(s), call[s].event = e PROVE Ready(e)'
    <2>1. e \in DOMAIN stored_envelope
      BY <1>1, BusyType, Zenon
    <2> QED
      BY <1>1, <2>1, ReadyKept, Zenon DEF OrderInv, CallsReady
  <1>2. CASE call'[s] = call[s]
    BY <1>1, <1>2 DEF Busy
  <1>3. ASSUME NEW t \in Services, Return(t) PROVE Ready(e)'
    BY <1>0, <1>2, <1>3, Zenon DEF Return, Idle
  <1>4. ASSUME NEW t \in Services, NEW f \in EventIds, AttemptOpen(t, f) PROVE Ready(e)'
    <2>1. CASE t = s
      <3>1. e = f
        BY <1>0, <1>4, <2>1, Zenon DEF AttemptOpen, Idle
      <3>2. f \in DOMAIN stored_envelope /\ Allowed(gate[s], KeyOf(f), SeqOf(f))
        BY <1>4, <2>1, Zenon DEF AttemptOpen, Admitted, CandidateFound
      <3> QED
        BY <3>1, <3>2, AllowedReady, ReadyKept, Zenon
    <2>2. CASE t # s
      BY <1>0, <1>2, <1>4, <2>2, Zenon DEF AttemptOpen
    <2> QED
      BY <2>1, <2>2, Zenon
  <1>5. ASSUME NEW t \in Services, NEW c \in Calls, CallGoesOn(t, c) PROVE Ready(e)'
    <2>1. call' = [call EXCEPT ![t] = c] /\ Busy(t) /\ c.event = call[t].event
      BY <1>5, Zenon DEF CallGoesOn
    <2>2. CASE t = s
      BY <1>0, <1>1, <2>1, <2>2, Zenon
    <2>3. CASE t # s
      BY <1>0, <1>2, <2>1, <2>3, ZenonT(40)
    <2> QED
      BY <2>2, <2>3, Zenon
  <1> QED
    BY <1>2, <1>3, <1>4, <1>5, CallShapeHolds, Zenon DEF CallShape

\* Only attempts in progress put events on the topic or on their way to it.
LEMMA TopicReadyStep ==
    ASSUME BaseInv, OrderInv, [Next]_vars
    PROVE  TopicReady'
  <1>1. ASSUME NEW e, \/ e \in late
                      \/ \E i \in DOMAIN kafka : kafka[i] = e
                      \/ \E s \in Services : Busy(s) /\ call[s].event = e
        PROVE  Ready(e)'
    <2>1. e \in DOMAIN stored_envelope
      BY <1>1, BusyType, UntouchedType, Zenon DEF BaseInv, TopicHasRows
    <2>2. Ready(e)
      BY <1>1, Zenon DEF OrderInv, TopicReady, CallsReady
    <2> QED
      BY <2>1, <2>2, ReadyKept, Zenon
  <1>2. \A e \in late' : Ready(e)'
    BY <1>1, TopicShapeHolds, Zenon DEF TopicShape
  <1>3. ASSUME NEW i \in DOMAIN kafka', NEW e, e = kafka'[i] PROVE Ready(e)'
    BY <1>1, <1>3, TopicShapeHolds, TopicGrows, ZenonT(40)
  <1> QED
    BY <1>2, <1>3, Zenon DEF TopicReady

\* The recovery scan reads a prefix of the journal: with a row it reads every
\* older one.
LEMMA GateScanIsPrefix ==
    ASSUME TypeInv, NEW e \in GateScan(ScanLimit), NEW f \in DOMAIN delivery_state,
           stored_envelope[f].journal_sequence < stored_envelope[e].journal_sequence
    PROVE  f \in GateScan(ScanLimit)
  <1> DEFINE Older(x) == {g \in DOMAIN delivery_state :
                 stored_envelope[g].journal_sequence < stored_envelope[x].journal_sequence}
  <1>1. \A g \in DOMAIN delivery_state : stored_envelope[g].journal_sequence \in Nat
    BY Zenon DEF TypeInv, JournalTypeOK, Envelope
  <1>2. e \in DOMAIN delivery_state /\ Cardinality(Older(e)) < ScanLimit
    BY Zenon DEF GateScan
  <1>3. Older(f) \in SUBSET Older(e)
    BY <1>1, <1>2
  <1>4. IsFiniteSet(Older(e))
    <2>1. Older(e) \in SUBSET EventIds
      BY UntouchedType, Zenon
    <2> QED
      BY <2>1, JournalConstants, FS_Subset, Zenon
  <1>5. IsFiniteSet(Older(f)) /\ Cardinality(Older(f)) <= Cardinality(Older(e))
    BY <1>3, <1>4, FS_Subset, Zenon
  <1>6. Cardinality(Older(e)) \in Nat /\ Cardinality(Older(f)) \in Nat
    BY <1>4, <1>5, FS_CardinalityType, Zenon
  <1>7. Cardinality(Older(f)) < ScanLimit
    <2> HIDE DEF Older
    <2> QED
      BY <1>2, <1>5, <1>6, DeliveryConstants
  <1> QED
    BY <1>7, Zenon DEF GateScan

\* Reading a prefix in journal order is reading a prefix of every stream, so
\* the first row of a stream that is not confirmed is ready.
LEMMA RecoveredKnows ==
    ASSUME OrderedDeployment, BaseInv, OrderInv, NEW t \in Streams
    PROVE  GateKnows(recover_from_scan({ScanState(e) : e \in GateScan(ScanLimit)}), t)
  <1> DEFINE E == GateScan(ScanLimit)
             g == recover_from_scan({ScanState(e) : e \in E})
             state == Entry(g, StreamKey[t])
  <1>0. E \in SUBSET DOMAIN delivery_state
    BY Zenon DEF GateScan
  <1>1. DOMAIN delivery_state \subseteq DOMAIN stored_envelope
    BY UntouchedType, Zenon DEF BaseInv
  <1>2. /\ state.highest_completed # 0 =>
              \E e \in E : /\ KeyOf(e) = StreamKey[t] /\ Status(e) = "REPLICATED"
                           /\ SeqOf(e) = state.highest_completed
        /\ state.blocking # 0 =>
              /\ \E e \in E : /\ KeyOf(e) = StreamKey[t] /\ Status(e) # "REPLICATED"
                              /\ SeqOf(e) = state.blocking
              /\ \A e \in E : KeyOf(e) = StreamKey[t] /\ Status(e) # "REPLICATED"
                              => state.blocking <= SeqOf(e)
    <2> HIDE DEF E
    <2> QED
      BY <1>0, RecoveredEntry, Zenon DEF BaseInv
  <1> HIDE DEF E, state
  <1>3. ASSUME NEW e \in E, KeyOf(e) = StreamKey[t] PROVE e \in EventsOf(t)
    BY <1>0, <1>1, <1>3, StreamPositions, Zenon DEF OrderedDeployment, KeyOf, EventsOf
  <1>4. ASSUME state.highest_completed # 0
        PROVE  \E e \in EventsOf(t) : SeqOf(e) = state.highest_completed /\ IsReplicated(e)
    BY <1>0, <1>2, <1>3, <1>4, Zenon DEF IsReplicated
  <1>5. ASSUME state.blocking # 0
        PROVE  \E e \in EventsOf(t) : SeqOf(e) = state.blocking /\ Ready(e)
    <2>1. PICK e \in E : KeyOf(e) = StreamKey[t] /\ SeqOf(e) = state.blocking
      BY <1>2, <1>5, Zenon
    <2>2. ASSUME NEW f \in Predecessors(e) PROVE IsReplicated(f)
      <3>1. /\ f \in DOMAIN delivery_state /\ e \in DOMAIN stored_envelope
            /\ f \in DOMAIN stored_envelope
            /\ stored_envelope[f].stream = stored_envelope[e].stream /\ SeqOf(f) < SeqOf(e)
        BY <1>0, <1>1, <2>1, <2>2, Zenon DEF OrderInv, RowsInOrder, Predecessors
      <3>2. stored_envelope[f].journal_sequence < stored_envelope[e].journal_sequence
        BY <3>1, Zenon DEF BaseInv, StreamInv, JournalOrderIsStreamOrder, SeqOf
      <3>3. f \in E
        BY <2>1, <3>1, <3>2, GateScanIsPrefix, Zenon DEF E, BaseInv
      <3>4. KeyOf(f) = StreamKey[t]
        BY <2>1, <3>1, Zenon DEF KeyOf
      <3>5. SeqOf(f) \in Nat /\ SeqOf(e) \in Nat
        BY <3>1, StreamPositions, Zenon
      <3>6. ~(state.blocking <= SeqOf(f))
        BY <2>1, <3>1, <3>5
      <3>7. Status(f) = "REPLICATED"
        BY <1>2, <1>5, <3>3, <3>4, <3>6, Zenon
      <3> QED
        BY <3>1, <3>7, Zenon DEF IsReplicated
    <2> QED
      BY <1>3, <2>1, <2>2, Zenon DEF Ready
  <1> QED
    BY <1>4, <1>5, Zenon DEF GateKnows, state, g, E

\* What a gate knows stays true while the gate stays as it is.
LEMMA KnowledgeKept ==
    ASSUME BaseInv, [Next]_vars, NEW g, NEW t \in Streams, GateKnows(g, t)
    PROVE  GateKnows(g, t)'
  <1>1. ASSUME NEW e \in EventsOf(t)
        PROVE  /\ e \in EventsOf(t)' /\ SeqOf(e)' = SeqOf(e)
               /\ Ready(e) => Ready(e)'
               /\ IsReplicated(e) => IsReplicated(e)'
    BY EnvelopesKept, ReadyKept, Zenon DEF EventsOf, SeqOf
  <1> QED
    BY <1>1, Zenon DEF GateKnows

\* What a gate records of a stream stays true of the rows, whichever service
\* moved.
LEMMA GatesKnowStep ==
    ASSUME OrderedDeployment, BaseInv, OrderInv, [Next]_vars
    PROVE  GatesKnow'
  <1> SUFFICES ASSUME NEW u \in Services, NEW t \in Streams, NEW g, g = gate'[u]
               PROVE  GateKnows(g, t)'
    BY Zenon DEF GatesKnow
  <1>0. /\ gate = [x \in Services |-> gate[x]] /\ \A x \in Services : IsGate(gate[x])
        /\ \A x \in Services : GateKnows(gate[x], t)
    BY Zenon DEF BaseInv, ServiceTypeOK, OrderInv, GatesKnow
  <1>1. CASE g = gate[u]
    BY <1>0, <1>1, KnowledgeKept, Zenon
  <1>2. ASSUME NEW s \in Services, gate' = [gate EXCEPT ![s] = EmptyGate]
        PROVE  GateKnows(g, t)'
    <2>1. CASE g = EmptyGate
      BY <2>1, Zenon DEF GateKnows, Entry, EmptyGate, FreshState
    <2> QED
      BY <1>0, <1>1, <1>2, <2>1, Zenon
  <1>3. ASSUME NEW s \in Services,
               gate' = [gate EXCEPT ![s] =
                           recover_from_scan({ScanState(e) : e \in GateScan(ScanLimit)})]
        PROVE  GateKnows(g, t)'
    <2>1. CASE g = recover_from_scan({ScanState(e) : e \in GateScan(ScanLimit)})
      <3>1. GateKnows(g, t)
        BY <2>1, RecoveredKnows, Zenon
      <3> QED
        BY <3>1, KnowledgeKept, Zenon
    <2> QED
      BY <1>0, <1>1, <1>3, <2>1, Zenon
  <1>4. ASSUME NEW s \in Services, NEW e \in DOMAIN delivery_state, s = u,
               \/ MarkInFlight(s, e)
               \/ MarkBlocking(s, e) /\ (call[s].event = e \/ Admitted(s, e))
               \/ MarkCompleted(s, e) /\ IsReplicated(e)'
        PROVE  GateKnows(g, t)'
    <2> DEFINE old == Entry(gate[s], StreamKey[t])
               new == Entry(g, StreamKey[t])
    <2>1. e \in DOMAIN stored_envelope /\ e \in EventIds
      BY UntouchedType, Zenon DEF BaseInv
    <2>2. /\ stored_envelope[e].stream \in Streams /\ SeqOf(e) \in Nat
          /\ e \in EventsOf(stored_envelope[e].stream)'
          /\ SeqOf(e)' = SeqOf(e)
      BY <2>1, StreamPositions, EnvelopesKept, Zenon DEF EventsOf, SeqOf
    <2>3. CASE StreamKey[t] # KeyOf(e)
      <3>1. new = old
        BY <1>0, <1>4, <2>2, <2>3, MarkEffect DEF MarkInFlight, MarkBlocking, MarkCompleted
      <3>2. PICK h : h = gate[s]
        OBVIOUS
      <3>3. GateKnows(h, t)'
        BY <1>0, <3>2, KnowledgeKept, Zenon
      <3> QED
        BY <3>1, <3>2, <3>3, Zenon DEF GateKnows
    <2>4. CASE StreamKey[t] = KeyOf(e)
      <3>1. t = stored_envelope[e].stream
        BY <2>2, <2>4, Zenon DEF OrderedDeployment, KeyOf
      <3>2. e \in EventsOf(t)'
        BY <2>1, <3>1, EnvelopesKept, Zenon DEF EventsOf
      <3>3. PICK h : h = gate[s]
        OBVIOUS
      <3>4. GateKnows(h, t)'
        BY <1>0, <3>3, KnowledgeKept, Zenon
      <3>5. CASE MarkInFlight(s, e)
        <4>1. new.highest_completed = old.highest_completed /\ new.blocking = 0
          BY <1>0, <1>4, <2>2, <2>4, <3>5, MarkEffect, SMTT(30) DEF MarkInFlight
        <4> QED
          BY <3>3, <3>4, <4>1, ZenonT(40) DEF GateKnows
      <3>6. CASE MarkBlocking(s, e) /\ (call[s].event = e \/ Admitted(s, e))
        <4>1. new.highest_completed = old.highest_completed /\ new.blocking = SeqOf(e)
          BY <1>0, <1>4, <2>2, <2>4, <3>6, MarkEffect, SMTT(30) DEF MarkBlocking
        <4>2. call[s].event = e => Busy(s)
          BY <2>1, DeliveryConstants, Zenon DEF BaseInv, CallsOK, CallOK, Busy
        <4>3. Ready(e)
          BY <2>1, <3>6, <4>2, AllowedReady, ZenonT(40) DEF OrderInv, CallsReady, Admitted
        <4>4. Ready(e)'
          BY <2>1, <4>3, ReadyKept, Zenon
        <4> QED
          BY <2>2, <3>2, <3>3, <3>4, <4>1, <4>4, ZenonT(40) DEF GateKnows
      <3>7. CASE MarkCompleted(s, e) /\ IsReplicated(e)'
        <4>1. new.highest_completed = SeqOf(e) /\ new.blocking \in {0, old.blocking}
          BY <1>0, <1>4, <2>2, <2>4, <3>7, MarkEffect DEF MarkCompleted
        <4> QED
          BY <2>2, <3>2, <3>3, <3>4, <3>7, <4>1, ZenonT(40) DEF GateKnows
      <3> QED
        BY <1>4, <3>5, <3>6, <3>7, Zenon
    <2> QED
      BY <2>3, <2>4, Zenon
  <1>5. ASSUME NEW s \in Services, NEW e, s # u,
               MarkInFlight(s, e) \/ MarkBlocking(s, e) \/ MarkCompleted(s, e)
        PROVE  GateKnows(g, t)'
    BY <1>0, <1>1, <1>5, Zenon DEF MarkInFlight, MarkBlocking, MarkCompleted
  <1>6. CASE gate' = gate
    BY <1>1, <1>6, Zenon
  <1> QED
    BY <1>2, <1>3, <1>4, <1>5, <1>6, GateShapeHolds, ZenonT(40) DEF GateShape

\* The order invariant holds of an empty journal and idle services.
LEMMA OrderInit == Init => OrderInv
  <1> SUFFICES ASSUME Init PROVE OrderInv
    OBVIOUS
  <1>1. RowsInOrder /\ TopicReady
    BY DEF Init, JournalInit, RowsInOrder, TopicReady
  <1>2. GatesKnow
    BY Zenon DEF Init, GatesKnow, GateKnows, Entry, EmptyGate, FreshState
  <1>3. CallsReady
    BY Zenon DEF Init, CallsReady, Busy, Idle
  <1> QED
    BY <1>1, <1>2, <1>3, Zenon DEF OrderInv

\* Every step of an ordered deployment keeps the order invariant.
LEMMA OrderStep ==
    ASSUME OrderedDeployment
    PROVE  BaseInv /\ OrderInv /\ [Next]_vars => OrderInv'
  BY RowsInOrderStep, GatesKnowStep, CallsReadyStep, TopicReadyStep, Zenon DEF OrderInv

-----------------------------------------------------------------------------
(* Settled events.  That every event settles needs fairness; that it stays   *)
(* settled does not.                                                         *)

\* A settled event is reopened only by the repair of a blocked event of its
\* stream, itself or an earlier one.
SettledUntilRepair ==
    \A e \in EventIds :
        Settled(e) => Settled(e)' \/ \E f \in Predecessors(e) \cup {e} : OperatorRepair(f)

\* What attempt_delivery has settled, by replication or by a block, no later
\* attempt, restart, late ack or other service unsettles: only an operator's
\* repair in that stream does.
THEOREM SettledIsKept == Spec => [][SettledUntilRepair]_vars
  <1>1. ASSUME BaseInv, [Next]_vars, NEW e \in EventIds, Settled(e)
        PROVE  Settled(e)' \/ \E f \in Predecessors(e) \cup {e} : OperatorRepair(f)
    <2>1. /\ e \in DOMAIN delivery_state
          /\ DOMAIN delivery_state \subseteq DOMAIN delivery_state'
          /\ DOMAIN delivery_state \subseteq DOMAIN stored_envelope
      BY <1>1, JournalShapeHolds, RowsAdvanceHolds, UntouchedType, Zenon
         DEF BaseInv, RowsAdvance, Settled
    <2>2. Predecessors(e)' = Predecessors(e)
      BY <1>1, <2>1, EnvelopesKept, Zenon
    <2>3. CASE IsReplicated(e)
      BY <1>1, <2>1, <2>3, ReadyKept, Zenon DEF Settled
    <2>4. CASE ~IsReplicated(e)
      <3>1. PICK f \in (Predecessors(e) \cup {e}) \cap DOMAIN delivery_state :
                     Status(f) = "DELIVERY_BLOCKED"
        BY <1>1, <2>4, Zenon DEF Settled
      <3>2. Status(f)' = "DELIVERY_BLOCKED" \/ OperatorRepair(f)
        BY <1>1, <3>1, StatusShapeHolds, Zenon DEF StatusShape, Status
      <3> QED
        BY <2>1, <2>2, <3>1, <3>2, Zenon DEF Settled
    <2> QED
      BY <2>3, <2>4, Zenon
  <1>2. BaseInv /\ [Next]_vars => SettledUntilRepair
    BY <1>1, Zenon DEF SettledUntilRepair
  <1> QED
    BY <1>2, BaseInit, BaseStep, PTL DEF Spec

-----------------------------------------------------------------------------
(* Publication in stream order *)

\* However a gate was built up or rebuilt, and whatever the other services on
\* the journal do, it admits an event only when every earlier event of the
\* stream is confirmed, and an attempt in progress never outlives that.
THEOREM GateOpensInOrderHolds == OrderedDeployment => (Spec => []GateOpensInOrder)
  <1> SUFFICES ASSUME OrderedDeployment PROVE Spec => []GateOpensInOrder
    OBVIOUS
  <1>1. BaseInv /\ OrderInv => GateOpensInOrder
    <2> SUFFICES ASSUME BaseInv, OrderInv, NEW s \in Services, NEW e \in DOMAIN stored_envelope,
                        Allowed(gate[s], KeyOf(e), SeqOf(e)) \/ call[s].event = e
                 PROVE  Ready(e)
      BY Zenon DEF GateOpensInOrder, Ready
    <2>1. CASE call[s].event = e
      <3>1. Busy(s)
        BY <2>1, UntouchedType, DeliveryConstants, Zenon DEF BaseInv, CallsOK, CallOK, Busy
      <3> QED
        BY <2>1, <3>1, Zenon DEF OrderInv, CallsReady
    <2> QED
      BY <2>1, AllowedReady, Zenon
  <1> QED
    BY <1>1, BaseInit, BaseStep, OrderInit, OrderStep, PTL DEF Spec

\* A record is in the topic only when every earlier event of its stream is
\* confirmed: a pending, retrying or blocked event stops its stream.
THEOREM PublishedAfterConfirmedHolds ==
    OrderedDeployment => (Spec => []PublishedAfterConfirmed)
  <1> SUFFICES ASSUME OrderedDeployment PROVE Spec => []PublishedAfterConfirmed
    OBVIOUS
  <1>1. OrderInv => PublishedAfterConfirmed
    BY Zenon DEF OrderInv, TopicReady, Ready, PublishedAfterConfirmed
  <1> QED
    BY <1>1, BaseInit, BaseStep, OrderInit, OrderStep, PTL DEF Spec

\* The first occurrences of the events of a stream are in the topic in stream
\* order, with every earlier event before them, whatever is sent again.
THEOREM PublishedInOrderHolds == OrderedDeployment => (Spec => []PublishedInOrder)
  <1> SUFFICES ASSUME OrderedDeployment PROVE Spec => []PublishedInOrder
    OBVIOUS
  <1>1. Init => PublishedInOrder
    BY DEF Init, PublishedInOrder
  <1>2. BaseInv /\ OrderInv /\ ConfirmedAtPosition /\ PublishedInOrder /\ [Next]_vars
            => PublishedInOrder'
    <2> SUFFICES ASSUME BaseInv, OrderInv, ConfirmedAtPosition, PublishedInOrder, [Next]_vars,
                        NEW i \in DOMAIN kafka', NEW e, e = kafka'[i],
                        NEW f \in Predecessors(e)'
                 PROVE  \E j \in 1..(i - 1) : kafka'[j] = f
      BY Zenon DEF PublishedInOrder
    <2>0. kafka \in Seq(EventIds)
      BY Zenon DEF BaseInv, ServiceTypeOK
    <2>1. /\ \A k \in DOMAIN kafka : k \in DOMAIN kafka' /\ kafka'[k] = kafka[k]
          /\ i \notin DOMAIN kafka =>
                /\ i = Len(kafka) + 1
                /\ e \in late \/ \E s \in Services : Busy(s) /\ call[s].event = e
      BY TopicShapeHolds, TopicGrows, Zenon
    <2>2. e \in DOMAIN stored_envelope
      BY <2>1, BusyType, UntouchedType, Zenon DEF BaseInv, TopicHasRows
    <2>3. f \in Predecessors(e)
      BY <2>2, EnvelopesKept, Zenon
    <2>4. CASE i \in DOMAIN kafka
      <3>1. PICK j \in 1..(i - 1) : kafka[j] = f
        BY <2>1, <2>3, <2>4, Zenon DEF PublishedInOrder
      <3> QED
        BY <2>0, <2>1, <2>4, <3>1
    <2>5. CASE i \notin DOMAIN kafka
      <3>1. IsReplicated(f)
        BY <2>1, <2>3, <2>5, Zenon DEF OrderInv, TopicReady, CallsReady, Ready
      <3>2. PICK j \in DOMAIN kafka : kafka[j] = f
        BY <3>1, Zenon DEF ConfirmedAtPosition, IsReplicated
      <3> QED
        BY <2>0, <2>1, <2>5, <3>2
    <2> QED
      BY <2>4, <2>5, Zenon
  <1> QED
    BY <1>1, <1>2, ConfirmedAtPositionHolds, BaseInit, BaseStep, OrderInit, OrderStep, PTL
    DEF Spec

-----------------------------------------------------------------------------
(* The refinement of StreamDelivery *)

\* StreamQueue lists the events of each stream at their stream sequences.
QueueLists ==
    /\ StreamQueue = [s \in Streams |-> StreamQueue[s]]
    /\ \A s \in Streams :
          /\ HeadOf(s) \in Nat
          /\ StreamQueue[s] \in [1..HeadOf(s) -> EventsOf(s)]
          /\ \A n \in 1..HeadOf(s) : SeqOf(StreamQueue[s][n]) = n
          /\ \A e \in EventsOf(s) :
                SeqOf(e) \in 1..HeadOf(s) /\ StreamQueue[s][SeqOf(e)] = e

\* The queue of a stream lists its events by stream sequence.
LEMMA QueueListsHolds == BaseInv => QueueLists
  <1> SUFFICES ASSUME BaseInv, NEW s \in Streams
               PROVE  /\ HeadOf(s) \in Nat
                      /\ StreamQueue[s] \in [1..HeadOf(s) -> EventsOf(s)]
                      /\ \A n \in 1..HeadOf(s) : SeqOf(StreamQueue[s][n]) = n
                      /\ \A e \in EventsOf(s) :
                            SeqOf(e) \in 1..HeadOf(s) /\ StreamQueue[s][SeqOf(e)] = e
    BY Zenon DEF QueueLists, StreamQueue
  <1>1. HeadOf(s) \in Nat
    BY StreamPositions, Zenon
  <1>2. StreamQueue[s] = [n \in 1..HeadOf(s) |-> CHOOSE e \in EventsOf(s) : SeqOf(e) = n]
    BY Zenon DEF StreamQueue, HeadOf
  <1>3. \A n \in 1..HeadOf(s) : \E e \in EventsOf(s) : SeqOf(e) = n
    BY DEF BaseInv, StreamInv, StreamSequencesDense, HeadOf, SeqOf
  <1>4. \A n \in 1..HeadOf(s) : /\ StreamQueue[s][n] \in EventsOf(s)
                                /\ SeqOf(StreamQueue[s][n]) = n
    BY <1>2, <1>3, Zenon
  <1>5. StreamQueue[s] \in [1..HeadOf(s) -> EventsOf(s)]
    BY <1>2, <1>4, Zenon
  <1>6. ASSUME NEW e \in EventsOf(s)
        PROVE  SeqOf(e) \in 1..HeadOf(s) /\ StreamQueue[s][SeqOf(e)] = e
    <2>1. SeqOf(e) \in 1..HeadOf(s)
      BY <1>1, StreamPositions DEF EventsOf
    <2> QED
      BY <1>4, <2>1, StreamPositions, Zenon DEF EventsOf
  <1> QED
    BY <1>1, <1>4, <1>5, <1>6, Zenon

\* Functions on one domain that agree on it are equal.
LEMMA SameFunction ==
    ASSUME NEW D, NEW R, NEW S, NEW a \in [D -> R], NEW b \in [D -> S],
           \A n \in D : b[n] = a[n]
    PROVE  b = a
  OBVIOUS

\* Acceptance appends the new event to the queue of its stream.
LEMMA AcceptEnqueues ==
    ASSUME BaseInv, QueueLists, QueueLists', NEW req \in Requests, AcceptNew(req)
    PROVE  StreamQueue' = [StreamQueue EXCEPT ![req.stream] = Append(@, req.event_id)]
  <1> DEFINE q == req.stream
             new == req.event_id
             Q == StreamQueue[q]
  <1>1. q \in Streams /\ HeadOf(q) \in Nat
    BY JournalConstants, Zenon DEF QueueLists
  <1>2. /\ \A e \in DOMAIN stored_envelope :
              e \in DOMAIN stored_envelope' /\ stored_envelope'[e] = stored_envelope[e]
        /\ new \in DOMAIN stored_envelope'
        /\ stored_envelope'[new].stream = q
        /\ stored_envelope'[new].stream_sequence = HeadOf(q) + 1
    <2>1. allocate_stream_sequence(q) = HeadOf(q) + 1
      BY <1>1 DEF allocate_stream_sequence, HeadOf
    <2> QED
      BY <2>1, AcceptNewEnvelope, Zenon DEF BaseInv
  <1>3. HeadOf(q)' = HeadOf(q) + 1 /\ \A s \in Streams : s # q => HeadOf(s)' = HeadOf(s)
    BY <1>1 DEF AcceptNew, Put, allocate_stream_sequence, HeadOf
  <1>4. ASSUME NEW s \in Streams, NEW n \in 1..HeadOf(s)
        PROVE  n \in 1..HeadOf(s)' /\ StreamQueue'[s][n] = StreamQueue[s][n]
    <2>1. PICK x \in EventsOf(s) : x = StreamQueue[s][n] /\ SeqOf(x) = n
      BY Zenon DEF QueueLists
    <2>2. x \in EventsOf(s)' /\ SeqOf(x)' = n
      BY <1>2, <2>1, Zenon DEF EventsOf, SeqOf
    <2> QED
      BY <2>1, <2>2 DEF QueueLists
  <1>5. ASSUME NEW s \in Streams, s # q PROVE StreamQueue'[s] = StreamQueue[s]
    <2>1. /\ StreamQueue[s] \in [1..HeadOf(s) -> EventsOf(s)]
          /\ StreamQueue'[s] \in [1..HeadOf(s) -> EventsOf(s)']
      BY <1>3, <1>5, Zenon DEF QueueLists
    <2>2. \A n \in 1..HeadOf(s) : StreamQueue'[s][n] = StreamQueue[s][n]
      BY <1>4, Zenon
    <2>3. PICK D : D = 1..HeadOf(s)
      OBVIOUS
    <2>4. /\ StreamQueue[s] \in [D -> EventsOf(s)] /\ StreamQueue'[s] \in [D -> EventsOf(s)']
          /\ \A n \in D : StreamQueue'[s][n] = StreamQueue[s][n]
      BY <2>1, <2>2, <2>3, Zenon
    <2> QED
      BY <2>4, SameFunction
  <1>6. StreamQueue'[q] = Append(StreamQueue[q], new)
    <2>1. /\ Q \in [1..HeadOf(q) -> EventsOf(q)] /\ HeadOf(q) \in Nat
          /\ StreamQueue'[q] \in [1..(HeadOf(q) + 1) -> EventsOf(q)']
      BY <1>1, <1>3, Zenon DEF QueueLists
    <2>2. Q \in Seq(EventsOf(q)) /\ Len(Q) = HeadOf(q)
      BY <2>1
    <2>3. new \in EventsOf(q)' /\ SeqOf(new)' = HeadOf(q) + 1
      BY <1>2, Zenon DEF EventsOf, SeqOf
    <2>4. StreamQueue'[q][HeadOf(q) + 1] = new
      BY <1>1, <2>3, Zenon DEF QueueLists
    <2>5. Append(Q, new) = [n \in 1..(HeadOf(q) + 1) |-> IF n = HeadOf(q) + 1 THEN new ELSE Q[n]]
      BY <2>1, <2>2
    <2>6. \A n \in 1..(HeadOf(q) + 1) :
            StreamQueue'[q][n] = IF n = HeadOf(q) + 1 THEN new ELSE Q[n]
      BY <1>1, <1>4, <2>1, <2>4
    <2> HIDE DEF Q
    <2> QED
      BY <2>1, <2>5, <2>6, Zenon DEF Q
  <1>7. /\ StreamQueue = [s \in Streams |-> StreamQueue[s]]
        /\ StreamQueue' = [s \in Streams |-> StreamQueue'[s]]
    BY Zenon DEF QueueLists
  <1> QED
    BY <1>1, <1>5, <1>6, <1>7, Zenon

\* A step accepts an event, or appends to the topic, or does neither.
LEMMA OneThingAtATime ==
    ASSUME BaseInv, [Next]_vars
    PROVE  \/ \E req \in Requests : AcceptNew(req) /\ UNCHANGED kafka
           \/ UNCHANGED <<stored_envelope, stream_head, kafka>>
           \/ UNCHANGED journalVars
  <1>1. ASSUME NEW s \in Services, Attempt(s), ~SendAcked(s) PROVE kafka' = kafka
    BY <1>1, Zenon DEF Attempt, AttemptReplicated, AttemptBlocked, AttemptOpen, ReadPayload,
       ReadPayloadFails, SendMisdirected, SendFailed, SendTimedOut, Confirm, ConfirmFails,
       RecordAttempt, RecordAttemptFails, PersistRetry, PersistBlock, PersistFails
  <1>2. ASSUME NEW s \in Services, SendAcked(s) PROVE UNCHANGED journalVars
    BY <1>2, Zenon DEF SendAcked
  <1>3. ASSUME NEW e \in EventIds, LateAppend(e) PROVE UNCHANGED journalVars
    BY <1>3, Zenon DEF LateAppend
  <1>4. kafka' = kafka \/ UNCHANGED journalVars
    BY <1>1, <1>2, <1>3, ZenonT(40) DEF Next, Environment, vars, serviceVars, AcceptEvent, CreatePending,
       OperatorBlock, OperatorRepair, recover, Crash
  <1> QED
    BY <1>4, NextIsJournalStep, EnvelopeStep, Zenon

\* The abstract queues, log and confirmations of the mapping.
confirmedEvents == {e \in EventIds : IsReplicated(e)}

\* An empty journal maps to empty queues, log and confirmations.
LEMMA RefinementInit == Init => Abstract!AbsInit
  <1> SUFFICES ASSUME Init PROVE Abstract!AbsInit
    OBVIOUS
  <1>1. StreamQueue = [s \in Streams |-> <<>>]
    BY DEF Init, JournalInit, StreamQueue
  <1>2. {e \in EventIds : IsReplicated(e)} = {}
    BY Zenon DEF Init, JournalInit, IsReplicated
  <1>3. kafka = <<>>
    BY Zenon DEF Init
  <1> QED
    BY <1>1, <1>2, <1>3, Zenon DEF Abstract!AbsInit

\* AcceptNew is Enqueue.
LEMMA EnqueueStep ==
    ASSUME BaseInv, QueueLists, QueueLists', NEW req \in Requests, AcceptNew(req),
           UNCHANGED kafka
    PROVE  Abstract!AbsNext
  <1>1. req.stream \in Streams /\ req.event_id \in EventIds
    BY JournalConstants, Zenon
  <1>2. StreamQueue' = [StreamQueue EXCEPT ![req.stream] = Append(@, req.event_id)]
    BY AcceptEnqueues, Zenon
  <1>3. req.event_id \notin Abstract!Accepted
    <2>1. req.event_id \notin DOMAIN stored_envelope
      BY AcceptNewEnvelope, Zenon DEF BaseInv
    <2>2. ASSUME NEW s \in Streams, NEW n \in DOMAIN StreamQueue[s]
          PROVE  StreamQueue[s][n] \in DOMAIN stored_envelope
      <3>1. StreamQueue[s] \in [1..HeadOf(s) -> EventsOf(s)]
        BY <2>2, Zenon DEF QueueLists
      <3>2. StreamQueue[s][n] \in EventsOf(s)
        BY <2>2, <3>1, Zenon
      <3> QED
        BY <3>2, Zenon DEF EventsOf
    <2> QED
      BY <2>1, <2>2, Zenon DEF Abstract!Accepted
  <1>4. confirmedEvents' = confirmedEvents
    BY Zenon DEF AcceptNew, deliveryVars, confirmedEvents, IsReplicated, Status
  <1>5. Abstract!Enqueue(req.stream, req.event_id)
    BY <1>2, <1>3, <1>4, Zenon DEF Abstract!Enqueue, confirmedEvents
  <1> QED
    BY <1>1, <1>5, Zenon DEF Abstract!AbsNext

\* A record that reaches the topic, acknowledged or late, is Publish at the
\* stream and sequence of its event.
LEMMA PublishStep ==
    ASSUME BaseInv, QueueLists, UNCHANGED journalVars, NEW e \in DOMAIN stored_envelope,
           Ready(e), kafka' = Append(kafka, e)
    PROVE  Abstract!AbsNext
  <1> DEFINE s == stored_envelope[e].stream
             n == SeqOf(e)
  <1>1. s \in Streams /\ e \in EventsOf(s)
    BY StreamPositions, Zenon DEF EventsOf
  <1>2. /\ n \in 1..HeadOf(s) /\ StreamQueue[s][n] = e /\ HeadOf(s) \in Nat
        /\ DOMAIN StreamQueue[s] = 1..HeadOf(s)
    BY <1>1, Zenon DEF QueueLists
  <1>3. ASSUME NEW m \in 1..(n - 1) PROVE StreamQueue[s][m] \in confirmedEvents
    <2>1. m \in 1..HeadOf(s) /\ m < n
      BY <1>2
    <2>2. StreamQueue[s][m] \in EventsOf(s) /\ SeqOf(StreamQueue[s][m]) = m
      BY <1>1, <2>1, Zenon DEF QueueLists
    <2>3. StreamQueue[s][m] \in Predecessors(e)
      BY <2>1, <2>2, Zenon DEF Predecessors, EventsOf
    <2> QED
      BY <2>3, UntouchedType, Zenon DEF BaseInv, Ready, Predecessors, confirmedEvents
  <1>4. Abstract!Reached(s, n)
    BY <1>3, Zenon DEF Abstract!Reached, confirmedEvents
  <1>5. StreamQueue' = StreamQueue /\ confirmedEvents' = confirmedEvents
    BY DEF journalVars, acceptVars, deliveryVars, StreamQueue, EventsOf, SeqOf,
       confirmedEvents, IsReplicated, Status
  <1>6. Abstract!Publish(s, n)
    BY <1>2, <1>4, <1>5, Zenon DEF Abstract!Publish, confirmedEvents
  <1> QED
    BY <1>1, <1>2, <1>6, Zenon DEF Abstract!AbsNext

\* The transaction of Confirm is ConfirmPublished; a step that leaves
\* envelopes and topic alone and confirms nothing is a stutter.
LEMMA ConfirmStep ==
    ASSUME BaseInv, ConfirmedAtPosition', [Next]_vars,
           UNCHANGED <<stored_envelope, stream_head, kafka>>
    PROVE  [Abstract!AbsNext]_(Abstract!absVars)
  <1>1. StreamQueue' = StreamQueue
    BY DEF StreamQueue, EventsOf, SeqOf
  <1>2. \A e : IsReplicated(e) => IsReplicated(e)'
    BY ReadyKept, Zenon
  <1>3. CASE \A e \in EventIds : IsReplicated(e)' => IsReplicated(e)
    <2>1. confirmedEvents' = confirmedEvents
      BY <1>2, <1>3, Zenon DEF confirmedEvents
    <2> QED
      BY <1>1, <2>1, Zenon DEF Abstract!absVars, confirmedEvents
  <1>4. ASSUME NEW e \in EventIds, IsReplicated(e)', ~IsReplicated(e)
        PROVE  Abstract!AbsNext
    <2>1. PICK s \in Services : Confirm(s) /\ call[s].event = e
      BY <1>4, StatusShapeHolds, Zenon DEF StatusShape
    <2>2. \A f : f # e /\ IsReplicated(f)' => IsReplicated(f)
      BY <2>1, ConfirmEffect, Zenon
    <2>3. confirmedEvents' = confirmedEvents \cup {e}
      BY <1>2, <1>4, <2>2, Zenon DEF confirmedEvents
    <2>4. \E i \in DOMAIN kafka : kafka[i] = e
      BY <1>4, Zenon DEF ConfirmedAtPosition, IsReplicated
    <2>5. Abstract!ConfirmPublished(e)
      BY <1>1, <2>3, <2>4, Zenon DEF Abstract!ConfirmPublished, confirmedEvents
    <2> QED
      BY <2>5, Zenon DEF Abstract!AbsNext
  <1> QED
    BY <1>3, <1>4, Zenon

\* Every step of a deployment is a step of StreamDelivery or a stutter.
LEMMA RefinementStep ==
    ASSUME BaseInv, OrderInv, QueueLists, QueueLists', ConfirmedAtPosition', [Next]_vars
    PROVE  [Abstract!AbsNext]_(Abstract!absVars)
  <1>1. CASE UNCHANGED <<stored_envelope, stream_head, kafka>>
    BY <1>1, ConfirmStep, Zenon
  <1>2. ASSUME NEW req \in Requests, AcceptNew(req), UNCHANGED kafka
        PROVE  Abstract!AbsNext
    BY <1>2, EnqueueStep, Zenon
  <1>3. ASSUME UNCHANGED journalVars, kafka' # kafka PROVE Abstract!AbsNext
    <2>1. PICK e \in EventIds :
              /\ kafka' = Append(kafka, e)
              /\ e \in late \/ \E s \in Services : Busy(s) /\ call[s].event = e
      BY <1>3, TopicShapeHolds, Zenon DEF TopicShape
    <2>2. e \in DOMAIN stored_envelope
      BY <2>1, BusyType, UntouchedType, Zenon DEF BaseInv, TopicHasRows
    <2>3. Ready(e)
      BY <2>1, Zenon DEF OrderInv, TopicReady, CallsReady
    <2> QED
      BY <1>3, <2>1, <2>2, <2>3, PublishStep, Zenon
  <1>4. UNCHANGED journalVars => UNCHANGED <<stored_envelope, stream_head>>
    BY Zenon DEF journalVars, acceptVars
  <1> QED
    BY <1>1, <1>2, <1>3, <1>4, OneThingAtATime, Zenon

\* Journal, gates, services, crashes, faults and operators together implement
\* at-least-once publication in stream order with truthful confirmation, for
\* any number of services, events and streams.
THEOREM DeliveryImplementsStreamDelivery ==
    OrderedDeployment => (Spec => ImplementsStreamDelivery)
  <1> SUFFICES ASSUME OrderedDeployment PROVE Spec => ImplementsStreamDelivery
    OBVIOUS
  <1>1. BaseInv /\ OrderInv /\ QueueLists /\ QueueLists' /\ ConfirmedAtPosition'
            /\ [Next]_vars => [Abstract!AbsNext]_(Abstract!absVars)
    BY RefinementStep, Zenon
  <1> QED
    BY <1>1, RefinementInit, QueueListsHolds, ConfirmedAtPositionHolds, BaseInit, BaseStep,
       OrderInit, OrderStep, PTL
    DEF Spec, ImplementsStreamDelivery, Abstract!AbsSpec
=============================================================================
