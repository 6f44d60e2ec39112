---------------------------- MODULE DeliveryProofs ----------------------------
(***************************************************************************)
(* Safety of delivery for every number of services, events, streams and    *)
(* faults: what the rows, the gates, the attempts in progress and the      *)
(* topic know of each other.                                               *)
(*                                                                         *)
(* What is proved here holds of every deployment; the order of publication *)
(* needs a hypothesis and is proved in DeliveryOrderProofs.                *)
(***************************************************************************)
EXTENDS Delivery, JournalProofs, FiniteSetTheorems

-----------------------------------------------------------------------------
(* The least and the greatest element of a set of naturals.  The library     *)
(* states induction with an operator parameter; the set of counterexamples   *)
(* and the well-foundedness of < take its place here.                        *)

\* A nonempty set of naturals has a least element.
LEMMA NatMin ==
    ASSUME NEW S, S \subseteq Nat, S # {}
    PROVE  \E m \in S : \A n \in S : m <= n
  <1>1. PICK m \in S : \A n \in S : <<n, m>> \notin OpToRel(<, Nat)
    BY NatLessThanWellFounded, WFMin, Zenon
  <1>2. \A n \in S : ~(n < m)
    BY <1>1, Zenon DEF OpToRel
  <1> QED
    BY <1>2

HasGreatest(S) == \E m \in S : \A n \in S : n <= m

\* A nonempty finite set of naturals has a greatest element: otherwise take a
\* smallest one that has none, and remove an element.
LEMMA FiniteMax ==
    ASSUME NEW S, S \subseteq Nat, IsFiniteSet(S), S # {}
    PROVE  HasGreatest(S)
  <1> DEFINE Bad(U) == U # {} /\ ~HasGreatest(U)
             C == {n \in Nat : \E U \in SUBSET Nat :
                                  IsFiniteSet(U) /\ Cardinality(U) = n /\ Bad(U)}
  <1> SUFFICES ASSUME ~HasGreatest(S) PROVE FALSE
    OBVIOUS
  <1>1. Cardinality(S) \in C
    BY FS_CardinalityType, Zenon
  <1>2. PICK n \in C : \A k \in C : n <= k
    <2> HIDE DEF C
    <2>1. C \subseteq Nat
      BY Zenon DEF C
    <2> QED
      BY <1>1, <2>1, NatMin, Zenon
  <1>3. PICK U \in SUBSET Nat : IsFiniteSet(U) /\ Cardinality(U) = n /\ Bad(U)
    BY <1>2, Zenon
  <1>4. PICK x \in U : TRUE
    BY <1>3, Zenon
  <1> DEFINE V == U \ {x}
  <1>5. IsFiniteSet(V) /\ Cardinality(V) = n - 1
    BY <1>3, FS_RemoveElement, Zenon
  <1>6. V = {} \/ HasGreatest(V)
    <2> SUFFICES ASSUME Bad(V) PROVE FALSE
      OBVIOUS
    <2>1. Cardinality(V) \in C
      BY <1>5, FS_CardinalityType, Zenon
    <2> QED
      BY <1>2, <1>5, <2>1
  <1>7. HasGreatest(U)
    <2>1. CASE V = {}
      BY <1>4, <2>1 DEF HasGreatest
    <2>2. CASE HasGreatest(V)
      <3>1. PICK m \in V : \A k \in V : k <= m
        BY <2>2, Zenon DEF HasGreatest
      <3>2. CASE x <= m
        BY <3>1, <3>2, Zenon DEF HasGreatest
      <3>3. CASE m <= x
        <4>1. \A k \in U : k <= x
          BY <1>3, <1>4, <3>1, <3>3
        <4> QED
          BY <4>1, Zenon DEF HasGreatest
      <3> QED
        BY <3>1, <3>2, <3>3
    <2> QED
      BY <1>6, <2>1, <2>2, Zenon
  <1> QED
    BY <1>3, <1>7, Zenon

\* The values of a natural-valued function on a finite set.
LEMMA ImageMax ==
    ASSUME NEW S, IsFiniteSet(S), S # {}, NEW f \in [S -> Nat]
    PROVE  HasGreatest({f[x] : x \in S})
  <1> DEFINE T == {f[x] : x \in S}
  <1>1. f \in Surjection(S, T)
    BY Zenon DEF Surjection
  <1>2. IsFiniteSet(T)
    BY <1>1, FS_Surjection, Zenon
  <1> QED
    BY <1>2, FiniteMax, Zenon

-----------------------------------------------------------------------------
(* Types of the service side *)

Pcs == {"idle", "payload", "send", "confirm", "record", "retry", "block"}

Calls == [pc : Pcs, event : EventIds \cup {NoEvent}, revision : Nat,
          attempt_count : Nat, same_topic : BOOLEAN, position : Nat,
          error : {"none", "retriable", "final"}]

IsGate(g) == g \in [DOMAIN g -> StreamGateState]

ServiceTypeOK ==
    /\ gate = [s \in Services |-> gate[s]]
    /\ \A s \in Services : IsGate(gate[s])
    /\ profile \in [Services -> Routes]
    /\ call \in [Services -> Calls]
    /\ kafka \in Seq(EventIds)
    /\ late \subseteq EventIds
    /\ reported \subseteq EventIds

\* An attempt in progress holds an event that has a row, at a revision that is
\* the row's or older; while it is the row's, the row is still undecided.  An
\* acknowledged position holds the event unless the ack names another topic.
CallOK(c) ==
    /\ c.pc = "idle" <=> c.event = NoEvent
    /\ c.pc # "idle" =>
          /\ c.event \in DOMAIN delivery_state
          /\ c.revision <= delivery_state[c.event].revision
          /\ c.revision = delivery_state[c.event].revision =>
                Status(c.event) \in {"DELIVERY_PENDING", "DELIVERY_RETRYING"}
    /\ c.pc = "confirm" =>
          /\ c.position # 0
          /\ c.same_topic => c.position \in DOMAIN kafka /\ kafka[c.position] = c.event

CallsOK == \A s \in Services : CallOK(call[s])

\* What is in the topic, or may still get there, has a row.
TopicHasRows ==
    /\ late \subseteq DOMAIN delivery_state
    /\ \A i \in DOMAIN kafka : kafka[i] \in DOMAIN delivery_state

BaseInv ==
    /\ TypeInv /\ StreamInv /\ ReplicatedIsConfirmed
    /\ ServiceTypeOK /\ CallsOK /\ TopicHasRows

-----------------------------------------------------------------------------
(* The ordering gate.  An operation changes the entry of one key; the entry  *)
(* of a key the gate has never seen is the fresh one.                        *)

\* An entry, known or fresh, is a gate state.
LEMMA EntryType ==
    ASSUME NEW g, IsGate(g), NEW k
    PROVE  Entry(g, k) \in StreamGateState
  BY Zenon DEF IsGate, Entry, FreshState, StreamGateState

\* Setting the entry of a key changes that entry only.
LEMMA SetEntryEffect ==
    ASSUME NEW g, IsGate(g), NEW key, NEW st \in StreamGateState
    PROVE  /\ IsGate(SetEntry(g, key, st))
           /\ Entry(SetEntry(g, key, st), key) = st
           /\ \A k : k # key => Entry(SetEntry(g, key, st), k) = Entry(g, k)
  BY Zenon DEF IsGate, SetEntry, Entry

\* The fields each operation leaves in the entry of its key.
LEMMA MarkEffect ==
    ASSUME NEW g, IsGate(g), NEW key, NEW seq \in Nat
    PROVE  /\ IsGate(mark_in_flight(g, key, seq))
           /\ Entry(mark_in_flight(g, key, seq), key).highest_completed
                = Entry(g, key).highest_completed
           /\ Entry(mark_in_flight(g, key, seq), key).blocking = 0
           /\ \A k : k # key => Entry(mark_in_flight(g, key, seq), k) = Entry(g, k)
           /\ IsGate(mark_blocking(g, key, seq))
           /\ Entry(mark_blocking(g, key, seq), key).highest_completed
                = Entry(g, key).highest_completed
           /\ Entry(mark_blocking(g, key, seq), key).blocking = seq
           /\ \A k : k # key => Entry(mark_blocking(g, key, seq), k) = Entry(g, k)
           /\ IsGate(mark_completed(g, key, seq))
           /\ Entry(mark_completed(g, key, seq), key).highest_completed = seq
           /\ Entry(mark_completed(g, key, seq), key).blocking \in {0, Entry(g, key).blocking}
           /\ \A k : k # key => Entry(mark_completed(g, key, seq), k) = Entry(g, k)
  <1> DEFINE old == Entry(g, key)
             f == [old EXCEPT !.in_flight = seq, !.blocking = 0]
             b == [old EXCEPT !.in_flight = Cleared(@, seq), !.blocking = seq]
             c == [old EXCEPT !.highest_completed = seq, !.in_flight = Cleared(@, seq),
                              !.blocking = Cleared(@, seq)]
  <1>1. old \in StreamGateState
    BY EntryType, Zenon
  <1>2. f \in StreamGateState /\ f.highest_completed = old.highest_completed /\ f.blocking = 0
    BY <1>1, Zenon DEF StreamGateState
  <1>3. b \in StreamGateState /\ b.highest_completed = old.highest_completed /\ b.blocking = seq
    BY <1>1, Zenon DEF StreamGateState, Cleared
  <1>4. /\ c \in StreamGateState /\ c.highest_completed = seq
        /\ c.blocking \in {0, old.blocking}
    BY <1>1, Zenon DEF StreamGateState, Cleared
  <1> HIDE DEF f, b, c
  <1>5. /\ mark_in_flight(g, key, seq) = SetEntry(g, key, f)
        /\ mark_blocking(g, key, seq) = SetEntry(g, key, b)
        /\ mark_completed(g, key, seq) = SetEntry(g, key, c)
    BY Zenon DEF mark_in_flight, mark_blocking, mark_completed, f, b, c
  <1> QED
    BY <1>2, <1>3, <1>4, <1>5, SetEntryEffect

\* MaxOrZero and MinOrZero answer 0 or a greatest or least element.
LEMMA MaxMinOrZero ==
    ASSUME NEW S, IsFiniteSet(S), NEW f \in [S -> Nat]
    PROVE  LET T == {f[x] : x \in S}
           IN  /\ MaxOrZero(T) \in Nat /\ MinOrZero(T) \in Nat
               /\ MaxOrZero(T) # 0 => \E x \in S : MaxOrZero(T) = f[x]
               /\ MinOrZero(T) # 0 => /\ \E x \in S : MinOrZero(T) = f[x]
                                      /\ \A x \in S : MinOrZero(T) <= f[x]
  <1> DEFINE T == {f[x] : x \in S}
  <1>1. CASE S = {}
    BY <1>1, Zenon DEF MaxOrZero, MinOrZero
  <1>2. CASE S # {}
    <2>1. T # {} /\ T \subseteq Nat
      BY <1>2, Zenon
    <2>2. HasGreatest(T)
      BY <1>2, ImageMax, Zenon
    <2>3. \E m \in T : \A n \in T : m <= n
      BY <2>1, NatMin, Zenon
    <2>4. MaxOrZero(T) \in T
      BY <2>1, <2>2, Zenon DEF HasGreatest, MaxOrZero
    <2>5. MinOrZero(T) \in T /\ \A n \in T : MinOrZero(T) <= n
      <3> HIDE DEF T
      <3> QED
        BY <2>1, <2>3, Zenon DEF MinOrZero
    <2> QED
      BY <2>1, <2>4, <2>5, Zenon
  <1> QED
    BY <1>1, <1>2, Zenon

\* The record recover passes to the gate for the row of an event.
ScanState(e) ==
    [key |-> KeyOf(e), seq |-> SeqOf(e), replicated |-> Status(e) = "REPLICATED"]

\* A rebuilt entry completes the sequence of a REPLICATED row it scanned and
\* blocks at the first row it scanned that is not.
LEMMA RecoveredEntry ==
    ASSUME TypeInv, NEW E \in SUBSET DOMAIN delivery_state
    PROVE  LET g == recover_from_scan({ScanState(e) : e \in E})
           IN  /\ IsGate(g)
               /\ \A k :
                    /\ Entry(g, k).highest_completed # 0 =>
                          \E e \in E : /\ KeyOf(e) = k /\ Status(e) = "REPLICATED"
                                       /\ SeqOf(e) = Entry(g, k).highest_completed
                    /\ Entry(g, k).blocking # 0 =>
                          /\ \E e \in E : /\ KeyOf(e) = k /\ Status(e) # "REPLICATED"
                                          /\ SeqOf(e) = Entry(g, k).blocking
                          /\ \A e \in E : KeyOf(e) = k /\ Status(e) # "REPLICATED"
                                          => Entry(g, k).blocking <= SeqOf(e)
  <1> DEFINE states == {ScanState(e) : e \in E}
             g == recover_from_scan(states)
             Done(k) == {e \in E : KeyOf(e) = k /\ Status(e) = "REPLICATED"}
             Open(k) == {e \in E : KeyOf(e) = k /\ Status(e) # "REPLICATED"}
             SeqsOf(P) == {SeqOf(e) : e \in P}
             Seqs(k, b) == {r.seq : r \in {x \in states : x.key = k /\ x.replicated = b}}
  <1>1. \A e \in E : SeqOf(e) \in Nat
    BY Zenon DEF TypeInv, JournalTypeOK, Envelope, SeqOf
  <1>2. \A e : /\ ScanState(e).key = KeyOf(e) /\ ScanState(e).seq = SeqOf(e)
               /\ ScanState(e).replicated = TRUE <=> Status(e) = "REPLICATED"
               /\ ScanState(e).replicated = FALSE <=> Status(e) # "REPLICATED"
    BY Zenon DEF ScanState
  <1>3. ASSUME NEW P \in SUBSET E
        PROVE  /\ MaxOrZero(SeqsOf(P)) \in Nat /\ MinOrZero(SeqsOf(P)) \in Nat
               /\ MaxOrZero(SeqsOf(P)) # 0 => \E e \in P : MaxOrZero(SeqsOf(P)) = SeqOf(e)
               /\ MinOrZero(SeqsOf(P)) # 0 =>
                     /\ \E e \in P : MinOrZero(SeqsOf(P)) = SeqOf(e)
                     /\ \A e \in P : MinOrZero(SeqsOf(P)) <= SeqOf(e)
    <2> DEFINE f == [e \in P |-> SeqOf(e)]
               T == {f[x] : x \in P}
    <2>1. IsFiniteSet(P)
      <3>1. P \in SUBSET EventIds
        BY UntouchedType, Zenon
      <3> QED
        BY <3>1, JournalConstants, FS_Subset, Zenon
    <2>2. f \in [P -> Nat]
      BY <1>1, Zenon
    <2>3. SeqsOf(P) = T
      OBVIOUS
    <2>4. \A e \in P : f[e] = SeqOf(e)
      OBVIOUS
    <2>5. /\ MaxOrZero(T) \in Nat /\ MinOrZero(T) \in Nat
          /\ MaxOrZero(T) # 0 => \E x \in P : MaxOrZero(T) = f[x]
          /\ MinOrZero(T) # 0 => /\ \E x \in P : MinOrZero(T) = f[x]
                                 /\ \A x \in P : MinOrZero(T) <= f[x]
      <3> HIDE DEF f
      <3> QED
        BY <2>1, <2>2, MaxMinOrZero, Zenon
    <2> HIDE DEF f, T, SeqsOf
    <2> QED
      BY <2>3, <2>4, <2>5, Zenon
  <1>4. \A k : /\ Seqs(k, TRUE) = SeqsOf(Done(k))
               /\ Seqs(k, FALSE) = SeqsOf(Open(k))
    BY <1>2, Zenon
  <1>5. /\ DOMAIN g = {r.key : r \in states}
        /\ \A k \in DOMAIN g : g[k] = [highest_completed |-> MaxOrZero(Seqs(k, TRUE)),
                                     in_flight |-> 0,
                                     blocking |-> MinOrZero(Seqs(k, FALSE))]
        /\ g = [k \in DOMAIN g |-> g[k]]
    BY Zenon DEF recover_from_scan
  <1> HIDE DEF states, Seqs, SeqsOf, Done, Open, g
  <1>6. \A k \in DOMAIN g : /\ g[k] \in StreamGateState
                            /\ g[k].highest_completed = MaxOrZero(SeqsOf(Done(k)))
                            /\ g[k].blocking = MinOrZero(SeqsOf(Open(k)))
    <2> TAKE k \in DOMAIN g
    <2>1. Done(k) \in SUBSET E /\ Open(k) \in SUBSET E
      BY Zenon DEF Done, Open
    <2>2. /\ MaxOrZero(SeqsOf(Done(k))) \in Nat
          /\ MinOrZero(SeqsOf(Open(k))) \in Nat
      BY <1>3, <2>1, Zenon
    <2>3. g[k] = [highest_completed |-> MaxOrZero(SeqsOf(Done(k))), in_flight |-> 0,
                  blocking |-> MinOrZero(SeqsOf(Open(k)))]
      BY <1>4, <1>5, Zenon
    <2> QED
      BY <2>2, <2>3 DEF StreamGateState
  <1>7. IsGate(g)
    BY <1>5, <1>6, Zenon DEF IsGate
  <1>8. ASSUME NEW k, Entry(g, k).highest_completed # 0
        PROVE  \E e \in E : /\ KeyOf(e) = k /\ Status(e) = "REPLICATED"
                            /\ SeqOf(e) = Entry(g, k).highest_completed
    <2>1. Done(k) \in SUBSET E
      BY Zenon DEF Done
    <2>2. k \in DOMAIN g /\ Entry(g, k) = g[k]
      BY <1>8, Zenon DEF Entry, FreshState
    <2>3. MaxOrZero(SeqsOf(Done(k))) # 0
      BY <1>6, <1>8, <2>2, Zenon
    <2>4. \E e \in Done(k) : MaxOrZero(SeqsOf(Done(k))) = SeqOf(e)
      BY <1>3, <2>1, <2>3, Zenon
    <2> QED
      BY <1>6, <2>2, <2>4, Zenon DEF Done
  <1>9. ASSUME NEW k, Entry(g, k).blocking # 0
        PROVE  /\ \E e \in E : /\ KeyOf(e) = k /\ Status(e) # "REPLICATED"
                               /\ SeqOf(e) = Entry(g, k).blocking
               /\ \A e \in E : KeyOf(e) = k /\ Status(e) # "REPLICATED"
                               => Entry(g, k).blocking <= SeqOf(e)
    <2>1. Open(k) \in SUBSET E
      BY Zenon DEF Open
    <2>2. k \in DOMAIN g /\ Entry(g, k) = g[k]
      BY <1>9, Zenon DEF Entry, FreshState
    <2>3. MinOrZero(SeqsOf(Open(k))) # 0
      BY <1>6, <1>9, <2>2, Zenon
    <2>4. /\ \E e \in Open(k) : MinOrZero(SeqsOf(Open(k))) = SeqOf(e)
          /\ \A e \in Open(k) : MinOrZero(SeqsOf(Open(k))) <= SeqOf(e)
      BY <1>3, <2>1, <2>3, Zenon
    <2> QED
      BY <1>6, <2>2, <2>4, Zenon DEF Open
  <1> QED
    BY <1>7, <1>8, <1>9, Zenon DEF g, states

-----------------------------------------------------------------------------
(* What a step does to each part of the state.  Every action of Next is one   *)
(* of these shapes; the invariants are shown to survive the shapes.          *)

\* The journal calls of a delivery deployment: nobody updates the lifecycle
\* on its own.
JournalShape ==
    \/ UNCHANGED journalVars
    \/ \E req \in Requests : accept(req)
    \/ \E e \in EventIds : RowStep(e)

\* An attempt in progress, as the proofs see it.
Busy(s) == call[s].pc # "idle"

\* The event of an attempt in progress has its rows and its envelope.
LEMMA BusyType ==
    ASSUME BaseInv, NEW s \in Services
    PROVE  /\ call[s] \in Calls
           /\ Busy(s) => /\ call[s].event \in DOMAIN delivery_state
                         /\ call[s].event \in DOMAIN stored_envelope
                         /\ call[s].event \in EventIds
  <1>1. call[s] \in Calls
    BY Zenon DEF BaseInv, ServiceTypeOK
  <1>2. Busy(s) => call[s].event \in DOMAIN delivery_state
    BY Zenon DEF BaseInv, CallsOK, CallOK, Busy
  <1>3. /\ DOMAIN delivery_state \subseteq DOMAIN stored_envelope
        /\ DOMAIN stored_envelope \subseteq EventIds
    BY UntouchedType, Zenon DEF BaseInv
  <1> QED
    BY <1>1, <1>2, <1>3, Zenon

\* Every step does one operation of the journal or none.
LEMMA JournalShapeHolds ==
    ASSUME BaseInv, [Next]_vars
    PROVE  JournalShape
  <1>0. /\ delivery_state \in [DOMAIN delivery_state -> DeliveryRow]
        /\ profile \in [Services -> Routes]
    BY UntouchedType, Zenon DEF BaseInv, ServiceTypeOK
  <1>1. CASE UNCHANGED vars
    BY <1>1, Zenon DEF vars, JournalShape
  <1>2. CASE AcceptEvent
    BY <1>2, Zenon DEF AcceptEvent, JournalShape
  <1>3. ASSUME NEW e \in EventIds, NEW route \in Routes, CreatePending(e, route)
        PROVE  JournalShape
    BY <1>3, Zenon DEF CreatePending, RowStep, JournalShape
  <1>4. ASSUME NEW e \in EventIds, OperatorBlock(e) \/ OperatorRepair(e)
        PROVE  JournalShape
    <2>1. e \in DOMAIN delivery_state
      BY <1>4, Zenon DEF OperatorBlock, OperatorRepair
    <2>2. delivery_state[e].revision \in Nat
      BY <1>0, <2>1, Zenon DEF DeliveryRow
    <2> QED
      BY <1>4, <2>2, Zenon DEF OperatorBlock, OperatorRepair, RowStep, JournalShape
  <1>5. ASSUME NEW e \in EventIds, LateAppend(e) PROVE JournalShape
    BY <1>5, Zenon DEF LateAppend, JournalShape
  <1>6. ASSUME NEW s \in Services, Attempt(s) PROVE JournalShape
    <2>1. call[s] \in Calls
      BY BusyType, Zenon
    <2>2. call[s].pc \in {"confirm", "record", "retry", "block"} => call[s].event \in EventIds
      BY BusyType, Zenon DEF Busy
    <2>3. CASE Confirm(s)
      <3> DEFINE c == call[s]
      <3>1. c.pc = "confirm"
        BY <2>3, Zenon DEF Confirm
      <3>2. c.position \in Nat \ {0} /\ c.revision \in Nat /\ c.same_topic \in BOOLEAN
        BY <2>1, <3>1, Zenon DEF BaseInv, CallsOK, CallOK, Calls
      <3>3. \/ confirm_replicated_delivery(c.event, c.revision, profile[s],
                                            c.same_topic, c.position)
            \/ UNCHANGED journalVars
        BY <2>3, Zenon DEF Confirm
      <3> QED
        BY <1>0, <2>2, <3>1, <3>2, <3>3, Zenon DEF RowStep, JournalShape
    <2>4. CASE RecordAttempt(s)
      BY <2>2, <2>4, Zenon DEF RecordAttempt, RowStep, JournalShape
    <2>5. CASE PersistRetry(s) \/ PersistBlock(s)
      <3>1. call[s].revision \in Nat
        BY <2>1, Zenon DEF Calls
      <3> QED
        BY <2>2, <2>5, <3>1, Zenon DEF PersistRetry, PersistBlock, RowStep, JournalShape
    <2>6. ASSUME UNCHANGED journalVars PROVE JournalShape
      BY <2>6, Zenon DEF JournalShape
    <2> QED
      BY <1>6, <2>3, <2>4, <2>5, <2>6, Zenon DEF Attempt, AttemptReplicated, AttemptBlocked,
         AttemptOpen, ReadPayload, ReadPayloadFails, SendAcked, SendMisdirected, SendFailed,
         SendTimedOut, ConfirmFails, RecordAttemptFails, PersistFails
  <1>7. ASSUME NEW s \in Services, recover(s) \/ Crash(s) PROVE JournalShape
    BY <1>7, Zenon DEF recover, Crash, JournalShape
  <1> QED
    BY <1>1, <1>2, <1>3, <1>4, <1>5, <1>6, <1>7, Zenon DEF Next, Environment

\* So every theorem about the steps of the journal applies.
LEMMA NextIsJournalStep ==
    ASSUME BaseInv, [Next]_vars
    PROVE  [JournalStep]_journalVars
  BY JournalShapeHolds, Zenon DEF JournalShape, JournalStep

\* A row keeps its status at its revision and moves to the next otherwise.
RowsAdvance ==
    \A e \in DOMAIN delivery_state :
        /\ e \in DOMAIN delivery_state'
        /\ \/ /\ delivery_state'[e].revision = delivery_state[e].revision
              /\ delivery_state'[e].status = delivery_state[e].status
           \/ delivery_state'[e].revision = delivery_state[e].revision + 1

\* Each of those operations advances the revision of the row it changes.
LEMMA RowsAdvanceHolds ==
    ASSUME TypeInv, JournalShape
    PROVE  RowsAdvance
  <1>0. delivery_state \in [DOMAIN delivery_state -> DeliveryRow]
    BY UntouchedType, Zenon
  <1>1. CASE UNCHANGED delivery_state
    BY <1>1, Zenon DEF RowsAdvance
  <1>2. ASSUME NEW e \in EventIds, RowStep(e) PROVE RowsAdvance
    <2>1. ASSUME NEW route \in Routes, create_delivery_pending(e, route) PROVE RowsAdvance
      BY <2>1, Zenon DEF create_delivery_pending, Put, RowsAdvance
    <2>2. CASE record_delivery_attempt(e)
      BY <1>0, <2>2, Zenon DEF record_delivery_attempt, DeliveryFound, DeliveryRow, RowsAdvance
    <2>3. ASSUME NEW row, row.revision = delivery_state[e].revision + 1,
                 delivery_state' = [delivery_state EXCEPT ![e] = row]
          PROVE  RowsAdvance
      BY <1>0, <2>3, Zenon DEF RowsAdvance
    <2> QED
      BY <1>2, <2>1, <2>2, <2>3, Zenon DEF RowStep, confirm_replicated_delivery, block_delivery,
         update_delivery_retry, ConfirmedRow, BlockedRow, RetryingRow
  <1> QED
    BY <1>1, <1>2, Zenon DEF JournalShape, journalVars, deliveryVars, accept, AcceptNew,
       AcceptAuditOnly

\* The topic grows by one record of an attempt in progress or of a send that
\* timed out, and only an attempt in progress times out.
TopicShape ==
    /\ \/ kafka' = kafka
       \/ \E e \in EventIds :
             /\ kafka' = Append(kafka, e)
             /\ e \in late \/ \E s \in Services : Busy(s) /\ call[s].event = e
    /\ \A e \in late' : e \in late \/ \E s \in Services : Busy(s) /\ call[s].event = e

\* Every step has this effect on the topic.
LEMMA TopicShapeHolds ==
    ASSUME BaseInv, [Next]_vars
    PROVE  TopicShape
  <1>1. ASSUME UNCHANGED <<kafka, late>> PROVE TopicShape
    BY <1>1, Zenon DEF TopicShape
  <1>2. ASSUME NEW e \in EventIds, LateAppend(e) PROVE TopicShape
    BY <1>2, Zenon DEF LateAppend, TopicShape
  <1>3. ASSUME NEW s \in Services, SendAcked(s) \/ SendTimedOut(s) PROVE TopicShape
    <2>1. Busy(s)
      BY <1>3, Zenon DEF SendAcked, SendTimedOut, Busy
    <2>2. call[s].event \in EventIds
      BY <2>1, BusyType, Zenon
    <2> QED
      BY <1>3, <2>1, <2>2, Zenon DEF SendAcked, SendTimedOut, TopicShape
  <1>4. ASSUME NEW s \in Services, Attempt(s) PROVE TopicShape
    BY <1>1, <1>3, <1>4, Zenon DEF Attempt, AttemptReplicated, AttemptBlocked, AttemptOpen,
       ReadPayload, ReadPayloadFails, SendMisdirected, SendFailed, Confirm, ConfirmFails,
       RecordAttempt, RecordAttemptFails, PersistRetry, PersistBlock, PersistFails
  <1>5. ASSUME NEW s \in Services, recover(s) \/ Crash(s) PROVE TopicShape
    BY <1>1, <1>5, Zenon DEF recover, Crash
  <1> QED
    BY <1>1, <1>2, <1>4, <1>5, Zenon DEF Next, Environment, vars, serviceVars, AcceptEvent,
       CreatePending, OperatorBlock, OperatorRepair

\* The records of the topic stay where they are.
LEMMA TopicGrows ==
    ASSUME BaseInv, TopicShape
    PROVE  /\ kafka' \in Seq(EventIds)
           /\ \A i \in DOMAIN kafka : i \in DOMAIN kafka' /\ kafka'[i] = kafka[i]
           /\ \A i \in DOMAIN kafka' \ DOMAIN kafka :
                 /\ i = Len(kafka) + 1
                 /\ \/ kafka'[i] \in late
                    \/ \E s \in Services : Busy(s) /\ call[s].event = kafka'[i]
  <1>1. kafka \in Seq(EventIds)
    BY Zenon DEF BaseInv, ServiceTypeOK
  <1> QED
    BY <1>1 DEF TopicShape

\* A call ends, begins with a row the gate admits, or goes on with its event
\* and revision; a send answers with the position of the record it appended
\* or with another topic.
CallGoesOn(s, c) ==
    /\ Busy(s) /\ c.pc # "idle"
    /\ call' = [call EXCEPT ![s] = c]
    /\ c.event = call[s].event /\ c.revision = call[s].revision
    /\ c.pc = "confirm" =>
          /\ c.position # 0
          /\ c.same_topic => /\ kafka' = Append(kafka, c.event)
                             /\ c.position = Len(kafka')

CallShape ==
    \/ call' = call
    \/ \E s \in Services :
          \/ Return(s)
          \/ \E e \in EventIds : AttemptOpen(s, e)
          \/ \E c \in Calls : CallGoesOn(s, c)

\* Every step has this effect on the attempts.
LEMMA CallShapeHolds ==
    ASSUME BaseInv, [Next]_vars
    PROVE  CallShape
  <1>0. call \in [Services -> Calls]
    BY Zenon DEF BaseInv, ServiceTypeOK
  <1>1. ASSUME UNCHANGED call PROVE CallShape
    BY <1>1, Zenon DEF CallShape
  <1>2. ASSUME NEW s \in Services, Return(s) PROVE CallShape
    BY <1>2, Zenon DEF CallShape
  <1>3. ASSUME NEW s \in Services, NEW pc \in Pcs \ {"idle", "confirm"}, Busy(s), Goto(s, pc)
        PROVE  CallShape
    <2> DEFINE c == [call[s] EXCEPT !.pc = pc]
    <2>1. /\ c \in Calls /\ c.pc = pc /\ c.event = call[s].event
          /\ c.revision = call[s].revision
      BY <1>0, Zenon DEF Calls
    <2>2. call' = [call EXCEPT ![s] = c]
      BY <1>0, <1>3, Zenon DEF Goto
    <2> QED
      BY <1>3, <2>1, <2>2, Zenon DEF CallShape, CallGoesOn
  <1>4. ASSUME NEW s \in Services, NEW error \in {"retriable", "final"}, Busy(s),
               call' = [call EXCEPT ![s].pc = "record", ![s].error = error]
        PROVE  CallShape
    <2> DEFINE c == [call[s] EXCEPT !.pc = "record", !.error = error]
    <2>1. /\ c \in Calls /\ c.pc = "record" /\ c.event = call[s].event
          /\ c.revision = call[s].revision
      BY <1>0, ZenonT(40) DEF Calls, Pcs
    <2>2. call' = [call EXCEPT ![s] = c]
      BY <1>0, <1>4, Zenon
    <2> QED
      BY <1>4, <2>1, <2>2, Zenon DEF CallShape, CallGoesOn
  <1>5. ASSUME NEW s \in Services, SendAcked(s) PROVE CallShape
    <2> DEFINE c == [call[s] EXCEPT !.pc = "confirm", !.position = Len(kafka')]
    <2>1. /\ Busy(s) /\ kafka \in Seq(EventIds) /\ kafka' = Append(kafka, call[s].event)
          /\ call[s].event \in EventIds
      BY <1>5, BusyType, Zenon DEF BaseInv, ServiceTypeOK, SendAcked, Busy
    <2>2. Len(kafka') \in Nat \ {0}
      BY <2>1
    <2>3. /\ c \in Calls /\ c.pc = "confirm" /\ c.event = call[s].event
          /\ c.revision = call[s].revision /\ c.position = Len(kafka')
      BY <1>0, <2>2, Zenon DEF Calls, Pcs
    <2>4. call' = [call EXCEPT ![s] = c]
      BY <1>0, <1>5, Zenon DEF SendAcked
    <2> QED
      BY <2>1, <2>2, <2>3, <2>4, Zenon DEF CallShape, CallGoesOn
  <1>6. ASSUME NEW s \in Services, SendMisdirected(s) PROVE CallShape
    <2> DEFINE c == [call[s] EXCEPT !.pc = "confirm", !.position = 1, !.same_topic = FALSE]
    <2>1. Busy(s)
      BY <1>6, Zenon DEF SendMisdirected, Busy
    <2>2. /\ c \in Calls /\ c.pc = "confirm" /\ c.event = call[s].event
          /\ c.revision = call[s].revision /\ c.position = 1 /\ c.same_topic = FALSE
      BY <1>0, Zenon DEF Calls, Pcs
    <2>3. call' = [call EXCEPT ![s] = c]
      BY <1>0, <1>6, Zenon DEF SendMisdirected
    <2> HIDE DEF c
    <2>4. c.position # 0
      BY <2>2
    <2>5. CallGoesOn(s, c)
      BY <2>1, <2>2, <2>3, <2>4, Zenon DEF CallGoesOn
    <2> QED
      BY <2>2, <2>5, Zenon DEF CallShape
  <1>7. ASSUME NEW s \in Services, Attempt(s) PROVE CallShape
    <2>1. ASSUME NEW e \in EventIds, AttemptOpen(s, e) PROVE CallShape
      BY <2>1, Zenon DEF CallShape
    <2>2. CASE ReadPayload(s) \/ RecordAttempt(s)
      BY <1>3, <2>2, Zenon DEF ReadPayload, RecordAttempt, Busy, Pcs
    <2>3. ASSUME NEW error \in {"retriable", "final"}, SendFailed(s, error) \/ SendTimedOut(s)
          PROVE  CallShape
      BY <1>4, <2>3, Zenon DEF SendFailed, SendTimedOut, Busy
    <2> QED
      BY <1>1, <1>2, <1>5, <1>6, <1>7, <2>1, <2>2, <2>3, ZenonT(40) DEF Attempt, AttemptReplicated,
         AttemptBlocked, ReadPayloadFails, Confirm, ConfirmFails, RecordAttemptFails,
         PersistRetry, PersistBlock, PersistFails
  <1>8. ASSUME NEW s \in Services, recover(s) \/ Crash(s) PROVE CallShape
    BY <1>1, <1>2, <1>8, Zenon DEF recover, Crash, Return
  <1> QED
    BY <1>1, <1>7, <1>8, Zenon DEF Next, Environment, vars, serviceVars, AcceptEvent,
       CreatePending, OperatorBlock, OperatorRepair, LateAppend

\* After a confirmation the row is REPLICATED; when it was not before, the
\* position is the one the ack named.
LEMMA ConfirmEffect ==
    ASSUME BaseInv, NEW s \in Services, Confirm(s), NEW e, e = call[s].event
    PROVE  /\ call[s].pc = "confirm" /\ e \in DOMAIN delivery_state
           /\ IsReplicated(e)'
           /\ ~IsReplicated(e) => /\ call[s].same_topic
                                 /\ delivery_state'[e].position = call[s].position
           /\ \A f : f # e /\ IsReplicated(f)' => IsReplicated(f)
  <1> DEFINE c == call[s]
             answer == ConfirmAnswer(e, c.revision, profile[s], c.same_topic, c.position)
  <1>1. c.pc = "confirm" /\ answer \in {"Updated", "AlreadyConfirmed"}
    BY Zenon DEF Confirm
  <1>2. e \in DOMAIN delivery_state
    BY <1>1, BusyType, Zenon DEF Busy
  <1>3. delivery_state \in [DOMAIN delivery_state -> DeliveryRow]
    BY UntouchedType, Zenon DEF BaseInv
  <1>4. CASE answer = "Updated"
    <2>1. confirm_replicated_delivery(e, c.revision, profile[s], c.same_topic, c.position)
      BY <1>4, Zenon DEF Confirm
    <2>2. c.same_topic
      BY <1>4, BusyType, Zenon DEF ConfirmAnswer, Calls
    <2>3. delivery_state' = [delivery_state EXCEPT ![e] =
                                ConfirmedRow(delivery_state[e], c.position)]
      BY <2>1, Zenon DEF confirm_replicated_delivery
    <2> QED
      BY <1>1, <1>2, <1>3, <2>2, <2>3, Zenon DEF ConfirmedRow, IsReplicated, Status
  <1>5. CASE answer = "AlreadyConfirmed"
    <2>1. UNCHANGED journalVars
      BY <1>5, Zenon DEF Confirm
    <2>2. Status(e) = "REPLICATED"
      BY <1>5, Zenon DEF ConfirmAnswer, Status
    <2> QED
      BY <1>1, <1>2, <2>1, <2>2, Zenon DEF IsReplicated, Status, journalVars, deliveryVars
  <1> QED
    BY <1>1, <1>4, <1>5, Zenon

\* A gate changes by one of its own operations, about an event that has a row:
\* one the service is attempting or was just admitted, or a confirmed one.
GateShape ==
    \/ gate' = gate
    \/ \E s \in Services :
          \/ gate' = [gate EXCEPT ![s] = EmptyGate]
          \/ gate' = [gate EXCEPT ![s] =
                        recover_from_scan({ScanState(e) : e \in GateScan(ScanLimit)})]
          \/ \E e \in DOMAIN delivery_state :
                \/ MarkInFlight(s, e)
                \/ MarkBlocking(s, e) /\ (call[s].event = e \/ Admitted(s, e))
                \/ MarkCompleted(s, e) /\ IsReplicated(e)'

\* Every step has this effect on the gates.
LEMMA GateShapeHolds ==
    ASSUME BaseInv, [Next]_vars
    PROVE  GateShape
  <1>1. ASSUME UNCHANGED gate PROVE GateShape
    BY <1>1, Zenon DEF GateShape
  <1>2. ASSUME NEW s \in Services, Busy(s),
               MarkInFlight(s, call[s].event) \/ MarkBlocking(s, call[s].event)
        PROVE  GateShape
    BY <1>2, BusyType, Zenon DEF GateShape
  <1>3. ASSUME NEW s \in Services, Confirm(s) PROVE GateShape
    BY <1>3, ConfirmEffect, Zenon DEF Confirm, GateShape
  <1>4. ASSUME NEW s \in Services, NEW e \in EventIds, AttemptReplicated(s, e)
        PROVE  GateShape
    <2>1. e \in DOMAIN delivery_state /\ IsReplicated(e)'
      BY <1>4, Zenon DEF AttemptReplicated, Admitted, CandidateFound, DeliveryFound, Status,
         IsReplicated, journalVars, deliveryVars
    <2> QED
      BY <1>4, <2>1, Zenon DEF AttemptReplicated, GateShape
  <1>5. ASSUME NEW s \in Services, NEW e \in EventIds, AttemptBlocked(s, e)
        PROVE  GateShape
    BY <1>5, Zenon DEF AttemptBlocked, Admitted, CandidateFound, DeliveryFound, GateShape
  <1>6. ASSUME NEW s \in Services, Attempt(s) PROVE GateShape
    BY <1>1, <1>2, <1>3, <1>4, <1>5, <1>6, Zenon DEF Attempt, AttemptOpen, ReadPayload,
       ReadPayloadFails, SendAcked, SendMisdirected, SendFailed, SendTimedOut, ConfirmFails,
       RecordAttempt, RecordAttemptFails, PersistRetry, PersistBlock, PersistFails, Busy
  <1>7. ASSUME NEW s \in Services, recover(s) PROVE GateShape
    BY <1>7, Zenon DEF recover, ScanState, GateShape
  <1>8. ASSUME NEW s \in Services, Crash(s) PROVE GateShape
    BY <1>8, Zenon DEF Crash, GateShape
  <1> QED
    BY <1>1, <1>6, <1>7, <1>8, Zenon DEF Next, Environment, vars, serviceVars, AcceptEvent,
       CreatePending, OperatorBlock, OperatorRepair, LateAppend

\* Only a confirmed event is reported.
ReportShape ==
    \A e \in reported' : e \in reported \/ (e \in DOMAIN delivery_state /\ IsReplicated(e)')

\* Every step has this effect on the reports.
LEMMA ReportShapeHolds ==
    ASSUME BaseInv, [Next]_vars
    PROVE  ReportShape
  <1>1. ASSUME UNCHANGED reported PROVE ReportShape
    BY <1>1, Zenon DEF ReportShape
  <1>2. ASSUME NEW s \in Services, Confirm(s) PROVE ReportShape
    BY <1>2, ConfirmEffect, Zenon DEF Confirm, ReportShape
  <1>3. ASSUME NEW s \in Services, NEW e \in EventIds, AttemptReplicated(s, e)
        PROVE  ReportShape
    BY <1>3, Zenon DEF AttemptReplicated, Admitted, CandidateFound, DeliveryFound, Status,
       IsReplicated, journalVars, deliveryVars, ReportShape
  <1>4. ASSUME NEW s \in Services, Attempt(s) PROVE ReportShape
    BY <1>1, <1>2, <1>3, <1>4, Zenon DEF Attempt, AttemptBlocked, AttemptOpen, ReadPayload,
       ReadPayloadFails, SendAcked, SendMisdirected, SendFailed, SendTimedOut, ConfirmFails,
       RecordAttempt, RecordAttemptFails, PersistRetry, PersistBlock, PersistFails
  <1> QED
    BY <1>1, <1>4, Zenon DEF Next, Environment, vars, serviceVars, AcceptEvent, CreatePending,
       OperatorBlock, OperatorRepair, LateAppend, recover, Crash

\* Only an undecided row is decided by an attempt or an operator's block, only
\* the repair reopens a blocked one, and only Confirm replicates an event.
StatusShape ==
    /\ \A e \in DOMAIN delivery_state :
          \/ delivery_state'[e].status = Status(e)
          \/ /\ Status(e) \in {"DELIVERY_PENDING", "DELIVERY_RETRYING"}
             /\ delivery_state'[e].status
                   \in {"DELIVERY_RETRYING", "DELIVERY_BLOCKED", "REPLICATED"}
          \/ OperatorRepair(e)
    /\ \A e : \/ IsReplicated(e)' => IsReplicated(e)
             \/ \E s \in Services : Confirm(s) /\ call[s].event = e

\* Every step has this effect on the statuses.
LEMMA StatusShapeHolds ==
    ASSUME BaseInv, [Next]_vars
    PROVE  StatusShape
  <1>0. /\ delivery_state \in [DOMAIN delivery_state -> DeliveryRow]
        /\ \A s \in Services : CallOK(call[s])
    BY UntouchedType, Zenon DEF BaseInv, CallsOK
  <1>1. ASSUME UNCHANGED delivery_state PROVE StatusShape
    BY <1>1, Zenon DEF StatusShape, IsReplicated, Status
  <1>2. ASSUME NEW e, NEW expected,
               block_delivery(e, expected) \/ update_delivery_retry(e, expected),
               \/ Status(e) \in {"DELIVERY_PENDING", "DELIVERY_RETRYING"}
               \/ OperatorRepair(e)
        PROVE  StatusShape
    <2>1. e \in DOMAIN delivery_state
      BY <1>2, Zenon DEF block_delivery, update_delivery_retry, CanTransition, DeliveryFound
    <2>2. /\ DOMAIN delivery_state' = DOMAIN delivery_state
          /\ delivery_state'[e].status \in {"DELIVERY_RETRYING", "DELIVERY_BLOCKED"}
          /\ \A f \in DOMAIN delivery_state :
                f # e => delivery_state'[f].status = Status(f)
      BY <1>0, <1>2, <2>1 DEF block_delivery, update_delivery_retry, BlockedRow, RetryingRow,
         Status
    <2>3. \A f : IsReplicated(f)' => IsReplicated(f)
      BY <2>2, Zenon DEF IsReplicated, Status
    <2> QED
      BY <1>2, <2>1, <2>2, <2>3, Zenon DEF StatusShape
  <1>3. ASSUME NEW e \in EventIds, NEW route \in Routes, CreatePending(e, route)
        PROVE  StatusShape
    BY <1>3, Zenon DEF CreatePending, create_delivery_pending, Put, StatusShape, IsReplicated, Status
  <1>4. ASSUME NEW e \in EventIds, OperatorBlock(e) \/ OperatorRepair(e)
        PROVE  StatusShape
    BY <1>2, <1>4, Zenon DEF OperatorBlock, OperatorRepair
  <1>5. ASSUME NEW s \in Services, RecordAttempt(s) PROVE StatusShape
    BY <1>0, <1>5, Zenon DEF RecordAttempt, record_delivery_attempt, DeliveryFound, DeliveryRow,
       StatusShape, IsReplicated, Status
  <1>6. ASSUME NEW s \in Services, PersistRetry(s) \/ PersistBlock(s) PROVE StatusShape
    <2>1. Status(call[s].event) \in {"DELIVERY_PENDING", "DELIVERY_RETRYING"}
      BY <1>0, <1>6, Zenon DEF PersistRetry, PersistBlock, update_delivery_retry, block_delivery,
         CanTransition, CallOK
    <2> QED
      BY <1>2, <1>6, <2>1, Zenon DEF PersistRetry, PersistBlock
  <1>7. ASSUME NEW s \in Services, Confirm(s) PROVE StatusShape
    <2> DEFINE c == call[s]
    <2>1. \A f : f # c.event /\ IsReplicated(f)' => IsReplicated(f)
      BY <1>7, ConfirmEffect, Zenon
    <2>2. CASE UNCHANGED journalVars
      BY <1>1, <2>2, Zenon DEF journalVars, deliveryVars
    <2>3. CASE confirm_replicated_delivery(c.event, c.revision, profile[s], c.same_topic,
                                           c.position)
      <3>1. /\ c.event \in DOMAIN delivery_state
            /\ Status(c.event) \in {"DELIVERY_PENDING", "DELIVERY_RETRYING"}
        BY <1>0, <1>7, <2>3, Zenon DEF Confirm, confirm_replicated_delivery, ConfirmAnswer,
           DeliveryFound, CallOK, Status
      <3>2. \A e \in DOMAIN delivery_state :
              delivery_state'[e].status = IF e = c.event THEN "REPLICATED" ELSE Status(e)
        BY <1>0, <2>3, <3>1, Zenon DEF confirm_replicated_delivery, ConfirmedRow, Status
      <3> QED
        BY <1>7, <2>1, <3>1, <3>2, Zenon DEF StatusShape
    <2> QED
      BY <1>7, <2>2, <2>3, Zenon DEF Confirm
  <1>8. ASSUME NEW s \in Services, Attempt(s) PROVE StatusShape
    BY <1>1, <1>5, <1>6, <1>7, <1>8, Zenon DEF Attempt, AttemptReplicated, AttemptBlocked,
       AttemptOpen, ReadPayload, ReadPayloadFails, SendAcked, SendMisdirected, SendFailed,
       SendTimedOut, ConfirmFails, RecordAttemptFails, PersistFails, journalVars, deliveryVars
  <1>9. CASE AcceptEvent
    BY <1>1, <1>9, Zenon DEF AcceptEvent, accept, AcceptNew, AcceptAuditOnly, deliveryVars
  <1> QED
    BY <1>1, <1>3, <1>4, <1>8, <1>9, Zenon DEF Next, Environment, vars, LateAppend, recover, Crash,
       journalVars, deliveryVars

-----------------------------------------------------------------------------
(* The base invariant *)

\* The base invariant holds of an empty journal and idle services.
LEMMA BaseInit == Init => BaseInv
  <1> SUFFICES ASSUME Init PROVE BaseInv
    OBVIOUS
  <1>1. TypeInv /\ StreamInv /\ ReplicatedIsConfirmed
    BY InitType, StreamInit, ReplicatedInit, Zenon DEF Init
  <1>2. \A s \in Services : call[s] = Idle
    BY Zenon DEF Init
  <1>3. Idle \in Calls
    BY Zenon DEF Idle, Calls, Pcs
  <1>4. IsGate(EmptyGate)
    BY Zenon DEF IsGate, EmptyGate
  <1>5. ServiceTypeOK
    BY <1>3, <1>4 DEF Init, ServiceTypeOK
  <1>6. CallsOK
    BY <1>2 DEF CallsOK, CallOK, Idle
  <1>7. TopicHasRows
    BY DEF Init, TopicHasRows
  <1> QED
    BY <1>1, <1>5, <1>6, <1>7, Zenon DEF BaseInv

\* The gates stay gates.
LEMMA GatesType ==
    ASSUME BaseInv, GateShape
    PROVE  /\ gate' = [s \in Services |-> gate'[s]]
           /\ \A s \in Services : IsGate(gate'[s])
  <1>0. /\ gate = [s \in Services |-> gate[s]]
        /\ \A s \in Services : IsGate(gate[s])
    BY Zenon DEF BaseInv, ServiceTypeOK
  <1>1. ASSUME NEW s \in Services, NEW g, IsGate(g), gate' = [gate EXCEPT ![s] = g]
        PROVE  /\ gate' = [t \in Services |-> gate'[t]]
               /\ \A t \in Services : IsGate(gate'[t])
    BY <1>0, <1>1, Zenon
  <1>2. IsGate(EmptyGate)
    BY Zenon DEF IsGate, EmptyGate
  <1>3. IsGate(recover_from_scan({ScanState(e) : e \in GateScan(ScanLimit)}))
    <2>1. GateScan(ScanLimit) \in SUBSET DOMAIN delivery_state
      BY Zenon DEF GateScan
    <2> QED
      BY <2>1, RecoveredEntry, Zenon DEF BaseInv
  <1>4. ASSUME NEW s \in Services, NEW e \in DOMAIN delivery_state
        PROVE  /\ IsGate(mark_in_flight(gate[s], KeyOf(e), SeqOf(e)))
               /\ IsGate(mark_blocking(gate[s], KeyOf(e), SeqOf(e)))
               /\ IsGate(mark_completed(gate[s], KeyOf(e), SeqOf(e)))
    <2>1. SeqOf(e) \in Nat
      BY Zenon DEF BaseInv, TypeInv, JournalTypeOK, Envelope, SeqOf
    <2> QED
      BY <1>0, <2>1, MarkEffect, Zenon
  <1>5. CASE gate' = gate
    BY <1>0, <1>5, Zenon
  <1> QED
    BY <1>1, <1>2, <1>3, <1>4, <1>5, Zenon DEF GateShape, MarkInFlight, MarkBlocking, MarkCompleted

\* What an attempt in progress knows of its row and of the topic stays true.
LEMMA CallKept ==
    ASSUME BaseInv, TypeInv', RowsAdvance, TopicShape, NEW c \in Calls, CallOK(c)
    PROVE  CallOK(c)'
  <1>1. /\ \A i \in DOMAIN kafka : i \in DOMAIN kafka' /\ kafka'[i] = kafka[i]
    BY TopicGrows, Zenon
  <1>2. /\ \A e \in DOMAIN delivery_state : delivery_state[e].revision \in Nat
        /\ c.revision \in Nat
    BY UntouchedType, Zenon DEF BaseInv, DeliveryRow, Calls
  <1>3. c.pc # "idle" =>
          /\ c.event \in DOMAIN delivery_state'
          /\ c.revision <= delivery_state'[c.event].revision
          /\ c.revision = delivery_state'[c.event].revision =>
                delivery_state'[c.event].status \in {"DELIVERY_PENDING", "DELIVERY_RETRYING"}
    BY <1>2 DEF RowsAdvance, CallOK, Status
  <1> QED
    BY <1>1, <1>3, Zenon DEF CallOK, Status

\* Attempts stay consistent with the rows and the topic: a row that another
\* service moves also changes its revision.
LEMMA CallsStep ==
    ASSUME BaseInv, TypeInv', RowsAdvance, TopicShape, CallShape
    PROVE  call' \in [Services -> Calls] /\ CallsOK'
  <1>0. /\ call \in [Services -> Calls] /\ \A s \in Services : CallOK(call[s])
        /\ kafka \in Seq(EventIds)
    BY Zenon DEF BaseInv, ServiceTypeOK, CallsOK
  <1>1. ASSUME NEW s \in Services, NEW c \in Calls, CallOK(c)', call' = [call EXCEPT ![s] = c]
        PROVE  call' \in [Services -> Calls] /\ CallsOK'
    <2>1. call' \in [Services -> Calls] /\ call'[s] = c
      BY <1>0, <1>1, Zenon
    <2>2. ASSUME NEW t \in Services PROVE CallOK(call[t])'
      <3>1. CASE t = s
        BY <1>1, <2>1, <3>1, Zenon
      <3>2. CASE t # s
        <4>1. PICK d \in Calls : d = call[t]
          BY <1>0, Zenon
        <4>2. call'[t] = d
          BY <1>0, <1>1, <3>2, <4>1, Zenon
        <4>3. CallOK(d)'
          BY <1>0, <4>1, CallKept, Zenon
        <4> QED
          BY <4>2, <4>3, Zenon
      <3> QED
        BY <3>1, <3>2, Zenon
    <2> QED
      BY <2>1, <2>2, Zenon DEF CallsOK
  <1>2. CASE call' = call
    <2>1. ASSUME NEW t \in Services PROVE CallOK(call[t])'
      <3>1. PICK d \in Calls : d = call[t]
        BY <1>0, Zenon
      <3>2. CallOK(d)'
        BY <1>0, <3>1, CallKept, Zenon
      <3> QED
        BY <1>2, <3>1, <3>2, Zenon
    <2> QED
      BY <1>0, <1>2, <2>1, Zenon DEF CallsOK
  <1>3. ASSUME NEW s \in Services, Return(s) PROVE call' \in [Services -> Calls] /\ CallsOK'
    <2>1. Idle \in Calls /\ CallOK(Idle)'
      BY Zenon DEF Idle, Calls, Pcs, CallOK
    <2> QED
      BY <1>1, <1>3, <2>1, Zenon DEF Return
  <1>4. ASSUME NEW s \in Services, NEW e \in EventIds, AttemptOpen(s, e)
        PROVE  call' \in [Services -> Calls] /\ CallsOK'
    <2> DEFINE c == [Idle EXCEPT !.pc = IF RouteAccepted(s, e) THEN "payload" ELSE "block",
                                 !.event = e,
                                 !.revision = delivery_state[e].revision,
                                 !.attempt_count = delivery_state[e].attempt_count]
    <2>1. /\ e \in DOMAIN delivery_state /\ delivery_state[e] \in DeliveryRow
          /\ Status(e) \in {"DELIVERY_PENDING", "DELIVERY_RETRYING"}
          /\ delivery_state' = delivery_state
      BY <1>4, UntouchedType, Zenon DEF BaseInv, AttemptOpen, Admitted, CandidateFound,
         DeliveryFound, journalVars, deliveryVars
    <2>2. c \in Calls
      BY <2>1, Zenon DEF Idle, Calls, Pcs, DeliveryRow
    <2>3. c.pc \in {"payload", "block"} /\ c.event = e /\ c.revision = delivery_state[e].revision
      BY Zenon DEF Idle
    <2>4. call' = [call EXCEPT ![s] = c]
      BY <1>4, Zenon DEF AttemptOpen
    <2>5. PICK d \in Calls : d = c
      BY <2>2, Zenon
    <2> HIDE DEF c
    <2>6. CallOK(d)'
      BY <2>1, <2>3, <2>5, DeliveryConstants DEF CallOK, Status, DeliveryRow
    <2> QED
      BY <1>1, <2>4, <2>5, <2>6, Zenon
  <1>5. ASSUME NEW s \in Services, NEW c \in Calls, CallGoesOn(s, c)
        PROVE  call' \in [Services -> Calls] /\ CallsOK'
    <2>1. PICK d \in Calls : d = call[s]
      BY <1>0, Zenon
    <2>2. CallOK(d)'
      BY <1>0, <2>1, CallKept, Zenon
    <2>3. c.pc = "confirm" /\ c.same_topic =>
             c.position \in DOMAIN kafka' /\ kafka'[c.position] = c.event
      BY <1>0, <1>5, BusyType DEF CallGoesOn
    <2>4. d.pc # "idle" /\ c.pc # "idle" /\ c.event = d.event /\ c.revision = d.revision
      BY <1>5, <2>1, Zenon DEF CallGoesOn, Busy
    <2>5. c.pc = "confirm" => c.position # 0
      BY <1>5, Zenon DEF CallGoesOn
    <2>6. CallOK(c)'
      BY <2>2, <2>3, <2>4, <2>5, Zenon DEF CallOK
    <2> QED
      BY <1>1, <1>5, <2>6, Zenon DEF CallGoesOn
  <1> QED
    BY <1>2, <1>3, <1>4, <1>5, Zenon DEF CallShape

\* Every step keeps the base invariant.
LEMMA BaseStep == BaseInv /\ [Next]_vars => BaseInv'
  <1> SUFFICES ASSUME BaseInv, [Next]_vars PROVE BaseInv'
    OBVIOUS
  <1>1. JournalShape /\ TopicShape /\ CallShape /\ GateShape /\ ReportShape
    BY JournalShapeHolds, TopicShapeHolds, CallShapeHolds, GateShapeHolds, ReportShapeHolds, Zenon
  <1>2. TypeInv' /\ StreamInv' /\ ReplicatedIsConfirmed'
    BY NextIsJournalStep, TypeStep, StreamStep, ReplicatedStep, Zenon DEF BaseInv
  <1>3. RowsAdvance
    BY <1>1, RowsAdvanceHolds, Zenon DEF BaseInv
  <1>4. call' \in [Services -> Calls] /\ CallsOK'
    BY <1>1, <1>2, <1>3, CallsStep, Zenon
  <1>5. DOMAIN delivery_state \subseteq EventIds /\ DOMAIN delivery_state \subseteq DOMAIN delivery_state'
    BY <1>3, UntouchedType, Zenon DEF BaseInv, RowsAdvance
  <1>6. \A s \in Services : Busy(s) => call[s].event \in DOMAIN delivery_state
    BY BusyType, Zenon
  <1>7. profile' \in [Services -> Routes]
    <2>1. profile \in [Services -> Routes]
      BY Zenon DEF BaseInv, ServiceTypeOK
    <2>2. ASSUME NEW s \in Services, Crash(s) PROVE profile' \in [Services -> Routes]
      BY <2>1, <2>2, Zenon DEF Crash
    <2>3. ASSUME NEW s \in Services, Attempt(s) PROVE profile' = profile
      BY <2>3, Zenon DEF Attempt, AttemptReplicated, AttemptBlocked, AttemptOpen, ReadPayload,
         ReadPayloadFails, SendAcked, SendMisdirected, SendFailed, SendTimedOut, Confirm,
         ConfirmFails, RecordAttempt, RecordAttemptFails, PersistRetry, PersistBlock,
         PersistFails
    <2> QED
      BY <2>1, <2>2, <2>3, Zenon DEF Next, Environment, vars, serviceVars, AcceptEvent,
         CreatePending, OperatorBlock, OperatorRepair, LateAppend, recover
  <1>8. ServiceTypeOK'
    <2>1. kafka' \in Seq(EventIds)
      BY <1>1, TopicGrows, Zenon
    <2>2. late' \subseteq EventIds /\ reported' \subseteq EventIds
      BY <1>1, <1>5, <1>6, Zenon DEF BaseInv, ServiceTypeOK, TopicShape, ReportShape
    <2>3. /\ gate' = [s \in Services |-> gate'[s]]
          /\ \A s \in Services : IsGate(gate'[s])
      BY <1>1, GatesType, Zenon
    <2> QED
      BY <1>4, <1>7, <2>1, <2>2, <2>3, Zenon DEF ServiceTypeOK
  <1>9. TopicHasRows'
    <2>1. late' \subseteq DOMAIN delivery_state'
      BY <1>1, <1>5, <1>6, Zenon DEF BaseInv, TopicHasRows, TopicShape
    <2>2. \A i \in DOMAIN kafka' : kafka'[i] \in DOMAIN delivery_state'
      BY <1>1, <1>5, <1>6, TopicGrows, Zenon DEF BaseInv, TopicHasRows
    <2> QED
      BY <2>1, <2>2, Zenon DEF TopicHasRows
  <1> QED
    BY <1>2, <1>4, <1>8, <1>9, Zenon DEF BaseInv

-----------------------------------------------------------------------------
(* What holds of every deployment *)

\* Every operation of the journal writes the two rows of an event so that they
\* agree.
LEMMA RowsAgreeStep ==
    ASSUME TypeInv, ReplicatedIsConfirmed, RowsAgree, JournalShape
    PROVE  RowsAgree'
  <1>0. /\ delivery_state \in [DOMAIN delivery_state -> DeliveryRow]
        /\ lifecycle_state \in [DOMAIN stored_envelope -> Lifecycle]
        /\ DOMAIN delivery_state \subseteq DOMAIN stored_envelope
    BY UntouchedType, Zenon
  <1>1. CASE UNCHANGED journalVars
    BY <1>1, Zenon DEF journalVars, deliveryVars, RowsAgree, Status
  <1>2. ASSUME NEW req \in Requests, accept(req) PROVE RowsAgree'
    <2>1. CASE AcceptNew(req)
      BY <1>0, <2>1, AcceptNewEnvelope, Zenon DEF AcceptNew, Put, deliveryVars, RowsAgree, Status
    <2>2. CASE AcceptAuditOnly(req)
      BY <2>2, Zenon DEF AcceptAuditOnly, deliveryVars, RowsAgree, Status
    <2> QED
      BY <1>2, <2>1, <2>2, Zenon DEF accept
  <1>3. ASSUME NEW e \in EventIds, RowStep(e) PROVE RowsAgree'
    <2>1. ASSUME NEW route \in Routes, create_delivery_pending(e, route) PROVE RowsAgree'
      <3>1. lifecycle_state[e].status # "REPLICATED"
        BY <1>0, <2>1, Zenon DEF create_delivery_pending, ReplicatedIsConfirmed
      <3> QED
        BY <2>1, <3>1, Zenon DEF create_delivery_pending, Put, RowsAgree, Status
    <2>2. CASE record_delivery_attempt(e)
      BY <1>0, <2>2 DEF record_delivery_attempt, DeliveryFound, DeliveryRow, RowsAgree, Status
    <2>3. ASSUME NEW st \in {"REPLICATED", "DELIVERY_BLOCKED"}, e \in DOMAIN delivery_state,
                 SetLifecycle(e, st), delivery_state'[e].status = st,
                 DOMAIN delivery_state' = DOMAIN delivery_state,
                 \A f \in DOMAIN delivery_state : f # e => delivery_state'[f] = delivery_state[f]
          PROVE  RowsAgree'
      BY <1>0, <2>3, Zenon DEF SetLifecycle, RowsAgree, Status
    <2>4. ASSUME NEW expected, update_delivery_retry(e, expected) PROVE RowsAgree'
      BY <1>0, <2>4, ZenonT(40) DEF update_delivery_retry, CanTransition, DeliveryFound, RetryingRow,
         RowsAgree, Status
    <2>5. ASSUME NEW expected, block_delivery(e, expected) PROVE RowsAgree'
      BY <1>0, <2>3, <2>5, Zenon DEF block_delivery, CanTransition, DeliveryFound, BlockedRow
    <2>6. ASSUME NEW expected, NEW route, NEW sameTopic, NEW position,
                 confirm_replicated_delivery(e, expected, route, sameTopic, position)
          PROVE  RowsAgree'
      BY <1>0, <2>3, <2>6, Zenon DEF confirm_replicated_delivery, ConfirmAnswer, DeliveryFound,
         ConfirmedRow
    <2> QED
      BY <1>3, <2>1, <2>2, <2>4, <2>5, <2>6, Zenon DEF RowStep
  <1> QED
    BY <1>1, <1>2, <1>3, Zenon DEF JournalShape

\* The delivery row and the lifecycle row of an event never disagree about
\* replication, and a blocked delivery is blocked in both: the two-table
\* transactions of confirm_replicated_delivery and block_delivery keep them
\* together whatever interleaves with them.
THEOREM RowsAgreeHolds == Spec => []RowsAgree
  <1>1. Init => RowsAgree
    BY Zenon DEF Init, JournalInit, RowsAgree
  <1>2. BaseInv /\ RowsAgree /\ [Next]_vars => RowsAgree'
    BY JournalShapeHolds, RowsAgreeStep, Zenon DEF BaseInv
  <1> QED
    BY <1>1, <1>2, BaseInit, BaseStep, PTL DEF Spec

\* A REPLICATED row names a record of its own event in the topic, whatever
\* acks were lost, late or misdirected and whichever service confirmed.
THEOREM ConfirmedAtPositionHolds == Spec => []ConfirmedAtPosition
  <1>1. Init => ConfirmedAtPosition
    BY Zenon DEF Init, JournalInit, ConfirmedAtPosition
  <1>2. BaseInv /\ ConfirmedAtPosition /\ [Next]_vars => ConfirmedAtPosition'
    <2> SUFFICES ASSUME BaseInv, ConfirmedAtPosition, [Next]_vars,
                        NEW e \in DOMAIN delivery_state', IsReplicated(e)'
                 PROVE  /\ delivery_state'[e].position \in DOMAIN kafka'
                        /\ kafka'[delivery_state'[e].position] = e
      BY Zenon DEF ConfirmedAtPosition, IsReplicated, Status
    <2>1. \A i \in DOMAIN kafka : i \in DOMAIN kafka' /\ kafka'[i] = kafka[i]
      BY TopicShapeHolds, TopicGrows, Zenon
    <2>2. CASE IsReplicated(e)
      <3>1. delivery_state'[e].position = delivery_state[e].position
        BY <2>2, NextIsJournalStep, FinalStep, Zenon DEF BaseInv, RowsFinal, IsReplicated, Status
      <3> QED
        BY <2>1, <2>2, <3>1, Zenon DEF ConfirmedAtPosition, IsReplicated
    <2>3. CASE ~IsReplicated(e)
      <3>1. PICK s \in Services : Confirm(s) /\ call[s].event = e
        BY <2>3, StatusShapeHolds, Zenon DEF StatusShape
      <3>2. /\ call[s].pc = "confirm" /\ call[s].same_topic
            /\ delivery_state'[e].position = call[s].position
        BY <2>3, <3>1, ConfirmEffect, Zenon
      <3>3. call[s].position \in DOMAIN kafka /\ kafka[call[s].position] = e
        BY <3>1, <3>2, Zenon DEF BaseInv, CallsOK, CallOK
      <3> QED
        BY <2>1, <3>2, <3>3, Zenon
    <2> QED
      BY <2>2, <2>3, Zenon
  <1> QED
    BY <1>1, <1>2, BaseInit, BaseStep, PTL DEF Spec

\* attempt_delivery answers Replicated only for events whose confirmation is
\* committed in both rows: no crash, timeout or lost race after the answer
\* takes it back.
THEOREM ReportedIsDurableHolds == Spec => []ReportedIsDurable
  <1> DEFINE Reported == \A e \in reported : IsReplicated(e)
  <1>1. Init => Reported
    BY Zenon DEF Init
  <1>2. BaseInv /\ Reported /\ [Next]_vars => Reported'
    <2> SUFFICES ASSUME BaseInv, Reported, [Next]_vars, NEW e \in reported'
                 PROVE  IsReplicated(e)'
      OBVIOUS
    <2>1. e \in reported \/ IsReplicated(e)'
      BY ReportShapeHolds, Zenon DEF ReportShape
    <2>2. IsReplicated(e) => IsReplicated(e)'
      BY NextIsJournalStep, FinalStep, Zenon DEF BaseInv, RowsFinal, IsReplicated, Status
    <2> QED
      BY <2>1, <2>2, Zenon
  <1>3. Reported /\ RowsAgree => ReportedIsDurable
    BY Zenon DEF RowsAgree, ReportedIsDurable, IsReplicated
  <1> QED
    BY <1>1, <1>2, <1>3, RowsAgreeHolds, BaseInit, BaseStep, PTL DEF Spec

\* A blocked row is reopened by an operator's repair and by nothing else: the
\* revision check stops every attempt that loaded the row before the block.
THEOREM BlockedNeedsRepairHolds == Spec => BlockedNeedsRepair
  <1> DEFINE Kept == \A e \in DOMAIN delivery_state :
                 Status(e) = "DELIVERY_BLOCKED" /\ delivery_state'[e].status # "DELIVERY_BLOCKED"
                     => OperatorRepair(e)
  <1>1. BaseInv /\ [Next]_vars => Kept
    BY StatusShapeHolds, Zenon DEF StatusShape
  <1> QED
    BY <1>1, BaseInit, BaseStep, PTL DEF Spec, BlockedNeedsRepair

\* In a deployment the delivery status moves only along the transition table
\* of replicated.rs, although the journal's own calls would allow more.
THEOREM LegalTransitionsHold == Spec => LegalTransitions
  <1> DEFINE Legal == \A e \in DOMAIN delivery_state :
                 \/ delivery_state'[e].status = delivery_state[e].status
                 \/ validate_transition(delivery_state[e].status, delivery_state'[e].status)
  <1>1. BaseInv /\ [Next]_vars => Legal
    <2> SUFFICES ASSUME BaseInv, [Next]_vars, NEW e \in DOMAIN delivery_state,
                        delivery_state'[e].status # Status(e)
                 PROVE  validate_transition(Status(e), delivery_state'[e].status)
      BY Zenon DEF Status
    <2>1. CASE OperatorRepair(e)
      <3>1. Status(e) = "DELIVERY_BLOCKED" /\ delivery_state'[e].status = "DELIVERY_RETRYING"
        BY <2>1, UntouchedType, Zenon DEF BaseInv, OperatorRepair, update_delivery_retry, RetryingRow
      <3> QED
        BY <3>1, Zenon DEF validate_transition
    <2>2. CASE ~OperatorRepair(e)
      BY <2>2, StatusShapeHolds, Zenon DEF StatusShape, validate_transition
    <2> QED
      BY <2>1, <2>2, Zenon
  <1>2. UNCHANGED journalVars => Legal
    BY Zenon DEF journalVars, deliveryVars
  <1> QED
    BY <1>1, <1>2, BaseInit, BaseStep, PTL DEF Spec, LegalTransitions
=============================================================================
