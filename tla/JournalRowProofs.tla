-------------------------- MODULE JournalRowProofs --------------------------
(***************************************************************************)
(* The delivery rows of a journal file, for any number of processes, events *)
(* and storage faults and any retry bounds.  The invariant relates each row *)
(* to what the program last wrote there and to what the processes in the    *)
(* middle of an update have loaded.                                         *)
(***************************************************************************)
EXTENDS JournalFile, FiniteSetTheorems, TLAPS

\* The columns of a delivery row that its checksum covers.
Fields == {"status", "attempt_count", "next_retry_at", "blocked", "confirmed", "revision"}

\* A row of these columns: the columns alone, or with the checksum the file holds.
Content(row) ==
    /\ row.status \in DeliveryStatus
    /\ row.attempt_count \in Nat /\ row.revision \in Nat
    /\ row.next_retry_at \in Times
    /\ row.blocked \in BOOLEAN /\ row.confirmed \in BOOLEAN

\* The columns a delivery checksum was computed from.
Summed(checksum) ==
    [status |-> checksum[2], attempt_count |-> checksum[3], next_retry_at |-> checksum[4],
     blocked |-> checksum[5], confirmed |-> checksum[6], revision |-> checksum[7]]

\* Between the load and the store of update_delivery_retry.
Loading(p, e) == work[p].step = "retry" /\ work[p].event = e

\* A row without its checksum, as the program means it.
IsContents(row) == row = [c \in Fields |-> row[c]] /\ Content(row)

\* The types the row invariant needs; damage takes a fault.
RowTypes ==
    /\ now \in Nat /\ faults \in Nat
    /\ earliest \in [Events -> Nat]
    /\ faults = 0 => damaged = {}
    /\ delivery_state \in [Events -> DeliveryRows \union {None}]
    /\ DOMAIN written = Events /\ DOMAIN work = Procs
    /\ \A e \in Events : DOMAIN written[e] = {"lifecycle", "delivery"}
    /\ \A e \in Events : delivery_state[e] # None => IsContents(written[e].delivery)

\* A process in the middle of a delivery has a row to return to; one that retries has
\* loaded a row that obeyed the rules, and will ask for it at the time allowed.
WorkType(p) ==
    /\ work[p].step \in {"candidate", "sending", "failed", "retry"} =>
           work[p].event \in Events /\ delivery_state[work[p].event] # None
    /\ work[p].step \in {"candidate", "sending", "failed"} => work[p].attempts \in Nat
    /\ work[p].step = "failed" => work[p].at \in Nat
    /\ work[p].step = "retry" =>
           /\ work[p].loaded \in DeliveryRows
           /\ work[p].next \in Nat /\ work[p].allowed = work[p].next
           /\ work[p].loaded.status # "REPLICATED"
           /\ validate_delivery_state_invariants(work[p].loaded)

WorkTypes == \A p \in Procs : WorkType(p)

\* The file holds the columns the program wrote.
Same(e) == \A c \in Fields : delivery_state[e][c] = written[e].delivery[c]

\* A loaded row is no later than the written one, and of the same revision it is
\* neither blocked nor confirmed differently.
LoadsBefore(e) ==
    \A p \in Procs : Loading(p, e) =>
        LET loaded == work[p].loaded
            row == written[e].delivery
        IN  /\ loaded.attempt_count > 0
            /\ loaded.revision <= row.revision
            /\ loaded.revision = row.revision =>
                   loaded.blocked = row.blocked /\ loaded.confirmed = row.confirmed

\* A row no fault has hit.  Its checksum may lag behind in the attempt count only, when
\* an attempt was recorded between the load and the store of a retry; it verifies unless
\* that happened (raced) or a blocked row was put back into retrying (repaired).
Clean(e) ==
    LET row == written[e].delivery
        sum == Summed(delivery_state[e].checksum)
    IN  /\ Same(e) /\ LoadsBefore(e)
        /\ \A c \in Fields \ {"attempt_count"} : sum[c] = row[c]
        /\ row.attempt_count > 0 => sum.attempt_count > 0
        /\ row.status = "DELIVERY_BLOCKED" => row.attempt_count > 0
        /\ \A p \in Procs : work[p].step = "failed" /\ work[p].event = e => row.attempt_count > 0
        /\ e \notin raced \union repaired => DeliveryFound(e)
        /\ \A p \in Procs : Loading(p, e) /\ work[p].loaded.revision = row.revision =>
               work[p].loaded.attempt_count = row.attempt_count \/ e \in raced

\* A row one fault has hit in one column: the checksum contradicts that column, so the
\* row does not verify.  A damaged attempt count is zero, which a load never accepts.
Dirty(e) ==
    /\ LoadsBefore(e)
    /\ \E c \in Fields :
           /\ \A d \in Fields \ {c} : delivery_state[e][d] = written[e].delivery[d]
           /\ Summed(delivery_state[e].checksum)[c] # delivery_state[e][c]
           /\ delivery_state[e][c] # written[e].delivery[c]
           /\ c = "attempt_count" => delivery_state[e][c] = 0

\* A second fault can undo what betrays the first, hence the bound on faults.
Sound(e) ==
    delivery_state[e] # None =>
        /\ e \notin damaged => Clean(e)
        /\ faults <= 1 => Same(e) \/ Dirty(e)

\* The time a retrying row was written with is the end of the backoff.
Due(e) ==
    delivery_state[e] # None /\ written[e].delivery.status = "DELIVERY_RETRYING" =>
        written[e].delivery.next_retry_at = earliest[e]

DeliveryInv == RowTypes /\ WorkTypes /\ \A e \in Events : Sound(e) /\ Due(e)

\* A checksum names the columns it was computed from.
LEMMA ChecksumNames ==
    ASSUME NEW e, NEW row, NEW c \in Fields
    PROVE  Summed(compute_delivery_checksum(e, row))[c] = row[c]
BY DEF Summed, compute_delivery_checksum, Fields

\* A row that verifies is the written one, unless storage has hit it twice.
LEMMA FoundIsWritten ==
    ASSUME DeliveryInv, NEW e \in Events, DeliveryFound(e), e \notin damaged \/ faults <= 1
    PROVE  Same(e)
<1>1. \A c \in Fields : Summed(delivery_state[e].checksum)[c] = delivery_state[e][c]
  BY ChecksumNames DEF DeliveryFound
<1>2. delivery_state[e] # None
  BY Zenon DEF DeliveryFound
<1> QED
  BY <1>1, <1>2, Zenon DEF DeliveryInv, Sound, Clean, Dirty

\* An event whose row, written content and loads a step leaves alone.
LEMMA KeepEvent ==
    ASSUME NEW e \in Events,
           delivery_state'[e] = delivery_state[e],
           written'[e].delivery = written[e].delivery,
           raced \subseteq raced', repaired \subseteq repaired',
           \A p \in Procs : work'[p].step \in {"failed", "retry"} /\ work'[p].event = e =>
               work'[p] = work[p]
    PROVE  /\ Clean(e) => Clean(e)'
           /\ Same(e) => Same(e)'
           /\ Dirty(e) => Dirty(e)'
<1>1. Same(e) => Same(e)'
  BY Zenon DEF Same
<1>2. LoadsBefore(e) => LoadsBefore(e)'
  BY Zenon DEF LoadsBefore, Loading
<1>3. DeliveryFound(e) => DeliveryFound(e)'
  BY Zenon DEF DeliveryFound, compute_delivery_checksum, validate_delivery_state_invariants
<1>4. Summed(delivery_state[e].checksum)' = Summed(delivery_state[e].checksum)
  BY Zenon DEF Summed
<1>5. Dirty(e) => Dirty(e)'
  BY <1>2, <1>4, Zenon DEF Dirty
<1>6. ASSUME Clean(e) PROVE Clean(e)'
  <2>1. \A p \in Procs : Loading(p, e)' /\ work'[p].loaded.revision = written[e].delivery.revision =>
            work'[p].loaded.attempt_count = written[e].delivery.attempt_count \/ e \in raced'
    BY <1>6, Zenon DEF Clean, Loading
  <2>2. \A p \in Procs : work'[p].step = "failed" /\ work'[p].event = e =>
            written[e].delivery.attempt_count > 0
    BY <1>6, Zenon DEF Clean
  <2>3. e \notin raced' \union repaired' => DeliveryFound(e)'
    BY <1>6, <1>3, Zenon DEF Clean
  <2> QED
    BY <1>6, <1>1, <1>2, <1>4, <2>1, <2>2, <2>3, Zenon DEF Clean
<1> QED
  BY <1>1, <1>5, <1>6, Zenon

\* Two rows with the same columns have the same checksum and obey the same rules.
LEMMA SameRow ==
    ASSUME NEW e, NEW a, NEW b, \A c \in Fields : a[c] = b[c]
    PROVE  /\ compute_delivery_checksum(e, a) = compute_delivery_checksum(e, b)
           /\ validate_delivery_state_invariants(a) <=> validate_delivery_state_invariants(b)
           /\ Content(a) <=> Content(b)
<1>1. /\ a.status = b.status /\ a.attempt_count = b.attempt_count
      /\ a.next_retry_at = b.next_retry_at /\ a.blocked = b.blocked
      /\ a.confirmed = b.confirmed /\ a.revision = b.revision
  BY Zenon DEF Fields
<1> QED
  BY <1>1, Zenon DEF compute_delivery_checksum, validate_delivery_state_invariants, Content

\* The columns of a signed row are those it was made from.
LEMMA SignedRow ==
    ASSUME NEW row, NEW checksum, DOMAIN row = Fields
    PROVE  /\ DOMAIN Signed(row, checksum) = Fields \union {"checksum"}
           /\ Signed(row, checksum).checksum = checksum
           /\ \A c \in Fields : Signed(row, checksum)[c] = row[c]
BY Zenon DEF Signed, Fields

\* What one UPDATE does to a row, column by column.
LEMMA UpdatedRow ==
    ASSUME NEW row, NEW next, NEW revision, Fields \subseteq DOMAIN row
    PROVE  /\ DOMAIN Counted(row) = DOMAIN row
           /\ DOMAIN Retrying(row, next, revision) = DOMAIN row
           /\ \A c \in Fields :
                  /\ Counted(row)[c] =
                         IF c = "attempt_count" THEN row.attempt_count + 1 ELSE row[c]
                  /\ Retrying(row, next, revision)[c] =
                         CASE c = "status" -> "DELIVERY_RETRYING"
                           [] c = "next_retry_at" -> next
                           [] c = "revision" -> revision
                           [] OTHER -> row[c]
BY Zenon DEF Counted, Retrying, Fields

\* Replacing the checksum leaves the columns.
LEMMA Resigned ==
    ASSUME NEW row, NEW checksum, DOMAIN row = Fields \union {"checksum"}
    PROVE  /\ DOMAIN [row EXCEPT !.checksum = checksum] = DOMAIN row
           /\ [row EXCEPT !.checksum = checksum].checksum = checksum
           /\ \A c \in Fields : [row EXCEPT !.checksum = checksum][c] = row[c]
BY Zenon DEF Fields

\* A row written with the checksum of its own columns, which obey the rules, verifies.
LEMMA WriteRow ==
    ASSUME NEW e \in Events, NEW row, validate_delivery_state_invariants(row),
           delivery_state'[e] # None,
           delivery_state'[e].checksum = compute_delivery_checksum(e, row),
           \A c \in Fields : delivery_state'[e][c] = row[c] /\ written'[e].delivery[c] = row[c]
    PROVE  /\ Same(e)' /\ DeliveryFound(e)'
           /\ \A c \in Fields : Summed(delivery_state[e].checksum)'[c] = row[c]
<1>1. Same(e)'
  BY Zenon DEF Same
<1>2. /\ compute_delivery_checksum(e, delivery_state'[e]) = compute_delivery_checksum(e, row)
      /\ validate_delivery_state_invariants(delivery_state'[e])
  BY SameRow, Zenon
<1>3. DeliveryFound(e)'
  BY <1>2, Zenon DEF DeliveryFound, compute_delivery_checksum, validate_delivery_state_invariants
<1>4. Summed(delivery_state[e].checksum)' = Summed(compute_delivery_checksum(e, row))
  BY Zenon DEF Summed
<1> QED
  BY <1>1, <1>3, <1>4, ChecksumNames

\* A delivery row, column by column.
LEMMA RowColumns ==
    ASSUME NEW row \in DeliveryRows
    PROVE  DOMAIN row = Fields \union {"checksum"} /\ Content(row)
BY Zenon DEF DeliveryRows, Content, Fields

\* A record with these columns is a row of the table.
LEMMA IsRow ==
    ASSUME NEW row, row = [c \in Fields \union {"checksum"} |-> row[c]], Content(row),
           row.checksum \in DeliveryChecksums \union {Damaged}
    PROVE  row \in DeliveryRows /\ row # None
<1>1. row \in DeliveryRows
  BY Zenon DEF Content, DeliveryRows, Fields
<1> QED
  BY <1>1, ContentAssumption, Zenon

\* The checksum the journal computes is one of the checksums.
LEMMA ChecksumType ==
    ASSUME NEW e \in Events, NEW row, Content(row)
    PROVE  compute_delivery_checksum(e, row) \in DeliveryChecksums
BY Zenon DEF compute_delivery_checksum, DeliveryChecksums, Content

\* Writing one part of what is remembered of an event leaves the rest.
LEMMA WrittenPart ==
    ASSUME RowTypes, NEW e \in Events, NEW v
    PROVE  /\ DOMAIN [written EXCEPT ![e].delivery = v] = Events
           /\ DOMAIN [written EXCEPT ![e].lifecycle = v] = Events
           /\ \A f \in Events :
                  /\ DOMAIN [written EXCEPT ![e].delivery = v][f] = {"lifecycle", "delivery"}
                  /\ DOMAIN [written EXCEPT ![e].lifecycle = v][f] = {"lifecycle", "delivery"}
                  /\ [written EXCEPT ![e].delivery = v][f].delivery =
                         IF f = e THEN v ELSE written[f].delivery
                  /\ [written EXCEPT ![e].delivery = v][f].lifecycle = written[f].lifecycle
                  /\ [written EXCEPT ![e].lifecycle = v][f].lifecycle =
                         IF f = e THEN v ELSE written[f].lifecycle
                  /\ [written EXCEPT ![e].lifecycle = v][f].delivery = written[f].delivery
BY Zenon DEF RowTypes

\* What is remembered of the events when the delivery part of one of them is written.
WritesDelivery(e, v) ==
    /\ DOMAIN written' = Events
    /\ \A f \in Events : DOMAIN written'[f] = {"lifecycle", "delivery"}
    /\ \A f \in Events \ {e} : written'[f].delivery = written[f].delivery
    /\ written'[e].delivery = v

\* A write of the delivery part leaves the rest.
LEMMA WrittenDelivery ==
    ASSUME RowTypes, NEW e \in Events, NEW v, written' = [written EXCEPT ![e].delivery = v]
    PROVE  WritesDelivery(e, v)
BY WrittenPart, ZenonT(40) DEF WritesDelivery

\* A step adds to the causes for which a row may stop verifying; damage takes a fault.
CausesGrow ==
    /\ now' \in Nat /\ faults' \in Nat
    /\ faults' = faults \/ faults' = faults + 1
    /\ faults' = 0 => damaged' = {}
    /\ damaged \subseteq damaged' /\ raced \subseteq raced' /\ repaired \subseteq repaired'

\* One fault at most after a step was one at most before it.
LEMMA FewerFaults ==
    ASSUME NEW n \in Nat, NEW m, m = n \/ m = n + 1, m <= 1
    PROVE  n <= 1
OBVIOUS

\* One fault more is the first at the earliest.
LEMMA OneMore ==
    ASSUME NEW n \in Nat
    PROVE  n + 1 \in Nat /\ n + 1 # 0 /\ (n + 1 <= 1 => n = 0)
OBVIOUS

\* A revision that is no later than another is behind the next one.
LEMMA Behind ==
    ASSUME NEW a \in Nat, NEW b \in Nat, a <= b
    PROVE  a <= b + 1 /\ a # b + 1
OBVIOUS

\* Numbers against zero.
LEMMA Positive ==
    ASSUME NEW n \in Nat
    PROVE  n + 1 \in Nat /\ n + 1 > 0 /\ (n # 0 => n > 0) /\ (n > 0 => n # 0) /\ n <= n /\ n >= n
OBVIOUS

\* Zero is not positive.
LEMMA ZeroCount == 0 \in Nat /\ ~(0 > 0)
OBVIOUS

\* A step that leaves the causes alone.
LEMMA CausesKept ==
    ASSUME RowTypes, UNCHANGED causes, now' \in Nat
    PROVE  CausesGrow
BY Zenon DEF RowTypes, causes, CausesGrow

\* A step that touches the delivery rows of some events only, and the loads of those.
LEMMA TouchedRows ==
    ASSUME DeliveryInv, NEW S \in SUBSET Events, CausesGrow,
           earliest' \in [Events -> Nat],
           delivery_state' \in [Events -> DeliveryRows \union {None}],
           \A f \in Events : delivery_state[f] # None => delivery_state'[f] # None,
           DOMAIN written' = Events,
           \A f \in Events : DOMAIN written'[f] = {"lifecycle", "delivery"},
           \A f \in Events \ S :
               /\ delivery_state'[f] = delivery_state[f]
               /\ written'[f].delivery = written[f].delivery
               /\ earliest'[f] = earliest[f],
           \A e \in S :
               /\ delivery_state'[e] # None => IsContents(written[e].delivery)'
               /\ Sound(e)' /\ Due(e)',
           DOMAIN work' = Procs,
           \A p \in Procs :
               \/ work'[p] = work[p]
               \/ /\ WorkType(p)'
                  /\ work'[p].step \in {"failed", "retry"} => work'[p].event \in S
    PROVE  DeliveryInv'
<1>1. \A f \in Events : delivery_state'[f] # None => IsContents(written[f].delivery)'
  <2> SUFFICES ASSUME NEW f \in Events \ S, delivery_state'[f] # None
               PROVE  IsContents(written[f].delivery)'
    OBVIOUS
  <2>1. IsContents(written[f].delivery) /\ written'[f].delivery = written[f].delivery
    BY Zenon DEF DeliveryInv, RowTypes
  <2> QED
    BY <2>1, Zenon DEF IsContents, Content
<1>2. RowTypes'
  BY <1>1, Zenon DEF RowTypes, CausesGrow
<1>3. WorkTypes'
  <2> SUFFICES ASSUME NEW p \in Procs, work'[p] = work[p] PROVE WorkType(p)'
    BY Zenon DEF WorkTypes
  <2>1. WorkType(p)
    BY Zenon DEF DeliveryInv, WorkTypes
  <2>2. work[p].event \in Events /\ delivery_state[work[p].event] # None =>
            delivery_state'[work'[p].event] # None
    BY Zenon
  <2> QED
    BY <2>1, <2>2, ZenonT(30) DEF WorkType, validate_delivery_state_invariants
<1>4. ASSUME NEW f \in Events \ S PROVE Sound(f)' /\ Due(f)'
  <2>1. Sound(f) /\ Due(f) /\ faults \in Nat
    BY Zenon DEF DeliveryInv, RowTypes
  <2>2. \A p \in Procs : work'[p].step \in {"failed", "retry"} /\ work'[p].event = f =>
            work'[p] = work[p]
    BY Zenon
  <2>3. /\ Clean(f) => Clean(f)'
        /\ Same(f) => Same(f)'
        /\ Dirty(f) => Dirty(f)'
    BY <2>2, KeepEvent, Zenon DEF CausesGrow
  <2>4. /\ faults' <= 1 => faults <= 1
        /\ f \notin damaged' => f \notin damaged
    BY <2>1, FewerFaults, Zenon DEF CausesGrow
  <2>5. Sound(f)'
    BY <2>1, <2>3, <2>4, Zenon DEF Sound
  <2> QED
    BY <2>1, <2>5, Zenon DEF Due
<1> QED
  BY <1>2, <1>3, <1>4, Zenon DEF DeliveryInv

\* A step that touches the delivery row of one event only, and the loads of that row.
LEMMA TouchedRow ==
    ASSUME DeliveryInv, NEW e \in Events, CausesGrow,
           earliest' = earliest,
           delivery_state' \in [Events -> DeliveryRows \union {None}],
           delivery_state'[e] # None,
           \A f \in Events \ {e} : delivery_state'[f] = delivery_state[f],
           DOMAIN written' = Events,
           \A f \in Events : DOMAIN written'[f] = {"lifecycle", "delivery"},
           \A f \in Events \ {e} : written'[f].delivery = written[f].delivery,
           IsContents(written[e].delivery)', Sound(e)', Due(e)',
           DOMAIN work' = Procs,
           \A p \in Procs :
               \/ work'[p] = work[p]
               \/ /\ WorkType(p)'
                  /\ work'[p].step \in {"failed", "retry"} => work'[p].event = e
    PROVE  DeliveryInv'
<1> DEFINE S == {e}
<1>1. S \in SUBSET Events /\ e \in S /\ (\A f \in S : f = e) /\ Events \ S = Events \ {e}
  BY Zenon
<1> HIDE DEF S
<1>2. \A f \in Events : delivery_state[f] # None => delivery_state'[f] # None
  BY Zenon
<1>3. earliest' \in [Events -> Nat]
  BY Zenon DEF DeliveryInv, RowTypes
<1>4. \A f \in Events \ S :
          /\ delivery_state'[f] = delivery_state[f]
          /\ written'[f].delivery = written[f].delivery
          /\ earliest'[f] = earliest[f]
  BY <1>1, Zenon
<1>5. \A f \in S : /\ delivery_state'[f] # None => IsContents(written[f].delivery)'
                   /\ Sound(f)' /\ Due(f)'
  BY <1>1, Zenon
<1>6. \A p \in Procs :
          \/ work'[p] = work[p]
          \/ /\ WorkType(p)'
             /\ work'[p].step \in {"failed", "retry"} => work'[p].event \in S
  BY <1>1, Zenon
<1> QED
  BY <1>1, <1>2, <1>3, <1>4, <1>5, <1>6, TouchedRows, Zenon

\* Steps that leave the delivery rows alone.
LEMMA QuietStep ==
    ASSUME DeliveryInv, UNCHANGED <<delivery_state, earliest>>, CausesGrow,
           DOMAIN written' = Events,
           \A f \in Events :
               /\ DOMAIN written'[f] = {"lifecycle", "delivery"}
               /\ written'[f].delivery = written[f].delivery,
           DOMAIN work' = Procs,
           \A p \in Procs :
               work'[p] = work[p]
               \/ (WorkType(p)' /\ work'[p].step \notin {"failed", "retry"})
    PROVE  DeliveryInv'
<1>1. /\ delivery_state' \in [Events -> DeliveryRows \union {None}]
      /\ earliest' \in [Events -> Nat]
  BY Zenon DEF DeliveryInv, RowTypes
<1> DEFINE S == {}
<1>2. S \in SUBSET Events /\ \A e \in S : FALSE
  BY Zenon
<1> HIDE DEF S
<1> QED
  BY <1>1, <1>2, TouchedRows, Zenon

\* A process that has nothing in progress.
LEMMA IdleWork ==
    ASSUME NEW p \in Procs, work'[p] = Idle
    PROVE  WorkType(p)' /\ work'[p].step = "idle"
BY DEF WorkType, Idle

\* Processes go idle, and no row is written.
LEMMA GoIdle ==
    ASSUME DeliveryInv, UNCHANGED <<delivery_state, written, earliest, causes>>, now' \in Nat,
           DOMAIN work' = Procs, \A q \in Procs : work'[q] = work[q] \/ work'[q] = Idle
    PROVE  DeliveryInv'
<1>1. RowTypes
  BY Zenon DEF DeliveryInv
<1>2. CausesGrow
  BY <1>1, CausesKept, Zenon
<1>3. /\ DOMAIN written' = Events
      /\ \A f \in Events : /\ DOMAIN written'[f] = {"lifecycle", "delivery"}
                           /\ written'[f].delivery = written[f].delivery
  BY <1>1, Zenon DEF RowTypes
<1>4. \A q \in Procs : work'[q] = work[q]
                         \/ (WorkType(q)' /\ work'[q].step \notin {"failed", "retry"})
  BY IdleWork, Zenon
<1> QED
  BY <1>2, <1>3, <1>4, QuietStep, Zenon

\* accept writes no delivery row.
LEMMA AcceptRows ==
    ASSUME DeliveryInv, NEW p \in Procs, NEW e \in Events, accept(p, e)
    PROVE  DeliveryInv'
<1>1. RowTypes
  BY Zenon DEF DeliveryInv
<1>2. /\ UNCHANGED <<delivery_state, work, now, earliest, causes>>
      /\ written' = [written EXCEPT ![e].lifecycle = [revision |-> 1, status |-> "LOCAL_ACCEPTED"]]
  BY Zenon DEF accept
<1>3. /\ DOMAIN written' = Events
      /\ \A f \in Events : /\ DOMAIN written'[f] = {"lifecycle", "delivery"}
                           /\ written'[f].delivery = written[f].delivery
  BY <1>1, <1>2, WrittenPart, Zenon
<1>4. CausesGrow /\ DOMAIN work' = Procs /\ \A q \in Procs : work'[q] = work[q]
  BY <1>1, <1>2, CausesKept, Zenon DEF RowTypes
<1> QED
  BY <1>2, <1>3, <1>4, QuietStep, Zenon

\* Both reads of an attempt, and the load of update_lifecycle, write no delivery row.
LEMMA ReadRows ==
    ASSUME DeliveryInv, NEW p \in Procs,
           \/ \E e \in Events : TakeCandidate(p, e)
           \/ ReadPayload(p)
           \/ \E e \in Delivered, status \in LocalDeliveryStatus : LoadLifecycle(p, e, status)
    PROVE  DeliveryInv'
<1>1. RowTypes
  BY Zenon DEF DeliveryInv
<1>2. UNCHANGED <<tableVars, written, now, earliest, causes>>
  BY Zenon DEF TakeCandidate, ReadPayload, LoadLifecycle
<1>3. DOMAIN work' = Procs /\ \A q \in Procs \ {p} : work'[q] = work[q]
  BY <1>1, Zenon DEF TakeCandidate, ReadPayload, LoadLifecycle, RowTypes
<1>0. /\ CausesGrow /\ UNCHANGED <<delivery_state, earliest>> /\ DOMAIN written' = Events
      /\ \A f \in Events : /\ DOMAIN written'[f] = {"lifecycle", "delivery"}
                           /\ written'[f].delivery = written[f].delivery
  BY <1>1, <1>2, CausesKept, Zenon DEF RowTypes, tableVars
<1>4. CASE \E e \in Events : TakeCandidate(p, e)
  <2>1. PICK e \in Events : TakeCandidate(p, e)
    BY <1>4, Zenon
  <2>2. /\ work'[p].step = "candidate" /\ work'[p].event = e
        /\ work'[p].attempts = delivery_state[e].attempt_count
    BY <1>1, <2>1, Zenon DEF TakeCandidate, RowTypes
  <2>3. delivery_state[e] # None /\ delivery_state[e] \in DeliveryRows
    BY <1>1, <2>1, Zenon DEF TakeCandidate, CandidateFound, DeliveryFound, RowTypes
  <2>4. delivery_state[e].attempt_count \in Nat
    BY <2>3, RowColumns, Zenon DEF Content
  <2>5. WorkType(p)'
    BY <1>2, <2>2, <2>3, <2>4, Zenon DEF WorkType, tableVars
  <2> QED
    BY <1>0, <1>3, <2>2, <2>5, QuietStep, Zenon
<1>5. CASE \E e \in Delivered, status \in LocalDeliveryStatus : LoadLifecycle(p, e, status)
  <2>0. PICK e \in Delivered, status \in LocalDeliveryStatus : LoadLifecycle(p, e, status)
    BY <1>5, Zenon
  <2>1. work'[p].step = "lifecycle"
    BY <1>1, <2>0, Zenon DEF LoadLifecycle, RowTypes
  <2>2. WorkType(p)'
    BY <2>1, Zenon DEF WorkType
  <2> QED
    BY <1>0, <1>3, <2>1, <2>2, QuietStep, Zenon
<1>6. CASE ReadPayload(p)
  <2>1. \/ work'[p] = Idle
        \/ /\ work'[p].step = "sending" /\ work'[p].event = work[p].event
           /\ work'[p].attempts = work[p].attempts
    BY <1>1, <1>6 DEF ReadPayload, RowTypes
  <2>2. /\ work[p].event \in Events /\ delivery_state[work[p].event] # None
        /\ work[p].attempts \in Nat
    BY <1>6, Zenon DEF ReadPayload, DeliveryInv, WorkTypes, WorkType
  <2>3. CASE work'[p] = Idle
    <3>1. work'[p].step = "idle"
      BY <2>3 DEF Idle
    <3>2. WorkType(p)'
      BY <3>1, Zenon DEF WorkType
    <3> QED
      BY <1>0, <1>3, <3>1, <3>2, QuietStep, Zenon
  <2>4. CASE work'[p].step = "sending" /\ work'[p].event = work[p].event
             /\ work'[p].attempts = work[p].attempts
    <3>1. WorkType(p)'
      BY <1>2, <2>2, <2>4, Zenon DEF WorkType, tableVars
    <3> QED
      BY <1>0, <1>3, <2>4, <3>1, QuietStep, Zenon
  <2> QED
    BY <2>1, <2>3, <2>4, Zenon
<1> QED
  BY <1>4, <1>5, <1>6, Zenon

\* The store of update_lifecycle writes no delivery row either.
LEMMA StoreLifecycle ==
    ASSUME DeliveryInv, NEW p \in Procs, update_lifecycle(p)
    PROVE  DeliveryInv'
<1>1. RowTypes
  BY Zenon DEF DeliveryInv
<1>2. /\ UNCHANGED <<delivery_state, now, earliest, causes>>
      /\ work' = [work EXCEPT ![p] = Idle]
  BY Zenon DEF update_lifecycle
<1>3. DOMAIN work' = Procs /\ work'[p] = Idle /\ \A q \in Procs \ {p} : work'[q] = work[q]
  BY <1>1, <1>2, Zenon DEF RowTypes
<1>4. /\ DOMAIN written' = Events
      /\ \A f \in Events : /\ DOMAIN written'[f] = {"lifecycle", "delivery"}
                           /\ written'[f].delivery = written[f].delivery
  <2>1. \/ written' = written
        \/ \E row : written' = [written EXCEPT ![work[p].event].lifecycle = row]
    BY Zenon DEF update_lifecycle
  <2>2. CASE written' = written
    BY <1>1, <2>2, Zenon DEF RowTypes
  <2>3. CASE \E row : written' = [written EXCEPT ![work[p].event].lifecycle = row]
    BY <1>1, <2>3 DEF RowTypes
  <2> QED
    BY <2>1, <2>2, <2>3, Zenon
<1>5. CausesGrow
  BY <1>1, <1>2, CausesKept, Zenon DEF RowTypes
<1>6. WorkType(p)' /\ work'[p].step = "idle"
  BY <1>3, IdleWork, Zenon
<1> QED
  BY <1>2, <1>3, <1>4, <1>5, <1>6, QuietStep, Zenon

\* Stopping a process, opening the file and the passing of time write no row.
LEMMA OutsideRows ==
    ASSUME DeliveryInv, Tick \/ \E p \in Procs : OpenFile(p) \/ Stop(p)
    PROVE  DeliveryInv'
<1>1. RowTypes
  BY Zenon DEF DeliveryInv
<1>2. UNCHANGED <<tableVars, written, earliest, causes>> /\ now' \in Nat
  BY <1>1 DEF Tick, OpenFile, Stop, rowVars, RowTypes
<1>3. DOMAIN work' = Procs /\ \A q \in Procs : work'[q] = work[q] \/ work'[q] = Idle
  <2>1. CASE Tick \/ \E p \in Procs : OpenFile(p)
    BY <1>1, <2>1, Zenon DEF Tick, OpenFile, rowVars, RowTypes
  <2>2. CASE \E p \in Procs : Stop(p)
    BY <1>1, <2>2, Zenon DEF Stop, RowTypes
  <2> QED
    BY <2>1, <2>2, Zenon
<1> QED
  BY <1>2, <1>3, GoIdle, Zenon DEF tableVars

\* A row of the table that carries the columns of another and the checksum of those.
SignedAs(d, e, row) ==
    /\ d \in DeliveryRows /\ d # None
    /\ d.checksum = compute_delivery_checksum(e, row)
    /\ \A c \in Fields : d[c] = row[c]

\* A row stored with its own checksum.
LEMMA SignRow ==
    ASSUME NEW e \in Events, NEW row, IsContents(row)
    PROVE  SignedAs(DeliveryRow(e, row), e, row)
<1>0. PICK d : d = DeliveryRow(e, row)
  BY Zenon
<1>1. DOMAIN row = Fields
  BY Zenon DEF IsContents
<1>2. /\ d.checksum = compute_delivery_checksum(e, row)
      /\ \A c \in Fields : d[c] = row[c]
      /\ d = [c \in Fields \union {"checksum"} |-> d[c]]
  BY <1>0, <1>1, SignedRow, Zenon DEF DeliveryRow, Signed
<1>3. Content(d)
  BY <1>2, SameRow, Zenon DEF IsContents
<1>4. d.checksum \in DeliveryChecksums \union {Damaged}
  BY <1>2, ChecksumType, Zenon DEF IsContents
<1>5. d \in DeliveryRows /\ d # None
  BY <1>2, <1>3, <1>4, IsRow, Zenon
<1> QED
  BY <1>0, <1>2, <1>5, Zenon DEF SignedAs

\* What a new delivery row is: the pending one, with its checksum.
LEMMA CreateRows ==
    ASSUME DeliveryInv, NEW p \in Procs, NEW e \in Events, create_delivery_pending(p, e)
    PROVE  DeliveryInv'
<1>1. RowTypes /\ WorkTypes /\ Due(e)
  BY Zenon DEF DeliveryInv
<1>2. /\ delivery_state[e] = None
      /\ delivery_state' = [delivery_state EXCEPT ![e] = DeliveryRow(e, PendingRow)]
      /\ written' = [written EXCEPT ![e].delivery = PendingRow]
      /\ UNCHANGED <<work, now, earliest, causes>>
  BY Zenon DEF create_delivery_pending, CanCreate
<1>3. IsContents(PendingRow) /\ validate_delivery_state_invariants(PendingRow)
  BY Zenon DEF PendingRow, IsContents, Content, Fields, validate_delivery_state_invariants,
     DeliveryStatus, Times
<1> DEFINE d == DeliveryRow(e, PendingRow)
<1>4. /\ d.checksum = compute_delivery_checksum(e, PendingRow)
      /\ \A c \in Fields : d[c] = PendingRow[c]
  BY <1>3, SignRow, Zenon DEF SignedAs
<1>5. d \in DeliveryRows /\ d # None
  BY <1>3, SignRow, Zenon DEF SignedAs
<1> HIDE DEF d
<1>6. /\ delivery_state'[e] = d
      /\ \A f \in Events \ {e} : delivery_state'[f] = delivery_state[f]
      /\ delivery_state' \in [Events -> DeliveryRows \union {None}]
  BY <1>1, <1>2, <1>5, Zenon DEF RowTypes, d
<1>7. /\ DOMAIN written' = Events
      /\ \A f \in Events : DOMAIN written'[f] = {"lifecycle", "delivery"}
      /\ \A f \in Events \ {e} : written'[f].delivery = written[f].delivery
      /\ written'[e].delivery = PendingRow
  BY <1>1, <1>2, WrittenPart, ZenonT(40)
<1>8. \A q \in Procs : work'[q] = work[q]
          /\ ~(work[q].step \in {"failed", "retry"} /\ work[q].event = e)
  BY <1>1, <1>2, Zenon DEF WorkTypes, WorkType
<1>9. /\ Same(e)' /\ DeliveryFound(e)'
      /\ \A c \in Fields : Summed(delivery_state[e].checksum)'[c] = PendingRow[c]
  <2>1. /\ delivery_state'[e] # None
        /\ delivery_state'[e].checksum = compute_delivery_checksum(e, PendingRow)
        /\ \A c \in Fields :
               delivery_state'[e][c] = PendingRow[c] /\ written'[e].delivery[c] = PendingRow[c]
    BY <1>4, <1>5, <1>6, <1>7, Zenon
  <2> QED
    BY <1>3, <2>1, WriteRow, Zenon
<1>10. LoadsBefore(e)'
  BY <1>8, Zenon DEF LoadsBefore, Loading
<1>11. Clean(e)'
  <2>1. PendingRow.attempt_count = 0 /\ PendingRow.status = "DELIVERY_PENDING"
    BY Zenon DEF PendingRow
  <2>2. ~(PendingRow.attempt_count > 0)
    BY <2>1, ZeroCount, Zenon
  <2> QED
    BY <1>7, <1>8, <1>9, <1>10, <2>1, <2>2, Zenon DEF Clean, Loading
<1>12. Sound(e)'
  BY <1>9, <1>11, Zenon DEF Sound
<1>13. Due(e)'
  <2>1. PendingRow.status # "DELIVERY_RETRYING"
    BY Zenon DEF PendingRow
  <2> QED
    BY <1>7, <2>1, Zenon DEF Due
<1>14. IsContents(written[e].delivery)'
  BY <1>3, <1>7, Zenon DEF IsContents, Content
<1>15. CausesGrow /\ earliest' = earliest /\ DOMAIN work' = Procs /\ delivery_state'[e] # None
  BY <1>1, <1>2, <1>5, <1>6, CausesKept, Zenon DEF RowTypes
<1> QED
  BY <1>6, <1>7, <1>8, <1>12, <1>13, <1>14, <1>15, TouchedRow, Zenon

\* The attempt is counted in the row, under a new checksum, and in what is written.
LEMMA CountedRow ==
    ASSUME DeliveryInv, NEW e \in Events, DeliveryFound(e), NEW d,
           d = [Counted(delivery_state[e]) EXCEPT !.checksum =
                   compute_delivery_checksum(e, Counted(delivery_state[e]))]
    PROVE  /\ SignedAs(d, e, Counted(delivery_state[e]))
           /\ validate_delivery_state_invariants(Counted(delivery_state[e]))
           /\ IsContents(Counted(written[e].delivery))
<1> DEFINE D == delivery_state[e]
           W == written[e].delivery
           row == Counted(D)
<1>1. D \in DeliveryRows /\ IsContents(W) /\ validate_delivery_state_invariants(D)
  BY Zenon DEF DeliveryInv, RowTypes, DeliveryFound
<1>2. DOMAIN D = Fields \union {"checksum"} /\ Content(D) /\ DOMAIN W = Fields /\ Content(W)
  BY <1>1, RowColumns, Zenon DEF IsContents
<1> HIDE DEF D, W
<1>3. /\ DOMAIN row = DOMAIN D
      /\ row.attempt_count = D.attempt_count + 1 /\ row.status = D.status
      /\ row.next_retry_at = D.next_retry_at /\ row.blocked = D.blocked
      /\ row.confirmed = D.confirmed /\ row.revision = D.revision
  BY <1>2, Zenon DEF Counted, Fields
<1>4. /\ Counted(W) = [c \in Fields |-> Counted(W)[c]]
      /\ Counted(W).attempt_count = W.attempt_count + 1 /\ Counted(W).status = W.status
      /\ Counted(W).next_retry_at = W.next_retry_at /\ Counted(W).blocked = W.blocked
      /\ Counted(W).confirmed = W.confirmed /\ Counted(W).revision = W.revision
  BY <1>2, Zenon DEF Counted, Fields
<1>5. IsContents(Counted(W))
  BY <1>2, <1>4 DEF IsContents, Content
<1>6. Content(row) /\ validate_delivery_state_invariants(row)
  BY <1>1, <1>2, <1>3 DEF Content, validate_delivery_state_invariants
<1> DEFINE sum == compute_delivery_checksum(e, row)
<1>7. sum \in DeliveryChecksums
  BY <1>6, ChecksumType, Zenon
<1>8. d = [row EXCEPT !.checksum = sum]
  BY Zenon DEF D
<1> HIDE DEF row, sum
<1>9. /\ DOMAIN d = Fields \union {"checksum"} /\ d.checksum = sum
      /\ \A c \in Fields : d[c] = row[c]
  BY <1>2, <1>3, <1>8, Resigned
<1>10. d = [c \in Fields \union {"checksum"} |-> d[c]]
  BY <1>8, <1>9, Zenon
<1>11. Content(d)
  BY <1>6, <1>9, SameRow, Zenon
<1>12. d \in DeliveryRows /\ d # None
  BY <1>7, <1>9, <1>10, <1>11, IsRow, Zenon
<1> QED
  BY <1>5, <1>6, <1>9, <1>12, Zenon DEF SignedAs, row, sum, D, W

\* The failed attempt is counted under a new checksum: the row verifies again, and an
\* update that has loaded it is raced.
LEMMA AttemptRows ==
    ASSUME DeliveryInv, NEW p \in Procs, NEW retriable \in BOOLEAN,
           record_delivery_attempt(p, retriable), NEW e, e = work[p].event
    PROVE  DeliveryInv'
<1> DEFINE D == delivery_state[e]
           W == written[e].delivery
           d == [Counted(D) EXCEPT !.checksum = compute_delivery_checksum(e, Counted(D))]
<1>1. RowTypes /\ WorkTypes
  BY Zenon DEF DeliveryInv
<1>2. /\ work[p].step = "sending" /\ e \in Events /\ D # None
      /\ work[p].attempts \in Nat /\ Sound(e) /\ Due(e)
  BY <1>1, Zenon DEF record_delivery_attempt, WorkTypes, WorkType, DeliveryInv
<1>3. CASE ~DeliveryFound(e)
  <2>1. /\ work' = [work EXCEPT ![p] = Idle]
        /\ UNCHANGED <<delivery_state, written, now, earliest, causes>>
    BY <1>3, Zenon DEF record_delivery_attempt, causes
  <2>2. DOMAIN work' = Procs /\ work'[p] = Idle /\ \A q \in Procs \ {p} : work'[q] = work[q]
    BY <1>1, <2>1, Zenon DEF RowTypes
  <2> QED
    BY <1>1, <2>1, <2>2, GoIdle, Zenon DEF RowTypes
<1>4. CASE DeliveryFound(e)
  <2>1. /\ delivery_state' = [delivery_state EXCEPT ![e] = d]
        /\ written' = [written EXCEPT ![e].delivery = Counted(W)]
        /\ work' = [work EXCEPT ![p] =
              [step |-> "failed", event |-> e, revision |-> work[p].revision,
               attempts |-> work[p].attempts, retriable |-> retriable, at |-> now]]
        /\ raced' = IF \E q \in Procs : work[q].step = "retry" /\ work[q].event = e
                    THEN raced \union {e} ELSE raced
        /\ UNCHANGED <<now, earliest, damaged, repaired, faults>>
    BY <1>4, Zenon DEF record_delivery_attempt
  <2>16. d = [Counted(D) EXCEPT !.checksum = compute_delivery_checksum(e, Counted(D))]
    BY Zenon
  <2> HIDE DEF d
  <2>2. /\ d \in DeliveryRows /\ d # None
        /\ d.checksum = compute_delivery_checksum(e, Counted(D))
        /\ \A c \in Fields : d[c] = Counted(D)[c]
        /\ validate_delivery_state_invariants(Counted(D))
        /\ IsContents(Counted(W))
    <3>1. /\ SignedAs(d, e, Counted(delivery_state[e]))
          /\ validate_delivery_state_invariants(Counted(delivery_state[e]))
          /\ IsContents(Counted(written[e].delivery))
      BY <1>2, <1>4, <2>16, CountedRow, Zenon
    <3> QED
      BY <3>1, Zenon DEF SignedAs
  <2>3. D \in DeliveryRows /\ IsContents(W)
    BY <1>1, <1>2, Zenon DEF RowTypes
  <2> HIDE DEF D, W
  <2>4. /\ delivery_state'[e] = d
        /\ \A f \in Events \ {e} : delivery_state'[f] = delivery_state[f]
        /\ delivery_state' \in [Events -> DeliveryRows \union {None}]
        /\ \A f \in Events : delivery_state[f] # None => delivery_state'[f] # None
    BY <1>1, <1>2, <2>1, <2>2, Zenon DEF RowTypes
  <2>5. /\ DOMAIN written' = Events
        /\ \A f \in Events : DOMAIN written'[f] = {"lifecycle", "delivery"}
        /\ \A f \in Events \ {e} : written'[f].delivery = written[f].delivery
        /\ written'[e].delivery = Counted(W)
    <3>1. WritesDelivery(e, Counted(W))
      BY <1>1, <1>2, <2>1, WrittenDelivery, Zenon
    <3> QED
      BY <3>1, Zenon DEF WritesDelivery
  <2>6. /\ DOMAIN work' = Procs /\ \A q \in Procs \ {p} : work'[q] = work[q]
        /\ work'[p].step = "failed" /\ work'[p].event = e
        /\ work'[p].attempts \in Nat /\ work'[p].at \in Nat
    BY <1>1, <1>2, <2>1, Zenon DEF RowTypes
  <2>7. WorkType(p)'
    BY <1>2, <2>2, <2>4, <2>6, Zenon DEF WorkType
  <2>8. /\ Counted(W).attempt_count = W.attempt_count + 1 /\ W.attempt_count \in Nat
        /\ Counted(W).status = W.status /\ Counted(W).next_retry_at = W.next_retry_at
        /\ Counted(W).blocked = W.blocked /\ Counted(W).confirmed = W.confirmed
        /\ Counted(W).revision = W.revision
    BY <2>3, Zenon DEF IsContents, Counted, Fields, Content
  <2>9. Due(e)'
    <3>1. /\ delivery_state[e] # None /\ delivery_state'[e] # None
          /\ written'[e].delivery.status = written[e].delivery.status
          /\ written'[e].delivery.next_retry_at = written[e].delivery.next_retry_at
          /\ earliest'[e] = earliest[e]
      BY <1>2, <2>1, <2>2, <2>4, <2>5, <2>8, Zenon DEF D, W
    <3> QED
      BY <1>2, <3>1, Zenon DEF Due
  <2>10. ASSUME e \notin damaged \/ faults <= 1
         PROVE  /\ Same(e)' /\ DeliveryFound(e)'
                /\ \A c \in Fields : Summed(delivery_state[e].checksum)'[c] = Counted(D)[c]
                /\ \A c \in Fields : Counted(W)[c] = Counted(D)[c]
    <3>1. \A c \in Fields : D[c] = W[c]
      BY <1>2, <1>4, <2>10, FoundIsWritten, Zenon DEF Same, D, W
    <3>2. \A c \in Fields : Counted(W)[c] = Counted(D)[c]
      <4>1. Fields \subseteq DOMAIN W /\ Fields \subseteq DOMAIN D
        BY <2>3, RowColumns, Zenon DEF IsContents
      <4>2. W.attempt_count = D.attempt_count
        BY <3>1, Zenon DEF Fields
      <4>3. \A c \in Fields :
                Counted(W)[c] = IF c = "attempt_count" THEN W.attempt_count + 1 ELSE W[c]
        BY <4>1, UpdatedRow, Zenon
      <4>4. \A c \in Fields :
                Counted(D)[c] = IF c = "attempt_count" THEN D.attempt_count + 1 ELSE D[c]
        BY <4>1, UpdatedRow, Zenon
      <4> QED
        BY <3>1, <4>2, <4>3, <4>4, Zenon
    <3>3. /\ delivery_state'[e] # None
          /\ delivery_state'[e].checksum = compute_delivery_checksum(e, Counted(D))
          /\ \A c \in Fields :
                 delivery_state'[e][c] = Counted(D)[c] /\ written'[e].delivery[c] = Counted(D)[c]
      BY <2>2, <2>4, <2>5, <3>2, Zenon
    <3> QED
      BY <1>2, <2>2, <3>2, <3>3, WriteRow, ZenonT(40)
  <2>11. ASSUME e \notin damaged PROVE Clean(e)'
    <3>1. Clean(e)
      BY <1>2, <2>11, Zenon DEF Sound, D
    <3>2. LoadsBefore(e)'
      <4>1. /\ written'[e].delivery.revision = written[e].delivery.revision
            /\ written'[e].delivery.blocked = written[e].delivery.blocked
            /\ written'[e].delivery.confirmed = written[e].delivery.confirmed
        BY <2>5, <2>8, Zenon DEF W
      <4>2. \A q \in Procs : Loading(q, e)' => Loading(q, e) /\ work'[q] = work[q]
        BY <2>6, Zenon DEF Loading
      <4> QED
        <5>1. LoadsBefore(e)
          BY <3>1, Zenon DEF Clean
        <5> QED
          BY <4>1, <4>2, <5>1, Zenon DEF LoadsBefore
    <3>3. \A q \in Procs : Loading(q, e)' => e \in raced'
      BY <1>2, <2>1, <2>6, Zenon DEF Loading
    <3>4. Counted(D).attempt_count = Counted(W).attempt_count
      BY <2>10, <2>11, Zenon DEF Fields
    <3>5. Counted(W).attempt_count > 0
      BY <2>8, Positive, Zenon
    <3>6. /\ Same(e)' /\ DeliveryFound(e)' /\ written'[e].delivery = Counted(W)
          /\ \A c \in Fields : Summed(delivery_state[e].checksum)'[c] = Counted(W)[c]
      BY <2>5, <2>10, <2>11, Zenon
    <3>7. Summed(delivery_state[e].checksum)'.attempt_count > 0
      BY <3>5, <3>6, Zenon DEF Fields
    <3> QED
      BY <3>2, <3>3, <3>5, <3>6, <3>7, Zenon DEF Clean
  <2>12. Sound(e)'
    BY <2>1, <2>10, <2>11, Zenon DEF Sound
  <2>13. IsContents(written[e].delivery)'
    BY <2>2, <2>5, Zenon DEF IsContents, Content
  <2>14. CausesGrow /\ earliest' = earliest /\ delivery_state'[e] # None
    BY <1>1, <2>1, <2>2, <2>4, Zenon DEF RowTypes, CausesGrow
  <2>15. \A q \in Procs :
             \/ work'[q] = work[q]
             \/ /\ WorkType(q)'
                /\ work'[q].step \in {"failed", "retry"} => work'[q].event = e
    BY <2>6, <2>7, Zenon
  <2> QED
    BY <1>2, <2>4, <2>5, <2>6, <2>9, <2>12, <2>13, <2>14, <2>15, TouchedRow, Zenon
<1> QED
  BY <1>3, <1>4, Zenon

\* confirm_replicated_delivery and block_delivery write the next row of an event whose
\* row they have verified: the loads of the last revision are now behind.
LEMMA MoveRows ==
    ASSUME DeliveryInv, NEW p \in Procs, NEW e, e = work[p].event,
           NEW status \in {"REPLICATED", "DELIVERY_BLOCKED"},
           work[p].step \in {"sending", "failed"},
           status = "DELIVERY_BLOCKED" => work[p].step = "failed",
           DeliveryFound(e), Transition(e, NextRow(e, status)),
           work' = [work EXCEPT ![p] = Idle], UNCHANGED <<now, earliest, causes>>
    PROVE  DeliveryInv'
<1> DEFINE D == delivery_state[e]
           row == NextRow(e, status)
           d == DeliveryRow(e, row)
<1>1. RowTypes /\ WorkTypes
  BY Zenon DEF DeliveryInv
<1>2. e \in Events /\ D # None /\ Sound(e)
  BY <1>1, Zenon DEF WorkTypes, WorkType, DeliveryInv
<1>3. D \in DeliveryRows /\ Content(D)
  BY <1>1, <1>2, RowColumns, Zenon DEF RowTypes
<1>4. /\ row.status = status /\ row.attempt_count = D.attempt_count
      /\ row.next_retry_at = None /\ row.blocked = (status = "DELIVERY_BLOCKED")
      /\ row.confirmed = (status = "REPLICATED") /\ row.revision = D.revision + 1
      /\ row = [c \in Fields |-> row[c]]
  BY Zenon DEF NextRow, Fields
<1> HIDE DEF D, row
<1>5. IsContents(row) /\ validate_delivery_state_invariants(row)
  BY <1>3, <1>4 DEF IsContents, Content, validate_delivery_state_invariants, DeliveryStatus, Times
<1>0. SignedAs(d, e, row)
  BY <1>2, <1>5, SignRow, Zenon
<1> HIDE DEF d
<1>6. /\ d \in DeliveryRows /\ d # None
      /\ d.checksum = compute_delivery_checksum(e, row)
      /\ \A c \in Fields : d[c] = row[c]
  BY <1>0, Zenon DEF SignedAs
<1>7. /\ delivery_state' = [delivery_state EXCEPT ![e] = d]
      /\ \E l : written' = [written EXCEPT ![e] = [lifecycle |-> l, delivery |-> row]]
  BY Zenon DEF Transition, d, row
<1>8. /\ delivery_state'[e] = d
      /\ \A f \in Events \ {e} : delivery_state'[f] = delivery_state[f]
      /\ delivery_state' \in [Events -> DeliveryRows \union {None}]
      /\ \A f \in Events : delivery_state[f] # None => delivery_state'[f] # None
  BY <1>1, <1>2, <1>6, <1>7, Zenon DEF RowTypes
<1>9. /\ DOMAIN written' = Events
      /\ \A f \in Events : DOMAIN written'[f] = {"lifecycle", "delivery"}
      /\ \A f \in Events \ {e} : written'[f].delivery = written[f].delivery
      /\ written'[e].delivery = row
  <2>1. PICK l : written' = [written EXCEPT ![e] = [lifecycle |-> l, delivery |-> row]]
    BY <1>7, Zenon
  <2>2. \A f \in Events : written'[f] = IF f = e THEN [lifecycle |-> l, delivery |-> row]
                                                 ELSE written[f]
    BY <1>1, <2>1, Zenon DEF RowTypes
  <2> QED
    BY <1>1, <1>2, <2>1, <2>2, Zenon DEF RowTypes
<1>10. DOMAIN work' = Procs /\ work'[p] = Idle /\ \A q \in Procs \ {p} : work'[q] = work[q]
  BY <1>1, Zenon DEF RowTypes
<1>11. WorkType(p)' /\ work'[p].step = "idle"
  BY <1>10, IdleWork, Zenon
<1>12. /\ Same(e)' /\ DeliveryFound(e)'
       /\ \A c \in Fields : Summed(delivery_state[e].checksum)'[c] = row[c]
  <2>1. /\ delivery_state'[e] # None
        /\ delivery_state'[e].checksum = compute_delivery_checksum(e, row)
        /\ \A c \in Fields : delivery_state'[e][c] = row[c] /\ written'[e].delivery[c] = row[c]
    BY <1>6, <1>8, <1>9, Zenon
  <2> QED
    BY <1>2, <1>5, <2>1, WriteRow, Zenon
<1>13. ASSUME e \notin damaged PROVE Clean(e)'
  <2>1. Clean(e) /\ Same(e)
    BY <1>2, <1>13, Zenon DEF Sound, D, Clean
  <2>2. /\ D.attempt_count = written[e].delivery.attempt_count
        /\ D.revision = written[e].delivery.revision
        /\ D.attempt_count \in Nat /\ D.revision \in Nat
    BY <1>3, <2>1, Zenon DEF Same, Fields, D, Content
  <2>3. \A q \in Procs : work'[q].step \in {"failed", "retry"} => work'[q] = work[q]
    BY <1>10, <1>11, Zenon
  <2>4. \A q \in Procs : Loading(q, e)' =>
            /\ work'[q].loaded.attempt_count > 0
            /\ work'[q].loaded.revision <= row.revision
            /\ work'[q].loaded.revision # row.revision
    <3> SUFFICES ASSUME NEW q \in Procs, Loading(q, e)'
                 PROVE  /\ work'[q].loaded.attempt_count > 0
                        /\ work'[q].loaded.revision <= row.revision
                        /\ work'[q].loaded.revision # row.revision
      BY Zenon
    <3>1. work'[q] = work[q] /\ Loading(q, e)
      BY <2>3, Zenon DEF Loading
    <3>2. work[q].loaded.attempt_count > 0 /\ work[q].loaded.revision <= D.revision
      BY <2>1, <2>2, <3>1, Zenon DEF Clean, LoadsBefore
    <3>3. work[q].loaded.revision \in Nat
      BY <1>1, <3>1, RowColumns, Zenon DEF WorkTypes, WorkType, Loading, Content
    <3> QED
      <4>1. /\ work[q].loaded.revision <= D.revision + 1
            /\ work[q].loaded.revision # D.revision + 1
        BY <2>2, <3>2, <3>3, Behind, Zenon
      <4> QED
        BY <1>4, <3>1, <3>2, <4>1, Zenon
  <2>5. LoadsBefore(e)'
    BY <1>9, <2>4, Zenon DEF LoadsBefore
  <2>6. \A q \in Procs : work'[q].step = "failed" /\ work'[q].event = e => row.attempt_count > 0
    <3>1. \A q \in Procs : work[q].step = "failed" /\ work[q].event = e =>
              written[e].delivery.attempt_count > 0
      BY <2>1, Zenon DEF Clean
    <3> QED
      BY <1>4, <2>2, <2>3, <3>1, ZenonT(40)
  <2>7. row.status = "DELIVERY_BLOCKED" => row.attempt_count > 0
    BY <1>4, <2>1, <2>2, Zenon DEF Clean
  <2>8. row.attempt_count > 0 => Summed(delivery_state[e].checksum)'.attempt_count > 0
    BY <1>12, Zenon DEF Fields
  <2>9. \A q \in Procs : ~(Loading(q, e)' /\ work'[q].loaded.revision = row.revision)
    BY <2>4, Zenon
  <2>10. /\ Same(e)' /\ DeliveryFound(e)' /\ written'[e].delivery = row
         /\ \A c \in Fields \ {"attempt_count"} : Summed(delivery_state[e].checksum)'[c] = row[c]
    BY <1>9, <1>12, Zenon
  <2> QED
    BY <2>5, <2>6, <2>7, <2>8, <2>9, <2>10, ZenonT(40) DEF Clean
<1>14. Sound(e)' /\ Due(e)'
  <2>1. damaged' = damaged
    BY Zenon DEF causes
  <2> QED
    BY <1>4, <1>6, <1>8, <1>9, <1>12, <1>13, <2>1, Zenon DEF Sound, Due
<1>15. IsContents(written[e].delivery)'
  BY <1>5, <1>9, Zenon DEF IsContents, Content
<1>16. CausesGrow /\ earliest' = earliest /\ delivery_state'[e] # None
  BY <1>1, <1>6, <1>8, CausesKept, Zenon DEF RowTypes
<1>17. \A q \in Procs :
           \/ work'[q] = work[q]
           \/ /\ WorkType(q)'
              /\ work'[q].step \in {"failed", "retry"} => work'[q].event = e
  BY <1>10, <1>11, Zenon
<1> QED
  BY <1>2, <1>8, <1>9, <1>10, <1>14, <1>15, <1>16, <1>17, TouchedRow, Zenon

\* A power of two is positive: it counts the subsets of a set.
LEMMA PowerPositive ==
    ASSUME NEW k \in Nat
    PROVE  2^k \in Nat /\ 2^k >= 1
<1>1. IsFiniteSet(1 .. k) /\ Cardinality(1 .. k) = k
  BY FS_Interval
<1>2. IsFiniteSet(SUBSET (1 .. k)) /\ Cardinality(SUBSET (1 .. k)) = 2^k
  BY <1>1, FS_SUBSET, Zenon
<1>3. SUBSET (1 .. k) # {} /\ Cardinality(SUBSET (1 .. k)) \in Nat
  BY <1>2, FS_CardinalityType, Zenon
<1>4. Cardinality(SUBSET (1 .. k)) # 0
  BY <1>2, <1>3, FS_EmptySet, Zenon
<1> QED
  BY <1>2, <1>3, <1>4

\* The next attempt is one whole backoff after the failure: the base, doubled for each
\* earlier attempt, up to the maximum.
LEMMA RetryBackoff ==
    ASSUME NEW attempts \in Nat, NEW time \in Nat, NEW next,
           next = compute_next_retry(attempts + 1, time), next # None
    PROVE  next \in Nat /\ next = time + Backoff(attempts)
<1>0. PICK n \in Nat : n = attempts + 1
  OBVIOUS
<1> DEFINE k == Maximum(n - 1, 0)
<1>1. k = attempts
  BY <1>0 DEF Maximum
<1> HIDE DEF k
<1>2. next = time + Backoff(attempts)
  <2>1. next = compute_next_retry(n, time)
    BY <1>0, Zenon
  <2>2. next = time + Minimum(BASE_BACKOFF_MS * 2^k, MAX_BACKOFF_MS)
    BY <2>1, Zenon DEF compute_next_retry, k
  <2> QED
    BY <1>1, <2>2, Zenon DEF Backoff
<1>3. PICK power : power = 2^attempts
  BY Zenon
<1>4. power \in Nat
  BY <1>3, PowerPositive, Zenon
<1>5. Backoff(attempts) = Minimum(BASE_BACKOFF_MS * power, MAX_BACKOFF_MS)
  BY <1>3, Zenon DEF Backoff
<1>6. Backoff(attempts) \in Nat
  BY <1>4, <1>5, RowConstants DEF Minimum
<1> QED
  BY <1>2, <1>6

\* The load of update_delivery_retry remembers a verified row: the written one.
LEMMA LoadRows ==
    ASSUME DeliveryInv, NEW p \in Procs, NEW e \in Events, delivery_state[e] # None,
           NEW expected, NEW next \in Nat, NEW allowed, allowed = next,
           Clean(e) /\ DeliveryFound(e) => written[e].delivery.attempt_count > 0,
           work' = [work EXCEPT ![p] = RetryLoaded(e, expected, next, allowed)],
           UNCHANGED <<tableVars, written, now, earliest, causes>>
    PROVE  DeliveryInv'
<1>1. RowTypes /\ WorkTypes /\ Sound(e) /\ Due(e)
  BY Zenon DEF DeliveryInv
<1>2. /\ DOMAIN work' = Procs /\ \A q \in Procs \ {p} : work'[q] = work[q]
      /\ work'[p] = RetryLoaded(e, expected, next, allowed)
  BY <1>1, Zenon DEF RowTypes
<1>3. /\ UNCHANGED <<delivery_state, written, now, faults, damaged, raced, repaired, earliest>>
      /\ now' \in Nat /\ faults' \in Nat /\ (faults' = 0 => damaged' = {})
      /\ earliest' \in [Events -> Nat] /\ delivery_state' \in [Events -> DeliveryRows \union {None}]
      /\ DOMAIN written' = Events
      /\ \A f \in Events : DOMAIN written'[f] = {"lifecycle", "delivery"}
  BY <1>1, Zenon DEF RowTypes, tableVars, causes
<1>4. CASE work'[p] = Idle
  BY <1>2, <1>3, <1>4, GoIdle, Zenon DEF causes
<1>5. CASE work'[p] # Idle
  <2>1. /\ work'[p].step = "retry" /\ work'[p].event = e /\ work'[p].loaded = delivery_state[e]
        /\ work'[p].next = next /\ work'[p].allowed = allowed
        /\ DeliveryFound(e) /\ delivery_state[e].status # "REPLICATED"
    BY <1>2, <1>5, Zenon DEF RetryLoaded
  <2>2. /\ delivery_state[e] \in DeliveryRows
        /\ validate_delivery_state_invariants(delivery_state[e])
    BY <1>1, <2>1, Zenon DEF RowTypes, DeliveryFound
  <2>3. WorkType(p)'
    BY <1>3, <2>1, <2>2, Zenon DEF WorkType, validate_delivery_state_invariants
  <2>4. Same(e) => Same(e)'
    <3>1. delivery_state' = delivery_state /\ written' = written
      BY <1>3, Zenon
    <3> QED
      BY <3>1, Zenon DEF Same
  <2>5. ASSUME e \notin damaged PROVE Clean(e)'
    <3>1. Clean(e) /\ Same(e) /\ written[e].delivery.attempt_count > 0
      BY <1>1, <2>1, <2>5, Zenon DEF Sound, Clean
    <3>2. /\ delivery_state[e].revision = written[e].delivery.revision
          /\ delivery_state[e].attempt_count = written[e].delivery.attempt_count
          /\ delivery_state[e].blocked = written[e].delivery.blocked
          /\ delivery_state[e].confirmed = written[e].delivery.confirmed
          /\ written[e].delivery.revision \in Nat
      BY <1>1, <3>1, Zenon DEF Same, Fields, RowTypes, IsContents, Content
    <3>3. \A q \in Procs : Loading(q, e)' =>
              \/ q = p
              \/ Loading(q, e) /\ work'[q] = work[q]
      BY <1>2, Zenon DEF Loading
    <3>4. LoadsBefore(e)'
      <4> SUFFICES ASSUME NEW q \in Procs, Loading(q, e)'
                   PROVE  LET loaded == work'[q].loaded
                              row == written[e].delivery
                          IN  /\ loaded.attempt_count > 0
                              /\ loaded.revision <= row.revision
                              /\ loaded.revision = row.revision =>
                                     loaded.blocked = row.blocked /\ loaded.confirmed = row.confirmed
        BY <1>3, Zenon DEF LoadsBefore
      <4>1. CASE q = p
        BY <2>1, <3>1, <3>2, <4>1, Positive, ZenonT(40)
      <4>2. CASE Loading(q, e) /\ work'[q] = work[q]
        BY <3>1, <4>2, Zenon DEF LoadsBefore, Clean
      <4> QED
        BY <3>3, <4>1, <4>2, Zenon
    <3>5. \A q \in Procs : Loading(q, e)' /\ work'[q].loaded.revision = written[e].delivery.revision
              => work'[q].loaded.attempt_count = written[e].delivery.attempt_count \/ e \in raced
      BY <2>1, <3>1, <3>2, <3>3, Zenon DEF Clean
    <3>6. /\ DeliveryFound(e)'
          /\ Summed(delivery_state[e].checksum)' = Summed(delivery_state[e].checksum)
      BY <1>3, <2>1, Zenon DEF DeliveryFound, compute_delivery_checksum, Summed,
         validate_delivery_state_invariants
    <3> QED
      BY <1>3, <2>4, <3>1, <3>4, <3>5, <3>6, Zenon DEF Clean
  <2>6. Sound(e)'
    <3>1. faults <= 1 => Same(e)
      BY <2>1, FoundIsWritten, Zenon
    <3>2. faults' = faults /\ damaged' = damaged
      BY <1>3, Zenon
    <3> QED
      BY <2>4, <2>5, <3>1, <3>2, Zenon DEF Sound
  <2>7. Due(e)'
    BY <1>1, <1>3, Zenon DEF Due
  <2>8. IsContents(written[e].delivery)'
    BY <1>1, <1>3, Zenon DEF RowTypes, IsContents, Content
  <2>9. /\ CausesGrow /\ earliest' = earliest /\ delivery_state'[e] # None
        /\ delivery_state' = delivery_state /\ written' = written
    BY <1>1, <1>3, CausesKept, Zenon DEF causes
  <2>10. \A q \in Procs :
             \/ work'[q] = work[q]
             \/ /\ WorkType(q)'
                /\ work'[q].step \in {"failed", "retry"} => work'[q].event = e
    BY <1>2, <2>1, <2>3, Zenon
  <2>11. /\ \A f \in Events \ {e} : delivery_state'[f] = delivery_state[f]
         /\ \A f \in Events \ {e} : written'[f].delivery = written[f].delivery
    BY <2>9, Zenon
  <2> QED
    BY <1>2, <1>3, <2>6, <2>7, <2>8, <2>9, <2>10, <2>11, TouchedRow, Zenon
<1> QED
  BY <1>4, <1>5, Zenon

\* After a retriable failure the row has counted an attempt; a blocked row has too.
LEMMA RetryRows ==
    ASSUME DeliveryInv, NEW p \in Procs, LoadForRetry(p), NEW e, e = work[p].event
    PROVE  DeliveryInv'
<1> DEFINE next == compute_next_retry(work[p].attempts + 1, work[p].at)
           allowed == work[p].at + Backoff(work[p].attempts)
<1>1. RowTypes /\ WorkTypes
  BY Zenon DEF DeliveryInv
<1>2. /\ work[p].step = "failed" /\ e \in Events /\ delivery_state[e] # None
      /\ work[p].attempts \in Nat /\ work[p].at \in Nat
  BY <1>1, Zenon DEF LoadForRetry, WorkTypes, WorkType
<1>3. /\ next # None
      /\ work' = [work EXCEPT ![p] = RetryLoaded(e, work[p].revision, next, allowed)]
      /\ UNCHANGED <<tableVars, written, now, earliest, causes>>
  BY Zenon DEF LoadForRetry
<1>4. next \in Nat /\ allowed = next
  BY <1>2, <1>3, RetryBackoff, Zenon
<1>5. Clean(e) => written[e].delivery.attempt_count > 0
  BY <1>2, Zenon DEF Clean
<1> HIDE DEF next, allowed
<1> QED
  BY <1>2, <1>3, <1>4, <1>5, LoadRows, Zenon

\* The operator loads a blocked row to put it back into retrying.
LEMMA RepairRows ==
    ASSUME DeliveryInv, NEW p \in Procs, NEW e \in Events, LoadForRepair(p, e)
    PROVE  DeliveryInv'
<1>1. /\ delivery_state[e] # None /\ delivery_state[e].status = "DELIVERY_BLOCKED"
      /\ work' = [work EXCEPT ![p] = RetryLoaded(e, delivery_state[e].revision, now, now)]
      /\ UNCHANGED <<tableVars, written, now, earliest, causes>>
  BY Zenon DEF LoadForRepair, classify_for_repair
<1>2. now \in Nat
  BY Zenon DEF DeliveryInv, RowTypes
<1>3. Clean(e) => written[e].delivery.attempt_count > 0
  BY <1>1, Zenon DEF Clean, Same, Fields
<1>4. PICK next, allowed, revision :
          /\ next \in Nat /\ next = now /\ allowed = now
          /\ revision = delivery_state[e].revision
  BY <1>2, Zenon
<1>5. /\ work' = [work EXCEPT ![p] = RetryLoaded(e, revision, next, allowed)]
      /\ allowed = next
  BY <1>1, <1>4, Zenon
<1>6. UNCHANGED <<tableVars, written, now, earliest, causes>> /\ delivery_state[e] # None
  BY <1>1, Zenon
<1> QED
  BY <1>3, <1>4, <1>5, <1>6, LoadRows, Zenon

\* The columns of a row the UPDATE of update_delivery_retry has been applied to.
Renewed(r, row, next, revision) ==
    /\ r.status = "DELIVERY_RETRYING" /\ r.next_retry_at = next /\ r.revision = revision
    /\ r.attempt_count = row.attempt_count /\ r.blocked = row.blocked
    /\ r.confirmed = row.confirmed
    /\ DOMAIN r = DOMAIN row /\ r = [c \in DOMAIN row |-> r[c]]

\* The UPDATE renews the row.
LEMMA RetryingRow ==
    ASSUME NEW row, Fields \subseteq DOMAIN row, NEW next, NEW revision
    PROVE  Renewed(Retrying(row, next, revision), row, next, revision)
BY Zenon DEF Retrying, Fields, Renewed

\* What the store of update_delivery_retry leaves in the row: the columns the UPDATE
\* names, the others as they were, and the checksum of the loaded row.
StoredAs(d, e, D, L, next, revision) ==
    /\ d \in DeliveryRows /\ d # None
    /\ d.checksum = compute_delivery_checksum(e, Retrying(L, next, revision))
    /\ \A c \in Fields : d[c] = Retrying(D, next, revision)[c]

\* The row that is stored, and what is remembered of it.
LEMMA StoredRow ==
    ASSUME NEW e \in Events, NEW D \in DeliveryRows, NEW L \in DeliveryRows, NEW W, IsContents(W),
           NEW next \in Nat, NEW revision \in Nat, NEW d,
           d = [Retrying(D, next, revision) EXCEPT !.checksum =
                   compute_delivery_checksum(e, Retrying(L, next, revision))]
    PROVE  StoredAs(d, e, D, L, next, revision) /\ IsContents(Retrying(W, next, revision))
<1> DEFINE RD == Retrying(D, next, revision)
           RL == Retrying(L, next, revision)
           RW == Retrying(W, next, revision)
           sum == compute_delivery_checksum(e, RL)
<1>1. /\ DOMAIN D = Fields \union {"checksum"} /\ Content(D)
      /\ Fields \subseteq DOMAIN L /\ Content(L) /\ DOMAIN W = Fields /\ Content(W)
  BY RowColumns, Zenon DEF IsContents
<1>2. /\ RD.status = "DELIVERY_RETRYING" /\ RD.next_retry_at = next /\ RD.revision = revision
      /\ RD.attempt_count = D.attempt_count /\ RD.blocked = D.blocked
      /\ RD.confirmed = D.confirmed /\ DOMAIN RD = DOMAIN D
  <2>1. Renewed(RD, D, next, revision)
    BY <1>1, RetryingRow, Zenon
  <2> QED
    BY <2>1, Zenon DEF Renewed
<1>3. /\ RL.status = "DELIVERY_RETRYING" /\ RL.next_retry_at = next /\ RL.revision = revision
      /\ RL.attempt_count = L.attempt_count /\ RL.blocked = L.blocked
      /\ RL.confirmed = L.confirmed
  <2>1. Renewed(RL, L, next, revision)
    BY <1>1, RetryingRow, Zenon
  <2> QED
    BY <2>1, Zenon DEF Renewed
<1>4. /\ RW.status = "DELIVERY_RETRYING" /\ RW.next_retry_at = next /\ RW.revision = revision
      /\ RW.attempt_count = W.attempt_count /\ RW.blocked = W.blocked
      /\ RW.confirmed = W.confirmed /\ RW = [c \in Fields |-> RW[c]]
  <2>1. Renewed(RW, W, next, revision)
    BY <1>1, RetryingRow, Zenon
  <2> QED
    BY <1>1, <2>1, Zenon DEF Renewed
<1>5. d = [RD EXCEPT !.checksum = sum]
  OBVIOUS
<1> HIDE DEF RD, RL, RW, sum
<1>6. Content(RD) /\ Content(RL) /\ IsContents(RW)
  BY <1>1, <1>2, <1>3, <1>4, Zenon DEF Content, IsContents, DeliveryStatus, Times
<1>7. sum \in DeliveryChecksums
  BY <1>6, ChecksumType, Zenon DEF sum
<1>8. /\ DOMAIN d = Fields \union {"checksum"} /\ d.checksum = sum
      /\ \A c \in Fields : d[c] = RD[c]
  BY <1>1, <1>2, <1>5, Resigned, ZenonT(40)
<1>9. d = [c \in Fields \union {"checksum"} |-> d[c]]
  BY <1>5, <1>8, Zenon
<1>10. Content(d)
  BY <1>6, <1>8, SameRow, Zenon
<1>11. d \in DeliveryRows /\ d # None
  BY <1>7, <1>8, <1>9, <1>10, IsRow, Zenon
<1> QED
  BY <1>6, <1>8, <1>11, Zenon DEF StoredAs, RD, RL, RW, sum

\* One store of update_delivery_retry, seen from the event: p has loaded L, the row D has
\* its revision, and W is what was written last.
Storing(p, e, L, D, W) ==
    LET next == work[p].next
        revision == L.revision + 1
    IN  /\ Loading(p, e) /\ work[p].loaded = L /\ D.revision = L.revision
        /\ D = delivery_state[e] /\ W = written[e].delivery
        /\ work' = [work EXCEPT ![p] = Idle]
        /\ \A c \in Fields : delivery_state'[e][c] = Retrying(D, next, revision)[c]
        /\ delivery_state'[e].checksum = compute_delivery_checksum(e, Retrying(L, next, revision))
        /\ written'[e].delivery = Retrying(W, next, revision)
        /\ raced' = raced
        /\ repaired' = IF L.blocked THEN repaired \union {e} ELSE repaired

\* Column by column: status, time and revision are new everywhere; the other columns are
\* the old ones in the row and in what is written, and the loaded ones in the checksum.
AfterStore(p, e, L, D, W) ==
    /\ L \in DeliveryRows /\ D \in DeliveryRows /\ IsContents(W)
    /\ \A c \in {"status", "next_retry_at", "revision"} :
           /\ delivery_state'[e][c] = written'[e].delivery[c]
           /\ Summed(delivery_state[e].checksum)'[c] = written'[e].delivery[c]
    /\ written'[e].delivery.status = "DELIVERY_RETRYING"
    /\ written'[e].delivery.next_retry_at = work[p].next
    /\ written'[e].delivery.revision = L.revision + 1
    /\ \A c \in {"attempt_count", "blocked", "confirmed"} :
           /\ delivery_state'[e][c] = D[c]
           /\ written'[e].delivery[c] = W[c]
           /\ Summed(delivery_state[e].checksum)'[c] = L[c]

\* The columns after the store of update_delivery_retry.
LEMMA StoreColumns ==
    ASSUME DeliveryInv, NEW p \in Procs, NEW e \in Events, NEW L, NEW D, NEW W,
           Storing(p, e, L, D, W)
    PROVE  AfterStore(p, e, L, D, W)
<1> DEFINE next == work[p].next
           revision == L.revision + 1
           RD == Retrying(D, next, revision)
           RL == Retrying(L, next, revision)
           RW == Retrying(W, next, revision)
<1>1. WorkType(p) /\ RowTypes
  BY Zenon DEF DeliveryInv, WorkTypes
<1>2. L \in DeliveryRows /\ D \in DeliveryRows /\ IsContents(W)
  BY <1>1, ZenonT(40) DEF Storing, Loading, WorkType, RowTypes
<1>3. Fields \subseteq DOMAIN L /\ Fields \subseteq DOMAIN D /\ Fields \subseteq DOMAIN W
  BY <1>2, RowColumns, Zenon DEF IsContents
<1>4. /\ RD.status = "DELIVERY_RETRYING" /\ RD.next_retry_at = next /\ RD.revision = revision
      /\ RD.attempt_count = D.attempt_count /\ RD.blocked = D.blocked
      /\ RD.confirmed = D.confirmed
  <2>1. Renewed(RD, D, next, revision)
    BY <1>3, RetryingRow, Zenon
  <2> QED
    BY <2>1, Zenon DEF Renewed
<1>5. /\ RL.status = "DELIVERY_RETRYING" /\ RL.next_retry_at = next /\ RL.revision = revision
      /\ RL.attempt_count = L.attempt_count /\ RL.blocked = L.blocked
      /\ RL.confirmed = L.confirmed
  <2>1. Renewed(RL, L, next, revision)
    BY <1>3, RetryingRow, Zenon
  <2> QED
    BY <2>1, Zenon DEF Renewed
<1>6. /\ RW.status = "DELIVERY_RETRYING" /\ RW.next_retry_at = next /\ RW.revision = revision
      /\ RW.attempt_count = W.attempt_count /\ RW.blocked = W.blocked
      /\ RW.confirmed = W.confirmed
  <2>1. Renewed(RW, W, next, revision)
    BY <1>3, RetryingRow, Zenon
  <2> QED
    BY <2>1, Zenon DEF Renewed
<1>7. /\ \A c \in Fields : delivery_state'[e][c] = RD[c]
      /\ Summed(delivery_state[e].checksum)' = Summed(compute_delivery_checksum(e, RL))
      /\ written'[e].delivery = RW
  BY Zenon DEF Storing, Summed
<1> HIDE DEF RD, RL, RW
<1>8. \A c \in Fields : Summed(delivery_state[e].checksum)'[c] = RL[c]
  <2>1. \A c \in Fields : Summed(compute_delivery_checksum(e, RL))[c] = RL[c]
    BY ChecksumNames, Zenon
  <2> QED
    BY <1>7, <2>1, Zenon
<1> HIDE DEF next, revision
<1>9. /\ RW.status = RL.status /\ RW.status = RD.status
      /\ RW.next_retry_at = RL.next_retry_at /\ RW.next_retry_at = RD.next_retry_at
      /\ RW.revision = RL.revision /\ RW.revision = RD.revision
  BY <1>4, <1>5, <1>6, Zenon
<1>10. \A c \in {"status", "next_retry_at", "revision"} :
           /\ delivery_state'[e][c] = written'[e].delivery[c]
           /\ Summed(delivery_state[e].checksum)'[c] = written'[e].delivery[c]
  BY <1>7, <1>8, <1>9, Zenon DEF Fields
<1>11. \A c \in {"attempt_count", "blocked", "confirmed"} :
           /\ delivery_state'[e][c] = D[c]
           /\ written'[e].delivery[c] = W[c]
           /\ Summed(delivery_state[e].checksum)'[c] = L[c]
  BY <1>4, <1>5, <1>6, <1>7, <1>8, ZenonT(40) DEF Fields
<1> QED
  BY <1>2, <1>6, <1>7, <1>10, <1>11, Zenon DEF AfterStore, next, revision

\* While the revision of the row is the written one, a matching load agrees with what
\* was written, and the store leaves every other load behind.
LEMMA StoreLoads ==
    ASSUME DeliveryInv, NEW p \in Procs, NEW e \in Events, NEW L, NEW D, NEW W,
           Storing(p, e, L, D, W), LoadsBefore(e), D.revision = W.revision
    PROVE  /\ L.attempt_count > 0 /\ L.blocked = W.blocked /\ L.confirmed = W.confirmed
           /\ LoadsBefore(e)'
           /\ \A q \in Procs : ~(Loading(q, e)' /\ work'[q].loaded.revision = L.revision + 1)
<1>0. L.revision = W.revision
  BY Zenon DEF Storing
<1>1. L \in DeliveryRows /\ written'[e].delivery.revision = L.revision + 1 /\ L.revision = W.revision
  <2>1. AfterStore(p, e, L, D, W)
    BY StoreColumns, Zenon
  <2> QED
    BY <1>0, <2>1, Zenon DEF AfterStore
<1>2. L.revision \in Nat
  BY <1>1, RowColumns, Zenon DEF Content
<1>3. L.attempt_count > 0 /\ L.blocked = W.blocked /\ L.confirmed = W.confirmed
  BY <1>1, Zenon DEF LoadsBefore, Storing
<1>4. \A q \in Procs : Loading(q, e)' => Loading(q, e) /\ work'[q] = work[q]
  BY Zenon DEF Storing, Loading, DeliveryInv, RowTypes, Idle
<1>5. ASSUME NEW q \in Procs, Loading(q, e)'
      PROVE  /\ work'[q].loaded.attempt_count > 0
             /\ work'[q].loaded.revision <= L.revision + 1
             /\ work'[q].loaded.revision # L.revision + 1
  <2>1. Loading(q, e) /\ work'[q] = work[q]
    BY <1>4, <1>5, Zenon
  <2>2. work[q].loaded.revision \in Nat
    BY <2>1, RowColumns, Zenon DEF DeliveryInv, WorkTypes, WorkType, Loading, Content
  <2>3. work[q].loaded.attempt_count > 0 /\ work[q].loaded.revision <= L.revision
    BY <1>0, <2>1, Zenon DEF LoadsBefore, Storing
  <2>4. /\ work[q].loaded.revision <= L.revision + 1
        /\ work[q].loaded.revision # L.revision + 1
    BY <1>2, <2>2, <2>3, Behind, Zenon
  <2> QED
    BY <2>1, <2>3, <2>4, Zenon
<1>6. LoadsBefore(e)'
  BY <1>1, <1>5, Zenon DEF LoadsBefore
<1>7. \A q \in Procs : ~(Loading(q, e)' /\ work'[q].loaded.revision = L.revision + 1)
  BY <1>5, Zenon
<1> QED
  BY <1>3, <1>6, <1>7, Zenon

\* Columns that agree with what was written still do: the same UPDATE is made to both.
LEMMA StoreSame ==
    ASSUME DeliveryInv, NEW p \in Procs, NEW e \in Events, NEW L, NEW D, NEW W,
           Storing(p, e, L, D, W), Same(e)
    PROVE  Same(e)'
<1>1. \A c \in Fields : D[c] = W[c]
  BY Zenon DEF Same, Storing
<1>0. AfterStore(p, e, L, D, W)
  BY StoreColumns, Zenon
<1>2. \A c \in {"attempt_count", "blocked", "confirmed"} :
          delivery_state'[e][c] = D[c] /\ written'[e].delivery[c] = W[c]
  BY <1>0, Zenon DEF AfterStore
<1>3. \A c \in {"status", "next_retry_at", "revision"} :
          delivery_state'[e][c] = written'[e].delivery[c]
  BY <1>0, Zenon DEF AfterStore
<1> QED
  BY <1>1, <1>2, <1>3, Zenon DEF Same, Fields

\* A row nobody has damaged verifies after the store, unless the load was raced or the
\* row was blocked.
LEMMA StoreClean ==
    ASSUME DeliveryInv, NEW p \in Procs, NEW e \in Events, NEW L, NEW D, NEW W,
           Storing(p, e, L, D, W), Clean(e), delivery_state'[e] # None
    PROVE  Clean(e)'
<1> DEFINE row == written'[e].delivery
           sum == Summed(delivery_state[e].checksum)'
<1>1. Same(e) /\ LoadsBefore(e) /\ D.revision = W.revision /\ D.revision = L.revision
  BY Zenon DEF Clean, Same, Fields, Storing
<1>2. /\ L.attempt_count > 0 /\ L.blocked = W.blocked /\ L.confirmed = W.confirmed
      /\ LoadsBefore(e)'
      /\ \A q \in Procs : ~(Loading(q, e)' /\ work'[q].loaded.revision = L.revision + 1)
  BY <1>1, StoreLoads, Zenon
<1>3. Same(e)'
  BY <1>1, StoreSame, Zenon
<1>4. /\ \A c \in {"status", "next_retry_at", "revision"} : sum[c] = row[c]
      /\ \A c \in {"attempt_count", "blocked", "confirmed"} :
             row[c] = W[c] /\ sum[c] = L[c] /\ delivery_state'[e][c] = D[c]
      /\ row.status = "DELIVERY_RETRYING" /\ row.next_retry_at = work[p].next
      /\ row.revision = L.revision + 1
  <2>1. AfterStore(p, e, L, D, W)
    BY StoreColumns, Zenon
  <2> QED
    BY <2>1, Zenon DEF AfterStore
<1> HIDE DEF row, sum
<1>5. /\ \A c \in Fields \ {"attempt_count"} : sum[c] = row[c]
      /\ row.attempt_count > 0 => sum.attempt_count > 0
  BY <1>2, <1>4, Zenon DEF Fields
<1>6. \A q \in Procs : work'[q].step = "failed" /\ work'[q].event = e => row.attempt_count > 0
  <2>1. \A q \in Procs : work'[q].step = "failed" => work'[q] = work[q]
    BY Zenon DEF Storing, DeliveryInv, RowTypes, Idle
  <2> QED
    <3>1. \A q \in Procs : work[q].step = "failed" /\ work[q].event = e =>
              written[e].delivery.attempt_count > 0
      BY Zenon DEF Clean
    <3>2. row.attempt_count = written[e].delivery.attempt_count
      BY <1>4, Zenon DEF Storing
    <3> QED
      BY <2>1, <3>1, <3>2, Zenon
<1>7. ASSUME e \notin raced' \union repaired' PROVE DeliveryFound(e)'
  <2>1. L.attempt_count = W.attempt_count /\ ~L.blocked
    BY <1>1, <1>7, Zenon DEF Storing, Clean
  <2>2. /\ work[p].next \in Nat /\ L.confirmed = FALSE /\ L.blocked = FALSE
    <3>1. WorkType(p) /\ work[p].step = "retry" /\ work[p].loaded = L
      BY Zenon DEF DeliveryInv, WorkTypes, Storing, Loading
    <3>2. L.blocked \in BOOLEAN /\ L.confirmed \in BOOLEAN
      BY <3>1, RowColumns, Zenon DEF WorkType, Content
    <3> QED
      BY <2>1, <3>1, <3>2, Zenon DEF WorkType, validate_delivery_state_invariants
  <2> DEFINE RL == Retrying(L, work[p].next, L.revision + 1)
  <2>3. /\ RL.status = "DELIVERY_RETRYING" /\ RL.next_retry_at = work[p].next
        /\ RL.revision = L.revision + 1 /\ RL.attempt_count = L.attempt_count
        /\ RL.blocked = L.blocked /\ RL.confirmed = L.confirmed
    <3>1. Fields \subseteq DOMAIN L
      BY StoreColumns, RowColumns, Zenon DEF AfterStore
    <3> QED
      <4>1. Renewed(RL, L, work[p].next, L.revision + 1)
        BY <3>1, RetryingRow, Zenon
      <4> QED
        BY <4>1, Zenon DEF Renewed
  <2>4. delivery_state'[e].checksum = compute_delivery_checksum(e, RL)
    BY Zenon DEF Storing
  <2> HIDE DEF RL
  <2>5. \A c \in Fields : row[c] = RL[c]
    BY <1>2, <1>4, <2>1, <2>3, Zenon DEF Fields
  <2>6. \A c \in Fields : delivery_state'[e][c] = RL[c] /\ written'[e].delivery[c] = RL[c]
    BY <1>3, <2>5, Zenon DEF Same, row
  <2>7. validate_delivery_state_invariants(RL)
    <3>1. work[p].next # None
      BY <2>2, ContentAssumption, Zenon
    <3> QED
      BY <2>2, <2>3, <3>1, Zenon DEF validate_delivery_state_invariants
  <2> QED
    BY <2>4, <2>6, <2>7, WriteRow, Zenon
<1> QED
  BY <1>2, <1>3, <1>4, <1>5, <1>6, <1>7, Zenon DEF Clean, row, sum

\* A damaged row is made good by the store when the UPDATE names the column, and keeps
\* failing its checksum when it does not.
LEMMA StoreDirty ==
    ASSUME DeliveryInv, NEW p \in Procs, NEW e \in Events, NEW L, NEW D, NEW W,
           Storing(p, e, L, D, W), Dirty(e)
    PROVE  Same(e)' \/ Dirty(e)'
<1>1. PICK c \in Fields :
          /\ \A d \in Fields \ {c} : D[d] = W[d]
          /\ D[c] # W[c]
          /\ c = "attempt_count" => D[c] = 0
  BY Zenon DEF Dirty, Storing
<1>2. /\ \A d \in {"status", "next_retry_at", "revision"} :
             delivery_state'[e][d] = written'[e].delivery[d]
      /\ \A d \in {"attempt_count", "blocked", "confirmed"} :
             /\ delivery_state'[e][d] = D[d] /\ written'[e].delivery[d] = W[d]
             /\ Summed(delivery_state[e].checksum)'[d] = L[d]
  <2>1. AfterStore(p, e, L, D, W)
    BY StoreColumns, Zenon
  <2> QED
    BY <2>1, Zenon DEF AfterStore
<1>3. CASE c \in {"status", "next_retry_at", "revision"}
  BY <1>1, <1>2, <1>3, Zenon DEF Same, Fields
<1>4. CASE c \in {"attempt_count", "blocked", "confirmed"}
  <2>1. D.revision = W.revision /\ LoadsBefore(e)
    BY <1>1, <1>4, Zenon DEF Fields, Dirty
  <2>2. /\ L.attempt_count > 0 /\ L.blocked = W.blocked /\ L.confirmed = W.confirmed
        /\ LoadsBefore(e)'
        /\ \A q \in Procs : ~(Loading(q, e)' /\ work'[q].loaded.revision = L.revision + 1)
    BY <2>1, StoreLoads, Zenon
  <2>3. L[c] # D[c]
    <3>1. CASE c = "attempt_count"
      <4>1. L[c] > 0 /\ ~(D[c] > 0)
        BY <1>1, <2>2, <3>1, ZeroCount, Zenon
      <4> QED
        BY <4>1, Zenon
    <3>2. CASE c \in {"blocked", "confirmed"}
      <4>1. L[c] = W[c] /\ D[c] # W[c]
        BY <1>1, <2>2, <3>2, Zenon
      <4> QED
        BY <4>1, Zenon
    <3> QED
      BY <1>4, <3>1, <3>2, Zenon
  <2>4. \A d \in Fields \ {c} : delivery_state'[e][d] = written'[e].delivery[d]
    BY <1>1, <1>2, ZenonT(40) DEF Fields
  <2> QED
    BY <1>1, <1>2, <1>4, <2>2, <2>3, <2>4, ZenonT(40) DEF Dirty
<1> QED
  BY <1>3, <1>4, Zenon DEF Fields

\* The store of update_delivery_retry, matching or not.
LEMMA StoreRows ==
    ASSUME DeliveryInv, NEW p \in Procs, update_delivery_retry(p), NEW e, e = work[p].event
    PROVE  DeliveryInv'
<1>1. RowTypes /\ WorkTypes
  BY Zenon DEF DeliveryInv
<1>2. /\ work[p].step = "retry" /\ e \in Events /\ delivery_state[e] # None
      /\ Sound(e) /\ WorkType(p) /\ work' = [work EXCEPT ![p] = Idle]
  BY <1>1, Zenon DEF update_delivery_retry, WorkTypes, WorkType, DeliveryInv
<1>3. DOMAIN work' = Procs /\ work'[p] = Idle /\ \A q \in Procs \ {p} : work'[q] = work[q]
  BY <1>1, <1>2, Zenon DEF RowTypes
<1>4. WorkType(p)' /\ work'[p].step = "idle"
  BY <1>3, IdleWork, Zenon
<1>5. CASE ~StoreMatches(e, work[p].loaded)
  <2>1. UNCHANGED <<delivery_state, written, now, earliest, causes>>
    BY <1>5, Zenon DEF update_delivery_retry, causes
  <2> QED
    BY <1>1, <1>3, <2>1, GoIdle, Zenon DEF RowTypes
<1>6. CASE StoreMatches(e, work[p].loaded)
  <2>1. PICK L, D, W, next, revision :
            /\ L = work[p].loaded /\ D = delivery_state[e] /\ W = written[e].delivery
            /\ next = work[p].next /\ revision = L.revision + 1
    BY Zenon
  <2>2. /\ L \in DeliveryRows /\ D \in DeliveryRows /\ IsContents(W) /\ next \in Nat
        /\ D.revision = L.revision
    BY <1>1, <1>2, <1>6, <2>1, Zenon DEF WorkType, RowTypes, StoreMatches
  <2>3. revision \in Nat
    <3>1. L.revision \in Nat
      BY <2>2, RowColumns, Zenon DEF Content
    <3> QED
      BY <2>1, <3>1, Positive, Zenon
  <2>4. PICK d : d = [Retrying(D, next, revision) EXCEPT !.checksum =
                        compute_delivery_checksum(e, Retrying(L, next, revision))]
    BY Zenon
  <2>5. /\ delivery_state' = [delivery_state EXCEPT ![e] = d]
        /\ written' = [written EXCEPT ![e].delivery = Retrying(W, next, revision)]
        /\ earliest' = [earliest EXCEPT ![e] = work[p].allowed]
        /\ repaired' = IF L.blocked THEN repaired \union {e} ELSE repaired
        /\ UNCHANGED <<now, damaged, raced, faults>>
    BY <1>6, <2>1, <2>4, Zenon DEF update_delivery_retry
  <2>6. /\ d \in DeliveryRows /\ d # None
        /\ d.checksum = compute_delivery_checksum(e, Retrying(L, next, revision))
        /\ \A c \in Fields : d[c] = Retrying(D, next, revision)[c]
        /\ IsContents(Retrying(W, next, revision))
    <3>1. StoredAs(d, e, D, L, next, revision) /\ IsContents(Retrying(W, next, revision))
      BY <1>2, <2>2, <2>3, <2>4, StoredRow, Zenon
    <3> QED
      BY <3>1, Zenon DEF StoredAs
  <2>7. /\ delivery_state'[e] = d
        /\ \A f \in Events \ {e} : delivery_state'[f] = delivery_state[f]
        /\ delivery_state' \in [Events -> DeliveryRows \union {None}]
        /\ \A f \in Events : delivery_state[f] # None => delivery_state'[f] # None
    BY <1>1, <1>2, <2>5, <2>6, Zenon DEF RowTypes
  <2>8. /\ DOMAIN written' = Events
        /\ \A f \in Events : DOMAIN written'[f] = {"lifecycle", "delivery"}
        /\ \A f \in Events \ {e} : written'[f].delivery = written[f].delivery
        /\ written'[e].delivery = Retrying(W, next, revision)
    <3>1. written' = [written EXCEPT ![e].delivery = Retrying(W, next, revision)]
      BY <2>5, Zenon
    <3>2. WritesDelivery(e, Retrying(W, next, revision))
      BY <1>1, <1>2, <3>1, WrittenDelivery, Zenon
    <3> QED
      BY <3>2, Zenon DEF WritesDelivery
  <2>9. Storing(p, e, L, D, W)
    BY <1>2, <2>1, <2>2, <2>5, <2>6, <2>7, <2>8, Zenon DEF Storing, Loading
  <2>10. Sound(e)'
    <3>1. e \notin damaged => Clean(e)'
      BY <1>2, <2>6, <2>7, <2>9, StoreClean, Zenon DEF Sound
    <3>2. faults <= 1 => Same(e)' \/ Dirty(e)'
      BY <1>2, <2>9, StoreSame, StoreDirty, Zenon DEF Sound
    <3> QED
      BY <2>5, <3>1, <3>2, Zenon DEF Sound
  <2>11. Due(e)' /\ earliest' \in [Events -> Nat]
         /\ \A f \in Events \ {e} : earliest'[f] = earliest[f]
    <3>1. work[p].allowed \in Nat /\ work[p].allowed = next
      BY <1>2, <2>1, Zenon DEF WorkType
    <3>2. /\ earliest'[e] = work[p].allowed /\ earliest' \in [Events -> Nat]
          /\ \A f \in Events \ {e} : earliest'[f] = earliest[f]
      BY <1>1, <1>2, <2>5, <3>1, Zenon DEF RowTypes
    <3>3. /\ written'[e].delivery.status = "DELIVERY_RETRYING"
          /\ written'[e].delivery.next_retry_at = next
      BY <1>2, <2>1, <2>9, StoreColumns, Zenon DEF AfterStore
    <3> QED
      BY <2>2, <2>6, <2>7, <3>1, <3>2, <3>3, Zenon DEF Due
  <2>12. IsContents(written[e].delivery)'
    BY <2>6, <2>8, Zenon DEF IsContents, Content
  <2> DEFINE S == {e}
  <2>13. S \in SUBSET Events /\ e \in S /\ (\A f \in S : f = e) /\ Events \ S = Events \ {e}
    BY <1>2, Zenon
  <2>14. CausesGrow
    BY <1>1, <2>5, Zenon DEF RowTypes, CausesGrow
  <2> HIDE DEF S
  <2>15. /\ \A f \in Events \ S : /\ delivery_state'[f] = delivery_state[f]
                                /\ written'[f].delivery = written[f].delivery
                                /\ earliest'[f] = earliest[f]
         /\ \A f \in S : /\ delivery_state'[f] # None => IsContents(written[f].delivery)'
                         /\ Sound(f)' /\ Due(f)'
    BY <2>7, <2>8, <2>10, <2>11, <2>12, <2>13, Zenon
  <2>16. \A q \in Procs : \/ work'[q] = work[q]
                           \/ /\ WorkType(q)'
                              /\ work'[q].step \in {"failed", "retry"} => work'[q].event \in S
    BY <1>3, <1>4, Zenon
  <2> QED
    BY <1>3, <2>7, <2>8, <2>11, <2>13, <2>14, <2>15, <2>16, TouchedRows, ZenonT(30)
<1> QED
  BY <1>5, <1>6, Zenon

\* One fault of storage in a delivery row: it leaves the columns alone, or changes one of
\* them to a value the checksum does not name.
LEMMA DamageColumns ==
    ASSUME NEW D \in DeliveryRows, NEW d \in DamagedDeliveries(D)
    PROVE  /\ d \in DeliveryRows
           /\ \/ \A c \in Fields : d[c] = D[c]
              \/ /\ d.checksum = D.checksum
                 /\ \E c \in Fields :
                        /\ \A f \in Fields \ {c} : d[f] = D[f]
                        /\ d[c] # D[c]
                        /\ c = "attempt_count" => d[c] = 0
<1>1. DOMAIN D = Fields \union {"checksum"} /\ Content(D)
      /\ D.checksum \in DeliveryChecksums \union {Damaged}
  BY RowColumns, Zenon DEF DeliveryRows
<1> DEFINE Change(c, v) ==
          /\ d = [D EXCEPT ![c] = v]
          /\ c = "checksum" => v = Damaged
          /\ c = "next_retry_at" => v = 0
          /\ c = "attempt_count" => v = 0
          /\ c \in {"blocked", "confirmed"} => v = ~D[c]
          /\ c = "revision" => v \in 1 .. D.revision + 1
          /\ c = "status" => v \in DeliveryStatus
<1>0. PICK c \in Fields \union {"checksum"} : \E v : Change(c, v)
  BY DEF DamagedDeliveries, Fields
<1>2. PICK v : Change(c, v)
  BY <1>0, Zenon
<1>3. /\ d = [f \in Fields \union {"checksum"} |-> d[f]] /\ d[c] = v
      /\ \A f \in (Fields \union {"checksum"}) \ {c} : d[f] = D[f]
  BY <1>1, <1>2, Zenon
<1>4. Content(d) /\ d.checksum \in DeliveryChecksums \union {Damaged}
  <2>1. d.status \in DeliveryStatus
    BY <1>1, <1>2, <1>3, Zenon DEF Content, Fields
  <2>2. d.attempt_count \in Nat /\ d.revision \in Nat /\ d.next_retry_at \in Times
    BY <1>1, <1>2, <1>3 DEF Content, Fields, Times
  <2>3. c \in {"blocked", "confirmed"} => v \in BOOLEAN
    BY <1>2, Zenon
  <2>4. d.blocked \in BOOLEAN /\ d.confirmed \in BOOLEAN
    BY <1>1, <1>3, <2>3, Zenon DEF Content, Fields
  <2>5. d.checksum \in DeliveryChecksums \union {Damaged}
    BY <1>1, <1>2, <1>3, Zenon
  <2> QED
    BY <2>1, <2>2, <2>4, <2>5, Zenon DEF Content
<1>5. d \in DeliveryRows
  BY <1>3, <1>4, IsRow, Zenon
<1>6. CASE c = "checksum" \/ d[c] = D[c]
  BY <1>3, <1>5, <1>6, Zenon DEF Fields
<1>7. CASE c # "checksum" /\ d[c] # D[c]
  <2>1. c \in Fields /\ d.checksum = D.checksum
    BY <1>2, <1>3, <1>7, Zenon DEF Fields
  <2>2. \A f \in Fields \ {c} : d[f] = D[f]
    BY <1>3, Zenon
  <2> QED
    BY <1>2, <1>3, <1>5, <1>7, <2>1, <2>2, ZenonT(40)
<1> QED
  BY <1>6, <1>7, Zenon

\* Storage changes one column of one row, or takes one blob for another.
LEMMA StorageRows ==
    ASSUME DeliveryInv, NEW e \in Events, Fault(e),
           UNCHANGED delivery_state
           \/ (/\ delivery_state[e] # None
               /\ \E row \in DamagedDeliveries(delivery_state[e]) :
                      delivery_state' = [delivery_state EXCEPT ![e] = row])
    PROVE  DeliveryInv'
<1>1. RowTypes
  BY Zenon DEF DeliveryInv
<1>2. /\ faults' = faults + 1 /\ damaged' = damaged \union {e}
      /\ UNCHANGED <<written, work, now, earliest, raced, repaired>>
  BY Zenon DEF Fault
<1>0. faults \in Nat /\ faults + 1 \in Nat /\ faults + 1 # 0 /\ (faults + 1 <= 1 => faults = 0)
  <2>1. faults \in Nat
    BY <1>1, Zenon DEF RowTypes
  <2> QED
    BY <2>1, OneMore, Zenon
<1>3. /\ CausesGrow
      /\ earliest' \in [Events -> Nat] /\ DOMAIN written' = Events /\ DOMAIN work' = Procs
      /\ \A f \in Events : DOMAIN written'[f] = {"lifecycle", "delivery"}
  BY <1>0, <1>1, <1>2, Zenon DEF RowTypes, CausesGrow
<1>4. CASE UNCHANGED delivery_state
  BY <1>2, <1>3, <1>4, QuietStep, Zenon
<1>5. CASE /\ delivery_state[e] # None
           /\ \E row \in DamagedDeliveries(delivery_state[e]) :
                  delivery_state' = [delivery_state EXCEPT ![e] = row]
  <2>1. PICK D : D = delivery_state[e]
    OBVIOUS
  <2>2. D \in DeliveryRows /\ Sound(e) /\ Due(e) /\ IsContents(written[e].delivery)
    BY <1>1, <1>5, <2>1, Zenon DEF RowTypes, DeliveryInv
  <2>3. PICK d \in DamagedDeliveries(D) : delivery_state' = [delivery_state EXCEPT ![e] = d]
    BY <1>5, <2>1, Zenon
  <2>4. d \in DeliveryRows /\ d # None
    BY <2>2, <2>3, DamageColumns, ContentAssumption, Zenon
  <2>5. /\ delivery_state'[e] = d
        /\ \A f \in Events \ {e} : delivery_state'[f] = delivery_state[f]
        /\ delivery_state' \in [Events -> DeliveryRows \union {None}]
        /\ \A f \in Events : delivery_state[f] # None => delivery_state'[f] # None
    BY <1>1, <2>3, <2>4, Zenon DEF RowTypes
  <2>6. ASSUME faults' <= 1 PROVE Same(e)' \/ Dirty(e)'
    <3>1. damaged = {}
      BY <1>0, <1>1, <1>2, <2>6, Zenon DEF RowTypes
    <3>2. Clean(e)
      BY <1>5, <2>2, <3>1, Zenon DEF Sound
    <3>3. LoadsBefore(e)'
      BY <1>2, <3>2, Zenon DEF Clean, LoadsBefore, Loading
    <3>4. \A c \in Fields : D[c] = written'[e].delivery[c]
      BY <1>2, <2>1, <3>2, Zenon DEF Clean, Same
    <3>5. CASE \A c \in Fields : d[c] = D[c]
      BY <2>5, <3>4, <3>5, Zenon DEF Same
    <3>6. CASE /\ d.checksum = D.checksum
               /\ \E c \in Fields :
                      /\ \A f \in Fields \ {c} : d[f] = D[f]
                      /\ d[c] # D[c]
                      /\ c = "attempt_count" => d[c] = 0
      <4>1. PICK c \in Fields :
                /\ \A f \in Fields \ {c} : d[f] = D[f]
                /\ d[c] # D[c]
                /\ c = "attempt_count" => d[c] = 0
        BY <3>6, Zenon
      <4>2. Summed(delivery_state[e].checksum)' = Summed(D.checksum)
        BY <2>5, <3>6, Zenon DEF Summed
      <4>3. Summed(D.checksum)[c] # d[c]
        <5>1. CASE c = "attempt_count"
          <6>1. D.attempt_count \in Nat /\ d.attempt_count = 0 /\ D.attempt_count # 0
            BY <2>2, <4>1, <5>1, RowColumns, Zenon DEF Content
          <6>2. Summed(D.checksum).attempt_count > 0
            <7>1. D.attempt_count = written[e].delivery.attempt_count
              BY <2>1, <3>2, Zenon DEF Clean, Same, Fields
            <7>2. D.attempt_count > 0
              BY <6>1, Positive, Zenon
            <7> QED
              BY <2>1, <3>2, <7>1, <7>2, Zenon DEF Clean
          <6> QED
            BY <5>1, <6>1, <6>2, ZeroCount, Zenon
        <5>2. CASE c # "attempt_count"
          BY <2>1, <3>2, <4>1, <5>2, Zenon DEF Clean, Same
        <5> QED
          BY <5>1, <5>2, Zenon
      <4> QED
        <5>1. /\ \A f \in Fields \ {c} : delivery_state'[e][f] = written'[e].delivery[f]
              /\ Summed(delivery_state[e].checksum)'[c] # delivery_state'[e][c]
              /\ delivery_state'[e][c] # written'[e].delivery[c]
              /\ c = "attempt_count" => delivery_state'[e][c] = 0
          BY <2>5, <3>4, <4>1, <4>2, <4>3, Zenon
        <5> QED
          BY <3>3, <5>1, Zenon DEF Dirty
    <3> QED
      BY <2>2, <2>3, <3>5, <3>6, DamageColumns, Zenon
  <2>7. Sound(e)'
    BY <1>2, <2>6, Zenon DEF Sound
  <2>8. Due(e)'
    BY <1>2, <1>5, <2>2, <2>4, <2>5, Zenon DEF Due
  <2>9. IsContents(written[e].delivery)'
    BY <1>2, <2>2, Zenon DEF IsContents, Content
  <2>10. /\ earliest' = earliest /\ delivery_state'[e] # None
         /\ \A f \in Events \ {e} : written'[f].delivery = written[f].delivery
         /\ \A p \in Procs : work'[p] = work[p]
    BY <1>2, <2>4, <2>5, Zenon
  <2> QED
    BY <1>3, <2>5, <2>7, <2>8, <2>9, <2>10, TouchedRow, ZenonT(40)
<1> QED
  BY <1>4, <1>5, Zenon

\* Nothing is delivered yet.
LEMMA DeliveryInit == RowInit => DeliveryInv
<1> SUFFICES ASSUME RowInit PROVE DeliveryInv
  OBVIOUS
<1>1. RowTypes
  BY Zenon DEF RowInit, RowTypes
<1>2. \A p \in Procs : work[p].step = "idle"
  BY Zenon DEF RowInit, Idle
<1>3. WorkTypes
  BY <1>2, Zenon DEF WorkTypes, WorkType
<1>4. \A e \in Events : Sound(e) /\ Due(e)
  BY Zenon DEF RowInit, Sound, Due
<1> QED
  BY <1>1, <1>3, <1>4, Zenon DEF DeliveryInv

\* Every step of the composed specification keeps the delivery rows sound.
LEMMA DeliveryStep == DeliveryInv /\ [Next]_fileVars => DeliveryInv'
<1> SUFFICES ASSUME DeliveryInv, [Next]_fileVars PROVE DeliveryInv'
  OBVIOUS
<1>0. RowTypes
  BY Zenon DEF DeliveryInv
<1>1. ASSUME NEW p \in Procs, Publish(p) PROVE DeliveryInv'
  BY <1>1, AcceptRows, CreateRows, Zenon DEF Publish
<1>2. ASSUME NEW p \in Procs, confirm_replicated_delivery(p) \/ block_delivery(p)
      PROVE  DeliveryInv'
  <2>1. PICK e : e = work[p].event
    OBVIOUS
  <2>2. /\ work' = [work EXCEPT ![p] = Idle] /\ UNCHANGED <<now, earliest, causes>>
        /\ work[p].step \in {"sending", "failed"}
        /\ \/ NoTransition
           \/ /\ DeliveryFound(e)
              /\ \/ Transition(e, NextRow(e, "REPLICATED"))
                 \/ work[p].step = "failed" /\ Transition(e, NextRow(e, "DELIVERY_BLOCKED"))
    BY <1>2, <2>1, Zenon DEF confirm_replicated_delivery, block_delivery, CanTransition
  <2>3. CASE NoTransition
    <3>1. DOMAIN work' = Procs /\ work'[p] = Idle /\ \A q \in Procs \ {p} : work'[q] = work[q]
      BY <1>0, <2>2, Zenon DEF RowTypes
    <3> QED
      BY <1>0, <2>2, <2>3, <3>1, GoIdle, Zenon DEF RowTypes, NoTransition
  <2>4. CASE DeliveryFound(e) /\ Transition(e, NextRow(e, "REPLICATED"))
    BY <2>1, <2>2, <2>4, MoveRows, Zenon
  <2>5. CASE /\ DeliveryFound(e) /\ work[p].step = "failed"
             /\ Transition(e, NextRow(e, "DELIVERY_BLOCKED"))
    BY <2>1, <2>2, <2>5, MoveRows, Zenon
  <2> QED
    BY <2>2, <2>3, <2>4, <2>5, Zenon
<1>3. ASSUME NEW p \in Procs,
             \/ \E retriable \in BOOLEAN : record_delivery_attempt(p, retriable)
             \/ LoadForRetry(p) \/ update_delivery_retry(p)
      PROVE  DeliveryInv'
  BY <1>3, AttemptRows, RetryRows, StoreRows, Zenon
<1>4. ASSUME NEW p \in Procs, Deliver(p) PROVE DeliveryInv'
  BY <1>2, <1>3, <1>4, ReadRows, Zenon DEF Deliver
<1>5. ASSUME NEW p \in Procs, Operate(p) PROVE DeliveryInv'
  BY <1>5, RepairRows, ReadRows, StoreLifecycle, Zenon DEF Operate
<1>6. ASSUME Storage PROVE DeliveryInv'
  <2>1. ASSUME NEW e \in Events, Damage(e) PROVE DeliveryInv'
    BY <2>1, StorageRows, Zenon DEF Damage
  <2>2. ASSUME NEW e \in Events, NEW f \in Events, Misdirect(e, f) PROVE DeliveryInv'
    BY <2>2, StorageRows, Zenon DEF Misdirect
  <2> QED
    BY <1>6, <2>1, <2>2, Zenon DEF Storage
<1>7. CASE UNCHANGED rowVars
  <2>1. UNCHANGED <<delivery_state, earliest, written, work, now, faults, damaged, raced, repaired>>
    BY <1>7, Zenon DEF rowVars, tableVars, causes
  <2> QED
    BY <1>0, <2>1, GoIdle, Zenon DEF RowTypes, causes
<1>8. CASE UNCHANGED fileVars
  BY <1>7, <1>8, Zenon DEF fileVars
<1> QED
  BY <1>1, <1>4, <1>5, <1>6, <1>8, OutsideRows, ZenonT(40) DEF Next
=============================================================================
