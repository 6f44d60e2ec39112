------------------------- MODULE BenchPipelineProofs -------------------------
(***************************************************************************)
(* The books of the journal benchmark, for every number of records and     *)
(* streams, every channel and transaction limit and every pattern of       *)
(* failed transactions: no record is lost or counted twice, the segments   *)
(* partition the journal, and records are written in submission order.     *)
(* What the bytes of a batch add up to plays no part in any of it: the     *)
(* proofs use only that a transaction takes at least one record.           *)
(***************************************************************************)
EXTENDS BenchPipeline, FiniteSetTheorems, SequenceTheorems, TLAPS

\* A nonempty set of naturals has a least element.
LEMMA LeastElement ==
    ASSUME NEW S, S \subseteq Nat, S # {}
    PROVE  \E m \in S : \A n \in S : m <= n
  <1>1. PICK m \in S : \A n \in S : <<n, m>> \notin OpToRel(<, Nat)
    BY NatLessThanWellFounded, WFMin, Zenon
  <1>2. \A n \in S : ~(n < m)
    BY <1>1, Zenon DEF OpToRel
  <1> QED
    BY <1>2

Records == Nat \ {0}

Row == [record : Records, journal_sequence : Nat, stream_sequence : Nat]

Segment == [rows : Seq(Row), heads : [0..(Streams - 1) -> Nat], record_count : Nat,
            first_journal_seq : Nat, last_journal_seq : Nat]

Metrics == [committed_transactions : Nat, failed_transactions : Nat, written_records : Nat,
            failed_records : Nat, max_observed_batch_size : Nat]

\* The writer holds records exactly while it fills or writes a batch, and a
\* full active segment is never beyond its limit.
PipelineType ==
  /\ submitted \in Nat /\ rejected \in Nat
  /\ channel \in Seq(Records) /\ batch \in Seq(Records)
  /\ phase \in {"recv", "fill", "write", "done"}
  /\ phase \in {"fill", "write"} <=> batch # <<>>
  /\ Len(channel) <= ChannelCapacity /\ Len(batch) <= MaxRecordsPerTx
  /\ global_journal_seq \in Nat /\ records_in_active \in Nat
  /\ metrics \in Metrics
  /\ rollover \in Rollovers

-----------------------------------------------------------------------------
(* The cut of a transaction *)

\* Under a limit, the segment a transaction is written to is never full:
\* ensure_active_for rolls over before it is.
LEMMA RoomInActive ==
    ASSUME PipelineType
    PROVE  /\ InActive \in Nat
           /\ rollover # NoRollover => rollover \in Nat \ {0} /\ InActive < rollover
  <1>1. rollover # NoRollover => rollover \in Nat \ {0}
    BY BenchConstants, Zenon DEF PipelineType
  <1> QED
    BY <1>1 DEF PipelineType, InActive, needs_rollover

\* A transaction takes at least one record of the batch, at most all of it,
\* and never more than the active segment has room for.
LEMMA BatchEnd ==
    ASSUME PipelineType, phase = "write"
    PROVE  /\ next_batch_end \in 1..Len(batch)
           /\ rollover # NoRollover => InActive + next_batch_end <= rollover
  <1> DEFINE Cut(n) == /\ \A k \in 2..n : ~Overfull(k)
                       /\ n < HardEnd => Overfull(n + 1)
             F == {k \in 2..HardEnd : Overfull(k)}
  <1>1. Len(batch) \in Nat \ {0}
    BY EmptySeq, Zenon DEF PipelineType
  <1>2. /\ HardEnd \in 1..Len(batch)
        /\ rollover # NoRollover => InActive + HardEnd <= rollover
    BY <1>1, RoomInActive DEF HardEnd
  <1> HIDE DEF F, Cut
  <1>3. \E n \in 1..HardEnd : Cut(n)
    <2>1. CASE F = {}
      <3>1. Cut(HardEnd)
        BY <1>2, <2>1 DEF F, Cut
      <3> QED
        BY <1>1, <1>2, <3>1
    <2>2. CASE F # {}
      <3>1. PICK m \in F : \A k \in F : m <= k
        <4>1. F \subseteq Nat
          BY <1>2 DEF F
        <4> QED
          BY <2>2, <4>1, LeastElement, Zenon
      <3>2. m \in 2..HardEnd /\ Overfull(m)
        BY <3>1, Zenon DEF F
      <3>3. m - 1 \in 1..HardEnd /\ (m - 1) + 1 = m
        BY <1>1, <1>2, <3>2
      <3>4. \A k \in 2..(m - 1) : k \in 2..HardEnd /\ ~(m <= k)
        BY <1>1, <1>2, <3>2
      <3>5. Cut(m - 1)
        BY <3>1, <3>2, <3>3, <3>4, Zenon DEF F, Cut
      <3> QED
        BY <3>3, <3>5, Zenon
    <2> QED
      BY <2>1, <2>2, Zenon
  <1>4. next_batch_end = CHOOSE n \in 1..HardEnd : Cut(n)
    BY Zenon DEF next_batch_end, Cut
  <1>5. next_batch_end \in 1..HardEnd
    BY <1>3, <1>4, Zenon
  <1>6. rollover # NoRollover => rollover \in Nat
    BY RoomInActive, Zenon
  <1> QED
    BY <1>1, <1>2, <1>5, <1>6, RoomInActive

-----------------------------------------------------------------------------
(* Counting the rows of a stream in a concatenation *)

Shifted(L, B) == {L + j : j \in B}

\* Moving a set of positions past the end of another adds their counts.
LEMMA CountConcat ==
    ASSUME NEW L \in Nat, NEW m \in Nat, NEW A \in SUBSET (1..L), NEW B \in SUBSET (1..m)
    PROVE  /\ Cardinality(A) \in Nat /\ Cardinality(B) \in Nat
           /\ Cardinality(A \cup Shifted(L, B)) = Cardinality(A) + Cardinality(B)
  <1> DEFINE C == Shifted(L, B)
             f == [j \in B |-> L + j]
  <1>1. IsFiniteSet(1..L) /\ IsFiniteSet(1..m)
    BY FS_Interval
  <1>2. IsFiniteSet(A) /\ IsFiniteSet(B)
    BY <1>1, FS_Subset, Zenon
  <1>3. f \in Bijection(B, C)
    <2>1. f \in [B -> C]
      BY Zenon DEF Shifted
    <2>2. \A a, b \in B : f[a] = f[b] => a = b
      OBVIOUS
    <2>3. \A c \in C : \E b \in B : f[b] = c
      BY Zenon DEF Shifted
    <2> QED
      BY <2>1, <2>2, <2>3, Zenon DEF Bijection, Injection, IsInjective, Surjection
  <1>4. IsFiniteSet(C) /\ Cardinality(C) = Cardinality(B)
    <2>1. ExistsBijection(B, C)
      BY <1>3, Zenon DEF ExistsBijection
    <2> QED
      BY <1>2, <2>1, FS_Bijection, Zenon
  <1>5. A \cap C = {}
    BY DEF Shifted
  <1>6. Cardinality(A) \in Nat /\ Cardinality(B) \in Nat
    BY <1>2, FS_CardinalityType, Zenon
  <1> HIDE DEF C
  <1>7. Cardinality(A \cup C) = Cardinality(A) + Cardinality(C) - Cardinality(A \cap C)
    BY <1>2, <1>4, FS_Union, Zenon
  <1>8. Cardinality(A \cap C) = 0
    BY <1>5, FS_EmptySet, Zenon
  <1>9. Cardinality(A \cup C) = Cardinality(A) + Cardinality(B)
    BY <1>4, <1>6, <1>7, <1>8
  <1> QED
    BY <1>6, <1>9, Zenon DEF C

\* Every record belongs to one of the streams.
LEMMA StreamOfRecord ==
    ASSUME NEW r \in Records
    PROVE  StreamOf(r) \in 0..(Streams - 1)
  BY BenchConstants DEF StreamOf, Records

\* The rows i <= n of a sequence that belong to stream s.
OfStream(rows, n, s) == {j \in 1..n : StreamOf(rows[j].record) = s}

\* The records i <= n of a transaction that belong to stream s.
InStream(records, n, s) == {j \in 1..n : StreamOf(records[j]) = s}

\* After a transaction is appended, a stream has its old rows and the records
\* of the transaction that belong to it.
LEMMA CountStream ==
    ASSUME NEW old \in Seq(Row), NEW new \in Seq(Row), NEW records \in Seq(Records),
           Len(new) = Len(records),
           \A j \in 1..Len(records) : new[j].record = records[j],
           NEW s, NEW n \in 0..Len(records)
    PROVE  /\ Cardinality(OfStream(old, Len(old), s)) \in Nat
           /\ Cardinality(InStream(records, n, s)) \in Nat
           /\ Cardinality(OfStream(old \o new, Len(old) + n, s)) =
                Cardinality(OfStream(old, Len(old), s)) + Cardinality(InStream(records, n, s))
  <1> DEFINE L == Len(old)
             both == old \o new
             A == OfStream(old, L, s)
             B == InStream(records, n, s)
  <1>1. L \in Nat /\ Len(records) \in Nat /\ n \in Nat
    BY LenProperties
  <1>2. /\ \A j \in 1..L : both[j] = old[j]
        /\ \A j \in 1..Len(records) : both[L + j] = new[j]
    BY <1>1, ConcatProperties
  <1>3. A \in SUBSET (1..L) /\ B \in SUBSET (1..n)
    BY Zenon DEF OfStream, InStream
  <1> HIDE DEF both, L
  <1>4. \A j \in 1..(L + n) : j \in 1..L \/ (j - L \in 1..n /\ j = L + (j - L))
    BY <1>1
  <1>5. \A j \in 1..n : L + j \in 1..(L + n) /\ j \in 1..Len(records)
    BY <1>1
  <1>6. \A j \in 1..L : j \in 1..(L + n)
    BY <1>1
  <1>7. OfStream(both, L + n, s) = A \cup Shifted(L, B)
    <2>1. ASSUME NEW j \in OfStream(both, L + n, s)
          PROVE  j \in A \cup Shifted(L, B)
      <3>1. j \in 1..(L + n) /\ StreamOf(both[j].record) = s
        BY <2>1, Zenon DEF OfStream
      <3>2. CASE j \in 1..L
        BY <1>2, <3>1, <3>2, Zenon DEF OfStream
      <3>3. CASE j - L \in 1..n /\ j = L + (j - L)
        <4>1. both[L + (j - L)] = new[j - L] /\ new[j - L].record = records[j - L]
          BY <1>2, <1>5, <3>3, Zenon
        <4>2. j - L \in B
          BY <3>1, <3>3, <4>1, Zenon DEF InStream
        <4> QED
          BY <3>3, <4>2, Zenon DEF Shifted
      <3> QED
        BY <1>4, <3>1, <3>2, <3>3, Zenon
    <2>2. ASSUME NEW j \in A
          PROVE  j \in OfStream(both, L + n, s)
      BY <1>2, <1>6, <2>2, Zenon DEF OfStream
    <2>3. ASSUME NEW j \in B
          PROVE  L + j \in OfStream(both, L + n, s)
      <3>1. j \in 1..n /\ StreamOf(records[j]) = s
        BY <2>3, Zenon DEF InStream
      <3>2. both[L + j].record = records[j] /\ L + j \in 1..(L + n)
        BY <1>2, <1>5, <3>1, Zenon
      <3> QED
        BY <3>1, <3>2, Zenon DEF OfStream
    <2> QED
      BY <2>1, <2>2, <2>3, Zenon DEF Shifted
  <1> HIDE DEF A, B
  <1>8. /\ Cardinality(A) \in Nat /\ Cardinality(B) \in Nat
        /\ Cardinality(A \cup Shifted(L, B)) = Cardinality(A) + Cardinality(B)
    <2>1. \A X \in SUBSET (1..L), Y \in SUBSET (1..n) :
            /\ Cardinality(X) \in Nat /\ Cardinality(Y) \in Nat
            /\ Cardinality(X \cup Shifted(L, Y)) = Cardinality(X) + Cardinality(Y)
      BY <1>1, CountConcat, Zenon
    <2> QED
      BY <1>3, <2>1, Zenon
  <1> QED
    BY <1>7, <1>8, Zenon DEF A, B, both, L

-----------------------------------------------------------------------------
(* Segments *)

SegmentOK(seg, limit) ==
  /\ seg.record_count = Len(seg.rows)
  /\ seg.last_journal_seq + 1 = seg.first_journal_seq + seg.record_count
  /\ limit # NoRollover => seg.record_count <= limit
  /\ \A i \in 1..Len(seg.rows) :
       /\ seg.rows[i].journal_sequence = seg.first_journal_seq + i - 1
       /\ seg.rows[i].stream_sequence =
            Cardinality(OfStream(seg.rows, i, StreamOf(seg.rows[i].record)))
  /\ \A s \in 0..(Streams - 1) :
       seg.heads[s] = Cardinality(OfStream(seg.rows, Len(seg.rows), s))

\* An empty segment is consistent under every limit.
LEMMA NewSegmentOK ==
    ASSUME NEW n \in Nat, NEW limit \in Rollovers
    PROVE  NewSegment(n) \in Segment /\ SegmentOK(NewSegment(n), limit)
  <1>1. <<>> \in Seq(Row) /\ Len(<<>>) = 0
    BY EmptySeq, Zenon
  <1>2. NewSegment(n) \in Segment
    BY <1>1 DEF NewSegment, Segment
  <1>3. /\ NewSegment(n).rows = <<>> /\ NewSegment(n).record_count = 0
        /\ NewSegment(n).last_journal_seq = n /\ NewSegment(n).first_journal_seq = n + 1
        /\ \A s \in 0..(Streams - 1) : NewSegment(n).heads[s] = 0
    BY Zenon DEF NewSegment
  <1>4. \A s : Cardinality(OfStream(<<>>, 0, s)) = 0
    <2>1. \A s : OfStream(<<>>, 0, s) = {}
      BY DEF OfStream
    <2> QED
      BY <2>1, FS_EmptySet, Zenon
  <1>5. limit # NoRollover => 0 <= limit
    BY BenchConstants
  <1> HIDE DEF NewSegment
  <1>6. SegmentOK(NewSegment(n), limit)
    BY <1>1, <1>3, <1>4, <1>5 DEF SegmentOK
  <1> QED
    BY <1>2, <1>6, Zenon

\* The rows of a transaction continue the journal and, each, its own stream.
LEMMA NewRowsShape ==
    ASSUME NEW records \in Seq(Records), NEW heads \in [0..(Streams - 1) -> Nat],
           global_journal_seq \in Nat
    PROVE  /\ NewRows(records, heads) \in Seq(Row)
           /\ Len(NewRows(records, heads)) = Len(records)
           /\ \A i \in 1..Len(records) :
                /\ NewRows(records, heads)[i].record = records[i]
                /\ NewRows(records, heads)[i].journal_sequence = global_journal_seq + i
                /\ NewRows(records, heads)[i].stream_sequence =
                     heads[StreamOf(records[i])]
                       + Cardinality(InStream(records, i, StreamOf(records[i])))
  <1> DEFINE m == Len(records)
             row(i) == [record |-> records[i],
                        journal_sequence |-> global_journal_seq + i,
                        stream_sequence |-> heads[StreamOf(records[i])]
                          + Cardinality(InStream(records, i, StreamOf(records[i])))]
             f == [i \in 1..m |-> row(i)]
  <1>1. m \in Nat /\ DOMAIN records = 1..m /\ \A i \in 1..m : records[i] \in Records
    BY LenProperties, Zenon
  <1>2. NewRows(records, heads) = f
    BY <1>1, Zenon DEF NewRows, InStream
  <1>3. \A i \in 1..m : row(i) \in Row
    <2> TAKE i \in 1..m
    <2>1. Cardinality(InStream(records, i, StreamOf(records[i]))) \in Nat
      <3> DEFINE B == InStream(records, i, StreamOf(records[i]))
      <3>1. B \in SUBSET (1..i) /\ IsFiniteSet(1..i)
        BY <1>1, FS_Interval DEF InStream
      <3> HIDE DEF B
      <3>2. IsFiniteSet(B)
        BY <3>1, FS_Subset, Zenon
      <3> QED
        BY <3>2, FS_CardinalityType, Zenon DEF B
    <2>2. heads[StreamOf(records[i])] \in Nat
      BY <1>1, StreamOfRecord, Zenon
    <2>3. global_journal_seq + i \in Nat
      BY <1>1
    <2>4. heads[StreamOf(records[i])]
            + Cardinality(InStream(records, i, StreamOf(records[i]))) \in Nat
      BY <2>1, <2>2
    <2> QED
      BY <1>1, <2>3, <2>4, Zenon DEF Row
  <1> HIDE DEF m
  <1>4. f \in Seq(Row) /\ Len(f) = m /\ \A i \in 1..m : f[i] = row(i)
    <2> HIDE DEF row
    <2>1. f \in [1..m -> Row] /\ \A i \in 1..m : f[i] = row(i)
      BY <1>3, Zenon
    <2> QED
      BY <1>1, <2>1
  <1> HIDE DEF f
  <1>5. \A i \in 1..m :
          /\ row(i).record = records[i]
          /\ row(i).journal_sequence = global_journal_seq + i
          /\ row(i).stream_sequence =
               heads[StreamOf(records[i])]
                 + Cardinality(InStream(records, i, StreamOf(records[i])))
    OBVIOUS
  <1> HIDE DEF row
  <1> QED
    BY <1>2, <1>4, <1>5, Zenon DEF m

\* The active segment after a transaction of the given records.
Grown(seg, records) ==
  [rows |-> seg.rows \o NewRows(records, seg.heads),
   heads |-> NewHeads(records, seg.heads),
   record_count |-> seg.record_count + Len(records),
   first_journal_seq |-> seg.first_journal_seq,
   last_journal_seq |-> global_journal_seq + Len(records)]

\* Writing a transaction that fits keeps a segment consistent: its heads, count
\* and last sequence agree with its rows.
LEMMA GrownSegmentOK ==
    ASSUME NEW seg \in Segment, NEW limit \in Rollovers, NEW records \in Seq(Records),
           SegmentOK(seg, limit), seg.last_journal_seq = global_journal_seq,
           limit # NoRollover => seg.record_count + Len(records) <= limit
    PROVE  Grown(seg, records) \in Segment /\ SegmentOK(Grown(seg, records), limit)
  <1> DEFINE old == seg.rows
             new == NewRows(records, seg.heads)
             L == Len(old)
             m == Len(records)
             g == Grown(seg, records)
  <1>1. /\ old \in Seq(Row) /\ seg.heads \in [0..(Streams - 1) -> Nat]
        /\ seg.record_count \in Nat /\ seg.first_journal_seq \in Nat
        /\ global_journal_seq \in Nat
    BY Zenon DEF Segment
  <1>2. /\ new \in Seq(Row) /\ Len(new) = m
        /\ \A i \in 1..m :
             /\ new[i].record = records[i]
             /\ new[i].journal_sequence = global_journal_seq + i
             /\ new[i].stream_sequence =
                  seg.heads[StreamOf(records[i])]
                    + Cardinality(InStream(records, i, StreamOf(records[i])))
    BY <1>1, NewRowsShape, Zenon
  <1>3. L \in Nat /\ m \in Nat /\ DOMAIN records = 1..m /\ \A i \in 1..m : records[i] \in Records
    BY <1>1, LenProperties, Zenon
  <1>4. /\ g.rows = old \o new /\ g.heads = NewHeads(records, seg.heads)
        /\ g.record_count = seg.record_count + m
        /\ g.first_journal_seq = seg.first_journal_seq
        /\ g.last_journal_seq = global_journal_seq + m
    BY Zenon DEF Grown
  <1> HIDE DEF new, old
  <1>5. /\ old \o new \in Seq(Row) /\ Len(old \o new) = L + m
        /\ \A i \in 1..L : (old \o new)[i] = old[i]
        /\ \A i \in 1..m : (old \o new)[L + i] = new[i]
    <2>1. old \in Seq(Row) /\ new \in Seq(Row) /\ Len(new) = m
      BY <1>1, <1>2, Zenon
    <2>2. /\ old \o new \in Seq(Row) /\ Len(old \o new) = L + m
          /\ \A i \in 1..(L + m) : (old \o new)[i] = IF i <= L THEN old[i] ELSE new[i - L]
      <3>1. /\ old \o new \in Seq(Row) /\ Len(old \o new) = Len(old) + Len(new)
            /\ \A i \in 1..(Len(old) + Len(new)) :
                 (old \o new)[i] = IF i <= Len(old) THEN old[i] ELSE new[i - Len(old)]
        BY <2>1, ConcatProperties, Zenon
      <3> QED
        BY <2>1, <3>1, Zenon
    <2> HIDE DEF L, m
    <2>3. \A i \in 1..L : i \in 1..(L + m) /\ i <= L
      BY <1>3
    <2>4. \A i \in 1..m : L + i \in 1..(L + m) /\ ~(L + i <= L) /\ (L + i) - L = i
      BY <1>3
    <2> QED
      BY <2>2, <2>3, <2>4, Zenon
  <1>6. /\ seg.record_count \in Nat /\ seg.first_journal_seq \in Nat
        /\ global_journal_seq \in Nat /\ L \in Nat /\ m \in Nat
    BY <1>1, <1>3, Zenon
  <1>7. ASSUME NEW s, NEW i \in 0..m
        PROVE  /\ Cardinality(OfStream(old, L, s)) \in Nat
               /\ Cardinality(InStream(records, i, s)) \in Nat
               /\ Cardinality(OfStream(old \o new, L + i, s)) =
                    Cardinality(OfStream(old, L, s)) + Cardinality(InStream(records, i, s))
    <2>1. /\ old \in Seq(Row) /\ new \in Seq(Row) /\ Len(new) = Len(records)
          /\ \A j \in 1..Len(records) : new[j].record = records[j]
      BY <1>1, <1>2, Zenon
    <2> QED
      BY <2>1, CountStream, ZenonT(30)
  <1>8. \A s \in 0..(Streams - 1) :
          /\ NewHeads(records, seg.heads)[s] = seg.heads[s] + Cardinality(InStream(records, m, s))
          /\ seg.heads[s] = Cardinality(OfStream(old, L, s))
    BY <1>1, <1>3, Zenon DEF NewHeads, InStream, SegmentOK, old
  <1>9. NewHeads(records, seg.heads) \in [0..(Streams - 1) -> Nat]
    <2>1. \A s \in 0..(Streams - 1) : NewHeads(records, seg.heads)[s] \in Nat
      <3> TAKE s \in 0..(Streams - 1)
      <3>1. m \in 0..m
        BY <1>3
      <3>2. Cardinality(InStream(records, m, s)) \in Nat /\ Cardinality(OfStream(old, L, s)) \in Nat
        BY <1>7, <3>1, Zenon
      <3> QED
        BY <1>8, <3>2
    <2>2. NewHeads(records, seg.heads) =
            [s \in 0..(Streams - 1) |-> NewHeads(records, seg.heads)[s]]
      BY <1>1, Zenon DEF NewHeads
    <2> QED
      BY <2>1, <2>2, Zenon
  <1>10. g \in Segment
    BY <1>1, <1>3, <1>5, <1>9 DEF Grown, Segment, new, old
  <1> HIDE DEF g
  <1>11. ASSUME NEW s \in 0..(Streams - 1)
         PROVE  g.heads[s] = Cardinality(OfStream(g.rows, Len(g.rows), s))
    <2>1. m \in 0..m
      BY <1>3
    <2>2. Cardinality(OfStream(old \o new, L + m, s)) =
            Cardinality(OfStream(old, L, s)) + Cardinality(InStream(records, m, s))
      BY <1>7, <2>1, Zenon
    <2> QED
      BY <1>4, <1>5, <1>8, <2>2, Zenon
  <1>12. ASSUME NEW i \in 1..L
         PROVE  /\ g.rows[i].journal_sequence = g.first_journal_seq + i - 1
                /\ g.rows[i].stream_sequence =
                     Cardinality(OfStream(g.rows, i, StreamOf(g.rows[i].record)))
    <2>1. g.rows[i] = old[i]
      BY <1>4, <1>5, Zenon
    <2>2. \A s : OfStream(g.rows, i, s) = OfStream(old, i, s)
      BY <1>3, <1>4, <1>5 DEF OfStream
    <2>3. /\ old[i].journal_sequence = seg.first_journal_seq + i - 1
          /\ old[i].stream_sequence = Cardinality(OfStream(old, i, StreamOf(old[i].record)))
      BY Zenon DEF SegmentOK, old
    <2> QED
      BY <1>4, <2>1, <2>2, <2>3, Zenon
  <1>13. ASSUME NEW i \in 1..m
         PROVE  /\ g.rows[L + i].journal_sequence = g.first_journal_seq + (L + i) - 1
                /\ g.rows[L + i].stream_sequence =
                     Cardinality(OfStream(g.rows, L + i, StreamOf(g.rows[L + i].record)))
    <2>1. g.rows[L + i] = new[i]
      BY <1>4, <1>5, Zenon
    <2>2. global_journal_seq + 1 = seg.first_journal_seq + L
      BY Zenon DEF SegmentOK, old
    <2>3. PICK s \in 0..(Streams - 1) : s = StreamOf(records[i])
      BY <1>3, StreamOfRecord, Zenon
    <2>4. i \in 0..m
      BY <1>3
    <2>5. Cardinality(OfStream(old \o new, L + i, s)) =
            Cardinality(OfStream(old, L, s)) + Cardinality(InStream(records, i, s))
      BY <1>7, <2>4, Zenon
    <2>6. g.rows[L + i].stream_sequence =
            Cardinality(OfStream(g.rows, L + i, StreamOf(g.rows[L + i].record)))
      BY <1>2, <1>4, <1>8, <2>1, <2>3, <2>5, Zenon
    <2>7. g.rows[L + i].journal_sequence = g.first_journal_seq + (L + i) - 1
      <3>1. g.rows[L + i].journal_sequence = global_journal_seq + i
        BY <1>2, <2>1, Zenon
      <3> HIDE DEF L, m
      <3> QED
        <4>1. \A x, y, l, k \in Nat : x + 1 = y + l => x + k = y + (l + k) - 1
          OBVIOUS
        <4>2. i \in Nat
          BY <1>6
        <4>3. global_journal_seq + i = seg.first_journal_seq + (L + i) - 1
          BY <1>6, <2>2, <4>1, <4>2
        <4> QED
          BY <1>4, <3>1, <4>3, Zenon
    <2> QED
      BY <2>6, <2>7, Zenon
  <1>14. \A i \in 1..Len(g.rows) :
           /\ g.rows[i].journal_sequence = g.first_journal_seq + i - 1
           /\ g.rows[i].stream_sequence =
                Cardinality(OfStream(g.rows, i, StreamOf(g.rows[i].record)))
    <2> TAKE i \in 1..Len(g.rows)
    <2>1. i \in 1..L \/ (i - L \in 1..m /\ L + (i - L) = i)
      BY <1>3, <1>4, <1>5
    <2> QED
      BY <1>12, <1>13, <2>1, Zenon
  <1>15. /\ g.record_count = Len(g.rows)
         /\ g.last_journal_seq + 1 = g.first_journal_seq + g.record_count
         /\ limit # NoRollover => g.record_count <= limit
    <2>1. /\ seg.record_count = L
          /\ global_journal_seq + 1 = seg.first_journal_seq + seg.record_count
      BY Zenon DEF SegmentOK, old
    <2>2. Len(g.rows) = L + m /\ (limit # NoRollover => g.record_count <= limit)
      BY <1>4, <1>5, Zenon
    <2> HIDE DEF L, m
    <2> QED
      BY <1>4, <1>6, <2>1, <2>2, SMTT(30)
  <1>16. SegmentOK(g, limit)
    BY <1>11, <1>14, <1>15, Zenon DEF SegmentOK
  <1> QED
    BY <1>10, <1>16, Zenon DEF g

-----------------------------------------------------------------------------
(* The store *)

StoreOK(segs, global, active, limit) ==
  /\ segs \in Seq(Segment) /\ Len(segs) \in Nat \ {0}
  /\ segs[1].first_journal_seq = 1
  /\ \A k \in 1..(Len(segs) - 1) :
       segs[k + 1].first_journal_seq = segs[k].last_journal_seq + 1
  /\ segs[Len(segs)].last_journal_seq = global
  /\ segs[Len(segs)].record_count = active
  /\ \A k \in 1..Len(segs) : SegmentOK(segs[k], limit)

RowsIn(segs) == UNION {RowsOf(segs[k]) : k \in DOMAIN segs}

\* The rows of the store, by segment and position.
LEMMA RowsInElements ==
    ASSUME NEW segs \in Seq(Segment), NEW x
    PROVE  x \in RowsIn(segs) <=>
             \E k \in 1..Len(segs) : \E i \in 1..Len(segs[k].rows) : x = segs[k].rows[i]
  <1>1. DOMAIN segs = 1..Len(segs)
    BY LenProperties, Zenon
  <1>2. \A k \in 1..Len(segs) : DOMAIN segs[k].rows = 1..Len(segs[k].rows)
    <2> TAKE k \in 1..Len(segs)
    <2>1. segs[k] \in Segment
      BY ElementOfSeq, Zenon
    <2>2. segs[k].rows \in Seq(Row)
      BY <2>1, Zenon DEF Segment
    <2> QED
      BY <2>2, LenProperties, Zenon
  <1>3. \A k \in 1..Len(segs) :
          x \in RowsOf(segs[k]) <=> \E i \in 1..Len(segs[k].rows) : x = segs[k].rows[i]
    BY <1>2, Zenon DEF RowsOf
  <1>4. x \in RowsIn(segs) <=> \E k \in 1..Len(segs) : x \in RowsOf(segs[k])
    BY <1>1, Zenon DEF RowsIn
  <1> QED
    BY <1>3, <1>4, Zenon

\* Adding a segment leaves the others where they were.
LEMMA AppendSegment ==
    ASSUME NEW segs \in Seq(Segment), NEW seg \in Segment
    PROVE  /\ Append(segs, seg) \in Seq(Segment)
           /\ Len(Append(segs, seg)) = Len(segs) + 1
           /\ \A k \in 1..Len(segs) : Append(segs, seg)[k] = segs[k]
           /\ Append(segs, seg)[Len(segs) + 1] = seg
  OBVIOUS

\* Rolling over adds an empty segment where the journal goes on.
LEMMA RollKeepsStore ==
    ASSUME PipelineType, StoreOK(segments, global_journal_seq, records_in_active, rollover)
    PROVE  /\ StoreOK(ActiveSegments, global_journal_seq, InActive, rollover)
           /\ RowsIn(ActiveSegments) = RowsIn(segments)
  <1>1. CASE ~needs_rollover
    BY <1>1, Zenon DEF ActiveSegments, InActive
  <1>2. CASE needs_rollover
    <2> DEFINE n == Len(segments)
               seg == NewSegment(global_journal_seq)
               segs == Append(segments, seg)
    <2>1. ActiveSegments = segs /\ InActive = 0
      BY <1>2, Zenon DEF ActiveSegments, InActive
    <2>2. segments \in Seq(Segment) /\ n \in Nat \ {0}
      BY Zenon DEF StoreOK
    <2>3. seg \in Segment /\ SegmentOK(seg, rollover)
      BY NewSegmentOK, Zenon DEF PipelineType
    <2>4. /\ seg.rows = <<>> /\ seg.record_count = 0 /\ seg.last_journal_seq = global_journal_seq
          /\ seg.first_journal_seq = global_journal_seq + 1
      BY Zenon DEF NewSegment
    <2> HIDE DEF seg
    <2>5. /\ segs \in Seq(Segment) /\ Len(segs) = n + 1
          /\ \A k \in 1..n : segs[k] = segments[k]
          /\ segs[n + 1] = seg
      BY <2>2, <2>3, AppendSegment, Zenon
    <2> HIDE DEF segs
    <2>6. \A k \in 1..Len(segs) : k \in 1..n \/ k = n + 1
      BY <2>2, <2>5
    <2>7. \A k \in 1..Len(segs) : SegmentOK(segs[k], rollover)
      BY <2>3, <2>5, <2>6, Zenon DEF StoreOK
    <2>8. \A k \in 1..(Len(segs) - 1) :
            segs[k + 1].first_journal_seq = segs[k].last_journal_seq + 1
      <3> TAKE k \in 1..(Len(segs) - 1)
      <3>1. k \in 1..n /\ (k = n \/ (k \in 1..(n - 1) /\ k + 1 \in 1..n))
        BY <2>2, <2>5
      <3>2. CASE k = n
        BY <2>4, <2>5, <3>1, <3>2, Zenon DEF StoreOK
      <3>3. CASE k \in 1..(n - 1) /\ k + 1 \in 1..n
        BY <2>5, <3>1, <3>3, Zenon DEF StoreOK
      <3> QED
        BY <3>1, <3>2, <3>3, Zenon
    <2>9. segs[1].first_journal_seq = 1
      BY <2>2, <2>5 DEF StoreOK
    <2>10. StoreOK(segs, global_journal_seq, 0, rollover)
      BY <2>2, <2>4, <2>5, <2>7, <2>8, <2>9 DEF StoreOK
    <2>11. ASSUME NEW x
           PROVE  x \in RowsIn(segs) <=> x \in RowsIn(segments)
      <3>1. 1..Len(seg.rows) = {}
        BY <2>4, EmptySeq
      <3>2. \A k \in 1..n : k \in 1..Len(segs)
        BY <2>2, <2>5
      <3> QED
        BY <2>2, <2>5, <2>6, <3>1, <3>2, RowsInElements
    <2> QED
      BY <2>1, <2>10, <2>11, Zenon
  <1> QED
    BY <1>1, <1>2, Zenon

\* Rewriting the active segment leaves the others alone.
LEMMA ReplaceLast ==
    ASSUME NEW segs \in Seq(Segment), Len(segs) \in Nat \ {0}, NEW seg \in Segment
    PROVE  LET next == [segs EXCEPT ![Len(segs)] = seg] IN
           /\ next \in Seq(Segment) /\ Len(next) = Len(segs)
           /\ \A k \in 1..(Len(segs) - 1) : next[k] = segs[k]
           /\ next[Len(segs)] = seg
  <1>1. Len(segs) \in 1..Len(segs)
        /\ \A k \in 1..(Len(segs) - 1) : k \in 1..Len(segs) /\ k # Len(segs)
    OBVIOUS
  <1> QED
    BY <1>1, ExceptSeq

\* A transaction adds its rows, and nothing else, to the active segment.
LEMMA CommitKeepsStore ==
    ASSUME NEW segs, NEW active, NEW limit \in Rollovers, NEW records \in Seq(Records),
           StoreOK(segs, global_journal_seq, active, limit),
           limit # NoRollover => active + Len(records) <= limit
    PROVE  LET last == segs[Len(segs)]
               next == [segs EXCEPT ![Len(segs)] = Grown(last, records)]
               new == NewRows(records, last.heads)
           IN  /\ StoreOK(next, global_journal_seq + Len(records), active + Len(records), limit)
               /\ RowsIn(next) = RowsIn(segs) \cup {new[i] : i \in 1..Len(records)}
               /\ \A i \in 1..Len(records) :
                    /\ new[i].record = records[i]
                    /\ new[i].journal_sequence = global_journal_seq + i
  <1> DEFINE n == Len(segs)
             m == Len(records)
             last == segs[n]
             g == Grown(last, records)
             next == [segs EXCEPT ![n] = g]
             new == NewRows(records, last.heads)
  <1>1. segs \in Seq(Segment) /\ n \in Nat \ {0} /\ m \in Nat
    BY LenProperties, Zenon DEF StoreOK
  <1>2. /\ last \in Segment /\ SegmentOK(last, limit)
        /\ last.last_journal_seq = global_journal_seq /\ last.record_count = active
    <2>1. n \in 1..n
      BY <1>1
    <2> QED
      BY <1>1, <2>1, ElementOfSeq, Zenon DEF StoreOK
  <1>3. /\ last.rows \in Seq(Row) /\ last.heads \in [0..(Streams - 1) -> Nat]
        /\ global_journal_seq \in Nat
    BY <1>2, Zenon DEF Segment
  <1>4. g \in Segment /\ SegmentOK(g, limit)
    BY <1>2, GrownSegmentOK, Zenon
  <1>5. /\ g.rows = last.rows \o new /\ g.record_count = active + m
        /\ g.first_journal_seq = last.first_journal_seq
        /\ g.last_journal_seq = global_journal_seq + m
    BY <1>2, Zenon DEF Grown
  <1>6. /\ new \in Seq(Row) /\ Len(new) = m
        /\ \A i \in 1..m : /\ new[i].record = records[i]
                           /\ new[i].journal_sequence = global_journal_seq + i
    BY <1>3, NewRowsShape, Zenon
  <1> HIDE DEF g, new
  <1>7. /\ next \in Seq(Segment) /\ Len(next) = n
        /\ \A k \in 1..(n - 1) : next[k] = segs[k]
        /\ next[n] = g
    BY <1>1, <1>4, ReplaceLast, Zenon
  <1> HIDE DEF next
  <1>8. \A k \in 1..n : (k \in 1..(n - 1) /\ next[k] = segs[k]) \/ (k = n /\ next[k] = g)
    BY <1>1, <1>7
  <1>9. \A k \in 1..n : SegmentOK(next[k], limit)
    BY <1>4, <1>8, Zenon DEF StoreOK
  <1>10. \A k \in 1..n : next[k].first_journal_seq = segs[k].first_journal_seq
    BY <1>5, <1>8, Zenon
  <1>11. \A k \in 1..(n - 1) : next[k + 1].first_journal_seq = next[k].last_journal_seq + 1
    <2> TAKE k \in 1..(n - 1)
    <2>1. k + 1 \in 1..n
      BY <1>1
    <2>2. segs[k + 1].first_journal_seq = segs[k].last_journal_seq + 1
      BY Zenon DEF StoreOK
    <2> QED
      BY <1>7, <1>10, <2>1, <2>2, Zenon
  <1>12. next[1].first_journal_seq = 1
    <2>1. 1 \in 1..n
      BY <1>1
    <2> QED
      BY <1>10, <2>1, Zenon DEF StoreOK
  <1>13. StoreOK(next, global_journal_seq + m, active + m, limit)
    BY <1>1, <1>5, <1>7, <1>9, <1>11, <1>12, Zenon DEF StoreOK
  <1>14. RowsIn(next) = RowsIn(segs) \cup {new[i] : i \in 1..m}
    <2> DEFINE L == Len(last.rows)
    <2>1. /\ L \in Nat /\ Len(g.rows) = L + m
          /\ \A i \in 1..(L + m) : g.rows[i] = IF i <= L THEN last.rows[i] ELSE new[i - L]
      <3>1. PICK old \in Seq(Row) : old = last.rows
        BY <1>3, Zenon
      <3>2. new \in Seq(Row)
        BY <1>6, Zenon
      <3>3. /\ Len(old \o new) = Len(old) + Len(new)
            /\ \A i \in 1..(Len(old) + Len(new)) :
                 (old \o new)[i] = IF i <= Len(old) THEN old[i] ELSE new[i - Len(old)]
        BY <3>2, ConcatProperties, Zenon
      <3>4. Len(old) \in Nat
        BY LenProperties, Zenon
      <3> HIDE DEF m, last
      <3> QED
        BY <1>5, <1>6, <3>1, <3>3, <3>4, Zenon
    <2> HIDE DEF L
    <2>2. /\ \A i \in 1..L : i \in 1..(L + m) /\ g.rows[i] = last.rows[i]
          /\ \A i \in 1..m : L + i \in 1..(L + m) /\ g.rows[L + i] = new[i]
      <3>1. \A i \in 1..L : i \in 1..(L + m) /\ i <= L
        BY <1>1, <2>1
      <3>2. \A i \in 1..m : L + i \in 1..(L + m) /\ ~(L + i <= L) /\ (L + i) - L = i
        BY <1>1, <2>1
      <3> QED
        BY <2>1, <3>1, <3>2, Zenon
    <2>3. \A i \in 1..(L + m) : i \in 1..L \/ (i - L \in 1..m /\ i = L + (i - L))
      BY <1>1, <2>1
    <2>4. n \in 1..n /\ \A k \in 1..(n - 1) : k \in 1..n
      BY <1>1
    <2> DEFINE New == {new[i] : i \in 1..m}
    <2>5. ASSUME NEW x \in RowsIn(next)
          PROVE  x \in RowsIn(segs) \cup New
      <3>1. PICK k \in 1..n : \E i \in 1..Len(next[k].rows) : x = next[k].rows[i]
        BY <1>7, <2>5, RowsInElements
      <3>2. PICK i \in 1..Len(next[k].rows) : x = next[k].rows[i]
        BY <3>1, Zenon
      <3>3. CASE k \in 1..(n - 1) /\ next[k] = segs[k]
        BY <1>1, <3>2, <3>3, RowsInElements, Zenon
      <3>4. CASE k = n /\ next[k] = g
        <4>1. i \in 1..(L + m) /\ x = g.rows[i]
          BY <2>1, <3>2, <3>4, Zenon
        <4>2. CASE i \in 1..L
          <5>1. x = segs[n].rows[i] /\ i \in 1..Len(segs[n].rows)
            BY <2>2, <4>1, <4>2, Zenon DEF L
          <5> QED
            BY <1>1, <2>4, <5>1, RowsInElements, Zenon
        <4>3. CASE i - L \in 1..m /\ i = L + (i - L)
          BY <2>2, <4>1, <4>3, Zenon
        <4> QED
          BY <2>3, <4>1, <4>2, <4>3, Zenon
      <3> QED
        BY <1>8, <3>3, <3>4, Zenon
    <2>6. ASSUME NEW x \in RowsIn(segs)
          PROVE  x \in RowsIn(next)
      <3>1. PICK k \in 1..n : \E i \in 1..Len(segs[k].rows) : x = segs[k].rows[i]
        BY <1>1, <2>6, RowsInElements
      <3>2. PICK i \in 1..Len(segs[k].rows) : x = segs[k].rows[i]
        BY <3>1, Zenon
      <3>3. CASE k \in 1..(n - 1) /\ next[k] = segs[k]
        BY <1>7, <3>2, <3>3, RowsInElements, Zenon
      <3>4. CASE k = n /\ next[k] = g
        <4>1. i \in 1..Len(next[n].rows) /\ x = next[n].rows[i]
          BY <2>1, <2>2, <3>2, <3>4, Zenon DEF L
        <4> QED
          BY <1>7, <2>4, <4>1, RowsInElements, Zenon
      <3> QED
        BY <1>8, <3>3, <3>4, Zenon
    <2>7. ASSUME NEW i \in 1..m
          PROVE  new[i] \in RowsIn(next)
      <3>1. L + i \in 1..Len(next[n].rows) /\ new[i] = next[n].rows[L + i]
        BY <1>7, <2>1, <2>2, Zenon
      <3> QED
        BY <1>7, <2>4, <3>1, RowsInElements, Zenon
    <2> QED
      BY <2>5, <2>6, <2>7, Zenon
  <1> QED
    BY <1>6, <1>13, <1>14, Zenon DEF next, g, new

-----------------------------------------------------------------------------
(* The inductive invariant *)

StoreInv == StoreOK(segments, global_journal_seq, records_in_active, rollover)

InOrder(q) == \A i, j \in 1..Len(q) : i < j => q[i] < q[j]

\* What is on its way is in submission order and comes after all that is
\* written: written rows, then the batch, then the channel.
WaitingInOrder ==
  /\ InOrder(batch) /\ InOrder(channel)
  /\ \A i \in 1..Len(batch), j \in 1..Len(channel) : batch[i] < channel[j]
  /\ \A i \in 1..Len(batch) : batch[i] <= submitted
  /\ \A j \in 1..Len(channel) : channel[j] <= submitted
  /\ \A x \in Written :
       /\ x.record \in Records /\ x.record <= submitted
       /\ x.journal_sequence \in Nat /\ x.journal_sequence <= global_journal_seq
       /\ \A i \in 1..Len(batch) : x.record < batch[i]
       /\ \A j \in 1..Len(channel) : x.record < channel[j]

BenchInv ==
  /\ PipelineType
  /\ StoreInv
  /\ EveryRecordAccounted
  /\ WaitingInOrder
  /\ WrittenInOrder /\ IsFiniteSet(Written)

\* What is written is the rows of the segments.
LEMMA WrittenRows == Written = RowsIn(segments)
  BY Zenon DEF Written, RowsIn

\* The invariant holds of the empty store.
LEMMA BenchInit == PipelineInit => BenchInv
  <1> SUFFICES ASSUME PipelineInit
               PROVE  BenchInv
    OBVIOUS
  <1> DEFINE seg == NewSegment(0)
  <1>1. /\ segments = <<seg>> /\ seg \in Segment /\ SegmentOK(seg, rollover)
        /\ seg.rows = <<>> /\ seg.record_count = 0 /\ seg.last_journal_seq = 0
        /\ seg.first_journal_seq = 1
    <2>1. seg \in Segment /\ SegmentOK(seg, rollover)
      BY NewSegmentOK, Zenon DEF PipelineInit
    <2> QED
      BY <2>1 DEF PipelineInit, NewSegment
  <1> HIDE DEF seg
  <1>2. segments \in Seq(Segment) /\ Len(segments) = 1 /\ segments[1] = seg
    BY <1>1
  <1>3. StoreInv
    BY <1>1, <1>2 DEF StoreInv, StoreOK, PipelineInit
  <1>4. Written = {}
    <2>1. 1..Len(seg.rows) = {}
      BY <1>1, EmptySeq
    <2>2. \A x : x \notin RowsIn(segments)
      BY <1>2, <2>1, RowsInElements
    <2> QED
      BY <2>2, WrittenRows, Zenon
  <1>5. /\ batch = <<>> /\ channel = <<>> /\ submitted = 0 /\ rejected = 0
        /\ phase = "recv" /\ rollover \in Rollovers /\ global_journal_seq = 0
        /\ records_in_active = 0 /\ metrics \in Metrics
        /\ metrics.written_records = 0 /\ metrics.failed_records = 0
        /\ metrics.max_observed_batch_size = 0
    BY Zenon DEF PipelineInit, Metrics
  <1>6. <<>> \in Seq(Records) /\ Len(<<>>) = 0
    BY EmptySeq, Zenon
  <1>7. PipelineType /\ EveryRecordAccounted
    BY <1>5, <1>6, BenchConstants DEF PipelineType, EveryRecordAccounted
  <1>8. WaitingInOrder
    BY <1>4, <1>5, <1>6 DEF WaitingInOrder, InOrder
  <1>9. WrittenInOrder /\ IsFiniteSet(Written)
    BY <1>4, <1>5, FS_EmptySet, Zenon DEF WrittenInOrder
  <1> QED
    BY <1>3, <1>7, <1>8, <1>9, Zenon DEF BenchInv

-----------------------------------------------------------------------------
(* Steps that leave the store alone *)

\* A step that leaves the store alone keeps what is said of its rows.
LEMMA StoreKept ==
    ASSUME BenchInv, UNCHANGED <<storeVars, rollover>>
    PROVE  /\ StoreInv' /\ Written' = Written
           /\ WrittenInOrder' /\ IsFiniteSet(Written)'
  <1>1. /\ segments' = segments /\ global_journal_seq' = global_journal_seq
        /\ records_in_active' = records_in_active /\ metrics' = metrics /\ rollover' = rollover
    BY Zenon DEF storeVars
  <1>2. Written' = Written
    BY <1>1, Zenon DEF Written
  <1>3. StoreInv'
    BY <1>1, Zenon DEF BenchInv, StoreInv
  <1>4. WrittenInOrder' /\ IsFiniteSet(Written)'
    BY <1>1, <1>2, Zenon DEF BenchInv, WrittenInOrder
  <1> QED
    BY <1>2, <1>3, <1>4, Zenon

\* Submit: a record enters the channel or is counted as rejected.
LEMMA SubmitStep ==
    ASSUME BenchInv, Submit
    PROVE  BenchInv'
  <1> USE DEF BenchInv
  <1>1. /\ submitted' = submitted + 1 /\ UNCHANGED <<phase, batch, storeVars, rollover>>
        /\ \/ /\ Len(channel) < ChannelCapacity
              /\ channel' = Append(channel, submitted + 1) /\ rejected' = rejected
           \/ channel' = channel /\ rejected' = rejected + 1
    BY Zenon DEF Submit
  <1>2. /\ StoreInv' /\ Written' = Written
        /\ WrittenInOrder' /\ IsFiniteSet(Written)'
    BY <1>1, StoreKept, Zenon
  <1>3. /\ phase' = phase /\ batch' = batch /\ rollover' = rollover
        /\ global_journal_seq' = global_journal_seq
        /\ records_in_active' = records_in_active /\ metrics' = metrics
    BY <1>1, Zenon DEF storeVars
  <1>4. /\ submitted \in Nat /\ channel \in Seq(Records) /\ submitted + 1 \in Records
        /\ Len(channel) \in Nat /\ Len(batch) \in Nat /\ rejected \in Nat
        /\ metrics.written_records \in Nat /\ metrics.failed_records \in Nat
    BY LenProperties DEF PipelineType, Metrics, Records
  <1>5. CASE Len(channel) < ChannelCapacity
             /\ channel' = Append(channel, submitted + 1) /\ rejected' = rejected
    <2>1. /\ channel' \in Seq(Records) /\ Len(channel') = Len(channel) + 1
          /\ \A j \in 1..Len(channel) : channel'[j] = channel[j]
          /\ channel'[Len(channel) + 1] = submitted + 1
      BY <1>4, <1>5
    <2>2. \A j \in 1..Len(channel') :
            (j \in 1..Len(channel) /\ channel'[j] = channel[j]) \/
            (j = Len(channel) + 1 /\ channel'[j] = submitted + 1)
      BY <1>4, <2>1
    <2>3. PipelineType'
      BY <1>1, <1>3, <1>4, <1>5, <2>1, BenchConstants DEF PipelineType
    <2>4. EveryRecordAccounted'
      BY <1>1, <1>3, <1>4, <1>5, <2>1, BenchConstants, SMTT(30) DEF EveryRecordAccounted
    <2>5. InOrder(channel)'
      <3> SUFFICES ASSUME NEW i \in 1..Len(channel'), NEW j \in 1..Len(channel'), i < j
                   PROVE  channel'[i] < channel'[j]
        BY Zenon DEF InOrder
      <3>1. i \in 1..Len(channel) /\ channel'[i] = channel[i] /\ channel[i] \in Records
        BY <1>4, <2>1, <2>2
      <3>2. channel[i] <= submitted
        BY <3>1, Zenon DEF WaitingInOrder
      <3>3. CASE j \in 1..Len(channel) /\ channel'[j] = channel[j]
        BY <3>1, <3>3, Zenon DEF WaitingInOrder, InOrder
      <3>4. CASE j = Len(channel) + 1 /\ channel'[j] = submitted + 1
        BY <1>4, <3>1, <3>2, <3>4 DEF Records
      <3> QED
        BY <2>2, <3>3, <3>4, Zenon
    <2>6. WaitingInOrder'
      <3>1. \A j \in 1..Len(channel) : channel[j] \in Records
        BY <1>4
      <3>2. \A i \in 1..Len(batch) : batch[i] \in Records
        BY DEF PipelineType
      <3>3. \A k \in Records : k <= submitted => k <= submitted + 1 /\ k < submitted + 1
        BY <1>4 DEF Records
      <3>4. \A j \in 1..Len(channel') : channel'[j] <= submitted'
        BY <1>1, <1>4, <2>2, <3>1, <3>3 DEF WaitingInOrder
      <3>5. \A i \in 1..Len(batch') : batch'[i] <= submitted'
        BY <1>1, <1>3, <3>2, <3>3, Zenon DEF WaitingInOrder
      <3>6. \A i \in 1..Len(batch'), j \in 1..Len(channel') : batch'[i] < channel'[j]
        BY <1>3, <2>2, <3>2, <3>3, Zenon DEF WaitingInOrder
      <3>7. \A x \in Written' :
               /\ x.record \in Records /\ x.record <= submitted'
               /\ x.journal_sequence \in Nat /\ x.journal_sequence <= global_journal_seq'
               /\ \A i \in 1..Len(batch') : x.record < batch'[i]
               /\ \A j \in 1..Len(channel') : x.record < channel'[j]
        BY <1>1, <1>2, <1>3, <2>2, <3>3, Zenon DEF WaitingInOrder
      <3>8. InOrder(batch)'
        BY <1>3, Zenon DEF WaitingInOrder, InOrder
      <3> QED
        BY <2>5, <3>4, <3>5, <3>6, <3>7, <3>8, Zenon DEF WaitingInOrder
    <2> QED
      BY <1>2, <2>3, <2>4, <2>6, Zenon
  <1>6. CASE channel' = channel /\ rejected' = rejected + 1
    <2>1. PipelineType'
      BY <1>1, <1>3, <1>4, <1>6 DEF PipelineType
    <2>2. EveryRecordAccounted'
      BY <1>1, <1>3, <1>4, <1>6, SMTT(30) DEF EveryRecordAccounted
    <2>3. WaitingInOrder'
      <3>1. \A j \in 1..Len(channel) : channel[j] \in Records /\ channel[j] <= submitted
        BY <1>4 DEF WaitingInOrder
      <3>2. \A i \in 1..Len(batch) : batch[i] \in Records /\ batch[i] <= submitted
        BY DEF PipelineType, WaitingInOrder
      <3>3. \A k \in Records : k <= submitted => k <= submitted + 1
        BY <1>4 DEF Records
      <3> QED
        BY <1>1, <1>2, <1>3, <1>6, <3>1, <3>2, <3>3, Zenon DEF WaitingInOrder, InOrder
    <2> QED
      BY <1>2, <2>1, <2>2, <2>3, Zenon
  <1> QED
    BY <1>1, <1>5, <1>6, Zenon

\* Recv and TryRecv move the first record of the channel behind the batch.
LEMMA ReceiveStep ==
    ASSUME BenchInv, Recv \/ TryRecv
    PROVE  BenchInv'
  <1> USE DEF BenchInv
  <1>1. /\ channel # <<>> /\ channel' = Tail(channel) /\ phase' = "fill"
        /\ batch' = Append(batch, Head(channel)) /\ Len(batch) < MaxRecordsPerTx
        /\ UNCHANGED <<producerVars, storeVars, rollover>>
    <2>1. CASE Recv
      <3>1. batch = <<>> /\ channel \in Seq(Records)
        BY <2>1, Zenon DEF Recv, PipelineType
      <3>2. channel # <<>> /\ Head(channel) \in Records
        BY <2>1, <3>1, HeadTailProperties, Zenon DEF Recv
      <3>3. <<Head(channel)>> = Append(<<>>, Head(channel)) /\ Len(<<>>) = 0
        BY <3>2
      <3> QED
        BY <2>1, <3>1, <3>3, BenchConstants DEF Recv
    <2>2. CASE TryRecv
      BY <2>2, Zenon DEF TryRecv
    <2> QED
      BY <2>1, <2>2, Zenon
  <1>2. /\ StoreInv' /\ Written' = Written
        /\ WrittenInOrder' /\ IsFiniteSet(Written)'
    BY <1>1, StoreKept, Zenon
  <1>3. /\ submitted' = submitted /\ rejected' = rejected /\ rollover' = rollover
        /\ global_journal_seq' = global_journal_seq
        /\ records_in_active' = records_in_active /\ metrics' = metrics
    BY <1>1, Zenon DEF storeVars, producerVars
  <1>4. /\ submitted \in Nat /\ channel \in Seq(Records) /\ batch \in Seq(Records)
        /\ Len(channel) \in Nat \ {0} /\ Len(batch) \in Nat /\ rejected \in Nat
        /\ metrics.written_records \in Nat /\ metrics.failed_records \in Nat
    BY <1>1, LenProperties, EmptySeq, Zenon DEF PipelineType, Metrics
  <1>5. Head(channel) = channel[1]
    BY <1>1, <1>4
  <1>6. /\ channel' \in Seq(Records) /\ Len(channel') = Len(channel) - 1
        /\ \A j \in 1..Len(channel') : channel'[j] = channel[j + 1]
    BY <1>1, <1>4, HeadTailProperties, Zenon
  <1>7. 1 \in 1..Len(channel) /\ channel[1] \in Records
    BY <1>4
  <1>8. /\ batch' \in Seq(Records) /\ Len(batch') = Len(batch) + 1
        /\ \A i \in 1..Len(batch) : batch'[i] = batch[i]
        /\ batch'[Len(batch) + 1] = channel[1]
    BY <1>1, <1>4, <1>5, <1>7
  <1>9. \A i \in 1..Len(batch') :
          (i \in 1..Len(batch) /\ batch'[i] = batch[i]) \/
          (i = Len(batch) + 1 /\ batch'[i] = channel[1])
    BY <1>4, <1>8
  <1>10. \A j \in 1..Len(channel') :
           j + 1 \in 1..Len(channel) /\ channel'[j] = channel[j + 1] /\ 1 < j + 1
    BY <1>4, <1>6
  <1>11. PipelineType'
    <2>1. batch' # <<>>
      BY <1>4, <1>8, EmptySeq
    <2> QED
      BY <1>1, <1>3, <1>4, <1>6, <1>8, <2>1, BenchConstants, SMTT(30) DEF PipelineType
  <1>12. EveryRecordAccounted'
    BY <1>1, <1>3, <1>4, <1>6, <1>8, BenchConstants, SMTT(30) DEF EveryRecordAccounted
  <1>13. WaitingInOrder'
    <2>1. InOrder(batch)'
      <3> SUFFICES ASSUME NEW i \in 1..Len(batch'), NEW j \in 1..Len(batch'), i < j
                   PROVE  batch'[i] < batch'[j]
        BY Zenon DEF InOrder
      <3>1. i \in 1..Len(batch) /\ batch'[i] = batch[i]
        BY <1>4, <1>8, <1>9
      <3> QED
        BY <1>7, <1>9, <3>1, Zenon DEF WaitingInOrder, InOrder
    <2>2. InOrder(channel)'
      <3> SUFFICES ASSUME NEW i \in 1..Len(channel'), NEW j \in 1..Len(channel'), i < j
                   PROVE  channel'[i] < channel'[j]
        BY Zenon DEF InOrder
      <3>1. i + 1 < j + 1
        OBVIOUS
      <3> QED
        BY <1>10, <3>1, Zenon DEF WaitingInOrder, InOrder
    <2>3. \A i \in 1..Len(batch'), j \in 1..Len(channel') : batch'[i] < channel'[j]
      BY <1>7, <1>9, <1>10, Zenon DEF WaitingInOrder, InOrder
    <2>4. /\ \A i \in 1..Len(batch') : batch'[i] <= submitted'
          /\ \A j \in 1..Len(channel') : channel'[j] <= submitted'
      BY <1>3, <1>7, <1>9, <1>10, Zenon DEF WaitingInOrder
    <2>5. \A x \in Written' :
             /\ x.record \in Records /\ x.record <= submitted'
             /\ x.journal_sequence \in Nat /\ x.journal_sequence <= global_journal_seq'
             /\ \A i \in 1..Len(batch') : x.record < batch'[i]
             /\ \A j \in 1..Len(channel') : x.record < channel'[j]
      BY <1>2, <1>3, <1>7, <1>9, <1>10, Zenon DEF WaitingInOrder
    <2> QED
      BY <2>1, <2>2, <2>3, <2>4, <2>5, Zenon DEF WaitingInOrder
  <1> QED
    BY <1>2, <1>11, <1>12, <1>13, Zenon

\* The steps that only move the producer or the writer along.
LEMMA QuietStep ==
    ASSUME BenchInv,
           ProducerExits \/ FillEnds \/ Disconnected \/ Finished \/ UNCHANGED pipelineVars
    PROVE  BenchInv'
  <1> USE DEF BenchInv
  <1>1. /\ UNCHANGED <<submitted, rejected, channel, batch, storeVars, rollover>>
        /\ phase' = phase \/ (phase = "fill" /\ phase' = "write")
             \/ (phase = "recv" /\ phase' = "done")
    BY Zenon DEF ProducerExits, FillEnds, Disconnected, Finished, pipelineVars, producerVars
  <1>2. /\ StoreInv' /\ Written' = Written
        /\ WrittenInOrder' /\ IsFiniteSet(Written)'
    BY <1>1, StoreKept, Zenon
  <1>3. /\ submitted' = submitted /\ rejected' = rejected /\ rollover' = rollover
        /\ channel' = channel /\ batch' = batch
        /\ global_journal_seq' = global_journal_seq
        /\ records_in_active' = records_in_active /\ metrics' = metrics
    BY <1>1, Zenon DEF storeVars
  <1>4. PipelineType'
    BY <1>1, <1>3, Zenon DEF PipelineType
  <1>5. EveryRecordAccounted'
    BY <1>3, Zenon DEF EveryRecordAccounted
  <1>6. WaitingInOrder'
    BY <1>2, <1>3, Zenon DEF WaitingInOrder, InOrder
  <1> QED
    BY <1>2, <1>4, <1>5, <1>6, Zenon

-----------------------------------------------------------------------------
(* Transactions *)

\* What is left of a batch is its records after the transaction.
LEMMA AdvanceShape ==
    ASSUME PipelineType, phase = "write", Advance(next_batch_end)
    PROVE  /\ next_batch_end \in Nat \ {0}
           /\ Len(batch) \in Nat /\ next_batch_end <= Len(batch)
           /\ batch' \in Seq(Records) /\ Len(batch') = Len(batch) - next_batch_end
           /\ \A i \in 1..Len(batch') :
                next_batch_end + i \in 1..Len(batch) /\ batch'[i] = batch[next_batch_end + i]
           /\ phase' \in {"recv", "write"} /\ (phase' = "write" <=> batch' # <<>>)
  <1>1. PICK n \in 1..Len(batch) : n = next_batch_end
    BY BatchEnd, Zenon
  <1>2. Len(batch) \in Nat /\ batch \in Seq(Records)
    BY LenProperties, Zenon DEF PipelineType
  <1>3. batch' = SubSeq(batch, n + 1, Len(batch))
    BY <1>1, Zenon DEF Advance
  <1>4. phase' = IF n = Len(batch) THEN "recv" ELSE "write"
    BY <1>1, Zenon DEF Advance
  <1>5. n \in Nat \ {0} /\ n <= Len(batch)
    BY <1>2
  <1>6. \A i \in (n + 1)..Len(batch) : batch[i] \in Records
    BY <1>2, <1>5
  <1>7. /\ batch' \in Seq(Records)
        /\ Len(batch') = IF n + 1 <= Len(batch) THEN Len(batch) - (n + 1) + 1 ELSE 0
        /\ \A i \in 1..(Len(batch) - (n + 1) + 1) : batch'[i] = batch[(n + 1) + i - 1]
    BY <1>2, <1>3, <1>5, <1>6, SubSeqProperties
  <1>8. Len(batch') = Len(batch) - n
    BY <1>2, <1>5, <1>7
  <1>9. \A i \in 1..Len(batch') : n + i \in 1..Len(batch) /\ batch'[i] = batch[n + i]
    <2>1. \A i \in 1..Len(batch') :
            /\ n + i \in 1..Len(batch) /\ i \in 1..(Len(batch) - (n + 1) + 1)
            /\ (n + 1) + i - 1 = n + i
      BY <1>2, <1>5, <1>8
    <2> QED
      BY <1>7, <2>1, Zenon
  <1>10. batch' = <<>> <=> n = Len(batch)
    BY <1>2, <1>5, <1>7, <1>8, EmptySeq
  <1>11. phase' \in {"recv", "write"} /\ (phase' = "write" <=> batch' # <<>>)
    BY <1>4, <1>10, Zenon
  <1> QED
    BY <1>1, <1>2, <1>5, <1>7, <1>8, <1>9, <1>11, Zenon

\* The rest of the batch still comes after all that was written before.
LEMMA RestInOrder ==
    ASSUME BenchInv, phase = "write", Advance(next_batch_end),
           channel' = channel, submitted' = submitted
    PROVE  /\ InOrder(batch)' /\ InOrder(channel)'
           /\ \A i \in 1..Len(batch'), j \in 1..Len(channel') : batch'[i] < channel'[j]
           /\ \A i \in 1..Len(batch') : batch'[i] <= submitted'
           /\ \A j \in 1..Len(channel') : channel'[j] <= submitted'
           /\ \A x \in Written : \A i \in 1..Len(batch') : x.record < batch'[i]
  <1>1. PICK n : n = next_batch_end
    OBVIOUS
  <1>2. /\ n \in Nat \ {0} /\ Len(batch) \in Nat /\ n <= Len(batch)
        /\ Len(batch') = Len(batch) - n
        /\ \A i \in 1..Len(batch') : n + i \in 1..Len(batch) /\ batch'[i] = batch[n + i]
    BY <1>1, AdvanceShape, Zenon DEF BenchInv
  <1>3. InOrder(batch)'
    <2> SUFFICES ASSUME NEW i \in 1..Len(batch'), NEW j \in 1..Len(batch'), i < j
                 PROVE  batch'[i] < batch'[j]
      BY Zenon DEF InOrder
    <2>1. n + i < n + j
      BY <1>2
    <2> QED
      BY <1>2, <2>1, Zenon DEF BenchInv, WaitingInOrder, InOrder
  <1>4. /\ InOrder(channel)'
        /\ \A j \in 1..Len(channel') : channel'[j] <= submitted'
    BY Zenon DEF BenchInv, WaitingInOrder, InOrder
  <1>5. /\ \A i \in 1..Len(batch'), j \in 1..Len(channel') : batch'[i] < channel'[j]
        /\ \A i \in 1..Len(batch') : batch'[i] <= submitted'
        /\ \A x \in Written : \A i \in 1..Len(batch') : x.record < batch'[i]
    BY <1>2, Zenon DEF BenchInv, WaitingInOrder
  <1> QED
    BY <1>3, <1>4, <1>5, Zenon

\* A failed transaction: its records are counted as failed and none is
\* written, but the roll over before it stays.
LEMMA RollbackStep ==
    ASSUME BenchInv, RollbackTransaction
    PROVE  BenchInv'
  <1> USE DEF BenchInv
  <1>1. PICK n : n = next_batch_end
    OBVIOUS
  <1>2. /\ phase = "write" /\ Advance(next_batch_end)
        /\ segments' = ActiveSegments /\ records_in_active' = InActive
        /\ metrics' = FailedMetrics(n)
        /\ submitted' = submitted /\ rejected' = rejected /\ channel' = channel
        /\ global_journal_seq' = global_journal_seq /\ rollover' = rollover
    BY <1>1, Zenon DEF RollbackTransaction, producerVars
  <1>3. /\ n \in Nat \ {0} /\ Len(batch) \in Nat /\ n <= Len(batch)
        /\ batch' \in Seq(Records) /\ Len(batch') = Len(batch) - n
        /\ phase' \in {"recv", "write"} /\ (phase' = "write" <=> batch' # <<>>)
    BY <1>1, <1>2, AdvanceShape, Zenon
  <1>4. InActive \in Nat
    BY RoomInActive, Zenon
  <1>5. /\ StoreOK(ActiveSegments, global_journal_seq, InActive, rollover)
        /\ RowsIn(ActiveSegments) = RowsIn(segments)
    BY RollKeepsStore, Zenon DEF StoreInv
  <1>6. StoreInv' /\ Written' = Written
    BY <1>2, <1>5, WrittenRows, Zenon DEF StoreInv, Written, RowsIn
  <1>7. /\ metrics' \in Metrics /\ metrics'.written_records = metrics.written_records
        /\ metrics'.failed_records = metrics.failed_records + n
        /\ metrics'.max_observed_batch_size = metrics.max_observed_batch_size
    BY <1>2, <1>3 DEF FailedMetrics, Metrics, PipelineType
  <1>8. PipelineType'
    BY <1>2, <1>3, <1>4, <1>7, BenchConstants DEF PipelineType
  <1>9. EveryRecordAccounted'
    <2>1. /\ submitted \in Nat /\ rejected \in Nat /\ Len(channel) \in Nat
          /\ metrics.written_records \in Nat /\ metrics.failed_records \in Nat
      BY LenProperties, Zenon DEF PipelineType, Metrics
    <2>2. /\ Len(batch) <= MaxRecordsPerTx /\ Len(channel) <= ChannelCapacity
          /\ metrics.max_observed_batch_size <= MaxRecordsPerTx
          /\ submitted = rejected + Len(channel) + Len(batch)
                           + metrics.written_records + metrics.failed_records
      BY Zenon DEF EveryRecordAccounted
    <2>3. Len(batch') <= MaxRecordsPerTx
      BY <1>3, <2>2, BenchConstants
    <2>4. submitted' = rejected' + Len(channel') + Len(batch')
                         + metrics'.written_records + metrics'.failed_records
      BY <1>2, <1>3, <1>7, <2>1, <2>2, SMTT(30)
    <2> QED
      BY <1>2, <1>7, <2>2, <2>3, <2>4, Zenon DEF EveryRecordAccounted
  <1>10. WaitingInOrder'
    BY <1>2, <1>6, RestInOrder, Zenon DEF WaitingInOrder
  <1>11. WrittenInOrder' /\ IsFiniteSet(Written)'
    BY <1>6, <1>7, Zenon DEF WrittenInOrder
  <1> QED
    BY <1>6, <1>8, <1>9, <1>10, <1>11, Zenon

\* A committed transaction: its records become the last rows of the store.
LEMMA CommitStep ==
    ASSUME BenchInv, CommitTransaction
    PROVE  BenchInv'
  <1> USE DEF BenchInv
  <1>1. PICK n : n = next_batch_end
    OBVIOUS
  <1> DEFINE records == SubSeq(batch, 1, n)
             active == ActiveSegments[Len(ActiveSegments)]
             new == NewRows(records, active.heads)
             New == {new[i] : i \in 1..n}
  <1>2. /\ phase = "write" /\ Advance(next_batch_end)
        /\ global_journal_seq' = global_journal_seq + n
        /\ records_in_active' = InActive + n
        /\ metrics' = [committed_transactions |-> metrics.committed_transactions + 1,
                       failed_transactions |-> metrics.failed_transactions,
                       written_records |-> metrics.written_records + n,
                       failed_records |-> metrics.failed_records,
                       max_observed_batch_size |-> BiggerOf(metrics.max_observed_batch_size, n)]
        /\ submitted' = submitted /\ rejected' = rejected /\ channel' = channel
        /\ rollover' = rollover
    BY <1>1, Zenon DEF CommitTransaction, producerVars
  <1>3. /\ n \in Nat \ {0} /\ Len(batch) \in Nat /\ n <= Len(batch)
        /\ batch' \in Seq(Records) /\ Len(batch') = Len(batch) - n
        /\ \A i \in 1..Len(batch') : n + i \in 1..Len(batch) /\ batch'[i] = batch[n + i]
        /\ phase' \in {"recv", "write"} /\ (phase' = "write" <=> batch' # <<>>)
    BY <1>1, <1>2, AdvanceShape, Zenon
  <1>4. InActive \in Nat /\ (rollover # NoRollover => InActive + n <= rollover)
    BY <1>1, <1>2, RoomInActive, BatchEnd, Zenon
  <1>5. /\ records \in Seq(Records) /\ Len(records) = n
        /\ \A i \in 1..n : i \in 1..Len(batch) /\ batch[i] \in Records /\ records[i] = batch[i]
    <2>1. \A i \in 1..n : i \in 1..Len(batch) /\ batch[i] \in Records
      BY <1>3 DEF PipelineType
    <2>2. /\ records \in Seq(Records) /\ Len(records) = IF 1 <= n THEN n - 1 + 1 ELSE 0
          /\ \A i \in 1..(n - 1 + 1) : records[i] = batch[1 + i - 1]
      BY <1>3, <2>1, SubSeqProperties
    <2> HIDE DEF records
    <2>3. n - 1 + 1 = n /\ 1 <= n /\ \A i \in 1..n : 1 + i - 1 = i
      BY <1>3
    <2> QED
      BY <2>1, <2>2, <2>3, Zenon
  <1>6. segments' = [ActiveSegments EXCEPT ![Len(ActiveSegments)] = Grown(active, records)]
    BY <1>1, <1>5, Zenon DEF CommitTransaction, Grown
  <1>7. /\ StoreOK(ActiveSegments, global_journal_seq, InActive, rollover)
        /\ RowsIn(ActiveSegments) = RowsIn(segments)
    BY RollKeepsStore, Zenon DEF StoreInv
  <1> HIDE DEF records
  <1>8. /\ StoreOK(segments', global_journal_seq + n, InActive + n, rollover)
        /\ RowsIn(segments') = RowsIn(ActiveSegments) \cup New
        /\ \A i \in 1..n : /\ new[i].record = records[i]
                           /\ new[i].journal_sequence = global_journal_seq + i
    <2>1. rollover \in Rollovers /\ records \in Seq(Records) /\ Len(records) = n
      BY <1>5, Zenon DEF PipelineType
    <2>2. rollover # NoRollover => InActive + Len(records) <= rollover
      BY <1>4, <2>1, Zenon
    <2>3. LET last == ActiveSegments[Len(ActiveSegments)]
              next == [ActiveSegments EXCEPT ![Len(ActiveSegments)] = Grown(last, records)]
              rows == NewRows(records, last.heads)
          IN  /\ StoreOK(next, global_journal_seq + Len(records), InActive + Len(records), rollover)
              /\ RowsIn(next) = RowsIn(ActiveSegments) \cup {rows[i] : i \in 1..Len(records)}
              /\ \A i \in 1..Len(records) :
                   /\ rows[i].record = records[i]
                   /\ rows[i].journal_sequence = global_journal_seq + i
      BY <1>7, <2>1, <2>2, CommitKeepsStore, Zenon
    <2> QED
      BY <1>6, <2>1, <2>3, Zenon
  <1> HIDE DEF new
  <1>9. StoreInv'
    BY <1>2, <1>8, Zenon DEF StoreInv
  <1>10. Written' = Written \cup New
    BY <1>7, <1>8, Zenon DEF Written, RowsIn
  <1>11. \A i \in 1..n : /\ new[i].record = batch[i] /\ batch[i] \in Records /\ i \in 1..Len(batch)
                         /\ new[i].journal_sequence = global_journal_seq + i
    BY <1>5, <1>8, Zenon
  <1>12. PipelineType'
    <2>1. BiggerOf(metrics.max_observed_batch_size, n) \in Nat
      BY <1>3, Zenon DEF BiggerOf, PipelineType, Metrics
    <2>2. metrics' \in Metrics
      BY <1>2, <1>3, <2>1 DEF PipelineType, Metrics
    <2>3. global_journal_seq' \in Nat /\ records_in_active' \in Nat
      BY <1>2, <1>3, <1>4 DEF PipelineType
    <2>4. MaxRecordsPerTx \in Nat /\ Len(batch) <= MaxRecordsPerTx
      BY BenchConstants, Zenon DEF PipelineType
    <2>5. Len(batch') <= MaxRecordsPerTx
      BY <1>3, <2>4
    <2>6. /\ phase' \in {"recv", "fill", "write", "done"}
          /\ phase' \in {"fill", "write"} <=> batch' # <<>>
      BY <1>3, Zenon
    <2>7. /\ submitted' \in Nat /\ rejected' \in Nat /\ channel' \in Seq(Records)
          /\ Len(channel') <= ChannelCapacity /\ rollover' \in Rollovers
      BY <1>2, Zenon DEF PipelineType
    <2> QED
      BY <1>3, <2>2, <2>3, <2>5, <2>6, <2>7, Zenon DEF PipelineType
  <1>13. EveryRecordAccounted'
    <2>1. /\ submitted \in Nat /\ rejected \in Nat /\ Len(channel) \in Nat
          /\ metrics.written_records \in Nat /\ metrics.failed_records \in Nat
          /\ metrics.max_observed_batch_size \in Nat
      BY LenProperties, Zenon DEF PipelineType, Metrics
    <2>2. /\ metrics'.written_records = metrics.written_records + n
          /\ metrics'.failed_records = metrics.failed_records
          /\ metrics'.max_observed_batch_size = BiggerOf(metrics.max_observed_batch_size, n)
      BY <1>2, Zenon
    <2>3. /\ Len(batch) <= MaxRecordsPerTx /\ Len(channel) <= ChannelCapacity
          /\ metrics.max_observed_batch_size <= MaxRecordsPerTx
          /\ submitted = rejected + Len(channel) + Len(batch)
                           + metrics.written_records + metrics.failed_records
      BY Zenon DEF EveryRecordAccounted
    <2>4. BiggerOf(metrics.max_observed_batch_size, n) <= MaxRecordsPerTx
      BY <1>3, <2>1, <2>3, BenchConstants DEF BiggerOf
    <2>5. Len(batch') <= MaxRecordsPerTx
      BY <1>3, <2>3, BenchConstants
    <2>6. submitted' = rejected' + Len(channel') + Len(batch')
                         + metrics'.written_records + metrics'.failed_records
      BY <1>2, <1>3, <2>1, <2>2, <2>3, SMTT(30)
    <2> QED
      BY <1>2, <2>2, <2>3, <2>4, <2>5, <2>6, Zenon DEF EveryRecordAccounted
  <1>14. WaitingInOrder'
    <2>1. ASSUME NEW x \in Written
          PROVE  /\ x.record \in Records /\ x.record <= submitted'
                 /\ x.journal_sequence \in Nat /\ x.journal_sequence <= global_journal_seq'
                 /\ \A i \in 1..Len(batch') : x.record < batch'[i]
                 /\ \A j \in 1..Len(channel') : x.record < channel'[j]
      <3>1. /\ x.record \in Records /\ x.record <= submitted
            /\ x.journal_sequence \in Nat /\ x.journal_sequence <= global_journal_seq
            /\ \A j \in 1..Len(channel) : x.record < channel[j]
        BY Zenon DEF WaitingInOrder
      <3>2. x.journal_sequence <= global_journal_seq'
        BY <1>2, <1>3, <3>1 DEF PipelineType
      <3> QED
        BY <1>2, <3>1, <3>2, RestInOrder, Zenon
    <2>2. ASSUME NEW k \in 1..n
          PROVE  /\ new[k].record \in Records /\ new[k].record <= submitted'
                 /\ new[k].journal_sequence \in Nat
                 /\ new[k].journal_sequence <= global_journal_seq'
                 /\ \A i \in 1..Len(batch') : new[k].record < batch'[i]
                 /\ \A j \in 1..Len(channel') : new[k].record < channel'[j]
      <3>1. new[k].record = batch[k] /\ batch[k] \in Records /\ k \in 1..Len(batch)
        BY <1>11, Zenon
      <3>2. /\ batch[k] <= submitted'
            /\ \A j \in 1..Len(channel') : batch[k] < channel'[j]
        BY <1>2, <3>1, Zenon DEF WaitingInOrder
      <3>3. ASSUME NEW i \in 1..Len(batch')
            PROVE  batch[k] < batch'[i]
        <4>1. n + i \in 1..Len(batch) /\ batch'[i] = batch[n + i] /\ k < n + i
          BY <1>3
        <4> QED
          BY <3>1, <4>1, Zenon DEF WaitingInOrder, InOrder
      <3>4. global_journal_seq + k \in Nat /\ global_journal_seq + k <= global_journal_seq + n
        BY <1>3 DEF PipelineType
      <3> QED
        BY <1>2, <1>11, <3>1, <3>2, <3>3, <3>4, Zenon
    <2>3. \A x \in Written' :
             /\ x.record \in Records /\ x.record <= submitted'
             /\ x.journal_sequence \in Nat /\ x.journal_sequence <= global_journal_seq'
             /\ \A i \in 1..Len(batch') : x.record < batch'[i]
             /\ \A j \in 1..Len(channel') : x.record < channel'[j]
      BY <1>10, <2>1, <2>2, Zenon
    <2> QED
      BY <1>2, <2>3, RestInOrder, Zenon DEF WaitingInOrder
  <1>15. WrittenInOrder' /\ IsFiniteSet(Written)'
    <2>1. \A x \in Written :
             /\ x.journal_sequence \in Nat /\ x.journal_sequence <= global_journal_seq
             /\ \A i \in 1..Len(batch) : x.record < batch[i]
      BY Zenon DEF WaitingInOrder
    <2>2. global_journal_seq \in Nat
      BY Zenon DEF PipelineType
    <2>3. \A i \in 1..n : global_journal_seq < global_journal_seq + i
      BY <1>3, <2>2
    <2>4. ASSUME NEW x \in Written', NEW y \in Written', x.journal_sequence < y.journal_sequence
          PROVE  x.record < y.record
      <3>1. CASE x \in Written /\ y \in Written
        BY <2>4, <3>1, Zenon DEF WrittenInOrder
      <3>2. CASE x \in Written /\ y \in New
        BY <1>11, <2>1, <3>2, Zenon
      <3>3. CASE x \in New /\ y \in Written
        <4>1. PICK i \in 1..n : x = new[i]
          BY <3>3, Zenon
        <4>2. x.journal_sequence = global_journal_seq + i
          BY <1>11, <4>1, Zenon
        <4> QED
          BY <1>3, <2>1, <2>2, <2>4, <3>3, <4>2, SMTT(30)
      <3>4. CASE x \in New /\ y \in New
        <4>1. PICK i \in 1..n, j \in 1..n : x = new[i] /\ y = new[j]
          BY <3>4, Zenon
        <4>2. i < j
          BY <1>3, <1>11, <2>2, <2>4, <4>1
        <4> QED
          BY <1>11, <4>1, <4>2, Zenon DEF WaitingInOrder, InOrder
      <3> QED
        BY <1>10, <3>1, <3>2, <3>3, <3>4, Zenon
    <2>5. IsFiniteSet(New) /\ Cardinality(New) = n
      <3> DEFINE f == [i \in 1..n |-> new[i]]
      <3>1. f \in [1..n -> New] /\ \A k \in New : \E i \in 1..n : f[i] = k
        OBVIOUS
      <3>2. \A i, j \in 1..n : f[i] = f[j] => i = j
        <4> TAKE i \in 1..n, j \in 1..n
        <4> HAVE f[i] = f[j]
        <4>1. global_journal_seq + i = global_journal_seq + j
          BY <1>11, Zenon
        <4> QED
          BY <1>3, <2>2, <4>1
      <3> HIDE DEF New
      <3>3. ExistsBijection(1..n, New)
        BY <3>1, <3>2, Zenon DEF ExistsBijection, Bijection, Injection, IsInjective, Surjection
      <3>4. IsFiniteSet(1..n) /\ Cardinality(1..n) = n
        BY <1>3, FS_Interval
      <3> QED
        BY <3>3, <3>4, FS_Bijection, Zenon
    <2>6. Written \cap New = {}
      <3> SUFFICES ASSUME NEW i \in 1..n, new[i] \in Written
                   PROVE  FALSE
        OBVIOUS
      <3>1. /\ new[i].journal_sequence = global_journal_seq + i
            /\ new[i].journal_sequence <= global_journal_seq
        BY <1>11, <2>1, Zenon
      <3> QED
        BY <1>3, <2>2, <3>1
    <2> HIDE DEF New
    <2>7. /\ IsFiniteSet(Written \cup New)
          /\ Cardinality(Written \cup New) =
               Cardinality(Written) + Cardinality(New) - Cardinality(Written \cap New)
      BY <2>5, FS_Union, Zenon
    <2>8. Cardinality(Written \cap New) = 0
      BY <2>6, FS_EmptySet, Zenon
    <2>9. Cardinality(Written) = metrics.written_records /\ metrics.written_records \in Nat
      BY Zenon DEF WrittenInOrder, PipelineType, Metrics
    <2>10. metrics'.written_records = metrics.written_records + n
      BY <1>2, Zenon
    <2>11. Cardinality(Written)' = metrics'.written_records
      BY <1>3, <1>10, <2>5, <2>7, <2>8, <2>9, <2>10
    <2> QED
      BY <1>10, <2>4, <2>7, <2>11, Zenon DEF WrittenInOrder
  <1> QED
    BY <1>9, <1>12, <1>13, <1>14, <1>15, Zenon

-----------------------------------------------------------------------------
(* The theorems *)

\* Every step of the pipeline keeps the invariant.
LEMMA BenchStep == BenchInv /\ [PipelineNext]_pipelineVars => BenchInv'
  <1> SUFFICES ASSUME BenchInv, [PipelineNext]_pipelineVars
               PROVE  BenchInv'
    OBVIOUS
  <1>1. CASE Submit
    BY <1>1, SubmitStep, Zenon
  <1>2. CASE Recv \/ TryRecv
    BY <1>2, ReceiveStep, Zenon
  <1>3. CASE CommitTransaction
    BY <1>3, CommitStep, Zenon
  <1>4. CASE RollbackTransaction
    BY <1>4, RollbackStep, Zenon
  <1>5. CASE ProducerExits \/ FillEnds \/ Disconnected \/ Finished \/ UNCHANGED pipelineVars
    BY <1>5, QuietStep, Zenon
  <1> QED
    BY <1>1, <1>2, <1>3, <1>4, <1>5, Zenon DEF PipelineNext, ProducerStep, WriterStep

\* The invariant of the pipeline.
LEMMA BenchInvHolds == PipelineSpec => []BenchInv
  BY BenchInit, BenchStep, PTL DEF PipelineSpec

\* Every submitted record is refused, on its way, written or counted as failed,
\* exactly once, whatever the channel, the limits of a transaction and the
\* failures are (run_pipeline, write_batch of both candidates).
THEOREM RecordsAccounted == PipelineSpec => []EveryRecordAccounted
  <1>1. BenchInv => EveryRecordAccounted
    BY Zenon DEF BenchInv
  <1> QED
    BY <1>1, BenchInvHolds, PTL

\* Rolling over between transactions, in the middle of a batch or just before
\* a transaction that fails, the segments cover the journal sequences without
\* gap or overlap, keep to their limit, and number each stream densely.
THEOREM SegmentsPartitionHolds == PipelineSpec => []SegmentsPartition
  <1>1. BenchInv => SegmentsPartition
    <2> SUFFICES ASSUME BenchInv
                 PROVE  SegmentsPartition
      OBVIOUS
    <2>1. StoreOK(segments, global_journal_seq, records_in_active, rollover)
      BY Zenon DEF BenchInv, StoreInv
    <2>2. DOMAIN segments = 1..Len(segments)
      BY <2>1, LenProperties, Zenon DEF StoreOK
    <2>3. ASSUME NEW k \in 1..Len(segments)
          PROVE  LET seg == segments[k] IN
                 /\ seg.record_count = Len(seg.rows)
                 /\ seg.last_journal_seq + 1 = seg.first_journal_seq + seg.record_count
                 /\ rollover # NoRollover => seg.record_count <= rollover
                 /\ \A i \in DOMAIN seg.rows :
                      /\ seg.rows[i].journal_sequence = seg.first_journal_seq + i - 1
                      /\ seg.rows[i].stream_sequence =
                           Cardinality({j \in 1..i :
                             StreamOf(seg.rows[j].record) = StreamOf(seg.rows[i].record)})
      <3>1. SegmentOK(segments[k], rollover) /\ segments[k] \in Segment
        BY <2>1, ElementOfSeq, Zenon DEF StoreOK
      <3>2. segments[k].rows \in Seq(Row)
        BY <3>1, Zenon DEF Segment
      <3>3. DOMAIN segments[k].rows = 1..Len(segments[k].rows)
        BY <3>2, LenProperties, Zenon
      <3> QED
        BY <3>1, <3>3, Zenon DEF SegmentOK, OfStream
    <2> QED
      BY <2>1, <2>2, <2>3, Zenon DEF StoreOK, SegmentsPartition
  <1> QED
    BY <1>1, BenchInvHolds, PTL

\* The journal sequence orders the written records as they were submitted, and
\* there are as many rows as the metrics say: none is written twice.
THEOREM WrittenInOrderHolds == PipelineSpec => []WrittenInOrder
  <1>1. BenchInv => WrittenInOrder
    BY Zenon DEF BenchInv
  <1> QED
    BY <1>1, BenchInvHolds, PTL

-----------------------------------------------------------------------------
(* The end of a run.  That the run ends needs fairness; that it cannot end   *)
(* wrongly does not: the producer leaves only after its last record, and the *)
(* writer only after the producer has left and the channel is empty.         *)

EndInv ==
  /\ connected \in BOOLEAN
  /\ connected = FALSE => submitted = TotalRecords
  /\ phase = "done" => connected = FALSE /\ channel = <<>>

\* The steps that matter to the end of a run.
LEMMA EndStep ==
    ASSUME BenchInv, EndInv, [PipelineNext]_pipelineVars
    PROVE  EndInv' /\ (phase = "done" => phase' = "done")
  <1> USE DEF EndInv
  <1>1. CASE Submit
    <2>1. connected = TRUE /\ phase # "done"
      BY <1>1, Zenon DEF Submit
    <2> QED
      BY <1>1, <2>1, Zenon DEF Submit
  <1>2. CASE ProducerExits
    BY <1>2, Zenon DEF ProducerExits
  <1>3. CASE Disconnected
    BY <1>3, Zenon DEF Disconnected, producerVars
  <1>4. CASE Recv \/ TryRecv \/ FillEnds
    BY <1>4, Zenon DEF Recv, TryRecv, FillEnds, producerVars
  <1>5. CASE CommitTransaction \/ RollbackTransaction
    <2>1. /\ phase = "write" /\ UNCHANGED <<submitted, connected, channel>>
          /\ phase' \in {"recv", "write"}
      BY <1>5, Zenon DEF CommitTransaction, RollbackTransaction, Advance, producerVars
    <2> QED
      BY <2>1, Zenon
  <1>6. CASE Finished \/ UNCHANGED pipelineVars
    BY <1>6, Zenon DEF Finished, pipelineVars, producerVars
  <1> QED
    BY <1>1, <1>2, <1>3, <1>4, <1>5, <1>6, Zenon DEF PipelineNext, ProducerStep, WriterStep

\* The writer has left its loop.
Ended == phase = "done"

\* What the report says once the writer has left its loop.
ReportComplete ==
  /\ phase = "done" /\ ~connected /\ channel = <<>>
  /\ submitted = TotalRecords
  /\ submitted - rejected = metrics.written_records + metrics.failed_records

\* Once the writer of run_pipeline has left its loop, the run has ended for
\* good and its report is complete: every record was submitted, none is left
\* in the channel or in a batch, and the accepted ones are those written or
\* failed.  The hypothesis is the only part that needs the threads to be
\* scheduled.
THEOREM EndIsComplete == PipelineSpec => (<>Ended => PipelineFinishes)
  <1>1. PipelineInit => EndInv
    BY Zenon DEF PipelineInit, EndInv
  <1>2. BenchInv /\ EndInv /\ [PipelineNext]_pipelineVars
          => EndInv' /\ (Ended => Ended')
    BY EndStep, Zenon DEF Ended
  <1>3. ASSUME BenchInv, EndInv, phase = "done"
        PROVE  ReportComplete
    <2>1. batch = <<>> /\ channel = <<>> /\ Len(<<>>) = 0
      BY <1>3, EmptySeq, Zenon DEF BenchInv, PipelineType, EndInv
    <2>2. /\ submitted \in Nat /\ rejected \in Nat
          /\ metrics.written_records \in Nat /\ metrics.failed_records \in Nat
      BY <1>3, Zenon DEF BenchInv, PipelineType, Metrics
    <2>3. submitted = rejected + Len(channel) + Len(batch)
                        + metrics.written_records + metrics.failed_records
      BY <1>3, Zenon DEF BenchInv, EveryRecordAccounted
    <2>4. submitted - rejected = metrics.written_records + metrics.failed_records
      BY <2>1, <2>2, <2>3
    <2> QED
      BY <1>3, <2>1, <2>4, Zenon DEF ReportComplete, EndInv
  <1>4. BenchInv /\ EndInv /\ Ended => ReportComplete
    BY <1>3, Zenon DEF Ended
  <1>5. PipelineFinishes <=> <>[]ReportComplete
    BY PTL DEF PipelineFinishes, ReportComplete
  <1> QED
    BY <1>1, <1>2, <1>4, <1>5, BenchInvHolds, PTL DEF PipelineSpec
=============================================================================
