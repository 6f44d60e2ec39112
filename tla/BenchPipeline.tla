---------------------------- MODULE BenchPipeline ----------------------------
(***************************************************************************)
(* The journal benchmark: a producer thread offers records to a bounded    *)
(* channel and drops what does not fit; the writer collects a batch, cuts  *)
(* it into transactions and writes them to the monolithic database or to   *)
(* segments that are rolled over after a fixed number of records.          *)
(*                                                                         *)
(* A record is its index, from 1.  The three rows of a record are written  *)
(* together and are one entry here.  The monolithic candidate is the       *)
(* segmented one that never rolls over: its MAX(journal_sequence) + 1 is   *)
(* the count of the records already there, plus one.                       *)
(***************************************************************************)
EXTENDS Naturals, Sequences, FiniteSets, Functions

CONSTANTS
  TotalRecords,     \* total_records of the ingress
  ChannelCapacity,  \* channel_capacity
  MaxRecordsPerTx,  \* max_records_per_tx
  MaxBytesPerTx,    \* max_bytes_per_tx
  SizeOf,           \* record -> estimated_transaction_bytes
  Streams,          \* logical streams 0 .. Streams - 1
  NoRollover,       \* segment_rollover_records = None
  Rollovers,        \* the values of segment_rollover_records
  MaxFaults         \* bound: transactions that fail

ASSUME BenchConstants ==
  /\ TotalRecords \in Nat /\ ChannelCapacity \in Nat \ {0}
  /\ MaxRecordsPerTx \in Nat \ {0} /\ MaxBytesPerTx \in Nat
  /\ SizeOf \in [1..TotalRecords -> Nat \ {0}]
  /\ Streams \in Nat \ {0}
  /\ NoRollover \notin Nat
  /\ Rollovers \subseteq (Nat \ {0}) \cup {NoRollover}
  /\ MaxFaults \in Nat

VARIABLES
  submitted, rejected,  \* the producer thread's counters
  connected,            \* the producer still holds its end of the channel
  channel,              \* records in the channel
  phase,                \* the writer: "recv", "fill", "write" or "done"
  batch,                \* records taken and not yet written or given up
  segments,             \* sequence of segments; the last one is active
  global_journal_seq,
  records_in_active,
  metrics,              \* the WriteBatchMetrics of the whole run
  rollover,             \* the configuration of this run
  faults

producerVars == <<submitted, rejected, connected>>
storeVars == <<segments, global_journal_seq, records_in_active, metrics, faults>>
pipelineVars == <<producerVars, channel, phase, batch, storeVars, rollover>>

StreamOf(record) == (record - 1) % Streams

NewSegment(seq) ==
  [rows |-> <<>>, heads |-> [s \in 0..(Streams - 1) |-> 0],
   record_count |-> 0, first_journal_seq |-> seq + 1, last_journal_seq |-> seq]

---------------------------------------------------------------------------
(* The producer thread.                                                    *)

Submit ==
  /\ connected
  /\ submitted < TotalRecords
  /\ submitted' = submitted + 1
  /\ IF Len(channel) < ChannelCapacity
     THEN channel' = Append(channel, submitted + 1) /\ UNCHANGED rejected
     ELSE rejected' = rejected + 1 /\ UNCHANGED channel
  /\ UNCHANGED <<connected, phase, batch, storeVars, rollover>>

ProducerExits ==
  /\ connected
  /\ submitted = TotalRecords
  /\ connected' = FALSE
  /\ UNCHANGED <<submitted, rejected, channel, phase, batch, storeVars, rollover>>

---------------------------------------------------------------------------
(* run_pipeline: the writer's loop.                                        *)

Recv ==
  /\ phase = "recv"
  /\ channel # <<>>
  /\ batch' = <<Head(channel)>>
  /\ channel' = Tail(channel)
  /\ phase' = "fill"
  /\ UNCHANGED <<producerVars, storeVars, rollover>>

TryRecv ==
  /\ phase = "fill"
  /\ Len(batch) < MaxRecordsPerTx
  /\ channel # <<>>
  /\ batch' = Append(batch, Head(channel))
  /\ channel' = Tail(channel)
  /\ UNCHANGED <<producerVars, phase, storeVars, rollover>>

FillEnds ==
  /\ phase = "fill"
  /\ Len(batch) >= MaxRecordsPerTx \/ channel = <<>>
  /\ phase' = "write"
  /\ UNCHANGED <<producerVars, channel, batch, storeVars, rollover>>

\* The loop ends as soon as nothing is left, although the producer may go on.
Disconnected_Early ==
  /\ phase = "recv"
  /\ channel = <<>>
  /\ submitted > 0
  /\ phase' = "done"
  /\ UNCHANGED <<producerVars, channel, batch, storeVars, rollover>>

Disconnected ==
  /\ phase = "recv"
  /\ channel = <<>>
  /\ ~connected
  /\ phase' = "done"
  /\ UNCHANGED <<producerVars, channel, batch, storeVars, rollover>>

---------------------------------------------------------------------------
(* write_batch: one transaction for each iteration.                        *)

needs_rollover == rollover # NoRollover /\ records_in_active >= rollover

\* roll_segment when the active segment is full.
ActiveSegments ==
  IF needs_rollover THEN Append(segments, NewSegment(global_journal_seq)) ELSE segments

InActive == IF needs_rollover THEN 0 ELSE records_in_active

Bytes(records) == SumFunction([i \in DOMAIN records |-> SizeOf[records[i]]])

HardEnd_IgnoresSegment == Len(batch)

HardEnd ==
  IF rollover = NoRollover \/ Len(batch) <= rollover - InActive
  THEN Len(batch) ELSE rollover - InActive

\* The loop breaks before the k-th record.
Overfull(k) == k - 1 >= MaxRecordsPerTx \/ Bytes(SubSeq(batch, 1, k)) > MaxBytesPerTx

\* The first record is always taken, however large it is.
next_batch_end ==
  CHOOSE n \in 1..HardEnd :
    /\ \A k \in 2..n : ~Overfull(k)
    /\ n < HardEnd => Overfull(n + 1)

\* The rows of a transaction: dense journal sequences, and stream sequences
\* from the heads of the segment.
NewRows(records, heads) ==
  [i \in DOMAIN records |->
     [record |-> records[i],
      journal_sequence |-> global_journal_seq + i,
      stream_sequence |-> heads[StreamOf(records[i])]
        + Cardinality({j \in 1..i : StreamOf(records[j]) = StreamOf(records[i])})]]

NewHeads(records, heads) ==
  [s \in DOMAIN heads |->
     heads[s] + Cardinality({j \in DOMAIN records : StreamOf(records[j]) = s})]

\* What is left of the batch, and whether the writer goes back to the channel.
Advance(n) ==
  /\ batch' = SubSeq(batch, n + 1, Len(batch))
  /\ phase' = IF n = Len(batch) THEN "recv" ELSE "write"

BiggerOf(a, b) == IF a >= b THEN a ELSE b

CommitTransaction ==
  LET n == next_batch_end
      records == SubSeq(batch, 1, n)
      last == Len(ActiveSegments)
      active == ActiveSegments[last]
      seg == [rows |-> active.rows \o NewRows(records, active.heads),
              heads |-> NewHeads(records, active.heads),
              record_count |-> active.record_count + n,
              first_journal_seq |-> active.first_journal_seq,
              last_journal_seq |-> global_journal_seq + n]
  IN
  /\ phase = "write"
  /\ segments' = [ActiveSegments EXCEPT ![last] = seg]
  /\ global_journal_seq' = global_journal_seq + n
  /\ records_in_active' = InActive + n
  /\ metrics' = [committed_transactions |-> metrics.committed_transactions + 1,
                 failed_transactions |-> metrics.failed_transactions,
                 written_records |-> metrics.written_records + n,
                 failed_records |-> metrics.failed_records,
                 max_observed_batch_size |-> BiggerOf(metrics.max_observed_batch_size, n)]
  /\ Advance(n)
  /\ UNCHANGED <<producerVars, channel, faults, rollover>>

\* Only the record that failed is counted, not the ones rolled back with it.
FailedMetrics_CountsOne(n) ==
  [committed_transactions |-> metrics.committed_transactions,
   failed_transactions |-> metrics.failed_transactions + 1,
   written_records |-> metrics.written_records,
   failed_records |-> metrics.failed_records + 1,
   max_observed_batch_size |-> metrics.max_observed_batch_size]

FailedMetrics(n) ==
  [committed_transactions |-> metrics.committed_transactions,
   failed_transactions |-> metrics.failed_transactions + 1,
   written_records |-> metrics.written_records,
   failed_records |-> metrics.failed_records + n,
   max_observed_batch_size |-> metrics.max_observed_batch_size]

\* The records rolled back are tried again after the rest of the batch.
RollbackTransaction_Requeues ==
  LET n == next_batch_end IN
  /\ phase = "write"
  /\ faults < MaxFaults
  /\ faults' = faults + 1
  /\ segments' = ActiveSegments
  /\ records_in_active' = InActive
  /\ batch' = SubSeq(batch, n + 1, Len(batch)) \o SubSeq(batch, 1, n)
  /\ UNCHANGED <<producerVars, channel, phase, metrics, global_journal_seq, rollover>>

\* Some insert of the transaction fails.  The segment stays rolled over.
RollbackTransaction ==
  LET n == next_batch_end IN
  /\ phase = "write"
  /\ faults < MaxFaults
  /\ faults' = faults + 1
  /\ segments' = ActiveSegments
  /\ records_in_active' = InActive
  /\ metrics' = FailedMetrics(n)
  /\ Advance(n)
  /\ UNCHANGED <<producerVars, channel, global_journal_seq, rollover>>

\* run_pipeline has joined the producer and returned.
Finished == phase = "done" /\ ~connected /\ UNCHANGED pipelineVars

---------------------------------------------------------------------------

PipelineInit ==
  /\ submitted = 0 /\ rejected = 0 /\ connected = TRUE
  /\ channel = <<>>
  /\ phase = "recv" /\ batch = <<>>
  /\ segments = <<NewSegment(0)>>
  /\ global_journal_seq = 0 /\ records_in_active = 0
  /\ metrics = [committed_transactions |-> 0, failed_transactions |-> 0,
                written_records |-> 0, failed_records |-> 0,
                max_observed_batch_size |-> 0]
  /\ rollover \in Rollovers
  /\ faults = 0

ProducerStep == Submit \/ ProducerExits

WriterStep ==
  \/ Recv
  \/ TryRecv
  \/ FillEnds
  \/ Disconnected
  \/ CommitTransaction
  \/ RollbackTransaction

PipelineNext == ProducerStep \/ WriterStep \/ Finished

\* Both threads are scheduled by the operating system and block only in recv.
PipelineSpec ==
  /\ PipelineInit /\ [][PipelineNext]_pipelineVars
  /\ WF_pipelineVars(ProducerStep) /\ WF_pipelineVars(WriterStep)

---------------------------------------------------------------------------
(* Properties.                                                             *)

\* No record is lost or counted twice: whatever was submitted was refused by
\* the channel, or is on its way, or was written, or was counted as failed; and
\* what is on its way fits the channel and one transaction.
EveryRecordAccounted ==
  /\ submitted = rejected + Len(channel) + Len(batch)
                   + metrics.written_records + metrics.failed_records
  /\ Len(channel) <= ChannelCapacity
  /\ Len(batch) <= MaxRecordsPerTx
  /\ metrics.max_observed_batch_size <= MaxRecordsPerTx

\* The segments cover the journal sequences 1 .. global_journal_seq without
\* gap or overlap, each knows its own range and count, and none exceeds the
\* rollover limit, whatever batches and failures came in between.  Within a
\* segment the sequences of every stream are dense.
SegmentsPartition ==
  /\ segments[1].first_journal_seq = 1
  /\ \A k \in 1..(Len(segments) - 1) :
       segments[k + 1].first_journal_seq = segments[k].last_journal_seq + 1
  /\ segments[Len(segments)].last_journal_seq = global_journal_seq
  /\ segments[Len(segments)].record_count = records_in_active
  /\ \A k \in DOMAIN segments :
       LET seg == segments[k] IN
       /\ seg.record_count = Len(seg.rows)
       /\ seg.last_journal_seq + 1 = seg.first_journal_seq + seg.record_count
       /\ rollover # NoRollover => seg.record_count <= rollover
       /\ \A i \in DOMAIN seg.rows :
            /\ seg.rows[i].journal_sequence = seg.first_journal_seq + i - 1
            /\ seg.rows[i].stream_sequence =
                 Cardinality({j \in 1..i :
                   StreamOf(seg.rows[j].record) = StreamOf(seg.rows[i].record)})

RowsOf(seg) == {seg.rows[i] : i \in DOMAIN seg.rows}

Written == UNION {RowsOf(segments[k]) : k \in DOMAIN segments}

\* Records are written in the order they were submitted, each at most once.
WrittenInOrder ==
  /\ \A x, y \in Written :
       x.journal_sequence < y.journal_sequence => x.record < y.record
  /\ Cardinality(Written) = metrics.written_records

\* The run ends, and its report is complete: nothing is left in the channel,
\* and accepted (submitted - rejected) is what was written or failed.
PipelineFinishes ==
  <>[](/\ phase = "done" /\ ~connected /\ channel = <<>>
       /\ submitted = TotalRecords
       /\ submitted - rejected = metrics.written_records + metrics.failed_records)

=============================================================================
