------------------------- MODULE JournalFileProofs -------------------------
(***************************************************************************)
(* Proofs about one journal file for any number of processes, tables,       *)
(* events and retry bounds: how it is opened, its lifecycle rows and        *)
(* envelopes, and, from these and from the delivery rows of                 *)
(* JournalRowProofs, what its readers may rely on.                          *)
(***************************************************************************)
EXTENDS JournalRowProofs

-----------------------------------------------------------------------------
(* Opening the file *)

\* A call that creates tables has the meta table, and what it still has to create is
\* all that may be missing.
OpenInv ==
    /\ version \in Nat
    /\ opening = [p \in Procs |-> opening[p]]
    /\ version > 1 => AllTables \subseteq tables
    /\ \A p \in Procs :
           /\ opening[p].step = "read" => META_TABLE \in tables
           /\ opening[p].step = "create" =>
                  /\ opening[p].todo \in Seq(STRING)
                  /\ version <= SCHEMA_VERSION
                  /\ AllTables \subseteq tables \cup TablesOf(opening[p].todo)
           /\ opening[p].step = "open" =>
                  version = SCHEMA_VERSION /\ AllTables \subseteq tables

\* The tables of a list of statements are those of its first and of the rest.
LEMMA HeadAndTail ==
    ASSUME NEW s \in Seq(STRING), s # <<>>
    PROVE  TablesOf(s) \subseteq {Head(s)} \cup TablesOf(Tail(s)) /\ Tail(s) \in Seq(STRING)
<1>1. ASSUME NEW i \in DOMAIN s PROVE s[i] \in {Head(s)} \cup TablesOf(Tail(s))
  <2>1. CASE i = 1
    BY <2>1
  <2>2. CASE i # 1
    <3>1. i - 1 \in DOMAIN Tail(s) /\ Tail(s)[i - 1] = s[i]
      BY <2>2
    <3> QED
      BY <3>1, Zenon DEF TablesOf
  <2> QED
    BY <2>1, <2>2, Zenon
<1> QED
  BY <1>1 DEF TablesOf

\* The statements init_schema chooses create every table of version 1, and those of
\* version 2 unless the version it has read promises them.
LEMMA AllStatements ==
    ASSUME NEW seen \in Nat
    PROVE  /\ Statements(seen) \in Seq(STRING)
           /\ TablesOf(SCHEMA_SQL) \subseteq TablesOf(Statements(seen))
           /\ seen < 2 => TablesOf(SCHEMA_V2_SQL) \subseteq TablesOf(Statements(seen))
<1> USE SchemaConstants
<1> DEFINE rest == IF seen < 2 THEN SCHEMA_V2_SQL ELSE <<>>
<1>1. rest \in Seq(STRING) /\ Statements(seen) = SCHEMA_SQL \o rest
  <2>1. CASE seen < 2
    BY <2>1, Zenon DEF Statements
  <2>2. CASE ~(seen < 2)
    BY <2>2 DEF Statements
  <2> QED
    BY <2>1, <2>2, Zenon
<1> HIDE DEF rest
<1>2. \A i \in DOMAIN SCHEMA_SQL :
          i \in DOMAIN (SCHEMA_SQL \o rest) /\ (SCHEMA_SQL \o rest)[i] = SCHEMA_SQL[i]
  BY <1>1
<1>3. \A i \in DOMAIN rest :
          /\ Len(SCHEMA_SQL) + i \in DOMAIN (SCHEMA_SQL \o rest)
          /\ (SCHEMA_SQL \o rest)[Len(SCHEMA_SQL) + i] = rest[i]
  BY <1>1
<1>4. TablesOf(rest) \subseteq TablesOf(Statements(seen))
  BY <1>1, <1>3, Zenon DEF TablesOf
<1>5. TablesOf(SCHEMA_SQL) \subseteq TablesOf(Statements(seen))
  BY <1>1, <1>2, Zenon DEF TablesOf
<1> QED
  BY <1>1, <1>4, <1>5 DEF rest

\* A new file has no version, an existing one the tables its version promises.
LEMMA OpenInvInit == OpenInit => OpenInv
<1> SUFFICES ASSUME OpenInit PROVE OpenInv
  OBVIOUS
<1>1. version \in Nat /\ (version > 1 => AllTables \subseteq tables)
  BY SchemaConstants DEF OpenInit, Files
<1>2. opening = [p \in Procs |-> opening[p]] /\ \A p \in Procs : opening[p].step = "closed"
  BY Zenon DEF OpenInit, Closed, Step
<1> QED
  BY <1>1, <1>2, Zenon DEF OpenInv

\* What a step of one process does to its own place, the others keep theirs.
LEMMA OpenInvMove ==
    ASSUME OpenInv, NEW p \in Procs, NEW c, opening' = [opening EXCEPT ![p] = c],
           tables \subseteq tables', version' \in Nat,
           version' = version \/ (version <= SCHEMA_VERSION /\ version' = SCHEMA_VERSION),
           version' > 1 => AllTables \subseteq tables',
           c.step = "read" => META_TABLE \in tables',
           c.step = "create" =>
               /\ c.todo \in Seq(STRING)
               /\ version' <= SCHEMA_VERSION
               /\ AllTables \subseteq tables' \cup TablesOf(c.todo),
           c.step = "open" => version' = SCHEMA_VERSION /\ AllTables \subseteq tables'
    PROVE  OpenInv'
<1>1. opening' = [q \in Procs |-> opening'[q]]
      /\ \A q \in Procs : opening'[q] = IF q = p THEN c ELSE opening[q]
  BY Zenon DEF OpenInv
<1>2. \A q \in Procs : opening'[q].step = "read" => META_TABLE \in tables'
  BY <1>1, Zenon DEF OpenInv
<1>3. \A q \in Procs : opening'[q].step = "create" =>
          /\ opening'[q].todo \in Seq(STRING)
          /\ version' <= SCHEMA_VERSION
          /\ AllTables \subseteq tables' \cup TablesOf(opening'[q].todo)
  BY <1>1, SchemaConstants DEF OpenInv
<1>4. \A q \in Procs : opening'[q].step = "open" =>
          version' = SCHEMA_VERSION /\ AllTables \subseteq tables'
  BY <1>1, SchemaConstants, Zenon DEF OpenInv
<1>5. \A q \in Procs : opening'[q].step = "create" =>
          AllTables \subseteq tables' \cup TablesOf(opening[q].todo)'
  BY <1>3, Zenon DEF TablesOf
<1>6. AllTables' = AllTables
  BY Zenon DEF AllTables, TablesOf
<1> QED
  BY <1>1, <1>2, <1>3, <1>4, <1>5, <1>6, Zenon DEF OpenInv

\* Every statement shortens the list and creates its table; a version is recorded
\* only when the list is empty.
LEMMA OpenInvStep == OpenInv /\ [OpenNext]_openVars => OpenInv'
<1> SUFFICES ASSUME OpenInv, [OpenNext]_openVars PROVE OpenInv'
  OBVIOUS
<1> USE SchemaConstants
<1>0. version \in Nat /\ (version > 1 => AllTables \subseteq tables)
  BY Zenon DEF OpenInv
<1>1. ASSUME NEW p \in Procs, CreateMeta(p) PROVE OpenInv'
  <2>1. Step("read", <<>>).step = "read"
    BY Zenon DEF Step
  <2>2. META_TABLE \in tables' /\ tables \subseteq tables' /\ version' = version
        /\ opening' = [opening EXCEPT ![p] = Step("read", <<>>)]
    BY <1>1, Zenon DEF CreateMeta
  <2> QED
    BY <1>0, <2>1, <2>2, OpenInvMove, Zenon
<1>2. ASSUME NEW p \in Procs, ReadVersion(p) PROVE OpenInv'
  <2>1. CASE version > SCHEMA_VERSION
    <3>1. opening' = [opening EXCEPT ![p] = Step("refused", <<>>)] /\ UNCHANGED <<tables, version>>
      BY <1>2, <2>1, Zenon DEF ReadVersion
    <3>2. Step("refused", <<>>).step = "refused"
      BY Zenon DEF Step
    <3> QED
      BY <1>0, <3>1, <3>2, OpenInvMove, Zenon
  <2>2. CASE ~(version > SCHEMA_VERSION)
    <3> DEFINE c == Step("create", Statements(version))
    <3>1. opening' = [opening EXCEPT ![p] = c] /\ UNCHANGED <<tables, version>>
      BY <1>2, <2>2, Zenon DEF ReadVersion
    <3>2. c.step = "create" /\ c.todo = Statements(version)
      BY Zenon DEF Step
    <3>3. META_TABLE \in tables
      BY <1>2, Zenon DEF ReadVersion, OpenInv
    <3>4. AllTables \subseteq tables \cup TablesOf(Statements(version))
      BY <1>0, <3>3, AllStatements, SMTT(30) DEF AllTables
    <3>5. Statements(version) \in Seq(STRING) /\ version <= SCHEMA_VERSION
      BY <1>0, <2>2, AllStatements
    <3> HIDE DEF c
    <3> QED
      BY <1>0, <3>1, <3>2, <3>4, <3>5, OpenInvMove, Zenon
  <2> QED
    BY <2>1, <2>2, Zenon
<1>3. ASSUME NEW p \in Procs, CreateTable(p) PROVE OpenInv'
  <2> DEFINE todo == opening[p].todo
             c == Step("create", Tail(todo))
  <2>1. /\ todo \in Seq(STRING) /\ todo # <<>> /\ version <= SCHEMA_VERSION
        /\ AllTables \subseteq tables \cup TablesOf(todo)
    BY <1>3, Zenon DEF CreateTable, OpenInv
  <2>2. /\ tables' = tables \cup {Head(todo)} /\ version' = version
        /\ opening' = [opening EXCEPT ![p] = c]
    BY <1>3, Zenon DEF CreateTable
  <2>3. c.step = "create" /\ c.todo = Tail(todo)
    BY Zenon DEF Step
  <2>4. AllTables \subseteq tables' \cup TablesOf(Tail(todo)) /\ Tail(todo) \in Seq(STRING)
    BY <2>1, <2>2, HeadAndTail, Zenon
  <2> HIDE DEF c, todo
  <2> QED
    BY <1>0, <2>1, <2>2, <2>3, <2>4, OpenInvMove, Zenon
<1>4. ASSUME NEW p \in Procs, WriteVersion(p) PROVE OpenInv'
  <2>1. /\ version' = SCHEMA_VERSION /\ tables' = tables
        /\ opening' = [opening EXCEPT ![p] = Step("open", <<>>)]
        /\ opening[p].step = "create" /\ opening[p].todo = <<>>
    BY <1>4, Zenon DEF WriteVersion
  <2>2. AllTables \subseteq tables /\ version <= SCHEMA_VERSION
    BY <2>1 DEF OpenInv, TablesOf
  <2>3. Step("open", <<>>).step = "open"
    BY Zenon DEF Step
  <2> QED
    BY <1>0, <2>1, <2>2, <2>3, OpenInvMove, Zenon
<1>5. ASSUME NEW p \in Procs, StopProcess(p) PROVE OpenInv'
  <2>1. opening' = [opening EXCEPT ![p] = Closed] /\ UNCHANGED <<tables, version>>
    BY <1>5, Zenon DEF StopProcess
  <2>2. Closed.step = "closed"
    BY Zenon DEF Closed, Step
  <2> QED
    BY <1>0, <2>1, <2>2, OpenInvMove, Zenon
<1>6. CASE UNCHANGED openVars
  BY <1>6 DEF openVars, OpenInv, AllTables, TablesOf
<1> QED
  BY <1>1, <1>2, <1>3, <1>4, <1>5, <1>6, Zenon DEF OpenNext, init_schema

\* For any number of processes, tables and crashes: a recorded version and a returned
\* open call both mean a complete schema.
THEOREM SchemaHolds == OpenSpec => []SchemaIsReady
<1>1. OpenInv => SchemaIsReady
  BY SchemaConstants DEF OpenInv, SchemaIsReady, IsOpen
<1> QED
  BY OpenInvInit, OpenInvStep, <1>1, PTL DEF OpenSpec

\* For any number of processes, the file of a later program stays as it is.
THEOREM FutureFileHolds == OpenSpec => FutureFileUntouched
<1>1. ASSUME OpenInv, [OpenNext]_openVars
      PROVE  [version > SCHEMA_VERSION => UNCHANGED <<tables, version>>]_openVars
  <2> SUFFICES ASSUME OpenNext, version > SCHEMA_VERSION PROVE UNCHANGED <<tables, version>>
    BY <1>1, Zenon
  <2> USE SchemaConstants
  <2>1. META_TABLE \in tables /\ \A p \in Procs : opening[p].step # "create"
    BY <1>1 DEF OpenInv, AllTables
  <2> QED
    BY <2>1, Zenon DEF OpenNext, init_schema, CreateMeta, ReadVersion, CreateTable, WriteVersion,
       StopProcess
<1> QED
  BY <1>1, OpenInvInit, OpenInvStep, PTL DEF OpenSpec, FutureFileUntouched

\* What the processes do to the rows, and what storage does, leaves the schema alone.
LEMMA FileStep == [Next]_fileVars => [OpenNext]_openVars
<1> SUFFICES ASSUME [Next]_fileVars PROVE [OpenNext]_openVars
  OBVIOUS
<1>1. ASSUME NEW p \in Procs, OpenFile(p) \/ Stop(p) PROVE OpenNext
  BY <1>1, Zenon DEF OpenFile, Stop, OpenNext
<1>2. CASE UNCHANGED openVars
  BY <1>2, Zenon
<1>3. CASE UNCHANGED fileVars
  BY <1>3, Zenon DEF fileVars
<1> QED
  BY <1>1, <1>2, <1>3, Zenon DEF Next

\* The composed specification implements that of opening the file: the schema is
\* complete, and a later program's file untouched, whatever happens to the rows.
THEOREM FileImplementsOpen ==
    Spec => OpenSpec /\ []SchemaIsReady /\ FutureFileUntouched
<1>1. Init => OpenInit
  BY Zenon DEF Init
<1>2. Spec => OpenSpec
  BY <1>1, FileStep, PTL DEF Spec, OpenSpec
<1> QED
  BY <1>2, SchemaHolds, FutureFileHolds, Zenon

-----------------------------------------------------------------------------
(* The lifecycle rows *)

LifecycleContents == [revision : Nat, status : LifecycleStatus]

\* However often storage hits it, the checksum of a lifecycle row is the one that was
\* written with it, or nothing.
LifecycleSound(e) ==
    LET row == lifecycle_state[e]
        contents == written[e].lifecycle
    IN  /\ stored_envelope[e] # None => row # None
        /\ row # None =>
               /\ row \in LifecycleRows /\ contents \in LifecycleContents
               /\ row.checksum \in {Damaged, compute_lifecycle_checksum(e, contents)}
               /\ e \notin damaged =>
                      /\ row.revision = contents.revision /\ row.status = contents.status
                      /\ row.checksum = compute_lifecycle_checksum(e, contents)

LifecycleWork(p) ==
    work[p].step = "lifecycle" =>
        work[p].event \in Events /\ work[p].revision \in Nat
            /\ work[p].status \in LocalDeliveryStatus

LifecycleInv ==
    /\ DOMAIN lifecycle_state = Events
    /\ \A e \in Events : LifecycleSound(e)
    /\ \A p \in Procs : LifecycleWork(p)

\* An event whose lifecycle row a step leaves alone.
LEMMA KeepLifecycle ==
    ASSUME NEW e \in Events, LifecycleSound(e),
           stored_envelope'[e] # None => stored_envelope[e] # None,
           lifecycle_state'[e] = lifecycle_state[e],
           written'[e].lifecycle = written[e].lifecycle,
           damaged \subseteq damaged'
    PROVE  LifecycleSound(e)'
BY Zenon DEF LifecycleSound, compute_lifecycle_checksum

\* A lifecycle row stored with its own checksum.
LEMMA SignLifecycle ==
    ASSUME NEW e \in Events, NEW row \in LifecycleContents, NEW r, r = LifecycleRow(e, row),
           lifecycle_state'[e] = r, written'[e].lifecycle = row
    PROVE  LifecycleSound(e)'
<1>1. /\ r.revision = row.revision /\ r.status = row.status
      /\ r.checksum = compute_lifecycle_checksum(e, row)
      /\ r = [c \in {"revision", "status", "checksum"} |-> r[c]]
  BY Zenon DEF LifecycleRow, Signed, LifecycleContents
<1>2. row.revision \in Nat /\ row.status \in LifecycleStatus
  BY Zenon DEF LifecycleContents
<1>3. compute_lifecycle_checksum(e, row) \in LifecycleChecksums
  BY <1>2, Zenon DEF compute_lifecycle_checksum, LifecycleChecksums
<1>4. r \in LifecycleRows
  BY <1>1, <1>2, <1>3, Zenon DEF LifecycleRows
<1>5. r # None
  BY <1>4, ContentAssumption, Zenon
<1> QED
  BY <1>1, <1>4, <1>5, Zenon DEF LifecycleSound, compute_lifecycle_checksum

\* One fault of storage in a lifecycle row.
LEMMA DamageLifecycle ==
    ASSUME NEW e \in Events, LifecycleSound(e), lifecycle_state[e] # None,
           NEW r \in DamagedLifecycles(lifecycle_state[e]),
           lifecycle_state'[e] = r, UNCHANGED written, e \in damaged'
    PROVE  LifecycleSound(e)'
<1>1. PICK row : row = lifecycle_state[e]
  BY Zenon
<1>2. row \in LifecycleRows
      /\ row.checksum \in {Damaged, compute_lifecycle_checksum(e, written[e].lifecycle)}
  BY <1>1, Zenon DEF LifecycleSound
<1>3. /\ r \in LifecycleRows /\ r.checksum \in {row.checksum, Damaged}
  <2>1. row.revision \in Nat
    BY <1>2, Zenon DEF LifecycleRows
  <2>2. 1 .. row.revision + 1 \subseteq Nat
    BY <2>1
  <2> QED
    BY <1>1, <1>2, <2>2, Zenon DEF DamagedLifecycles, LifecycleRows
<1>4. r # None
  BY <1>3, ContentAssumption, Zenon
<1> QED
  BY <1>1, <1>2, <1>3, <1>4, Zenon DEF LifecycleSound, compute_lifecycle_checksum

\* A step that touches the lifecycle rows of some events only.
LEMMA TouchedLifecycles ==
    ASSUME LifecycleInv, NEW S \in SUBSET Events,
           DOMAIN lifecycle_state' = Events, damaged \subseteq damaged',
           \A f \in Events \ S :
               /\ stored_envelope'[f] # None => stored_envelope[f] # None
               /\ lifecycle_state'[f] = lifecycle_state[f]
               /\ written'[f].lifecycle = written[f].lifecycle,
           \A e \in S : LifecycleSound(e)',
           \A p \in Procs : work'[p] = work[p] \/ LifecycleWork(p)'
    PROVE  LifecycleInv'
<1>1. \A f \in Events \ S : LifecycleSound(f)'
  BY KeepLifecycle, Zenon DEF LifecycleInv
<1>2. \A p \in Procs : LifecycleWork(p)'
  BY Zenon DEF LifecycleInv, LifecycleWork
<1> QED
  BY <1>1, <1>2, Zenon DEF LifecycleInv

\* A step that touches none of them.
LEMMA QuietLifecycles ==
    ASSUME LifecycleInv, UNCHANGED lifecycle_state, damaged \subseteq damaged',
           \A f \in Events :
               /\ stored_envelope'[f] # None => stored_envelope[f] # None
               /\ written'[f].lifecycle = written[f].lifecycle,
           \A p \in Procs : work'[p] = work[p] \/ LifecycleWork(p)'
    PROVE  LifecycleInv'
<1> DEFINE S == {}
<1>1. S \in SUBSET Events /\ \A e \in S : LifecycleSound(e)'
  OBVIOUS
<1>2. DOMAIN lifecycle_state' = Events
  BY Zenon DEF LifecycleInv
<1> HIDE DEF S
<1> QED
  BY <1>1, <1>2, TouchedLifecycles, Zenon

\* Only accept, update_lifecycle and the two transitions write a lifecycle row.
LEMMA WrittenLifecycle ==
    ASSUME RowTypes, LifecycleInv, NEW e \in Events, NEW row \in LifecycleContents,
           lifecycle_state' = [lifecycle_state EXCEPT ![e] = LifecycleRow(e, row)],
           written'[e].lifecycle = row, damaged \subseteq damaged',
           \A f \in Events \ {e} :
               /\ stored_envelope'[f] = stored_envelope[f]
               /\ written'[f].lifecycle = written[f].lifecycle,
           \A p \in Procs : work'[p] = work[p] \/ LifecycleWork(p)'
    PROVE  LifecycleInv'
<1>1. /\ DOMAIN lifecycle_state' = Events
      /\ lifecycle_state'[e] = LifecycleRow(e, row)
      /\ \A f \in Events \ {e} : lifecycle_state'[f] = lifecycle_state[f]
  BY Zenon DEF LifecycleInv
<1>2. LifecycleSound(e)'
  BY <1>1, SignLifecycle, Zenon
<1> DEFINE S == {e}
<1>3. S \in SUBSET Events /\ (\A f \in S : f = e) /\ Events \ S = Events \ {e}
  BY Zenon
<1> HIDE DEF S
<1> QED
  BY <1>1, <1>2, <1>3, TouchedLifecycles, Zenon

\* No event is accepted yet.
LEMMA LifecycleInit == RowInit => LifecycleInv
<1> SUFFICES ASSUME RowInit PROVE LifecycleInv
  OBVIOUS
<1>1. DOMAIN lifecycle_state = Events /\ \A e \in Events : LifecycleSound(e)
  BY Zenon DEF RowInit, LifecycleSound
<1>2. \A p \in Procs : work[p].step = "idle"
  BY Zenon DEF RowInit, Idle
<1> QED
  BY <1>1, <1>2, Zenon DEF LifecycleInv, LifecycleWork

\* Every step of the composed specification keeps the lifecycle rows sound.
LEMMA LifecycleStep ==
    ASSUME RowTypes, WorkTypes, LifecycleInv, DOMAIN stored_envelope = Events, [Next]_fileVars
    PROVE  LifecycleInv'
<1>0. ASSUME NEW p \in Procs, NEW c, work' = [work EXCEPT ![p] = c]
      PROVE  work'[p] = c /\ \A q \in Procs \ {p} : work'[q] = work[q]
  BY <1>0, Zenon DEF RowTypes
<1>1. ASSUME NEW p \in Procs, NEW e \in Events, accept(p, e) PROVE LifecycleInv'
  <2> DEFINE first == [revision |-> 1, status |-> "LOCAL_ACCEPTED"]
  <2>1. /\ lifecycle_state' = [lifecycle_state EXCEPT ![e] = LifecycleRow(e, first)]
        /\ written' = [written EXCEPT ![e].lifecycle = first]
        /\ \A f \in Events \ {e} : stored_envelope'[f] = stored_envelope[f]
        /\ UNCHANGED <<work, damaged>>
    BY <1>1, Zenon DEF accept, causes
  <2>2. first \in LifecycleContents
    BY Zenon DEF LifecycleContents, LifecycleStatus, LocalDeliveryStatus
  <2> HIDE DEF first
  <2>3. /\ written'[e].lifecycle = first
        /\ \A f \in Events \ {e} : written'[f].lifecycle = written[f].lifecycle
    BY <2>1, WrittenPart
  <2> QED
    BY <2>1, <2>2, <2>3, WrittenLifecycle, Zenon
<1>2. ASSUME NEW p \in Procs,
             \/ \E e \in Events : create_delivery_pending(p, e)
             \/ \E retriable \in BOOLEAN : record_delivery_attempt(p, retriable)
             \/ update_delivery_retry(p)
      PROVE  LifecycleInv'
  <2>1. /\ UNCHANGED <<lifecycle_state, stored_envelope, damaged>>
        /\ \A q \in Procs : work'[q] = work[q] \/ LifecycleWork(q)'
    <3>1. UNCHANGED <<lifecycle_state, stored_envelope, damaged>>
      BY <1>2, Zenon DEF create_delivery_pending, record_delivery_attempt, update_delivery_retry, causes
    <3>2. UNCHANGED work \/ \E c : work' = [work EXCEPT ![p] = c] /\ c.step \in {"idle", "failed"}
      <4>1. Idle.step = "idle"
        BY Zenon DEF Idle
      <4>2. CASE \E e \in Events : create_delivery_pending(p, e)
        BY <4>2, Zenon DEF create_delivery_pending
      <4>3. CASE update_delivery_retry(p)
        BY <4>1, <4>3, Zenon DEF update_delivery_retry
      <4>4. CASE \E retriable \in BOOLEAN : record_delivery_attempt(p, retriable)
        <5>1. PICK retriable \in BOOLEAN : record_delivery_attempt(p, retriable)
          BY <4>4, Zenon
        <5>2. PICK c : c = [step |-> "failed", event |-> work[p].event,
                            revision |-> work[p].revision, attempts |-> work[p].attempts,
                            retriable |-> retriable, at |-> now]
          BY Zenon
        <5>3. work' = [work EXCEPT ![p] = Idle] \/ work' = [work EXCEPT ![p] = c]
          BY <5>1, <5>2, Zenon DEF record_delivery_attempt
        <5>4. c.step = "failed"
          BY <5>2, Zenon
        <5> QED
          BY <4>1, <5>3, <5>4, Zenon
      <4> QED
        BY <1>2, <4>2, <4>3, <4>4, Zenon
    <3>3. \A q \in Procs : work'[q] = work[q] \/ work'[q].step \in {"idle", "failed"}
      BY <1>0, <3>2, Zenon
    <3> QED
      BY <3>1, <3>3, Zenon DEF LifecycleWork
  <2>2. \/ UNCHANGED written
        \/ \E e \in Events : \E v : written' = [written EXCEPT ![e].delivery = v]
    <3>1. CASE \E e \in Events : create_delivery_pending(p, e)
      BY <3>1, Zenon DEF create_delivery_pending
    <3>2. work[p].step \in {"sending", "retry"} => work[p].event \in Events
      BY Zenon DEF WorkTypes, WorkType
    <3>3. CASE \E retriable \in BOOLEAN : record_delivery_attempt(p, retriable)
      BY <3>2, <3>3, Zenon DEF record_delivery_attempt
    <3>4. CASE update_delivery_retry(p)
      BY <3>2, <3>4, Zenon DEF update_delivery_retry
    <3> QED
      BY <1>2, <3>1, <3>3, <3>4, Zenon
  <2>3. \A f \in Events : written'[f].lifecycle = written[f].lifecycle
    BY <2>2, WrittenPart
  <2> QED
    BY <2>1, <2>3, QuietLifecycles, Zenon
<1>3. ASSUME NEW p \in Procs, confirm_replicated_delivery(p) \/ block_delivery(p)
      PROVE  LifecycleInv'
  <2>1. PICK e : e = work[p].event
    OBVIOUS
  <2>2. /\ e \in Events /\ UNCHANGED <<stored_envelope, damaged>>
        /\ work' = [work EXCEPT ![p] = Idle]
        /\ \/ NoTransition
           \/ /\ get_status(e).answer = "Found"
              /\ \E status \in {"REPLICATED", "DELIVERY_BLOCKED"} :
                     Transition(e, NextRow(e, status))
    BY <1>3, <2>1, Zenon DEF confirm_replicated_delivery, block_delivery, CanTransition, WorkTypes,
       WorkType, causes
  <2>3. \A q \in Procs : work'[q] = work[q] \/ LifecycleWork(q)'
    <3>1. Idle.step = "idle"
      BY Zenon DEF Idle
    <3> QED
      BY <1>0, <2>2, <3>1, Zenon DEF LifecycleWork
  <2>4. CASE NoTransition
    BY <2>2, <2>3, <2>4, QuietLifecycles, Zenon DEF NoTransition
  <2>5. ASSUME get_status(e).answer = "Found",
               NEW status \in {"REPLICATED", "DELIVERY_BLOCKED"},
               Transition(e, NextRow(e, status))
        PROVE  LifecycleInv'
    <3>1. lifecycle_state[e] # None
      BY <2>5, Zenon DEF get_status
    <3>2. PICK row : row = [revision |-> lifecycle_state[e].revision + 1, status |-> status]
      BY Zenon
    <3>3. row \in LifecycleContents
      <4>1. lifecycle_state[e] \in LifecycleRows
        BY <2>2, <3>1, Zenon DEF LifecycleInv, LifecycleSound
      <4> QED
        BY <3>2, <4>1 DEF LifecycleRows, LifecycleContents, LifecycleStatus, LocalDeliveryStatus
    <3>4. NextRow(e, status).status = status
      BY Zenon DEF NextRow
    <3>5. /\ lifecycle_state' = [lifecycle_state EXCEPT ![e] = LifecycleRow(e, row)]
          /\ \E d : written' = [written EXCEPT ![e] = [lifecycle |-> row, delivery |-> d]]
      BY <2>5, <3>2, <3>4, ZenonT(40) DEF Transition
    <3>6. /\ written'[e].lifecycle = row
          /\ \A f \in Events \ {e} : written'[f].lifecycle = written[f].lifecycle
      BY <2>2, <3>5, SMTT(30) DEF RowTypes
    <3> QED
      BY <2>2, <2>3, <3>3, <3>5, <3>6, WrittenLifecycle, Zenon
  <2> QED
    BY <2>2, <2>4, <2>5, Zenon
<1>4. ASSUME NEW p \in Procs,
             \/ \E e \in Events : TakeCandidate(p, e) \/ LoadForRepair(p, e)
             \/ ReadPayload(p) \/ LoadForRetry(p)
      PROVE  LifecycleInv'
  <2>1. UNCHANGED <<lifecycle_state, stored_envelope, damaged, written>>
    BY <1>4, Zenon DEF TakeCandidate, ReadPayload, LoadForRepair, LoadForRetry, tableVars, causes
  <2>2. /\ work'[p].step \in {"idle", "candidate", "sending", "retry"}
        /\ \A q \in Procs \ {p} : work'[q] = work[q]
    <3>1. \A e, expected, next, allowed :
              RetryLoaded(e, expected, next, allowed).step \in {"idle", "retry"}
      BY Zenon DEF RetryLoaded, Idle
    <3>2. CASE \E e \in Events : TakeCandidate(p, e)
      BY <3>2, SMTT(30) DEF TakeCandidate, RowTypes
    <3>3. CASE \E e \in Events : LoadForRepair(p, e)
      BY <3>1, <3>3, SMTT(30) DEF LoadForRepair, RowTypes
    <3>4. CASE LoadForRetry(p)
      BY <3>1, <3>4, SMTT(30) DEF LoadForRetry, RowTypes
    <3>5. CASE ReadPayload(p)
      BY <3>5, SMTT(30) DEF ReadPayload, RowTypes, Idle
    <3> QED
      BY <1>4, <3>2, <3>3, <3>4, <3>5, ZenonT(40)
  <2>3. \A q \in Procs : work'[q] = work[q] \/ LifecycleWork(q)'
    BY <2>2, Zenon DEF LifecycleWork
  <2> QED
    BY <2>1, <2>3, QuietLifecycles, Zenon
<1>5. ASSUME NEW p \in Procs, NEW e \in Delivered, NEW status \in LocalDeliveryStatus,
             LoadLifecycle(p, e, status)
      PROVE  LifecycleInv'
  <2>1. UNCHANGED <<lifecycle_state, stored_envelope, damaged, written>>
        /\ get_status(e).answer = "Found"
        /\ work' = [work EXCEPT ![p] = [step |-> "lifecycle", event |-> e,
                                        revision |-> get_status(e).revision, status |-> status]]
    BY <1>5, Zenon DEF LoadLifecycle, tableVars, causes
  <2>2. e \in Events /\ lifecycle_state[e] # None
        /\ get_status(e).revision = lifecycle_state[e].revision
    BY <2>1, RowConstants, Zenon DEF get_status
  <2>3. lifecycle_state[e].revision \in Nat
    BY <2>2, Zenon DEF LifecycleInv, LifecycleSound, LifecycleRows
  <2>4. LifecycleWork(p)'
    <3>1. PICK c : c = [step |-> "lifecycle", event |-> e,
                        revision |-> get_status(e).revision, status |-> status]
      BY Zenon
    <3>2. work'[p] = c
      BY <1>0, <2>1, <3>1, Zenon
    <3>3. c.event = e /\ c.revision \in Nat /\ c.status = status
      BY <2>2, <2>3, <3>1, Zenon
    <3> QED
      BY <2>2, <3>2, <3>3, Zenon DEF LifecycleWork
  <2> QED
    BY <1>0, <2>1, <2>4, QuietLifecycles, ZenonT(40)
<1>6. ASSUME NEW p \in Procs, update_lifecycle(p) PROVE LifecycleInv'
  <2>1. PICK e, row : e = work[p].event
            /\ row = [revision |-> work[p].revision + 1, status |-> work[p].status]
    BY Zenon
  <2>2. /\ work[p].step = "lifecycle" /\ work' = [work EXCEPT ![p] = Idle]
        /\ UNCHANGED <<stored_envelope, damaged>>
        /\ \/ UNCHANGED <<lifecycle_state, written>>
           \/ /\ lifecycle_state' = [lifecycle_state EXCEPT ![e] = LifecycleRow(e, row)]
              /\ written' = [written EXCEPT ![e].lifecycle = row]
    BY <1>6, <2>1, Zenon DEF update_lifecycle, causes
  <2>3. e \in Events /\ row \in LifecycleContents
    BY <2>1, <2>2 DEF LifecycleInv, LifecycleWork, LifecycleContents, LifecycleStatus
  <2>4. \A q \in Procs : work'[q] = work[q] \/ LifecycleWork(q)'
    <3>1. Idle.step = "idle"
      BY Zenon DEF Idle
    <3> QED
      BY <1>0, <2>2, <3>1, Zenon DEF LifecycleWork
  <2>5. CASE UNCHANGED <<lifecycle_state, written>>
    BY <2>2, <2>4, <2>5, QuietLifecycles, Zenon
  <2>6. CASE /\ lifecycle_state' = [lifecycle_state EXCEPT ![e] = LifecycleRow(e, row)]
             /\ written' = [written EXCEPT ![e].lifecycle = row]
    <3>1. /\ written'[e].lifecycle = row
          /\ \A f \in Events \ {e} : written'[f].lifecycle = written[f].lifecycle
      BY <2>3, <2>6, WrittenPart, SMTT(30)
    <3> QED
      BY <2>2, <2>3, <2>4, <2>6, <3>1, WrittenLifecycle, Zenon
  <2> QED
    BY <2>2, <2>5, <2>6, Zenon
<1>7. ASSUME Storage PROVE LifecycleInv'
  <2>1. PICK e \in Events :
            /\ e \in damaged' /\ damaged \subseteq damaged' /\ UNCHANGED <<written, work>>
            /\ \A f \in Events : stored_envelope'[f] # None => stored_envelope[f] # None
            /\ \/ UNCHANGED lifecycle_state
               \/ /\ lifecycle_state[e] # None
                  /\ \E r \in DamagedLifecycles(lifecycle_state[e]) :
                         lifecycle_state' = [lifecycle_state EXCEPT ![e] = r]
    <3>1. PICK e \in Events : Damage(e) \/ \E f \in Events : Misdirect(e, f)
      BY <1>7, Zenon DEF Storage
    <3>2. e \in damaged' /\ damaged \subseteq damaged' /\ UNCHANGED <<written, work>>
      BY <3>1, Zenon DEF Damage, Misdirect, Fault
    <3>3. \A f \in Events : stored_envelope'[f] # None => stored_envelope[f] # None
      <4>1. \/ UNCHANGED stored_envelope
            \/ stored_envelope[e] # None
               /\ \E r : stored_envelope' = [stored_envelope EXCEPT ![e] = r]
        BY <3>1, Zenon DEF Damage, Misdirect
      <4> QED
        BY <4>1, Zenon
    <3>4. \/ UNCHANGED lifecycle_state
          \/ /\ lifecycle_state[e] # None
             /\ \E r \in DamagedLifecycles(lifecycle_state[e]) :
                    lifecycle_state' = [lifecycle_state EXCEPT ![e] = r]
      BY <3>1, Zenon DEF Damage, Misdirect
    <3> QED
      BY <3>2, <3>3, <3>4, Zenon
  <2>2. CASE UNCHANGED lifecycle_state
    BY <2>1, <2>2, QuietLifecycles, Zenon
  <2>3. CASE /\ lifecycle_state[e] # None
             /\ \E r \in DamagedLifecycles(lifecycle_state[e]) :
                    lifecycle_state' = [lifecycle_state EXCEPT ![e] = r]
    <3>1. PICK r \in DamagedLifecycles(lifecycle_state[e]) :
              lifecycle_state' = [lifecycle_state EXCEPT ![e] = r]
      BY <2>3, Zenon
    <3>2. /\ DOMAIN lifecycle_state' = Events /\ lifecycle_state'[e] = r
          /\ \A f \in Events \ {e} : lifecycle_state'[f] = lifecycle_state[f]
      BY <3>1, Zenon DEF LifecycleInv
    <3>3. LifecycleSound(e)'
      BY <2>1, <2>3, <3>2, DamageLifecycle, ZenonT(40) DEF LifecycleInv
    <3> DEFINE S == {e}
    <3>4. S \in SUBSET Events /\ (\A f \in S : f = e) /\ Events \ S = Events \ {e}
      BY Zenon
    <3> HIDE DEF S
    <3> QED
      BY <2>1, <3>2, <3>3, <3>4, TouchedLifecycles, ZenonT(40)
  <2> QED
    BY <2>1, <2>2, <2>3, Zenon
<1>8. CASE Tick \/ (\E p \in Procs : OpenFile(p) \/ Stop(p)) \/ UNCHANGED fileVars
  <2>1. UNCHANGED <<lifecycle_state, stored_envelope, damaged, written>>
    BY <1>8, Zenon DEF Tick, OpenFile, Stop, fileVars, rowVars, tableVars, causes
  <2>2. UNCHANGED work \/ \E p \in Procs : work' = [work EXCEPT ![p] = Idle]
    BY <1>8, Zenon DEF Tick, OpenFile, Stop, fileVars, rowVars
  <2>3. \A q \in Procs : work'[q] = work[q] \/ LifecycleWork(q)'
    <3>1. Idle.step = "idle"
      BY Zenon DEF Idle
    <3> QED
      BY <1>0, <2>2, <3>1, SMTT(30) DEF LifecycleWork
  <2> QED
    BY <2>1, <2>3, QuietLifecycles, Zenon
<1> QED
  BY <1>1, <1>2, <1>3, <1>4, <1>5, <1>6, <1>7, <1>8, ZenonT(40)
     DEF Next, Publish, Deliver, Operate

-----------------------------------------------------------------------------
(* The envelopes and the payloads *)

\* However often storage hits it, the checksum of an envelope is the one that was
\* written with it, or nothing.
EnvelopeSound(e) ==
    stored_envelope[e] # None =>
        /\ stored_envelope[e] \in
               [columns : Events \union {Damaged}, payload_digest : Digests,
                checksum : {Damaged, <<e, e, compute_sha256(e)>>}]
        /\ e \notin damaged =>
               /\ stored_envelope[e].columns = e
               /\ stored_envelope[e].payload_digest = compute_sha256(e)
               /\ stored_envelope[e].checksum = <<e, e, compute_sha256(e)>>

DigestKept(e) ==
    stored_envelope[e] # None => stored_envelope[e].payload_digest = compute_sha256(e)

PayloadKept(e) == payload_blob[e] # None => payload_blob[e].payload = e

\* Storage has to hit the envelope and the blob of an event to change both.
EnvelopeInv ==
    /\ DOMAIN stored_envelope = Events /\ DOMAIN payload_blob = Events
    /\ faults \in Nat /\ (faults = 0 => damaged = {})
    /\ \A e \in Events :
           /\ EnvelopeSound(e)
           /\ e \notin damaged => PayloadKept(e)
           /\ faults <= 1 => DigestKept(e) \/ PayloadKept(e)

\* accept writes the envelope and the blob of one event.
LEMMA AcceptEnvelope ==
    ASSUME EnvelopeInv, NEW p \in Procs, NEW e \in Events, accept(p, e)
    PROVE  EnvelopeInv'
<1> DEFINE digest == compute_sha256(e)
           row == [columns |-> e, payload_digest |-> digest]
           r == Signed(row, compute_envelope_checksum(e, row))
<1>1. /\ stored_envelope' = [stored_envelope EXCEPT ![e] = r]
      /\ payload_blob' = [payload_blob EXCEPT ![e] = [payload |-> e, payload_digest |-> digest]]
      /\ UNCHANGED <<faults, damaged>>
  BY Zenon DEF accept, causes
<1>2. digest \in Digests
  BY Zenon DEF Digests
<1>3. /\ r.columns = e /\ r.payload_digest = digest /\ r.checksum = <<e, e, digest>>
      /\ r = [c \in {"columns", "payload_digest", "checksum"} |-> r[c]]
  BY Zenon DEF Signed, compute_envelope_checksum
<1> HIDE DEF r, digest
<1>4. r \in [columns : Events \union {Damaged}, payload_digest : Digests,
             checksum : {Damaged, <<e, e, digest>>}]
  BY <1>2, <1>3, Zenon
<1>5. /\ DOMAIN stored_envelope' = Events /\ DOMAIN payload_blob' = Events
      /\ stored_envelope'[e] = r /\ payload_blob'[e].payload = e
      /\ \A f \in Events \ {e} : /\ stored_envelope'[f] = stored_envelope[f]
                                 /\ payload_blob'[f] = payload_blob[f]
  BY <1>1, Zenon DEF EnvelopeInv
<1>6. EnvelopeSound(e)' /\ DigestKept(e)' /\ PayloadKept(e)'
  BY <1>3, <1>4, <1>5, Zenon DEF EnvelopeSound, DigestKept, PayloadKept, digest
<1>7. \A f \in Events \ {e} :
          /\ EnvelopeSound(f) => EnvelopeSound(f)'
          /\ DigestKept(f) => DigestKept(f)'
          /\ PayloadKept(f) => PayloadKept(f)'
  BY <1>1, <1>5, Zenon DEF EnvelopeSound, DigestKept, PayloadKept
<1> QED
  BY <1>1, <1>5, <1>6, <1>7, ZenonT(40) DEF EnvelopeInv

\* A fault hits the envelope or the blob of one event, or neither.
LEMMA StorageEnvelope ==
    ASSUME EnvelopeInv, Storage
    PROVE  EnvelopeInv'
<1>1. PICK e \in Events : Damage(e) \/ \E f \in Events : Misdirect(e, f)
  BY Zenon DEF Storage
<1>2. faults' = faults + 1 /\ damaged' = damaged \union {e}
  BY <1>1, Zenon DEF Damage, Misdirect, Fault
<1>3. \/ UNCHANGED <<stored_envelope, payload_blob>>
      \/ /\ UNCHANGED payload_blob /\ stored_envelope[e] # None
         /\ \E r \in DamagedEnvelopes(stored_envelope[e]) :
                stored_envelope' = [stored_envelope EXCEPT ![e] = r]
      \/ /\ UNCHANGED stored_envelope
         /\ \E r : payload_blob' = [payload_blob EXCEPT ![e] = r]
  BY <1>1, Zenon DEF Damage, Misdirect
<1>4. /\ DOMAIN stored_envelope' = Events /\ DOMAIN payload_blob' = Events
      /\ \A f \in Events \ {e} : /\ stored_envelope'[f] = stored_envelope[f]
                                 /\ payload_blob'[f] = payload_blob[f]
  BY <1>3, Zenon DEF EnvelopeInv
<1>5. EnvelopeSound(e)'
  <2>1. CASE UNCHANGED stored_envelope
    BY <1>2, <2>1, Zenon DEF EnvelopeInv, EnvelopeSound
  <2>2. CASE /\ stored_envelope[e] # None
             /\ \E r \in DamagedEnvelopes(stored_envelope[e]) :
                    stored_envelope' = [stored_envelope EXCEPT ![e] = r]
    <3>1. PICK row : row = stored_envelope[e]
      OBVIOUS
    <3>2. PICK r \in DamagedEnvelopes(row) : stored_envelope'[e] = r
      BY <2>2, <3>1, Zenon DEF EnvelopeInv
    <3> DEFINE T == [columns : Events \union {Damaged}, payload_digest : Digests,
                     checksum : {Damaged, <<e, e, compute_sha256(e)>>}]
    <3>3. row \in T
      BY <2>2, <3>1, Zenon DEF EnvelopeInv, EnvelopeSound
    <3>4. r \in T
      BY <3>2, <3>3, Zenon DEF DamagedEnvelopes, Digests
    <3> QED
      BY <1>2, <3>2, <3>4, Zenon DEF EnvelopeSound
  <2> QED
    BY <1>3, <2>1, <2>2, Zenon
<1>6. ASSUME faults' <= 1 PROVE DigestKept(e)' \/ PayloadKept(e)'
  <2>1. damaged = {}
    BY <1>2, <1>6 DEF EnvelopeInv
  <2>2. DigestKept(e) /\ PayloadKept(e)
    BY <2>1, Zenon DEF EnvelopeInv, EnvelopeSound, DigestKept
  <2> QED
    BY <1>3, <2>2, Zenon DEF DigestKept, PayloadKept
<1>7. \A f \in Events \ {e} :
          /\ EnvelopeSound(f) => EnvelopeSound(f)'
          /\ DigestKept(f) => DigestKept(f)'
          /\ PayloadKept(f) => PayloadKept(f)'
  BY <1>2, <1>4, Zenon DEF EnvelopeSound, DigestKept, PayloadKept
<1>8. faults \in Nat /\ faults' \in Nat /\ faults' # 0 /\ (faults' <= 1 => faults <= 1)
  BY <1>2, SMTT(30) DEF EnvelopeInv
<1> QED
  BY <1>2, <1>4, <1>5, <1>6, <1>7, <1>8, ZenonT(40) DEF EnvelopeInv

\* Nothing else touches them.
LEMMA EnvelopeStep ==
    ASSUME EnvelopeInv, [Next]_fileVars
    PROVE  EnvelopeInv'
<1> DEFINE Untouched == UNCHANGED <<stored_envelope, payload_blob, faults, damaged>>
<1>1. \/ \E p \in Procs, e \in Events : accept(p, e)
      \/ Storage
      \/ Untouched
  <2>1. ASSUME NEW p \in Procs, Publish(p) PROVE (\E e \in Events : accept(p, e)) \/ Untouched
    BY <2>1, Zenon DEF Publish, create_delivery_pending, causes
  <2>2. ASSUME NEW p \in Procs,
               \/ \E e \in Events : TakeCandidate(p, e) \/ LoadForRepair(p, e)
               \/ \E e \in Delivered, status \in LocalDeliveryStatus : LoadLifecycle(p, e, status)
               \/ ReadPayload(p) \/ LoadForRetry(p)
        PROVE  Untouched
    BY <2>2, Zenon DEF TakeCandidate, ReadPayload, LoadForRepair, LoadForRetry, LoadLifecycle,
       tableVars, causes
  <2>3. ASSUME NEW p \in Procs, confirm_replicated_delivery(p) \/ block_delivery(p) PROVE Untouched
    BY <2>3, Zenon DEF confirm_replicated_delivery, block_delivery, causes
  <2>4. ASSUME NEW p \in Procs, NEW retriable, record_delivery_attempt(p, retriable) PROVE Untouched
    BY <2>4, Zenon DEF record_delivery_attempt
  <2>5. ASSUME NEW p \in Procs, update_delivery_retry(p) \/ update_lifecycle(p) PROVE Untouched
    BY <2>5, Zenon DEF update_delivery_retry, update_lifecycle, causes
  <2>6. ASSUME NEW p \in Procs, OpenFile(p) \/ Stop(p) PROVE Untouched
    BY <2>6, Zenon DEF OpenFile, Stop, rowVars, tableVars, causes
  <2>7. CASE Tick \/ UNCHANGED fileVars
    BY <2>7, Zenon DEF Tick, fileVars, rowVars, tableVars, causes
  <2> HIDE DEF Untouched
  <2> QED
    BY <2>1, <2>2, <2>3, <2>4, <2>5, <2>6, <2>7, ZenonT(40) DEF Next, Deliver, Operate
<1>2. CASE UNCHANGED <<stored_envelope, payload_blob, faults, damaged>>
  BY <1>2, Zenon DEF EnvelopeInv, EnvelopeSound, DigestKept, PayloadKept
<1> QED
  BY <1>1, <1>2, AcceptEnvelope, StorageEnvelope, Zenon

-----------------------------------------------------------------------------
(* What the rows promise *)

RowInv == DeliveryInv /\ LifecycleInv /\ EnvelopeInv

\* The first rows come from accept; from then on every step keeps all three.
LEMMA RowInvHolds == Spec => []RowInv
<1>1. Init => RowInv
  <2> SUFFICES ASSUME RowInit PROVE EnvelopeInv
    BY DeliveryInit, LifecycleInit, Zenon DEF Init, RowInv
  <2> QED
    BY Zenon DEF RowInit, EnvelopeInv, EnvelopeSound, DigestKept, PayloadKept
<1>2. RowInv /\ [Next]_fileVars => RowInv'
  <2> SUFFICES ASSUME RowInv, [Next]_fileVars PROVE RowInv'
    OBVIOUS
  <2>1. RowTypes /\ WorkTypes /\ DOMAIN stored_envelope = Events
    BY Zenon DEF RowInv, DeliveryInv, EnvelopeInv
  <2>2. LifecycleInv'
    BY <2>1, LifecycleStep, Zenon DEF RowInv
  <2> QED
    BY <2>2, DeliveryStep, EnvelopeStep, Zenon DEF RowInv
<1> QED
  BY <1>1, <1>2, PTL DEF Spec

\* A lifecycle row that verifies is the written one, however often storage has hit it.
LEMMA StatusWritten ==
    ASSUME LifecycleInv, NEW e \in Events, get_status(e).answer = "Found"
    PROVE  /\ Columns(lifecycle_state[e]) = written[e].lifecycle
           /\ get_status(e).status = written[e].lifecycle.status
           /\ written[e].lifecycle.status \in LifecycleStatus
<1>1. PICK row, contents : row = lifecycle_state[e] /\ contents = written[e].lifecycle
  BY Zenon
<1>2. LifecycleVerifies(e) /\ row # None /\ get_status(e).status = row.status
  BY <1>1, Zenon DEF get_status
<1>3. /\ row \in LifecycleRows /\ contents \in LifecycleContents
      /\ row.checksum \in {Damaged, <<e, contents.revision, contents.status>>}
      /\ row.checksum = <<e, row.revision, row.status>>
  BY <1>1, <1>2, Zenon DEF LifecycleInv, LifecycleSound, LifecycleVerifies, compute_lifecycle_checksum
<1>4. <<e, row.revision, row.status>> \in LifecycleChecksums
  BY <1>3, Zenon DEF LifecycleRows, LifecycleChecksums
<1>5. <<e, row.revision, row.status>> = <<e, contents.revision, contents.status>>
  BY <1>3, <1>4, ContentAssumption, Zenon
<1>6. row.revision = contents.revision /\ row.status = contents.status
  BY <1>5, Zenon
<1>7. Columns(row) = contents
  <2>1. DOMAIN row \ {"checksum"} = {"revision", "status"}
    BY <1>3, Zenon DEF LifecycleRows
  <2>2. contents = [c \in {"revision", "status"} |-> contents[c]]
    BY <1>3, Zenon DEF LifecycleContents
  <2>3. \A c \in {"revision", "status"} : row[c] = contents[c]
    BY <1>6, Zenon
  <2> QED
    BY <2>1, <2>2, <2>3, Zenon DEF Columns
<1> QED
  BY <1>1, <1>2, <1>3, <1>6, <1>7, Zenon DEF LifecycleContents

\* However often storage hits the rows of the journal, get_status never returns a status
\* or a revision that differs from the last write: lifecycle rows are written whole.
THEOREM StatusIsWritten ==
    Spec => [](\A e \in Events : get_status(e).answer = "Found" =>
                   Columns(lifecycle_state[e]) = written[e].lifecycle)
<1>1. RowInv => \A e \in Events : get_status(e).answer = "Found" =>
                    Columns(lifecycle_state[e]) = written[e].lifecycle
  BY StatusWritten, Zenon DEF RowInv
<1> QED
  BY <1>1, RowInvHolds, PTL

\* For any number of processes, events and attempts: until storage has hit the journal a
\* second time, what verifies is what the program wrote.
THEOREM VerifiedHolds == Spec => [](faults <= 1 => VerifiedIsWritten)
<1>1. RowInv => (faults <= 1 => VerifiedIsWritten)
  <2> SUFFICES ASSUME RowInv, faults <= 1, NEW e \in Events
               PROVE  /\ get_status(e).answer = "Found" =>
                             Columns(lifecycle_state[e]) = written[e].lifecycle
                      /\ DeliveryFound(e) => Columns(delivery_state[e]) = written[e].delivery
    BY Zenon DEF VerifiedIsWritten
  <2>1. get_status(e).answer = "Found" => Columns(lifecycle_state[e]) = written[e].lifecycle
    BY StatusWritten, Zenon DEF RowInv
  <2>2. ASSUME DeliveryFound(e) PROVE Columns(delivery_state[e]) = written[e].delivery
    <3>1. Same(e) /\ delivery_state[e] # None
      BY <2>2, FoundIsWritten, Zenon DEF RowInv, DeliveryFound
    <3>2. delivery_state[e] \in DeliveryRows /\ IsContents(written[e].delivery)
      BY <3>1, Zenon DEF RowInv, DeliveryInv, RowTypes
    <3>3. DOMAIN delivery_state[e] \ {"checksum"} = Fields
      BY <3>2, RowColumns, Zenon DEF Fields
    <3> QED
      BY <3>1, <3>2, <3>3, Zenon DEF Columns, Same, IsContents
  <2> QED
    BY <2>1, <2>2, Zenon
<1> QED
  BY <1>1, RowInvHolds, PTL

\* For any number of processes, events, attempts and faults: a row that does not verify
\* was damaged, raced or repaired.
THEOREM ExplainedHolds == Spec => []UnverifiedIsExplained
<1>1. RowInv => UnverifiedIsExplained
  <2> SUFFICES ASSUME RowInv, NEW e \in Events, e \notin damaged
               PROVE  /\ stored_envelope[e] # None => get_status(e).answer = "Found"
                      /\ delivery_state[e] # None /\ ~DeliveryFound(e) =>
                             e \in raced \union repaired
    BY Zenon DEF UnverifiedIsExplained
  <2>1. ASSUME stored_envelope[e] # None PROVE get_status(e).answer = "Found"
    <3>1. EnvelopeVerifies(e)
      BY <2>1, Zenon DEF RowInv, EnvelopeInv, EnvelopeSound, EnvelopeVerifies, compute_envelope_checksum
    <3>2. LifecycleVerifies(e)
      BY <2>1, Zenon DEF RowInv, LifecycleInv, LifecycleSound, LifecycleVerifies,
         compute_lifecycle_checksum
    <3> QED
      BY <2>1, <3>1, <3>2, Zenon DEF get_status, LifecycleVerifies
  <2>2. delivery_state[e] # None /\ ~DeliveryFound(e) => e \in raced \union repaired
    BY Zenon DEF RowInv, DeliveryInv, Sound, Clean
  <2> QED
    BY <2>1, <2>2, Zenon
<1> QED
  BY <1>1, RowInvHolds, PTL

\* Two payloads with one digest are the same.
LEMMA DigestInjective ==
    ASSUME NEW a, NEW b, compute_sha256(a) = compute_sha256(b)
    PROVE  a = b
BY Zenon DEF compute_sha256

\* Until storage has hit the journal a second time, a payload read is the accepted one.
LEMMA ServedByRead ==
    ASSUME RowInv, faults <= 1, NEW e \in Events, read_verified_payload(e).answer = "Found"
    PROVE  read_verified_payload(e).payload = e
<1>1. /\ read_verified_payload(e).payload = payload_blob[e].payload
      /\ stored_envelope[e] # None /\ payload_blob[e] # None
      /\ compute_sha256(payload_blob[e].payload) = stored_envelope[e].payload_digest
  BY Zenon DEF read_verified_payload
<1>2. DigestKept(e) \/ PayloadKept(e)
  BY Zenon DEF RowInv, EnvelopeInv
<1> QED
  BY <1>1, <1>2, DigestInjective, Zenon DEF DigestKept, PayloadKept

\* A process that sends has read the payload in this step or was sending before it.
LEMMA SendsRead ==
    ASSUME RowInv, [Next]_fileVars, NEW p \in Procs, work'[p].step = "sending"
    PROVE  work'[p] = work[p] \/ ReadPayload(p)
<1>0. DOMAIN work = Procs
  BY Zenon DEF RowInv, DeliveryInv, RowTypes
<1>1. ASSUME NEW q \in Procs, NEW c, work' = [work EXCEPT ![q] = c], c.step # "sending"
      PROVE  work'[p] = work[p]
  BY <1>0, <1>1, Zenon
<1>2. Idle.step = "idle"
  BY Zenon DEF Idle
<1>3. ASSUME NEW q \in Procs, Publish(q) PROVE work'[p] = work[p]
  BY <1>3, Zenon DEF Publish, accept, create_delivery_pending
<1>4. ASSUME NEW q \in Procs, NEW e \in Events, TakeCandidate(q, e) PROVE work'[p] = work[p]
  BY <1>0, <1>4, Zenon DEF TakeCandidate
<1>5. ASSUME NEW q \in Procs, ReadPayload(q) PROVE work'[p] = work[p] \/ ReadPayload(p)
  <2>1. CASE q = p
    BY <1>5, <2>1, Zenon
  <2>2. CASE q # p
    BY <1>0, <1>5, <2>2, Zenon DEF ReadPayload
  <2> QED
    BY <2>1, <2>2, Zenon
<1>6. ASSUME NEW q \in Procs,
             \/ confirm_replicated_delivery(q) \/ block_delivery(q)
             \/ update_delivery_retry(q) \/ update_lifecycle(q) \/ Stop(q)
      PROVE  work'[p] = work[p]
  BY <1>1, <1>2, <1>6, Zenon DEF confirm_replicated_delivery, block_delivery, update_delivery_retry,
     update_lifecycle, Stop
<1>7. ASSUME NEW q \in Procs, NEW retriable, record_delivery_attempt(q, retriable)
      PROVE  work'[p] = work[p]
  <2>1. work'[q].step \in {"failed", "idle"} /\ \A r \in Procs \ {q} : work'[r] = work[r]
    BY <1>0, <1>2, <1>7 DEF record_delivery_attempt
  <2> QED
    BY <2>1, Zenon
<1>8. \A e, expected, next, allowed :
          RetryLoaded(e, expected, next, allowed).step \in {"idle", "retry"}
  BY <1>2, Zenon DEF RetryLoaded
<1>9. ASSUME NEW q \in Procs, LoadForRetry(q) PROVE work'[p] = work[p]
  BY <1>0, <1>8, <1>9 DEF LoadForRetry
<1>10. ASSUME NEW q \in Procs, NEW e \in Events, LoadForRepair(q, e) PROVE work'[p] = work[p]
  BY <1>0, <1>8, <1>10 DEF LoadForRepair
<1>11. ASSUME NEW q \in Procs, NEW e, NEW status, LoadLifecycle(q, e, status)
       PROVE  work'[p] = work[p]
  BY <1>0, <1>11, Zenon DEF LoadLifecycle
<1>12. CASE \/ Storage \/ Tick \/ UNCHANGED fileVars
            \/ \E q \in Procs : OpenFile(q)
  BY <1>12, Zenon DEF Storage, Damage, Misdirect, Fault, Tick, fileVars, OpenFile, rowVars
<1> QED
  BY <1>3, <1>4, <1>5, <1>6, <1>7, <1>9, <1>10, <1>11, <1>12, ZenonT(40) DEF Next, Deliver, Operate

\* Faults are never forgotten.
LEMMA FaultsGrow ==
    ASSUME RowInv, [Next]_fileVars, faults' <= 1
    PROVE  faults <= 1
<1>1. faults' = faults \/ faults' = faults + 1
  <2>1. ASSUME NEW p \in Procs, Publish(p) PROVE faults' = faults
    BY <2>1, Zenon DEF Publish, accept, create_delivery_pending, causes
  <2>2. ASSUME NEW p \in Procs, Deliver(p) PROVE faults' = faults
    BY <2>2, Zenon DEF Deliver, TakeCandidate, ReadPayload, confirm_replicated_delivery,
       record_delivery_attempt, LoadForRetry, update_delivery_retry, block_delivery, causes
  <2>3. ASSUME NEW p \in Procs, Operate(p) PROVE faults' = faults
    BY <2>3, Zenon DEF Operate, LoadForRepair, LoadLifecycle, update_lifecycle, causes
  <2>4. ASSUME NEW p \in Procs, OpenFile(p) \/ Stop(p) PROVE faults' = faults
    BY <2>4, Zenon DEF OpenFile, Stop, rowVars, causes
  <2>5. CASE Tick \/ UNCHANGED fileVars
    BY <2>5, Zenon DEF Tick, fileVars, rowVars, causes
  <2>6. CASE Storage
    BY <2>6, Zenon DEF Storage, Damage, Misdirect, Fault
  <2> QED
    BY <2>1, <2>2, <2>3, <2>4, <2>5, <2>6, ZenonT(40) DEF Next
<1>2. faults \in Nat
  BY Zenon DEF RowInv, EnvelopeInv
<1> QED
  BY <1>1, <1>2

\* Until storage has hit the journal a second time, a payload read for delivery is the
\* accepted one, for any number of events and processes: in a read now, and in every send
\* under way, whatever has happened to the tables since its candidate and its payload were
\* read.
THEOREM ServedHolds == Spec => [](faults <= 1 => ServedPayloadIsAccepted)
<1> DEFINE Sends == \A p \in Procs : work[p].step = "sending" => work[p].payload = work[p].event
           Early == faults <= 1 => Sends
<1>1. Init => Early
  BY SMT DEF Init, RowInit, Idle
<1>2. RowInv /\ RowInv' /\ Early /\ [Next]_fileVars => Early'
  <2> SUFFICES ASSUME RowInv, RowInv', Early, [Next]_fileVars, faults' <= 1, NEW p \in Procs,
                      work'[p].step = "sending"
               PROVE  work'[p].payload = work'[p].event
    BY Zenon
  <2>1. faults <= 1 /\ Sends
    BY FaultsGrow, Zenon
  <2>2. CASE work'[p] = work[p]
    BY <2>1, <2>2, Zenon
  <2>3. CASE ReadPayload(p)
    <3>1. PICK e : e = work[p].event
      OBVIOUS
    <3>2. e \in Events /\ DOMAIN work = Procs
      BY <2>3, <3>1, Zenon DEF ReadPayload, RowInv, DeliveryInv, RowTypes, WorkTypes, WorkType
    <3>3. PICK read : read = read_verified_payload(e)
      OBVIOUS
    <3>4. /\ read.answer = "Found"
          /\ work'[p].payload = read.payload /\ work'[p].event = e
      BY <2>3, <3>1, <3>2, <3>3 DEF ReadPayload, Idle
    <3> QED
      BY <2>1, <3>2, <3>3, <3>4, ServedByRead, ZenonT(40)
  <2> QED
    BY <2>2, <2>3, SendsRead, Zenon
<1>3. RowInv /\ Early => (faults <= 1 => ServedPayloadIsAccepted)
  BY ServedByRead, Zenon DEF ServedPayloadIsAccepted
<1> HIDE DEF Early
<1> QED
  BY <1>1, <1>2, <1>3, RowInvHolds, PTL DEF Spec

\* For any number of processes, events, attempts and retry bounds: until storage has hit
\* the journal a second time, the retry scan offers an event exactly from the end of its
\* backoff on, as far as its rows are undamaged.
THEOREM RetryHolds == Spec => [](faults <= 1 => RetryWaits)
<1>1. ASSUME RowInv, faults <= 1, scan_retrying_deliveries.answer = "Ok",
             NEW e \in scan_retrying_deliveries.rows
      PROVE  earliest[e] <= now
  <2>1. /\ e \in Events /\ delivery_state[e] # None /\ CandidateFound(e)
        /\ delivery_state[e].status = "DELIVERY_RETRYING"
        /\ delivery_state[e].next_retry_at <= now
    BY <1>1, SMTT(30) DEF scan_retrying_deliveries, collect_delivery_scan
  <2>2. Same(e) /\ Due(e)
    BY <1>1, <2>1, FoundIsWritten, Zenon DEF RowInv, DeliveryInv, CandidateFound
  <2>3. /\ written[e].delivery.status = "DELIVERY_RETRYING"
        /\ written[e].delivery.next_retry_at = delivery_state[e].next_retry_at
    BY <2>1, <2>2, Zenon DEF Same, Fields
  <2> QED
    BY <2>1, <2>2, <2>3, ZenonT(40) DEF Due
<1>2. ASSUME RowInv, scan_retrying_deliveries.answer = "Ok", NEW e \in Events \ damaged,
             delivery_state[e] # None, written[e].delivery.status = "DELIVERY_RETRYING",
             earliest[e] <= now
      PROVE  e \in scan_retrying_deliveries.rows
  <2>1. Same(e) /\ Due(e) /\ earliest[e] \in Nat
    BY <1>2, Zenon DEF RowInv, DeliveryInv, RowTypes, Sound, Clean
  <2>2. /\ delivery_state[e].status = "DELIVERY_RETRYING"
        /\ delivery_state[e].next_retry_at = earliest[e]
    BY <1>2, <2>1, Zenon DEF Same, Fields, Due
  <2>3. earliest[e] # None
    BY <2>1, ContentAssumption, Zenon
  <2> QED
    BY <1>2, <2>2, <2>3, SMTT(30) DEF scan_retrying_deliveries, collect_delivery_scan
<1>3. RowInv => (faults <= 1 => RetryWaits)
  BY <1>1, <1>2, Zenon DEF RetryWaits
<1> QED
  BY <1>3, RowInvHolds, PTL
=============================================================================
