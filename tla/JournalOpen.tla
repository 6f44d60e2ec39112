---------------------------- MODULE JournalOpen ----------------------------
(***************************************************************************)
(* LocalJournal::open of crates/craftrelay-journal/src/lib.rs: init_schema  *)
(* creates the meta table, reads the schema version, creates what is        *)
(* missing and records the version.  Every statement commits by itself, so  *)
(* a crash may fall between any two of them, and several processes may run  *)
(* them on one file at once.                                                *)
(***************************************************************************)
EXTENDS Naturals, Sequences

CONSTANTS
    Procs,
    META_TABLE,
    SCHEMA_SQL,        \* the tables of version 1, in the order they are created
    SCHEMA_V2_SQL,     \* the tables version 2 adds
    SCHEMA_VERSION     \* the version this program writes

ASSUME SchemaConstants ==
    /\ SCHEMA_VERSION = 2
    /\ SCHEMA_SQL \in Seq(STRING) /\ SCHEMA_V2_SQL \in Seq(STRING)

TablesOf(statements) == {statements[i] : i \in DOMAIN statements}

AllTables == {META_TABLE} \cup TablesOf(SCHEMA_SQL) \cup TablesOf(SCHEMA_V2_SQL)

VARIABLES
    tables,     \* tables of the file
    version,    \* schema_version in journal_meta, 0 when it has no row
    opening     \* per process: where its open call is, and what it has to create

openVars == <<tables, version, opening>>

Step(step, todo) == [step |-> step, todo |-> todo]
Closed == Step("closed", <<>>)

\* A new file, one left by a program of version 1, or one of a later program.
Files ==
    {[tables |-> {}, version |-> 0],
     [tables |-> {META_TABLE} \cup TablesOf(SCHEMA_SQL), version |-> 1],
     [tables |-> AllTables, version |-> SCHEMA_VERSION + 1]}

OpenInit ==
    /\ \E file \in Files : tables = file.tables /\ version = file.version
    /\ opening = [p \in Procs |-> Closed]

CreateMeta(p) ==
    /\ opening[p].step = "closed"
    /\ tables' = tables \cup {META_TABLE}
    /\ opening' = [opening EXCEPT ![p] = Step("read", <<>>)]
    /\ UNCHANGED version

\* Variant: the second part runs for a file of version 1 only.
Statements_UpgradeOnly(seen) == SCHEMA_SQL \o (IF seen = 1 THEN SCHEMA_V2_SQL ELSE <<>>)

\* The statements left to run once the version has been read.
Statements(seen) == SCHEMA_SQL \o (IF seen < 2 THEN SCHEMA_V2_SQL ELSE <<>>)

\* Variant: no version is refused.
ReadVersion_AnyVersion(p) ==
    /\ opening[p].step = "read"
    /\ opening' = [opening EXCEPT ![p] = Step("create", Statements(version))]
    /\ UNCHANGED <<tables, version>>

ReadVersion(p) ==
    /\ opening[p].step = "read"
    /\ opening' = [opening EXCEPT ![p] =
                      IF version > SCHEMA_VERSION THEN Step("refused", <<>>)
                      ELSE Step("create", Statements(version))]
    /\ UNCHANGED <<tables, version>>

\* CREATE TABLE IF NOT EXISTS.
CreateTable(p) ==
    /\ opening[p].step = "create" /\ opening[p].todo # <<>>
    /\ tables' = tables \cup {Head(opening[p].todo)}
    /\ opening' = [opening EXCEPT ![p] = Step("create", Tail(opening[p].todo))]
    /\ UNCHANGED version

WriteVersion(p) ==
    /\ opening[p].step = "create" /\ opening[p].todo = <<>>
    /\ version' = SCHEMA_VERSION
    /\ opening' = [opening EXCEPT ![p] = Step("open", <<>>)]
    /\ UNCHANGED tables

\* The process stops, wherever its call is; the file keeps what was committed.
StopProcess(p) ==
    /\ opening[p] # Closed
    /\ opening' = [opening EXCEPT ![p] = Closed]
    /\ UNCHANGED <<tables, version>>

init_schema(p) == CreateMeta(p) \/ ReadVersion(p) \/ CreateTable(p) \/ WriteVersion(p)

OpenNext == \E p \in Procs : init_schema(p) \/ StopProcess(p)

OpenSpec == OpenInit /\ [][OpenNext]_openVars

IsOpen(p) == opening[p].step = "open"

-----------------------------------------------------------------------------
\* However many processes open the file at once and wherever they stop, a recorded
\* version 2 means that every table exists, and so does an open call that returned:
\* init_schema records the version last.
SchemaIsReady ==
    /\ version = SCHEMA_VERSION => AllTables \subseteq tables
    /\ \A p \in Procs : IsOpen(p) => AllTables \subseteq tables /\ version = SCHEMA_VERSION

\* The file of a later program is refused before anything in it changes.
FutureFileUntouched == [][version > SCHEMA_VERSION => UNCHANGED <<tables, version>>]_openVars
=============================================================================
