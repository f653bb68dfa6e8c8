---------------------------- MODULE SchemaApply ----------------------------
(***************************************************************************)
(* Processes of the gelite tool that share one database file: each runs    *)
(* `schema apply` (gelite-commands apply_schema over a native runner), or  *)
(* opens the database for queries, which loads the catalog without a       *)
(* transaction and keeps it (gelite-cli run_repl_command and               *)
(* run_query_command).                                                     *)
(*                                                                         *)
(* apply_schema reads the stored schema in one transaction and writes the  *)
(* new version in another.  Nothing is locked in between.                  *)
(***************************************************************************)
EXTENDS Sqlite, SchemaStore

CONSTANT Schemas    \* the catalogs parsed from the schema files users apply

\* parse_schema builds a catalog and ends in SchemaCatalog::try_new.
ASSUME SchemasAssumption ==
    \A catalog \in Schemas : catalog \in Catalogs /\ ValidCatalog(catalog)

\* Strings have an order; NameOrder has it for every name of the instance.
ASSUME NamesAssumption ==
    /\ NameOrder \in Seq(STRING)
    /\ \A catalog \in Schemas : \A object \in ToSet(catalog) :
          {object.name} \cup FieldNames(object) \subseteq ToSet(NameOrder)

VARIABLES
    pc,         \* pc[c]: what process c is about to do
    want,       \* want[c]: the catalog process c was asked to apply
    found,      \* found[c]: which metadata tables exist, in probing order
    latest,     \* latest[c]: the version row the verification has read
    objects,    \* objects[c]: the catalog object rows c has read
    base,       \* base[c]: version number and catalog c works from
    step,       \* step[c]: how many statements of its plan c has executed
    outcome     \* outcome[c]: how the last command of c ended

clientVars == <<pc, want, found, latest, objects, base, step, outcome>>
vars == <<sqliteVars, clientVars>>

NoRow == VersionRow(0, {})
NoBase == [number |-> 0, catalog |-> <<>>]

PcValues ==
    {"idle",                                            \* no command running
     "probe",                                           \* table_exists, three times
     "begin_read", "version", "objects", "fields", "commit_read",
     "plan",                                            \* stored schema known
     "apply", "insert_version", "commit",               \* apply_schema_statements
     "rollback_read", "rollback_write",
     "load_objects", "load_fields", "serving"}          \* unverified catalog

Outcomes == {"none", "applied", "unchanged", "unsupported", "partial", "failed"}

Init ==
    /\ SqliteInit(EmptyDatabase)
    /\ pc = [c \in Connections |-> "idle"]
    /\ want = [c \in Connections |-> <<>>]
    /\ found = [c \in Connections |-> <<>>]
    /\ latest = [c \in Connections |-> NoRow]
    /\ objects = [c \in Connections |-> {}]
    /\ base = [c \in Connections |-> NoBase]
    /\ step = [c \in Connections |-> 0]
    /\ outcome = [c \in Connections |-> "none"]

Goto(c, label) == pc' = [pc EXCEPT ![c] = label]

\* The command of c returns; its connection and everything it read are gone.
Finish(c, result) ==
    /\ Goto(c, "idle")
    /\ want' = [want EXCEPT ![c] = <<>>]
    /\ found' = [found EXCEPT ![c] = <<>>]
    /\ latest' = [latest EXCEPT ![c] = NoRow]
    /\ objects' = [objects EXCEPT ![c] = {}]
    /\ base' = [base EXCEPT ![c] = NoBase]
    /\ step' = [step EXCEPT ![c] = 0]
    /\ outcome' = [outcome EXCEPT ![c] = result]

-----------------------------------------------------------------------------
\* Starting a command

StartApply(c, catalog) ==
    /\ pc[c] = "idle"
    /\ Goto(c, "probe")
    /\ want' = [want EXCEPT ![c] = catalog]
    /\ outcome' = [outcome EXCEPT ![c] = "none"]
    /\ UNCHANGED <<sqliteVars, found, latest, objects, base, step>>

\* load_verified_schema before its transaction: one autocommit read per
\* metadata table; the third one decides.
ProbeTable(c) ==
    /\ pc[c] = "probe"
    /\ AutocommitRead(c)
    /\ LET exists == TableExists(disk, MetadataTables[Len(found[c]) + 1])
           probes == Append(found[c], exists)
       IN  \/ /\ Len(probes) < Len(MetadataTables)
              /\ found' = [found EXCEPT ![c] = probes]
              /\ UNCHANGED <<pc, want, latest, objects, base, step, outcome>>
           \/ /\ Len(probes) = Len(MetadataTables)
              /\ ToSet(probes) = {TRUE}
              /\ found' = [found EXCEPT ![c] = probes]
              /\ Goto(c, "begin_read")
              /\ UNCHANGED <<want, latest, objects, base, step, outcome>>
           \/ /\ Len(probes) = Len(MetadataTables)
              /\ ToSet(probes) = {FALSE}
              /\ found' = [found EXCEPT ![c] = probes]
              /\ Goto(c, "plan")
              /\ UNCHANGED <<want, latest, objects, base, step, outcome>>
           \/ /\ Len(probes) = Len(MetadataTables)
              /\ ToSet(probes) = {TRUE, FALSE}
              /\ Finish(c, "partial")

ProbeError(c) ==
    /\ pc[c] = "probe"
    /\ UNCHANGED sqliteVars
    /\ Finish(c, "failed")

-----------------------------------------------------------------------------
\* The verification transaction

BeginVerification(c) ==
    /\ pc[c] = "begin_read"
    /\ Begin(c)
    /\ Goto(c, "version")
    /\ UNCHANGED <<want, found, latest, objects, base, step, outcome>>

ReadLatestVersion(c) ==
    /\ pc[c] = "version"
    /\ Read(c)
    /\ IF View(c).versions = {}
       THEN Goto(c, "rollback_read") /\ UNCHANGED latest
       ELSE /\ latest' = [latest EXCEPT ![c] = LatestVersion(View(c))]
            /\ Goto(c, "objects")
    /\ UNCHANGED <<want, found, objects, base, step, outcome>>

ReadObjects(c) ==
    /\ pc[c] = "objects"
    /\ Read(c)
    /\ objects' = [objects EXCEPT ![c] = View(c).objects]
    /\ Goto(c, "fields")
    /\ UNCHANGED <<want, found, latest, base, step, outcome>>

\* The catalog must load and have the snapshot of the version row.
ReadFields(c) ==
    /\ pc[c] = "fields"
    /\ Read(c)
    /\ LET catalog == CatalogFromRows(objects[c], View(c).fields)
       IN  IF /\ Loadable(objects[c], View(c).fields)
              /\ Snapshot(catalog) = latest[c].snapshot
           THEN /\ base' = [base EXCEPT ![c] =
                              [number |-> latest[c].number, catalog |-> catalog]]
                /\ Goto(c, "commit_read")
           ELSE Goto(c, "rollback_read") /\ UNCHANGED base
    /\ UNCHANGED <<want, found, latest, objects, step, outcome>>

CommitVerification(c) ==
    /\ pc[c] = "commit_read"
    /\ Commit(c)
    /\ Goto(c, "plan")
    /\ UNCHANGED <<want, found, latest, objects, base, step, outcome>>

\* Any statement of the verification may fail once the transaction is open.
VerificationError(c) ==
    /\ pc[c] \in {"version", "objects", "fields", "commit_read"}
    /\ StatementError(c)
    /\ Goto(c, "rollback_read")
    /\ UNCHANGED <<want, found, latest, objects, base, step, outcome>>

RollbackVerification(c) ==
    /\ pc[c] = "rollback_read"
    /\ Rollback(c)
    /\ Finish(c, "failed")

-----------------------------------------------------------------------------
\* Planning, with no transaction open

\* Version numbers start at one, so number zero is a database without schema.
IsInitial(c) == base[c].number = 0

Statements(c) ==
    IF IsInitial(c) THEN InitialStatements(want[c])
    ELSE MigrationStatements(base[c].catalog, want[c])

\* Mutant of NewVersionRow: the successor of whatever version is there by now.
SuccessorOfStored(c) ==
    VersionRow(IF View(c).versions = {} THEN 1 ELSE LatestVersion(View(c)).number + 1,
               Snapshot(want[c]))

NewVersionRow(c) == VersionRow(base[c].number + 1, Snapshot(want[c]))

RejectUnsupported(c) ==
    /\ pc[c] = "plan"
    /\ ~IsInitial(c)
    /\ ~Supported(base[c].catalog, want[c])
    /\ UNCHANGED sqliteVars
    /\ Finish(c, "unsupported")

NothingToDo(c) ==
    /\ pc[c] = "plan"
    /\ ~IsInitial(c)
    /\ Supported(base[c].catalog, want[c])
    /\ Statements(c) = <<>>
    /\ UNCHANGED sqliteVars
    /\ Finish(c, "unchanged")

BeginApply(c) ==
    /\ pc[c] = "plan"
    /\ \/ IsInitial(c)
       \/ Supported(base[c].catalog, want[c]) /\ Statements(c) # <<>>
    /\ Begin(c)
    /\ Goto(c, "apply")
    /\ UNCHANGED <<want, found, latest, objects, base, step, outcome>>

-----------------------------------------------------------------------------
\* apply_schema_statements: the plan in order, the version row last, COMMIT

ExecuteStatement(c) ==
    /\ pc[c] = "apply"
    /\ step[c] < Len(Statements(c))
    /\ LET s == Statements(c)[step[c] + 1]
       IN  Accepts(View(c), s) /\ Write(c, Execute(View(c), s))
    /\ step' = [step EXCEPT ![c] = @ + 1]
    /\ IF step'[c] = Len(Statements(c)) THEN Goto(c, "insert_version") ELSE UNCHANGED pc
    /\ UNCHANGED <<want, found, latest, objects, base, outcome>>

InsertVersion(c) ==
    /\ pc[c] = "insert_version"
    /\ AcceptsVersion(View(c), NewVersionRow(c))
    /\ Write(c, InsertVersionRow(View(c), NewVersionRow(c)))
    /\ Goto(c, "commit")
    /\ UNCHANGED <<want, found, latest, objects, base, step, outcome>>

CommitApply(c) ==
    /\ pc[c] = "commit"
    /\ Commit(c)
    /\ Finish(c, "applied")

\* Mutant of CommitApplyBusy: a failed COMMIT is reported without ROLLBACK.
CommitApplyBusyReturns(c) ==
    /\ pc[c] = "commit"
    /\ CommitBusy(c)
    /\ Finish(c, "failed")

CommitApplyBusy(c) ==
    /\ pc[c] = "commit"
    /\ CommitBusy(c)
    /\ Goto(c, "rollback_write")
    /\ UNCHANGED <<want, found, latest, objects, base, step, outcome>>

\* Mutant of ApplyError: a failed statement is tried again.
ApplyErrorRetries(c) ==
    /\ pc[c] \in {"apply", "insert_version", "commit"}
    /\ StatementError(c)
    /\ UNCHANGED clientVars

\* A rejected statement, a lock held by another process or an I/O error.
ApplyError(c) ==
    /\ pc[c] \in {"apply", "insert_version", "commit"}
    /\ StatementError(c)
    /\ Goto(c, "rollback_write")
    /\ UNCHANGED <<want, found, latest, objects, base, step, outcome>>

RollbackApply(c) ==
    /\ pc[c] = "rollback_write"
    /\ Rollback(c)
    /\ Finish(c, "failed")

-----------------------------------------------------------------------------
\* A process that runs queries: two autocommit reads, the catalog kept after.

OpenSession(c) ==
    /\ pc[c] = "idle"
    /\ Goto(c, "load_objects")
    /\ outcome' = [outcome EXCEPT ![c] = "none"]
    /\ UNCHANGED <<sqliteVars, want, found, latest, objects, base, step>>

LoadObjects(c) ==
    /\ pc[c] = "load_objects"
    /\ AutocommitRead(c)
    /\ TableExists(disk, ObjectsTable)
    /\ objects' = [objects EXCEPT ![c] = disk.objects]
    /\ Goto(c, "load_fields")
    /\ UNCHANGED <<want, found, latest, base, step, outcome>>

LoadFields(c) ==
    /\ pc[c] = "load_fields"
    /\ AutocommitRead(c)
    /\ Loadable(objects[c], disk.fields)
    /\ base' = [base EXCEPT ![c].catalog = CatalogFromRows(objects[c], disk.fields)]
    /\ objects' = [objects EXCEPT ![c] = {}]
    /\ Goto(c, "serving")
    /\ UNCHANGED <<want, found, latest, step, outcome>>

\* No catalog tables, a lock, an I/O error or rows that make no catalog.
LoadError(c) ==
    /\ pc[c] \in {"load_objects", "load_fields"}
    /\ UNCHANGED sqliteVars
    /\ Finish(c, "failed")

CloseSession(c) ==
    /\ pc[c] = "serving"
    /\ UNCHANGED sqliteVars
    /\ Finish(c, "none")

-----------------------------------------------------------------------------
\* The process is killed at any point of a command.
Crash(c) ==
    /\ pc[c] # "idle"
    /\ Die(c)
    /\ Finish(c, "none")

ApplySteps(c) ==
    \/ ProbeTable(c) \/ ProbeError(c)
    \/ BeginVerification(c) \/ ReadLatestVersion(c) \/ ReadObjects(c)
    \/ ReadFields(c) \/ CommitVerification(c)
    \/ VerificationError(c) \/ RollbackVerification(c)
    \/ RejectUnsupported(c) \/ NothingToDo(c) \/ BeginApply(c)
    \/ ExecuteStatement(c) \/ InsertVersion(c) \/ CommitApply(c) \/ CommitApplyBusy(c)
    \/ ApplyError(c) \/ RollbackApply(c)

\* Loading the catalog runs by itself; opening and closing is up to the user.
LoadSteps(c) == LoadObjects(c) \/ LoadFields(c) \/ LoadError(c)

Next ==
    \E c \in Connections :
        \/ \E catalog \in Schemas : StartApply(c, catalog)
        \/ ApplySteps(c)
        \/ OpenSession(c) \/ LoadSteps(c) \/ CloseSession(c)
        \/ Crash(c)

\* A running command is a thread that keeps executing: it neither waits for a
\* lock nor retries, so weak fairness of its own steps is all it needs.
Fairness ==
    \A c \in Connections : WF_vars(ApplySteps(c)) /\ WF_vars(LoadSteps(c))

Spec == Init /\ [][Next]_vars
FairSpec == Spec /\ Fairness

-----------------------------------------------------------------------------
\* Types

\* Names the schemas declare, and those tables and columns get from them.
TypesDeclared == UNION {TypeNames(catalog) : catalog \in Schemas}
FieldsDeclared == UNION {UNION {FieldNames(object) : object \in ToSet(catalog)} : catalog \in Schemas}

TablesNamed ==
    ToSet(MetadataTables) \cup {ToAsciiLowercase(type) : type \in TypesDeclared}
    \cup {RelationTableName(type, field) : type \in TypesDeclared, field \in FieldsDeclared}

ColumnsNamed ==
    {"id", "source_id", "target_id", "position"} \cup FieldsDeclared
    \cup {field \o "_id" : field \in FieldsDeclared}

ColumnType ==
    [name : ColumnsNamed, affinity : {"TEXT", "INTEGER", "REAL"}, nullable : BOOLEAN,
     unique : BOOLEAN, references : {ToAsciiLowercase(type) : type \in TypesDeclared} \cup {None}]
TableType == [name : TablesNamed, columns : SUBSET ColumnType]
IndexType ==
    {CreateIndex(table \o "__" \o column \o "_idx", table, column) :
        table \in TablesNamed, column \in ColumnsNamed}

ObjectRowType == [object_id : Nat, name : TypesDeclared]
FieldRowType ==
    [object_id : Nat, field_id : Nat, name : FieldsDeclared \cup {"id"}, kind : {"scalar", "link"},
     cardinality : {"required", "optional", "many"}, scalar_type : ScalarTypes \cup {None},
     target_object_id : Nat \cup {None}, is_implicit : BOOLEAN, is_unique : BOOLEAN,
     inverse : STRING \cup {None}]

SnapshotType == SUBSET [name : STRING, fields : SUBSET DeclaredField]
VersionRowType == [number : Nat, snapshot : SnapshotType]

Database ==
    [tables : SUBSET TableType, indexes : SUBSET IndexType, objects : SUBSET ObjectRowType,
     fields : SUBSET FieldRowType, versions : SUBSET VersionRowType]

\* The part of the type invariant that does not depend on what statements and
\* rows contain: locks, transactions and program counters.  A connection has a
\* private copy exactly while it holds a write lock, and holds locks only inside
\* a transaction.
ControlTypeOK ==
    /\ IsDatabase(disk)
    /\ txn \in [Connections -> BOOLEAN]
    /\ lock \in [Connections -> LockStates]
    /\ work = [c \in Connections |-> work[c]]
    /\ \A c \in Connections :
          /\ IF lock[c] \in WriteLocks THEN IsDatabase(work[c]) ELSE work[c] = NoWork
          /\ lock[c] # "none" => txn[c]
    /\ pc \in [Connections -> PcValues]
    /\ want \in [Connections -> Schemas \cup {<<>>}]
    /\ found \in [Connections -> Seq(BOOLEAN)]
    /\ latest = [c \in Connections |-> latest[c]]
    /\ objects = [c \in Connections |-> objects[c]]
    /\ base = [c \in Connections |-> base[c]]
    /\ \A c \in Connections :
          base[c] = [number |-> base[c].number, catalog |-> base[c].catalog]
    /\ step \in [Connections -> Nat]
    /\ outcome \in [Connections -> Outcomes]

\* Every variable, with the content of the rows, catalogs and tables.
TypeOK ==
    /\ ControlTypeOK
    /\ disk \in Database
    /\ \A c \in Connections :
          /\ lock[c] \in WriteLocks => work[c] \in Database
          /\ latest[c] \in VersionRowType
          /\ objects[c] \in SUBSET ObjectRowType
          /\ base[c] \in [number : Nat, catalog : Catalogs]

-----------------------------------------------------------------------------
\* Safety

HasSchema == disk.versions # {}

\* The catalog the rows of the file describe.
StoredCatalog == CatalogFromRows(disk.objects, disk.fields)

\* The numbers are 1, 2, ..., n with one row each.
ContiguousVersions(versions) ==
    /\ \A a, b \in versions : a.number = b.number => a = b
    /\ \A row \in versions :
          /\ row.number \in Nat \ {0}
          /\ \A n \in 1..row.number : \E earlier \in versions : earlier.number = n
    /\ versions # {} => \E last \in versions : \A row \in versions : row.number <= last.number

\* Whatever processes race to be the successor of a version, every version has
\* exactly one successor and no number is skipped.
VersionsContiguous == ContiguousVersions(disk.versions)

\* The file changes only by the commit of an apply, which adds the version it
\* was asked for, and which was planned from the version that is still the
\* latest: no process overwrites a version it has not read.
CommitsSucceedTheirBase ==
    [][disk' # disk =>
        \E c \in Connections :
            /\ outcome'[c] = "applied"
            /\ disk'.versions = disk.versions \cup {NewVersionRow(c)}
            /\ IF HasSchema
               THEN /\ LatestVersion(disk).number = base[c].number
                    /\ LatestVersion(disk).snapshot = Snapshot(base[c].catalog)
               ELSE IsInitial(c)]_vars

\* The catalog rows always pass the verification the next command makes, so no
\* sequence of applies, crashes and errors locks the tool out of its own file.
StoredSchemaVerifies ==
    HasSchema =>
        /\ Loadable(disk.objects, disk.fields)
        /\ Snapshot(StoredCatalog) = LatestVersion(disk).snapshot

\* However a schema was reached, its tables and indexes are those the initial
\* plan of the stored catalog would create; without a schema there are none.
PhysicalMatchesCatalog ==
    IF HasSchema
    THEN /\ disk.tables = PlannedTables(StoredCatalog)
         /\ disk.indexes = PlannedIndexes(StoredCatalog)
    ELSE disk = EmptyDatabase

\* A query process reads objects and fields in separate statements; what it
\* ends up with is nevertheless the schema of some committed version.
SessionCatalogCommitted ==
    \A c \in Connections :
        pc[c] = "serving" =>
            \E row \in disk.versions : row.snapshot = Snapshot(base[c].catalog)

\* A query planned from a session's catalog stays executable while others
\* migrate: its tables and columns are there unchanged, and an insert that
\* names only columns the session knows violates no NOT NULL constraint.
SessionCatalogUsable ==
    \A c \in Connections : pc[c] = "serving" =>
        \A known \in PlannedTables(base[c].catalog) :
            \E table \in disk.tables :
                /\ table.name = known.name
                /\ known.columns \subseteq table.columns
                /\ \A column \in table.columns \ known.columns : column.nullable

\* A process that is not inside one of its transactions holds no lock and no
\* open transaction, whichever statement failed before.
NoTransactionLeft ==
    \A c \in Connections :
        pc[c] \in {"idle", "probe", "begin_read", "plan", "load_objects", "load_fields", "serving"}
            => ~txn[c] /\ lock[c] = "none"

\* "Nothing to do" is answered only for a schema the history contains.
UnchangedIsTruthful ==
    [][\A c \in Connections :
        outcome[c] # "unchanged" /\ outcome'[c] = "unchanged" =>
            \E row \in disk.versions : row.snapshot = Snapshot(want[c])]_vars

LatestNumber == IF HasSchema THEN LatestVersion(disk).number ELSE 0

\* The stored versions are an append-only history of compatible schemas.
History == INSTANCE SchemaHistory WITH
    Snapshots <- {Snapshot(catalog) : catalog \in Schemas},
    history <- [n \in 1..LatestNumber |->
                    (CHOOSE row \in disk.versions : row.number = n).snapshot]

ImplementsHistory == History!Spec

\* The error "database contains partial engine schema metadata" is reported
\* only for a file in which some metadata tables exist and others do not.
PartialIsPartial ==
    \A c \in Connections :
        outcome[c] = "partial" =>
            \E a, b \in ToSet(MetadataTables) : TableExists(disk, a) /\ ~TableExists(disk, b)

-----------------------------------------------------------------------------
\* Liveness

\* Every command ends, with locks held by others, errors and unsupported
\* changes along the way: nothing waits and nothing is retried.
CommandsEnd ==
    \A c \in Connections :
        pc[c] \notin {"idle", "serving"} ~> pc[c] \in {"idle", "serving"}

=============================================================================
