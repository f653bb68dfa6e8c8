---------------------------- MODULE SchemaStore ----------------------------
(***************************************************************************)
(* What SQLite makes of the statements of SchemaPlan: which it accepts on  *)
(* a given database content and what it turns the content into.  The rows  *)
(* of the user's own tables are not modelled; every user table is taken to *)
(* be empty, the case in which SQLite accepts most.                        *)
(***************************************************************************)
EXTENDS SchemaPlan

EmptyDatabase ==
    [tables |-> {}, indexes |-> {}, objects |-> {}, fields |-> {}, versions |-> {}]

IsDatabase(db) ==
    db = [tables |-> db.tables, indexes |-> db.indexes, objects |-> db.objects,
          fields |-> db.fields, versions |-> db.versions]

TableNames(db) == {table.name : table \in db.tables}

TableExists(db, name) == name \in TableNames(db)

\* Tables and indexes share one namespace.
NameTaken(db, name) ==
    \/ TableExists(db, name)
    \/ \E index \in db.indexes : index.name = name

\* Column names are compared without regard to case.
SameColumnName(a, b) == ToAsciiLowercase(a) = ToAsciiLowercase(b)

AcceptsCreateTable(db, s) ==
    /\ ~NameTaken(db, s.name)
    /\ \A i, j \in DOMAIN s.columns :
          SameColumnName(s.columns[i].name, s.columns[j].name) => i = j

\* A UNIQUE column cannot be added; a NOT NULL one can while the table is empty.
AcceptsAddColumn(db, s) ==
    /\ ~s.column.unique
    /\ \E table \in db.tables :
          /\ table.name = s.table
          /\ \A column \in table.columns : ~SameColumnName(column.name, s.column.name)

AcceptsCreateIndex(db, s) ==
    /\ ~NameTaken(db, s.name)
    /\ \E table \in db.tables :
          /\ table.name = s.table
          /\ \E column \in table.columns : SameColumnName(column.name, s.column)

\* PRIMARY KEY (object_id), UNIQUE (name).
AcceptsInsertObject(db, s) ==
    /\ TableExists(db, ObjectsTable)
    /\ \A row \in db.objects :
          row.object_id # s.row.object_id /\ row.name # s.row.name

\* PRIMARY KEY (object_id, field_id) and two foreign keys to the objects table.
AcceptsInsertField(db, s) ==
    LET ids == {row.object_id : row \in db.objects}
    IN  /\ TableExists(db, FieldsTable)
        /\ \A row \in db.fields :
              <<row.object_id, row.field_id>> # <<s.row.object_id, s.row.field_id>>
        /\ s.row.object_id \in ids
        /\ s.row.target_object_id \in ids \cup {None}

Accepts(db, s) ==
    \/ s.op = "create_table"  /\ AcceptsCreateTable(db, s)
    \/ s.op = "add_column"    /\ AcceptsAddColumn(db, s)
    \/ s.op = "create_index"  /\ AcceptsCreateIndex(db, s)
    \/ s.op = "insert_object" /\ AcceptsInsertObject(db, s)
    \/ s.op = "insert_field"  /\ AcceptsInsertField(db, s)

WithColumn(table, column) == [table EXCEPT !.columns = @ \cup {column}]

Execute(db, s) ==
    CASE s.op = "create_table" ->
            [db EXCEPT !.tables = @ \cup {[name |-> s.name, columns |-> ToSet(s.columns)]}]
      [] s.op = "add_column" ->
            [db EXCEPT !.tables =
                {IF table.name = s.table THEN WithColumn(table, s.column) ELSE table :
                    table \in @}]
      [] s.op = "create_index"  -> [db EXCEPT !.indexes = @ \cup {s}]
      [] s.op = "insert_object" -> [db EXCEPT !.objects = @ \cup {s.row}]
      [] s.op = "insert_field"  -> [db EXCEPT !.fields = @ \cup {s.row}]

\* Mutant of AcceptsVersion: version_number is not declared UNIQUE.
AcceptsAnyVersion(db, row) == TableExists(db, VersionsTable)

\* The last statement of every plan: UNIQUE (version_number).
AcceptsVersion(db, row) ==
    /\ TableExists(db, VersionsTable)
    /\ \A stored \in db.versions : stored.number # row.number

InsertVersionRow(db, row) == [db EXCEPT !.versions = @ \cup {row}]

\* ORDER BY version_number DESC LIMIT 1, on a database that has a version.
LatestVersion(db) ==
    CHOOSE row \in db.versions : \A other \in db.versions : other.number <= row.number

\* The tables and indexes the initial plan of a catalog would create.
PlannedTables(catalog) ==
    {[name |-> s.name, columns |-> ToSet(s.columns)] :
        s \in {t \in ToSet(InitialStatements(catalog)) : t.op = "create_table"}}

PlannedIndexes(catalog) ==
    {s \in ToSet(InitialStatements(catalog)) : s.op = "create_index"}

=============================================================================
