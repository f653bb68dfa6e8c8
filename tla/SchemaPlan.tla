----------------------------- MODULE SchemaPlan -----------------------------
(***************************************************************************)
(* sqlite-schema-plan and sqlite-schema-sqlgen: the statements that create *)
(* the tables of a catalog in an empty database, the statements that       *)
(* migrate a database from one catalog to another, the migrations that are *)
(* refused, and what SQLite makes of each statement.                       *)
(*                                                                         *)
(* The content of a database is a record                                   *)
(*   tables    table plans: name and set of columns                        *)
(*   indexes   index plans                                                 *)
(*   objects   rows of _engine_catalog_objects                             *)
(*   fields    rows of _engine_catalog_fields                              *)
(*   versions  rows of _engine_schema_versions                             *)
(***************************************************************************)
EXTENDS SchemaCatalog

CONSTANTS
    NameOrder,      \* the type and field names of the instance in byte order
    Lowercase       \* the names with upper-case letters, to their lower case

ToAsciiLowercase(name) ==
    IF name \in DOMAIN Lowercase THEN Lowercase[name] ELSE name

\* Items sorted by name: Vec::sort_unstable_by on name.
SortedByName(items) ==
    SortedByKey(items, [item \in items |-> CHOOSE i \in DOMAIN NameOrder : NameOrder[i] = item.name])

SortedObjects(catalog) == SortedByName(ToSet(catalog))
SortedFields(object) == SortedByName(ToSet(object.fields))

-----------------------------------------------------------------------------
\* Statements

VersionsTable == "_engine_schema_versions"
ObjectsTable == "_engine_catalog_objects"
FieldsTable == "_engine_catalog_fields"

\* Probed by load_verified_schema in this order.
MetadataTables == <<VersionsTable, ObjectsTable, FieldsTable>>

CreateTable(name, columns) == [op |-> "create_table", name |-> name, columns |-> columns]
\* Mutant of AddColumn: the REFERENCES clause is not rendered.
AddColumnUnreferenced(table, column) ==
    [op |-> "add_column", table |-> table, column |-> [column EXCEPT !.references = None]]

AddColumn(table, column) == [op |-> "add_column", table |-> table, column |-> column]
CreateIndex(name, table, column) ==
    [op |-> "create_index", name |-> name, table |-> table, column |-> column]
InsertObject(row) == [op |-> "insert_object", row |-> row]
InsertField(row) == [op |-> "insert_field", row |-> row]

VersionRow(number, snapshot) == [number |-> number, snapshot |-> snapshot]

-----------------------------------------------------------------------------
\* Physical names and columns of a catalog

Column(name, affinity, nullable, unique, references) ==
    [name |-> name, affinity |-> affinity, nullable |-> nullable,
     unique |-> unique, references |-> references]

\* Mutant of SqliteAffinity: the schema's own type name as column type.
SchemaTypeAsAffinity(type) == type

SqliteAffinity(type) ==
    CASE type \in {"str", "uuid", "datetime"} -> "TEXT"
      [] type \in {"int64", "bool"}           -> "INTEGER"
      [] type = "float64"                     -> "REAL"

IsMany(field) == field.kind = "link" /\ field.cardinality = "many"
HasColumn(field) == ~IsMany(field)
HasRelationTable(field) == IsMany(field) /\ field.inverse = None

StoredColumnName(field) ==
    IF field.kind = "link" THEN field.name \o "_id" ELSE field.name

\* plan_stored_field: scalars and single links have a column.
StoredColumn(field) ==
    Column(StoredColumnName(field),
           IF field.kind = "link" THEN "TEXT" ELSE SqliteAffinity(field.type),
           field.cardinality # "required",
           field.unique,
           IF field.kind = "link" THEN ToAsciiLowercase(field.type) ELSE None)

IdColumn == Column("id", "TEXT", FALSE, TRUE, None)

ObjectTable(name, fields) ==
    CreateTable(ToAsciiLowercase(name),
                <<IdColumn>> \o Map(StoredColumn, Filter(fields, HasColumn)))

RelationTableName(object, name) == ToAsciiLowercase(object) \o "__" \o name

RelationTables(object, fields) ==
    LET Table(field) ==
            CreateTable(RelationTableName(object, field.name),
                <<Column("source_id", "TEXT", FALSE, FALSE, ToAsciiLowercase(object)),
                  Column("target_id", "TEXT", FALSE, FALSE, ToAsciiLowercase(field.type)),
                  Column("position", "INTEGER", TRUE, FALSE, None)>>)
    IN  Map(Table, Filter(fields, HasRelationTable))

\* plan_field_indexes: one index per stored link column, two per relation table.
FieldIndexes(object, field) ==
    LET IndexOn(table, column) == CreateIndex(table \o "__" \o column \o "_idx", table, column)
        relation == RelationTableName(object, field.name)
    IN  IF field.kind = "scalar" \/ field.inverse # None THEN <<>>
        ELSE IF IsMany(field)
             THEN <<IndexOn(relation, "source_id"), IndexOn(relation, "target_id")>>
             ELSE <<IndexOn(ToAsciiLowercase(object), StoredColumnName(field))>>

Indexes(object, fields) == FlatMap(LAMBDA f : FieldIndexes(object.name, f), fields)

-----------------------------------------------------------------------------
\* plan_initial_schema, in the order of render_initial_schema.  Only the parts
\* of the metadata tables that a statement or a property looks at are kept.

MetadataTablePlans == Map(LAMBDA name : CreateTable(name, <<>>), MetadataTables)

\* target gives the object id of a type name.
ObjectFieldRows(id, fields, target) ==
    <<InsertField(ImplicitIdRow(id))>> \o
    [j \in DOMAIN fields |->
        InsertField(DeclaredFieldRow(id, j + 1, fields[j], target[fields[j].type]))]

InitialStatements(catalog) ==
    LET target == [type \in TypeNames(catalog) |-> TypeId(catalog, type)]
        ids == [i \in DOMAIN catalog |-> i]
    IN  MetadataTablePlans
        \o Map(LAMBDA o : ObjectTable(o.name, o.fields), catalog)
        \o FlatMap(LAMBDA o : RelationTables(o.name, o.fields), catalog)
        \o Map(LAMBDA i : InsertObject(ObjectRow(i, catalog[i].name)), ids)
        \o FlatMap(LAMBDA i : ObjectFieldRows(i, catalog[i].fields, target), ids)
        \o FlatMap(LAMBDA o : Indexes(o, o.fields), catalog)

-----------------------------------------------------------------------------
\* plan_schema_migration

NewObjects(current, desired) ==
    Filter(SortedObjects(desired), LAMBDA o : o.name \notin TypeNames(current))

KeptObjects(current, desired) ==
    Filter(SortedObjects(desired), LAMBDA o : o.name \in TypeNames(current))

AddedFields(current, object) ==
    LET known == FieldNames(FindType(current, object.name))
    IN  Filter(SortedFields(object), LAMBDA f : f.name \notin known)

\* Mutant of MigrationObjectId: ids are positions in the desired catalog.
DesiredPosition(current, desired, name) == TypeId(desired, name)

\* Existing objects keep their id, new ones continue the numbering in name order.
MigrationObjectId(current, desired, name) ==
    IF name \in TypeNames(current) THEN TypeId(current, name)
    ELSE Len(current) + TypeId(NewObjects(current, desired), name)

\* ADD COLUMN for every added field that is stored in the object's own table.
AddedColumns(current, object) ==
    Map(LAMBDA f : AddColumn(ToAsciiLowercase(object.name), StoredColumn(f)),
        Filter(AddedFields(current, object), HasColumn))

\* Mutant of AddedFieldRows: catalog rows only for fields with a column.
StoredFieldRows(current, desired, object) ==
    LET added == Filter(AddedFields(current, object), HasColumn)
        first == Len(FindType(current, object.name).fields) + 1
        Id(name) == MigrationObjectId(current, desired, name)
    IN  [j \in DOMAIN added |->
            InsertField(DeclaredFieldRow(Id(object.name), first + j, added[j], Id(added[j].type)))]

\* Added fields continue the numbering of the object's declared fields.
AddedFieldRows(current, desired, object) ==
    LET added == AddedFields(current, object)
        first == Len(FindType(current, object.name).fields) + 1
        Id(name) == MigrationObjectId(current, desired, name)
    IN  [j \in DOMAIN added |->
            InsertField(DeclaredFieldRow(Id(object.name), first + j, added[j], Id(added[j].type)))]

\* Within every group of statements the new objects come first.
MigrationStatements(current, desired) ==
    LET new == NewObjects(current, desired)
        kept == KeptObjects(current, desired)
        newIds == [i \in DOMAIN new |-> i]
        target == [type \in TypeNames(desired) |-> MigrationObjectId(current, desired, type)]
        Added(o) == AddedFields(current, o)
    IN  Map(LAMBDA o : ObjectTable(o.name, SortedFields(o)), new)
        \o FlatMap(LAMBDA o : RelationTables(o.name, SortedFields(o)), new)
        \o FlatMap(LAMBDA o : RelationTables(o.name, Added(o)), kept)
        \o FlatMap(LAMBDA o : AddedColumns(current, o), kept)
        \o FlatMap(LAMBDA o : Indexes(o, SortedFields(o)), new)
        \o FlatMap(LAMBDA o : Indexes(o, Added(o)), kept)
        \o Map(LAMBDA i : InsertObject(ObjectRow(Len(current) + i, new[i].name)), newIds)
        \o FlatMap(LAMBDA i : ObjectFieldRows(Len(current) + i, SortedFields(new[i]), target), newIds)
        \o FlatMap(LAMBDA o : AddedFieldRows(current, desired, o), kept)

-----------------------------------------------------------------------------
\* validate_schema_migration: what a migration may change.

\* validate_existing_field: a declared field never changes.
SameField(current, desired) ==
    /\ current.kind = desired.kind
    /\ current.type = desired.type
    /\ current.cardinality = desired.cardinality
    /\ current.unique = desired.unique
    /\ current.inverse = desired.inverse

NothingRemovedOrChanged(current, desired) ==
    \A object \in ToSet(current) :
        \E kept \in ToSet(desired) :
            /\ kept.name = object.name
            /\ \A field \in ToSet(object.fields) :
                  \E same \in ToSet(kept.fields) :
                      same.name = field.name /\ SameField(field, same)

\* Mutant of ValidFieldAddition: required fields may be added.
NotUniqueAddition(field) == ~field.unique

\* validate_field_addition: rows of an existing object have no value for it.
ValidFieldAddition(field) == field.cardinality # "required" /\ ~field.unique

\* validate_added_column_name compares exact names with the whole new object.
ColumnNameFree(object, field) ==
    HasColumn(field) =>
        \A other \in ToSet(object.fields) :
            other.name # field.name /\ HasColumn(other) =>
                StoredColumnName(other) # StoredColumnName(field)

AdditionsSupported(current, desired) ==
    \A object \in ToSet(desired) :
        IF object.name \in TypeNames(current)
        THEN \A field \in ToSet(object.fields) :
                field.name \notin FieldNames(FindType(current, object.name)) =>
                    ValidFieldAddition(field) /\ ColumnNameFree(object, field)
        ELSE \A field \in ToSet(object.fields) : ColumnNameFree(object, field)

Supported(current, desired) ==
    /\ NothingRemovedOrChanged(current, desired)
    /\ AdditionsSupported(current, desired)

=============================================================================
