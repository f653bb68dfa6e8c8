----------------------------- MODULE QueryTables -----------------------------
(***************************************************************************)
(* What queries are compiled against and run on: a catalog with its fields *)
(* by name, and its tables.  The part about rows is external: what SQLite  *)
(* makes of the tables of SchemaPlan.  A database gives every table a set  *)
(* of rows, a row every column a value.  A row of a join is an             *)
(* environment: it gives every table alias a row, or None where a left     *)
(* join found nothing.                                                     *)
(***************************************************************************)
EXTENDS SchemaPlan

CONSTANT Catalog    \* the catalog queries are compiled against

\* A schema that parse_schema returned.
ASSUME CatalogAssumption == Catalog \in Catalogs /\ ValidCatalog(Catalog)

\* A query the resolver refuses has the resolution Rejected.
Rejected == [tag |-> "rejected"]
Accepted(x) == x.tag # "rejected"

\* SchemaCatalog::find_field: declared fields and the implicit id.
IdField == ScalarField("id", "uuid", "required", TRUE)

ByName(fields) == [name \in {f.name : f \in fields} |-> CHOOSE f \in fields : f.name = name]
FieldTable ==
    [type \in TypeNames(Catalog) |->
        ByName({IdField} \cup ToSet(FindType(Catalog, type).fields))]

HasField(type, name) == type \in DOMAIN FieldTable /\ name \in DOMAIN FieldTable[type]
IsLink(field) == field.kind = "link"

\* A string literal is accepted where a uuid or a datetime is expected.
LiteralTypeMatches(expected, actual) ==
    expected = actual \/ (expected \in {"uuid", "datetime"} /\ actual = "str")

-----------------------------------------------------------------------------
\* The tables of the catalog

TableName(type) == ToAsciiLowercase(type)

TablePlans ==
    {ObjectTable(object.name, object.fields) : object \in ToSet(Catalog)}
    \cup UNION {ToSet(RelationTables(object.name, object.fields)) : object \in ToSet(Catalog)}

\* The database has them: no CREATE TABLE of the schema failed, so no name was
\* given to two tables or to two columns of one table.
ASSUME TablesAssumption ==
    /\ \A s, t \in TypeNames(Catalog) : TableName(s) = TableName(t) => s = t
    /\ None \notin {table.name : table \in TablePlans}
    /\ \A table, other \in TablePlans : table.name = other.name => table = other
    /\ \A type \in TypeNames(Catalog) : \A f, g \in ToSet(FindType(Catalog, type).fields) :
          HasRelationTable(f) /\ HasRelationTable(g)
            /\ RelationTableName(type, f.name) = RelationTableName(type, g.name) => f = g
    /\ \A table \in TablePlans : DistinctNames(table.columns)

ColumnsOf ==
    [name \in {table.name : table \in TablePlans} |->
        ToSet((CHOOSE table \in TablePlans : table.name = name).columns)]

ColumnNames(table) == {c.name : c \in ColumnsOf[table]}

IsObjectTable(name) == \E type \in TypeNames(Catalog) : TableName(type) = name

EmptyTables == [name \in DOMAIN ColumnsOf |-> {}]

-----------------------------------------------------------------------------
\* FROM clauses.  A table alias is a sequence of names.

Root == <<"root">>

\* SQLite prepares one whose tables exist and no two of them have one alias.
FromPrepares(db, table, alias, joins) ==
    /\ table \in DOMAIN db
    /\ \A i \in DOMAIN joins : joins[i].table \in DOMAIN db /\ joins[i].alias # alias
    /\ \A i, j \in DOMAIN joins : joins[i].alias = joins[j].alias => i = j

ColumnValue(env, alias, column) == IF env[alias] = None THEN None ELSE env[alias][column]

\* One join: every match of every environment, or None once if it is a left join.
JoinOne(db, envs, join) ==
    UNION {LET key == ColumnValue(env, join.left, join.leftColumn)
               matches == IF key = None THEN {}
                          ELSE {row \in db[join.table] : row[join.column] = key}
               found == IF matches = {} /\ join.kind = "left" THEN {None} ELSE matches
           IN  {(join.alias :> row) @@ env : row \in found} : env \in envs}

JoinAll(db, envs, joins) ==
    LET after[i \in 0 .. Len(joins)] ==
            IF i = 0 THEN envs ELSE JoinOne(db, after[i - 1], joins[i])
    IN  after[Len(joins)]

-----------------------------------------------------------------------------
\* Constraints.  Null is unique and references nothing.

ConstraintsHold(db) ==
    \A table \in DOMAIN db : \A c \in ColumnsOf[table] : \A row \in db[table] :
        /\ row[c.name] = None => c.nullable
        /\ c.unique /\ row[c.name] # None =>
              \A other \in db[table] : other[c.name] = row[c.name] => other = row
        /\ c.references # None /\ row[c.name] # None =>
              \E target \in db[c.references] : target.id = row[c.name]

\* A statement that would break a constraint changes nothing.
Checked(db, changed) == IF ConstraintsHold(changed) THEN changed ELSE db

\* A row with the values of set in their columns.
Assigning(set, row) ==
    [column \in DOMAIN set \cup DOMAIN row |-> IF column \in DOMAIN set THEN set[column] ELSE row[column]]

Rewritten(rows, changed, set) == (rows \ changed) \cup {Assigning(set, row) : row \in changed}

\* Rows of other objects that hold the id in a link column.
RestrictingRows(db, table, id) ==
    UNION {{row \in db[t] : row.id # id /\ \E c \in ColumnsOf[t] :
                c.references = table /\ row[c.name] = id} :
           t \in {name \in DOMAIN db : IsObjectTable(name)}}

\* ON DELETE RESTRICT is checked row by row, in an order SQLite chooses: the
\* statement can succeed if some order deletes every row after the rows that
\* refer to it, and can fail if some row is referred to at all.  Rows of
\* relation tables go with the objects they relate.
WithoutRows(db, table, rows) ==
    LET ids == {r.id : r \in rows}
        Survives(t, row) ==
            \/ IsObjectTable(t)
            \/ \A c \in ColumnsOf[t] : c.references = table => row[c.name] \notin ids
    IN  [t \in DOMAIN db |->
            IF t = table THEN db[t] \ rows ELSE {row \in db[t] : Survives(t, row)}]

\* No order of deleting the rows passes some of them.
Stuck(rows, others) ==
    \E C \in (SUBSET rows) \ {{}} : \A r \in C : \E row \in others[r] : row \notin rows \ C

OutcomesOfDeleting(db, table, rows, others) ==
    (IF Stuck(rows, others) THEN {} ELSE {WithoutRows(db, table, rows)})
    \cup (IF \E r \in rows : others[r] # {} THEN {db} ELSE {})

DeleteRows(db, table, rows) ==
    OutcomesOfDeleting(db, table, rows, [r \in rows |-> RestrictingRows(db, table, r.id)])

=============================================================================
