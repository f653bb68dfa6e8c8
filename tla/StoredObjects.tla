---------------------------- MODULE StoredObjects ----------------------------
(***************************************************************************)
(* The rows of a database, the graph of objects they stand for, and what   *)
(* the mutations that are made of it promise.                              *)
(***************************************************************************)
EXTENDS QueryTables

CONSTANTS
    IdsOf,      \* gives every type the sequence of ids its objects may get
    Mutations,  \* a sequence of parsed inserts, updates and deletes
    Selected(_, _),     \* the objects of a graph that the filter of a mutation means
    Chosen(_, _)        \* the objects of a graph that a select means

\* Ids are uuids: no two types share one.
ASSUME IdsAssumption ==
    \A type \in TypeNames(Catalog) :
        /\ None \notin ToSet(IdsOf[type])
        /\ \A other \in TypeNames(Catalog) :
              other # type => ToSet(IdsOf[other]) \cap ToSet(IdsOf[type]) = {}

\* What the parser returns.
IsParsedMutation(q) ==
    /\ q.tag \in {"insert", "update", "delete"}
    /\ q.assignments \in Seq(ToSet(q.assignments))
    /\ \A a \in ToSet(q.assignments) : a.value.tag \in {"null", "literal", "select"}

ASSUME MutationsAssumption == \A i \in DOMAIN Mutations : IsParsedMutation(Mutations[i])

VARIABLE db

-----------------------------------------------------------------------------
\* The graph of objects that rows stand for

\* The ids a row of a relation table relates the row of an object to.
RelatedIds(d, type, row, field) ==
    {r.target_id : r \in {r \in d[RelationTableName(type, field.name)] : r.source_id = row.id}}

StoredValue(d, type, row, field) ==
    IF IsMany(field) THEN RelatedIds(d, type, row, field) ELSE row[StoredColumnName(field)]

StoredFieldNames(type) ==
    {f.name : f \in {g \in ToSet(FindType(Catalog, type).fields) : g.inverse = None}}

ObjectOf(d, type, row) ==
    [type |-> type,
     fields |-> [name \in StoredFieldNames(type) |-> StoredValue(d, type, row, FieldTable[type][name])]]

\* The rows of objects, each with its type.
ObjectRows(d) ==
    UNION {{<<type, row>> : row \in d[TableName(type)]} : type \in TypeNames(Catalog)}

GraphOf(d) ==
    LET stored == ObjectRows(d)
    IN  [id \in {p[2].id : p \in stored} |->
            LET p == CHOOSE p \in stored : p[2].id = id IN ObjectOf(d, p[1], p[2])]

Graph == GraphOf(db)

Contract == INSTANCE MutationContract
    WITH graph <- Graph, Ids <- [type \in TypeNames(Catalog) |-> ToSet(IdsOf[type])]

-----------------------------------------------------------------------------
\* Type invariant: statements write the columns their table has and no others,
\* objects have ids of their type, and the constraints hold.
TypeOK ==
    /\ DOMAIN db = DOMAIN ColumnsOf
    /\ \A t \in DOMAIN db : \A row \in db[t] : DOMAIN row = ColumnNames(t)
    /\ \A type \in TypeNames(Catalog) : \A row \in db[TableName(type)] : row.id \in ToSet(IdsOf[type])
    /\ ConstraintsHold(db)

\* Every statement changes the objects as a whole, in the way it means.
ImplementsObjectGraph == Contract!Spec

=============================================================================
