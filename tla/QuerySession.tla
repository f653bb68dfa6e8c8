---------------------------- MODULE QuerySession ----------------------------
(***************************************************************************)
(* Queries against one database: every mutation is resolved, planned and   *)
(* executed as one SQL statement; every select is resolved, planned,       *)
(* executed and shaped into nested objects.  The database holds rows; what *)
(* statements do to it, and what selects make of it, is compared with the  *)
(* graph of objects the rows stand for.                                    *)
(***************************************************************************)
EXTENDS SqlEngine, MutationSession

CONSTANT
    Queries     \* a sequence of parsed selects

\* The graph of objects that filters and selects mean.
Meaning == INSTANCE QueryMeaning

SelectedObjects(graph, q) == Meaning!FilteredObjects(graph, q)
ChosenObjects(graph, q) == Meaning!TakenObjects(graph, q)

-----------------------------------------------------------------------------
\* compile_query

PlannedSelect(query, ir) ==
    [query |-> query, ir |-> ir, plan |-> IF Accepted(ir) THEN PlanSelect(ir) ELSE ir]

\* The queries that are not refused, compiled.
Selects ==
    AcceptedOf([i \in DOMAIN Queries |-> PlannedSelect(Queries[i], ResolveSelect(Queries[i]))])

-----------------------------------------------------------------------------
\* Result shaping

RowValues(env, values) == [i \in DOMAIN values |-> ValueIn(env, values[i])]

\* The result object of a row.  A nested object without an identity is null;
\* a collection holds the follow-up rows of the identity of its owner.
RECURSIVE ShapedObject(_, _, _, _)
ShapedObject(shape, row, fetches, path) ==
    LET Child(fetch, env) ==
            ShapedObject(fetch.shape, <<None>> \o RowValues(env, fetch.values), fetch.followUps, <<>>)
        Collection(name, identity) ==
            LET fetch == fetches[CHOOSE i \in DOMAIN fetches :
                                    fetches[i].parent = path /\ fetches[i].field = name]
                children == FollowUpRows(db, fetch, identity)
                objects == {Child(fetch, env) : env \in children}
            IN  [o \in objects |-> Cardinality({env \in children : Child(fetch, env) = o})]
        FieldValue(field) ==
            CASE field.tag = "value" -> row[field.column]
              [] field.tag = "nested" ->
                    IF row[field.shape.identity] = None THEN None
                    ELSE ShapedObject(field.shape, row, fetches, Append(path, field.name))
              [] field.tag = "collection" -> Collection(field.name, row[shape.identity])
    IN  [name \in {shape.fields[i].name : i \in DOMAIN shape.fields} |->
            FieldValue(shape.fields[CHOOSE i \in DOMAIN shape.fields : shape.fields[i].name = name])]

-----------------------------------------------------------------------------
\* Whatever joins, EXISTS conditions, subselects and order keys a select is
\* compiled to, it returns exactly the objects its filter means, none of them
\* twice, in order and from the offset on.
ReturnsItsObjects(c) ==
    LET rows == SelectRows(db, c.plan)
    IN  Meaning!IsResultOf(Graph, c.query, [k \in DOMAIN rows |-> rows[k][Root].id])

SelectsReturnTheirObjects == Every(Selects, ReturnsItsObjects)

\* Each row becomes the nested object the shape means: columns are read back
\* where they were selected, an absent link is null and not an object of nulls,
\* and every collection holds what its own owner relates to.
NestsItsObjects(c) ==
    \A row \in ToSet(SelectRows(db, c.plan)) :
        ShapedObject(c.plan.shape, RowValues(row, c.plan.values), c.plan.followUps, <<>>)
            = Meaning!Denotation(Graph, row[Root].id, c.query.shape)

ResultsNestObjects == Every(Selects, NestsItsObjects)

\* A computed value the resolver calls required is never null.
RequiredItems(shape) ==
    {k \in DOMAIN shape.items : shape.items[k].tag = "computed" /\ shape.items[k].card = "required"}

HasItsValues(c) ==
    LET required == RequiredItems(c.ir.shape)
    IN  required # {} =>
            \A row \in ToSet(SelectRows(db, c.plan)) : \A k \in required :
                RowValues(row, c.plan.values)[c.plan.shape.fields[k].column] # None

RequiredValuesPresent == Every(Selects, HasItsValues)

\* SQLite prepares every select the resolver accepts: spec/query.md gives
\* select_stmt "limit_clause? offset_clause?", each optional on its own, and the
\* planner's tests let no link take the alias of the root table.
AcceptedSelectsRun == Every(Selects, LAMBDA c : Prepares(db, c.plan))

\* The least of it: some of the selects is refused or runs.  Violated, it shows of
\* each of them that it is accepted and is no statement for SQLite.
SomeAcceptedSelectRuns ==
    \E i \in DOMAIN Queries : i \notin DOMAIN Selects \/ Prepares(db, Selects[i].plan)

=============================================================================
