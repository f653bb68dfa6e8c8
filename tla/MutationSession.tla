--------------------------- MODULE MutationSession ---------------------------
(***************************************************************************)
(* Inserts, updates and deletes: each is resolved, planned and executed as *)
(* one SQL statement on the stored rows.  How the filters and the selects  *)
(* in them are resolved, planned and run is given by constants, so that    *)
(* what is true here is true whatever a filter or a select finds; for TLC  *)
(* they are the definitions of the other query modules.                    *)
(***************************************************************************)
EXTENDS StoredObjects

CONSTANTS
    SelectResolution(_),                \* a parsed select: QueryResolver
    FilterResolution(_, _),             \* a parsed filter of a type
    SelectPlan(_),                      \* a resolved select: QueryPlan
    FilterPlan(_),                      \* the joins and the condition of a filter
    ConditionValue(_, _, _),            \* a condition on a row of a join: SqlEngine
    FoundValues(_, _),                  \* what a planned select finds
    SelectPrepares(_, _),               \* whether SQLite prepares a select
    FilterConditionPrepares(_, _)       \* or a condition

-----------------------------------------------------------------------------
\* Resolution

ProjectsId(shape) ==
    Len(shape.items) = 1 /\ shape.items[1].tag = "field" /\ shape.items[1].name = "id"

IsUniqueLookup(value) ==
    /\ value.tag = "path"
    /\ Len(value.steps) = 1
    /\ FieldTable[value.steps[1].owner][value.steps[1].field].unique

\* Mutant of HasUniqueLiteralFilter: any comparison with a literal will do.
HasLiteralFilter(filter) ==
    /\ filter.tag = "compare"
    /\ filter.left.tag = "literal" \/ filter.right.tag = "literal"

\* The accepted proof that a select yields at most one row.
HasUniqueLiteralFilter(filter) ==
    /\ filter.tag = "compare"
    /\ filter.op = "="
    /\ \/ IsUniqueLookup(filter.left) /\ filter.right.tag = "literal"
       \/ IsUniqueLookup(filter.right) /\ filter.left.tag = "literal"

\* A select of the ids of the objects a link may lead to.
SelectsTargets(field, select) ==
    IsLink(field) /\ Accepted(select) /\ select.type = field.type /\ ProjectsId(select.shape)

MultiLinkValue(field, a, select) ==
    IF a.op # ":=" /\ SelectsTargets(field, select)
    THEN [tag |-> "link_set", select |-> select] ELSE Rejected

SingleLinkValue(field, select) ==
    IF SelectsTargets(field, select) /\ HasUniqueLiteralFilter(select.filter)
    THEN [tag |-> "link_select", select |-> select] ELSE Rejected

LiteralValue(field, value) ==
    IF \/ IsLink(field) /\ value.type = "str"
       \/ ~IsLink(field) /\ LiteralTypeMatches(field.type, value.type)
    THEN [tag |-> "literal", value |-> value.value] ELSE Rejected

\* The value of an assignment to a field, by kind of field and value; select is
\* the resolution of a value that is one.
AssignedValue(field, a, select) ==
    CASE IsMany(field) -> MultiLinkValue(field, a, select)
      [] ~IsMany(field) /\ a.op # ":=" -> Rejected
      [] ~IsMany(field) /\ a.op = ":=" ->
            CASE a.value.tag = "null" ->
                    IF field.cardinality = "optional" THEN [tag |-> "null"] ELSE Rejected
              [] a.value.tag = "literal" -> LiteralValue(field, a.value)
              [] a.value.tag = "select" -> SingleLinkValue(field, select)

\* Inverse links and the id cannot be assigned.
ResolveAssignment(type, a) ==
    IF HasField(type, a.field) /\ a.field # "id" /\ FieldTable[type][a.field].inverse = None
    THEN [tag |-> "assignment", field |-> FieldTable[type][a.field], op |-> a.op,
          value |-> AssignedValue(FieldTable[type][a.field], a,
                        IF a.value.tag = "select" THEN SelectResolution(a.value) ELSE Rejected)]
    ELSE Rejected

ResolveAssignments(q) ==
    [i \in DOMAIN q.assignments |-> ResolveAssignment(q.type, q.assignments[i])]

AssignmentsAccepted(q, resolved) ==
    /\ \A i \in DOMAIN resolved : Accepted(resolved[i]) /\ Accepted(resolved[i].value)
    /\ \A i, j \in DOMAIN q.assignments :
          q.assignments[i].field = q.assignments[j].field => i = j

AcceptedInsert(q, insert) ==
    IF /\ \A i \in DOMAIN q.assignments : q.assignments[i].op = ":="
       /\ AssignmentsAccepted(q, insert.assignments)
       /\ \A field \in ToSet(FindType(Catalog, q.type).fields) :
             field.cardinality = "required" =>
                \E i \in DOMAIN q.assignments : q.assignments[i].field = field.name
    THEN insert ELSE Rejected

AcceptedUpdate(q, update) ==
    IF /\ q.assignments # <<>>
       /\ Len(q.assignments) = 1 \/ \A i \in DOMAIN q.assignments : q.assignments[i].op = ":="
       /\ Accepted(update.filter)
       /\ AssignmentsAccepted(q, update.assignments)
    THEN update ELSE Rejected

AcceptedDelete(delete) == IF Accepted(delete.filter) THEN delete ELSE Rejected

ResolveMutation(q) ==
    IF q.type \notin TypeNames(Catalog) THEN Rejected
    ELSE CASE q.tag = "insert" ->
                AcceptedInsert(q, [tag |-> "insert", type |-> q.type,
                                   assignments |-> ResolveAssignments(q)])
           [] q.tag = "update" ->
                AcceptedUpdate(q, [tag |-> "update", type |-> q.type,
                                   filter |-> FilterResolution(q.type, q.filter),
                                   assignments |-> ResolveAssignments(q)])
           [] q.tag = "delete" ->
                AcceptedDelete([tag |-> "delete", type |-> q.type,
                                filter |-> FilterResolution(q.type, q.filter)])

-----------------------------------------------------------------------------
\* Plans

\* Mutant of PlanAssignment: a link is written to a column of its own name.
PlanAssignmentByName(a) ==
    [column |-> a.field.name,
     value |-> CASE a.value.tag = "null" -> [tag |-> "bind", value |-> None]
                 [] a.value.tag = "literal" -> [tag |-> "bind", value |-> a.value.value]
                 [] a.value.tag = "link_select" ->
                        [tag |-> "select", select |-> SelectPlan(a.value.select)]]

PlanAssignment(a) ==
    [column |-> StoredColumnName(a.field),
     value |-> CASE a.value.tag = "null" -> [tag |-> "bind", value |-> None]
                 [] a.value.tag = "literal" -> [tag |-> "bind", value |-> a.value.value]
                 [] a.value.tag = "link_select" ->
                        [tag |-> "select", select |-> SelectPlan(a.value.select)]]

PlanInsert(ir) ==
    [tag |-> "insert", table |-> TableName(ir.type),
     assignments |-> [i \in DOMAIN ir.assignments |-> PlanAssignment(ir.assignments[i])]]

IdItem == [tag |-> "field", name |-> "id", card |-> "required", child |-> None]

IdOnly(type, filter) ==
    [tag |-> "select", type |-> type, filter |-> filter, order |-> <<>>,
     shape |-> [tag |-> "shape", type |-> type, items |-> <<IdItem>>],
     limit |-> None, offset |-> None]

\* Mutant of PlanUpdate: the two selects of a multi link are swapped.
PlanUpdateSwapped(ir) ==
    LET first == ir.assignments[1]
    IN  IF first.op # ":="
        THEN [tag |-> "link_set", add |-> first.op = "+=",
              table |-> RelationTableName(ir.type, first.field.name),
              sources |-> SelectPlan(first.value.select),
              targets |-> SelectPlan(IdOnly(ir.type, ir.filter))]
        ELSE [tag |-> "update", table |-> TableName(ir.type), filter |-> FilterPlan(ir.filter),
              assignments |-> [i \in DOMAIN ir.assignments |-> PlanAssignment(ir.assignments[i])]]

\* Every row of the sources is linked to, or unlinked from, every target.
PlanUpdate(ir) ==
    LET first == ir.assignments[1]
    IN  IF first.op # ":="
        THEN [tag |-> "link_set", add |-> first.op = "+=",
              table |-> RelationTableName(ir.type, first.field.name),
              sources |-> SelectPlan(IdOnly(ir.type, ir.filter)),
              targets |-> SelectPlan(first.value.select)]
        ELSE [tag |-> "update", table |-> TableName(ir.type), filter |-> FilterPlan(ir.filter),
              assignments |-> [i \in DOMAIN ir.assignments |-> PlanAssignment(ir.assignments[i])]]

PlanDelete(ir) ==
    [tag |-> "delete", table |-> TableName(ir.type), filter |-> FilterPlan(ir.filter)]

\* compile_query
PlanMutation(ir) ==
    CASE ir.tag = "insert" -> PlanInsert(ir)
      [] ir.tag = "update" -> PlanUpdate(ir)
      [] ir.tag = "delete" -> PlanDelete(ir)
      [] OTHER -> ir

PlannedMutation(query, ir) == [query |-> query, ir |-> ir, plan |-> PlanMutation(ir)]

Compiled == [i \in DOMAIN Mutations |-> PlannedMutation(Mutations[i], ResolveMutation(Mutations[i]))]

\* The queries that are not refused.
AcceptedOf(compiled) == [i \in {j \in DOMAIN compiled : Accepted(compiled[j].ir)} |-> compiled[i]]

Every(compiled, Holds(_)) == \A i \in DOMAIN compiled : Holds(compiled[i])

Changes == AcceptedOf(Compiled)

-----------------------------------------------------------------------------
\* External: which statements SQLite prepares.

ValuesPrepare(assignments) ==
    \A i \in DOMAIN assignments :
        assignments[i].value.tag = "select" => SelectPrepares(db, assignments[i].value.select)

FilterPrepares(stmt) ==
    /\ FromPrepares(db, stmt.table, Root, stmt.filter.joins)
    /\ FilterConditionPrepares(db, stmt.filter.where)

StatementPrepares(stmt) ==
    CASE stmt.tag = "insert" -> ValuesPrepare(stmt.assignments)
      [] stmt.tag = "update" -> FilterPrepares(stmt) /\ ValuesPrepare(stmt.assignments)
      [] stmt.tag = "link_set" -> SelectPrepares(db, stmt.sources) /\ SelectPrepares(db, stmt.targets)
      [] stmt.tag = "delete" -> FilterPrepares(stmt)

-----------------------------------------------------------------------------
\* The rows after a statement

\* A subselect that finds nothing is null.
FirstValue(values) == IF values = <<>> THEN None ELSE values[1]

AssignedIn(value) ==
    IF value.tag = "bind" THEN value.value ELSE FirstValue(FoundValues(db, value.select))

\* The columns set by assignments; the last one of a column wins.
LastOf(assignments, column) ==
    CHOOSE i \in DOMAIN assignments :
        /\ assignments[i].column = column
        /\ \A j \in DOMAIN assignments : assignments[j].column = column => j <= i

SetColumns(assignments) ==
    [column \in {assignments[i].column : i \in DOMAIN assignments} |->
        AssignedIn(assignments[LastOf(assignments, column)].value)]

InsertRow(stmt, id) ==
    LET nulls == [name \in ColumnNames(stmt.table) |-> None]
        row == Assigning([id |-> id], Assigning(SetColumns(stmt.assignments), nulls))
    IN  Checked(db, [db EXCEPT ![stmt.table] = @ \cup {row}])

\* The rows whose id the filter's subselect finds.
FilteredIds(stmt) ==
    {env[Root].id : env \in
        {e \in JoinAll(db, {(Root :> row) : row \in db[stmt.table]}, stmt.filter.joins) :
            ConditionValue(db, e, stmt.filter.where) = "true"}}

FilteredRows(stmt) == LET ids == FilteredIds(stmt) IN {row \in db[stmt.table] : row.id \in ids}

UpdateRows(stmt) ==
    Checked(db, [db EXCEPT ![stmt.table] =
        Rewritten(@, FilteredRows(stmt), SetColumns(stmt.assignments))])

\* INSERT ... ON CONFLICT DO NOTHING and DELETE on a relation table.
Linked(stmt) ==
    {[source_id |-> s, target_id |-> t, position |-> None] :
        s \in ToSet(FoundValues(db, stmt.sources)), t \in ToSet(FoundValues(db, stmt.targets))}

Relates(stmt, row) ==
    /\ row.source_id \in ToSet(FoundValues(db, stmt.sources))
    /\ row.target_id \in ToSet(FoundValues(db, stmt.targets))

LinkRows(stmt) ==
    Checked(db, [db EXCEPT ![stmt.table] =
        IF stmt.add THEN @ \cup Linked(stmt) ELSE {row \in @ : ~Relates(stmt, row)}])

-----------------------------------------------------------------------------
\* A new object gets the next id that no object has.
FreshPlaces(type) ==
    {i \in DOMAIN IdsOf[type] : \A row \in db[TableName(type)] : row.id # IdsOf[type][i]}

NextIds(type) ==
    {IdsOf[type][i] : i \in {i \in FreshPlaces(type) : \A j \in FreshPlaces(type) : i <= j}}

Executed(c) ==
    CASE c.plan.tag = "insert" -> {InsertRow(c.plan, id) : id \in NextIds(c.query.type)}
      [] c.plan.tag = "update" -> {UpdateRows(c.plan)}
      [] c.plan.tag = "link_set" -> {LinkRows(c.plan)}
      [] c.plan.tag = "delete" -> DeleteRows(db, c.plan.table, FilteredRows(c.plan))

\* A statement SQLite does not prepare changes nothing.
Outcomes(c) == IF StatementPrepares(c.plan) THEN Executed(c) ELSE {db}

Insert(c) == c.plan.tag = "insert" /\ db' \in Outcomes(c)
Update(c) == c.plan.tag = "update" /\ db' \in Outcomes(c)
LinkSet(c) == c.plan.tag = "link_set" /\ db' \in Outcomes(c)
Delete(c) == c.plan.tag = "delete" /\ db' \in Outcomes(c)

Mutate(c) == Insert(c) \/ Update(c) \/ LinkSet(c) \/ Delete(c)

Init == db = EmptyTables
Next == \E i \in DOMAIN Changes : Mutate(Changes[i])
Spec == Init /\ [][Next]_db

-----------------------------------------------------------------------------
\* The rows of the filter are those of the objects it means, selects find the
\* objects they mean, a select assigned to a single link at most one: the
\* accepted filter alone rules out a second one, whatever the database holds.
FindsWhatItFilters(c) ==
    {row.id : row \in FilteredRows(c.plan)} = Selected(Graph, c.query)

FindsWhatItRelates(c) ==
    LET select == c.ir.assignments[1].value.select
        sources == ToSet(FoundValues(db, c.plan.sources))
        targets == ToSet(FoundValues(db, c.plan.targets))
    IN  /\ sources = Selected(Graph, c.query) /\ sources \subseteq Contract!Objects(Graph, c.query.type)
        /\ targets = Chosen(Graph, c.query.assignments[1].value)
        /\ targets \subseteq Contract!Objects(Graph, select.type)

FindsWhatItAssigns(c) ==
    \A i \in DOMAIN c.plan.assignments :
        c.plan.assignments[i].value.tag = "select" =>
            LET found == FoundValues(db, c.plan.assignments[i].value.select)
                chosen == Chosen(Graph, c.query.assignments[i].value)
            IN  ToSet(found) = chosen /\ found \in {<<>>} \cup {<<x>> : x \in chosen}

FindsItsObjects(c) ==
    /\ StatementPrepares(c.plan)
    /\ c.plan.tag \in {"update", "delete"} => FindsWhatItFilters(c)
    /\ c.plan.tag \in {"insert", "update"} => FindsWhatItAssigns(c)
    /\ c.plan.tag = "link_set" => FindsWhatItRelates(c)

MutationsFindTheirObjects == Every(Changes, FindsItsObjects)

\* A statement that changes nothing had no effect to make, or one that a
\* required field, a unique field or a link in use forbids.
JustifiesRefusal(c) ==
    db \in Outcomes(c) =>
        Graph \in Contract!Effects(Graph, c.query) \/ Contract!MayBeRefused(Graph, c.query)

RefusalsAreJustified == Every(Changes, JustifiesRefusal)

=============================================================================
