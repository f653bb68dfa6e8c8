------------------------------ MODULE QueryPlan ------------------------------
(***************************************************************************)
(* sqlite-query-plan and sqlite-query-sqlgen: the SQL statement of a       *)
(* resolved query as a tree of joins, value expressions and conditions.    *)
(* Rendering it to text keeps the tree, so the text is left out; what is   *)
(* kept of the renderer is the order of the selected columns and the form  *)
(* of each statement.                                                      *)
(*                                                                         *)
(* A table alias is a sequence of names.  The aliases the planner takes    *)
(* from the query (`root` and the names of links) have one; the names it   *)
(* invents by counting have more, and two of them are equal exactly when   *)
(* the planner's cache would return the same name.                         *)
(***************************************************************************)
EXTENDS QueryResolver

PathAlias(source, path) == source \o <<"/">> \o path
RelationAlias(target) == target \o <<"*">>
NestedAlias(path) == <<"/">> \o path
FollowUpAlias(table) == <<"follow", table>>

ColumnOf(alias, column) == [tag |-> "column", alias |-> alias, column |-> column]

-----------------------------------------------------------------------------
\* Joins.  On is the equality left.leftColumn = alias.column.

Join(kind, left, leftColumn, table, alias, column) ==
    [kind |-> kind, left |-> left, leftColumn |-> leftColumn,
     table |-> table, alias |-> alias, column |-> column]

LinkColumn(name) == name \o "_id"

\* Mutant of SingleLinkJoin: only the step itself decides the kind of join.
SingleLinkJoinOfStep(card, nullable) ==
    IF card = "optional" THEN "left" ELSE "inner"

\* Once a row may be absent every later single link is a left join.
SingleLinkJoin(card, nullable) ==
    IF nullable \/ card = "optional" THEN "left" ELSE "inner"

\* dedup_joins keeps the first of equal joins.
DedupJoins(joins) ==
    LET first == {i \in DOMAIN joins : \A j \in 1 .. i - 1 : joins[j] # joins[i]}
    IN  [k \in 1 .. Cardinality(first) |->
            joins[CHOOSE i \in first : Cardinality({j \in first : j <= i}) = k]]

\* Where the children of a relation are found from the id of the parent: a
\* foreign key of the child's own table, or two columns of a relation table.
RelationSource(via) ==
    IF via.inverse /\ via.card # "many"
    THEN [table |-> None, parent |-> LinkColumn(via.field), child |-> "id"]
    ELSE [table |-> RelationTableName(via.owner, via.field),
          parent |-> IF via.inverse THEN "target_id" ELSE "source_id",
          child |-> IF via.inverse THEN "source_id" ELSE "target_id"]

-----------------------------------------------------------------------------
\* plan_resolved_path and plan_link_path_step

\* A path of the outer query names its first table after the link.
StepAlias(source, path) ==
    IF source = Root /\ path # Root THEN path ELSE PathAlias(source, path)

\* The joins of one link step from the alias source.
ManyStepJoins(step, source, target) ==
    LET relation == RelationSource(step.via)
    IN  IF relation.table = None
        THEN <<Join("inner", source, "id", TableName(step.type), target, relation.parent)>>
        ELSE <<Join("inner", source, "id", relation.table, RelationAlias(target), relation.parent),
               Join("inner", RelationAlias(target), relation.child,
                    TableName(step.type), target, "id")>>

SingleStepJoins(step, source, target, nullable) ==
    <<Join(SingleLinkJoin(step.card, nullable), source, LinkColumn(step.via.field),
           TableName(step.type), target, "id")>>

\* After all link steps of a path: the alias reached, whether its row may be
\* absent, and the joins on the way.
PlanSteps(steps, source, nullable) ==
    LET after[i \in 0 .. Len(steps)] ==
            IF i = 0 THEN [alias |-> source, nullable |-> nullable, joins |-> <<>>]
            ELSE LET before == after[i - 1]
                     step == steps[i]
                     names == [j \in 1 .. i |-> steps[j].field]
                     target == StepAlias(before.alias, names)
                 IN  IF step.kind = "scalar" THEN before
                     ELSE IF step.card = "many"
                     THEN [alias |-> target, nullable |-> FALSE,
                           joins |-> before.joins \o ManyStepJoins(step, before.alias, target)]
                     ELSE [alias |-> target,
                           nullable |-> before.nullable \/ step.card = "optional",
                           joins |-> before.joins
                                \o SingleStepJoins(step, before.alias, target, before.nullable)]
    IN  after[Len(steps)]

PathColumn(steps, source, nullable) ==
    ColumnOf(PlanSteps(steps, source, nullable).alias, Last(steps).field)

-----------------------------------------------------------------------------
\* plan_value_expr

RECURSIVE PlanValue(_, _, _), ValueJoins(_, _, _)
PlanValue(value, source, nullable) ==
    CASE value.tag = "path" -> PathColumn(value.steps, source, nullable)
      [] value.tag \in {"literal", "null"} -> [tag |-> "bind", value |-> value.value]
      [] value.tag = "arithmetic" ->
            [tag |-> "arithmetic", op |-> value.op,
             left |-> PlanValue(value.left, source, nullable),
             right |-> PlanValue(value.right, source, nullable)]
      [] value.tag = "negate" ->
            [tag |-> "negate", operand |-> PlanValue(value.operand, source, nullable)]
      [] value.tag = "call" ->
            [tag |-> "call", name |-> value.name,
             args |-> [i \in DOMAIN value.args |-> PlanValue(value.args[i], source, nullable)]]

ValueJoins(value, source, nullable) ==
    CASE value.tag = "path" -> PlanSteps(value.steps, source, nullable).joins
      [] value.tag \in {"literal", "null"} -> <<>>
      [] value.tag = "arithmetic" ->
            ValueJoins(value.left, source, nullable) \o ValueJoins(value.right, source, nullable)
      [] value.tag = "negate" -> ValueJoins(value.operand, source, nullable)
      [] value.tag = "call" ->
            FlattenSeq([i \in DOMAIN value.args |-> ValueJoins(value.args[i], source, nullable)])

-----------------------------------------------------------------------------
\* plan_where_expr

Correlated(type, alias, source, joins, condition) ==
    [tag |-> "exists", table |-> TableName(type), alias |-> alias, joins |-> DedupJoins(joins),
     condition |->
        [tag |-> "and",
         left |-> [tag |-> "compare", left |-> ColumnOf(alias, "id"), op |-> "=",
                   right |-> ColumnOf(source, "id")],
         right |-> condition]]

ExistsRoot == <<"__gelite_exists_root">>
ScopeRoot == <<"__gelite_scope_root">>

\* The test a match of a multi path must pass.
ExistsCondition(e) ==
    LET column == PathColumn(e.path.steps, ExistsRoot, FALSE)
        bind == [tag |-> "bind", value |-> e.literal.value]
    IN  IF e.literal.tag = "null"
        THEN [tag |-> "is_null", value |-> column, negated |-> e.op = "!="]
        ELSE [tag |-> "compare", left |-> IF e.pathOnLeft THEN column ELSE bind, op |-> e.op,
              right |-> IF e.pathOnLeft THEN bind ELSE column]

RECURSIVE PlanWhere(_, _), WhereJoins(_, _), PlanSelect(_)

PlanExistsComparison(e, source) ==
    Correlated(e.path.steps[1].owner, ExistsRoot, source,
               PlanSteps(e.path.steps, ExistsRoot, FALSE).joins, ExistsCondition(e))

PlanScoped(e, source) ==
    LET target == PlanSteps(e.steps, ScopeRoot, FALSE)
    IN  Correlated(e.steps[1].owner, ScopeRoot, source,
                   target.joins \o WhereJoins(e.body, target.alias), PlanWhere(e.body, target.alias))

PlanWhere(e, source) ==
    CASE e.tag = "all" -> e
      [] e.tag = "compare" ->
            [e EXCEPT !.left = PlanValue(e.left, source, FALSE), !.right = PlanValue(e.right, source, FALSE)]
      [] e.tag = "is_null" -> [e EXCEPT !.value = PlanValue(e.value, source, FALSE)]
      [] e.tag \in {"and", "or"} ->
            [e EXCEPT !.left = PlanWhere(e.left, source), !.right = PlanWhere(e.right, source)]
      [] e.tag = "not" -> [e EXCEPT !.inner = PlanWhere(e.inner, source)]
      [] e.tag = "in_list" ->
            [e EXCEPT !.left = PlanValue(e.left, source, FALSE),
                      !.items = [i \in DOMAIN e.items |-> PlanValue(e.items[i], source, FALSE)]]
      [] e.tag = "in_select" ->
            [e EXCEPT !.left = PlanValue(e.left, source, FALSE), !.select = PlanSelect(e.select)]
      [] e.tag = "exists_comparison" -> PlanExistsComparison(e, source)
      [] e.tag = "exists" -> PlanScoped(e, source)

\* The joins a condition adds to the statement it stands in: EXISTS and
\* subselects have their own.
WhereJoins(e, source) ==
    CASE e.tag = "compare" -> ValueJoins(e.left, source, FALSE) \o ValueJoins(e.right, source, FALSE)
      [] e.tag = "is_null" -> ValueJoins(e.value, source, FALSE)
      [] e.tag \in {"and", "or"} -> WhereJoins(e.left, source) \o WhereJoins(e.right, source)
      [] e.tag = "not" -> WhereJoins(e.inner, source)
      [] e.tag \in {"in_list", "in_select"} -> ValueJoins(e.left, source, FALSE)
      [] OTHER -> <<>>

-----------------------------------------------------------------------------
\* Aliases of selected single links.  A shape path is the sequence of field
\* names that leads to a nested shape.

IsNested(item) == item.tag = "field" /\ item.child # None /\ item.card # "many"
IsCollection(item) == item.tag = "field" /\ item.child # None /\ item.card = "many"

\* The shape paths of all nested single links, outermost first.
RECURSIVE NestedPaths(_, _)
NestedPaths(shape, path) ==
    FlattenSeq([i \in DOMAIN shape.items |->
        LET item == shape.items[i]
        IN  IF IsNested(item)
            THEN <<Append(path, item.name)>> \o NestedPaths(item.child, Append(path, item.name))
            ELSE <<>>])

RECURSIVE ValuePaths(_), WherePaths(_)
ValuePaths(value) ==
    CASE value.tag = "path" -> {value.steps}
      [] value.tag = "arithmetic" -> ValuePaths(value.left) \cup ValuePaths(value.right)
      [] value.tag = "negate" -> ValuePaths(value.operand)
      [] value.tag = "call" -> UNION {ValuePaths(value.args[i]) : i \in DOMAIN value.args}
      [] OTHER -> {}

WherePaths(e) ==
    CASE e.tag = "compare" -> ValuePaths(e.left) \cup ValuePaths(e.right)
      [] e.tag = "is_null" -> ValuePaths(e.value)
      [] e.tag \in {"in_list", "in_select"} -> ValuePaths(e.left)
      [] e.tag \in {"and", "or"} -> WherePaths(e.left) \cup WherePaths(e.right)
      [] e.tag = "not" -> WherePaths(e.inner)
      [] OTHER -> {}

ComputedPaths(shape) ==
    UNION {ValuePaths(shape.items[i].value) : i \in {j \in DOMAIN shape.items : shape.items[j].tag = "computed"}}

\* root_path_aliases: the links that paths of the outer query start with.
RootPathAliases(paths) == {<<steps[1].field>> : steps \in {s \in paths : s[1].kind = "link"}}

\* Mutant of SelectedAliases: nested links keep their own names.
SelectedAliasesUnchecked(shape, rootPaths) ==
    LET paths == NestedPaths(shape, <<>>)
    IN  [path \in ToSet(paths) |-> <<Last(path)>>]

\* A link is aliased by its name; a nested one only while no other table of
\* the statement has that name.
SelectedAliases(shape, rootPaths) ==
    LET paths == NestedPaths(shape, <<>>)
        outer == {path \in ToSet(paths) : Len(path) = 1}
        taken == {Root} \cup RootPathAliases(rootPaths) \cup outer
        after[i \in 0 .. Len(paths)] ==
            IF i = 0 THEN [used |-> taken, alias |-> <<>>]
            ELSE LET before == after[i - 1]
                     name == <<Last(paths[i])>>
                     alias == IF Len(paths[i]) > 1 /\ name \in before.used
                              THEN NestedAlias(paths[i]) ELSE name
                 IN  [used |-> before.used \cup {alias},
                      alias |-> Append(before.alias, alias)]
    IN  [path \in ToSet(paths) |->
            after[Len(paths)].alias[CHOOSE i \in DOMAIN paths : paths[i] = path]]

-----------------------------------------------------------------------------
\* The selected columns, their joins and the shape that reads them back.

RECURSIVE ShapeValues(_, _, _, _, _), ShapeValueJoins(_, _, _, _, _), ShapeJoins(_, _, _, _, _)

\* For every item f the result of f, in order.
ItemsMap(F(_), shape) == FlattenSeq([i \in DOMAIN shape.items |-> F(shape.items[i])])

ShapeValues(shape, source, nullable, path, aliases) ==
    ItemsMap(LAMBDA item :
        IF item.tag = "computed" THEN <<PlanValue(item.value, source, nullable)>>
        ELSE IF IsCollection(item) THEN <<>>
        ELSE IF IsNested(item)
        THEN LET inner == Append(path, item.name)
             IN  <<ColumnOf(aliases[inner], "id")>>
                 \o ShapeValues(item.child, aliases[inner], nullable \/ item.card = "optional", inner, aliases)
        ELSE <<ColumnOf(source, item.name)>>, shape)

ShapeValueJoins(shape, source, nullable, path, aliases) ==
    ItemsMap(LAMBDA item :
        IF item.tag = "computed" THEN ValueJoins(item.value, source, nullable)
        ELSE IF IsNested(item)
        THEN LET inner == Append(path, item.name)
             IN  ShapeValueJoins(item.child, aliases[inner], nullable \/ item.card = "optional", inner, aliases)
        ELSE <<>>, shape)

ShapeJoins(shape, source, nullable, path, aliases) ==
    ItemsMap(LAMBDA item :
        IF IsNested(item)
        THEN LET inner == Append(path, item.name)
             IN  <<Join(SingleLinkJoin(item.card, nullable), source, LinkColumn(item.name),
                        TableName(item.child.type), aliases[inner], "id")>>
                 \o ShapeJoins(item.child, aliases[inner], nullable \/ item.card = "optional", inner, aliases)
        ELSE <<>>, shape)

\* Mutant of Width: the id of a nested object is not counted.
RECURSIVE WidthOfFields(_)
WidthOfFields(item) ==
    IF IsCollection(item) THEN 0
    ELSE IF IsNested(item)
    THEN FoldFunction(LAMBDA a, b : a + b, 0,
                      [i \in DOMAIN item.child.items |-> WidthOfFields(item.child.items[i])])
    ELSE 1

\* Columns of one item: a nested shape starts with the id of its object.
RECURSIVE Width(_)
Width(item) ==
    IF IsCollection(item) THEN 0
    ELSE IF IsNested(item)
    THEN 1 + FoldFunction(LAMBDA a, b : a + b, 0,
                          [i \in DOMAIN item.child.items |-> Width(item.child.items[i])])
    ELSE 1

\* render_result_shape: column numbers are given out in the order of items.
RECURSIVE ResultShape(_, _, _)
ResultShape(shape, first, withIdentity) ==
    LET start == first + (IF withIdentity THEN 1 ELSE 0)
        ColumnAt(i) == start + FoldFunction(LAMBDA a, b : a + b, 0,
                                          [j \in 1 .. i - 1 |-> Width(shape.items[j])])
        Field(i) ==
            LET item == shape.items[i]
            IN  IF IsCollection(item) THEN [tag |-> "collection", name |-> item.name]
                ELSE IF IsNested(item)
                THEN [tag |-> "nested", name |-> item.name,
                      shape |-> ResultShape(item.child, ColumnAt(i), TRUE)]
                ELSE [tag |-> "value", name |-> item.name, column |-> ColumnAt(i)]
    IN  [identity |-> IF withIdentity THEN first ELSE None,
         fields |-> [i \in DOMAIN shape.items |-> Field(i)]]

-----------------------------------------------------------------------------
\* Follow-up fetches: one per selected multi link, addressed by the shape path
\* of the object that owns it and the field.

RECURSIVE FollowUps(_, _)
FollowUps(shape, path) ==
    ItemsMap(LAMBDA item :
        IF IsCollection(item)
        THEN LET aliases == SelectedAliases(item.child, ComputedPaths(item.child))
                 source == RelationSource(item.via)
             IN  <<[parent |-> path, field |-> item.name, source |-> source,
                    alias |-> IF source.table = None THEN Root ELSE FollowUpAlias(source.table),
                    table |-> TableName(item.child.type),
                    values |-> <<ColumnOf(Root, "id")>>
                               \o ShapeValues(item.child, Root, FALSE, <<>>, aliases),
                    joins |-> DedupJoins(ShapeJoins(item.child, Root, FALSE, <<>>, aliases)
                               \o ShapeValueJoins(item.child, Root, FALSE, <<>>, aliases)),
                    shape |-> ResultShape(item.child, 2, TRUE),
                    followUps |-> FollowUps(item.child, <<>>)]>>
        ELSE IF IsNested(item) THEN FollowUps(item.child, Append(path, item.name))
        ELSE <<>>, shape)

\* plan_select.  The id of the root is selected when its own collections need it.
PlanSelect(ir) ==
    LET orderPaths == UNION {ValuePaths(ir.order[i].value) : i \in DOMAIN ir.order}
        aliases == SelectedAliases(ir.shape, WherePaths(ir.filter) \cup orderPaths
                                             \cup ComputedPaths(ir.shape))
        withIdentity == \E i \in DOMAIN ir.shape.items : IsCollection(ir.shape.items[i])
        order == [i \in DOMAIN ir.order |->
                    [value |-> PlanValue(ir.order[i].value, Root, FALSE), desc |-> ir.order[i].desc]]
        orderJoins == FlattenSeq([i \in DOMAIN ir.order |-> ValueJoins(ir.order[i].value, Root, FALSE)])
    IN  [table |-> TableName(ir.type),
         values |-> (IF withIdentity THEN <<ColumnOf(Root, "id")>> ELSE <<>>)
                    \o ShapeValues(ir.shape, Root, FALSE, <<>>, aliases),
         joins |-> DedupJoins(ShapeJoins(ir.shape, Root, FALSE, <<>>, aliases)
                    \o ShapeValueJoins(ir.shape, Root, FALSE, <<>>, aliases)
                    \o WhereJoins(ir.filter, Root) \o orderJoins),
         where |-> PlanWhere(ir.filter, Root),
         order |-> order, limit |-> ir.limit, offset |-> ir.offset,
         shape |-> ResultShape(ir.shape, 1, withIdentity),
         followUps |-> FollowUps(ir.shape, <<>>)]

-----------------------------------------------------------------------------
\* Mutations

\* Mutant of MutationFilter: the joins of the subselect are all inner joins.
MutationFilterInner(filter) ==
    LET joins == DedupJoins(WhereJoins(filter, Root))
    IN  [where |-> PlanWhere(filter, Root),
         joins |-> [i \in DOMAIN joins |-> [joins[i] EXCEPT !.kind = "inner"]]]

\* A filter with joins becomes `id IN (SELECT root.id ...)`, any other stands
\* in the statement itself; both select the same rows.
MutationFilter(filter) ==
    [where |-> PlanWhere(filter, Root), joins |-> DedupJoins(WhereJoins(filter, Root))]

=============================================================================
