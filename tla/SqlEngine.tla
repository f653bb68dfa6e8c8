------------------------------ MODULE SqlEngine ------------------------------
(***************************************************************************)
(* External: what SQLite does with the statements of QueryPlan on the      *)
(* tables of SchemaPlan.  A database gives every table a set of rows, a    *)
(* row every column a value.  A row of a join is an environment: it gives  *)
(* every table alias a row, or None where a left join found nothing.       *)
(***************************************************************************)
EXTENDS QueryPlan, NullLogic

-----------------------------------------------------------------------------
\* Which statements SQLite prepares: those with FROM clauses it prepares, in
\* which OFFSET only follows LIMIT.

RECURSIVE Prepares(_, _), ConditionPrepares(_, _), FollowUpPrepares(_, _)
ConditionPrepares(db, e) ==
    CASE e.tag \in {"and", "or"} -> ConditionPrepares(db, e.left) /\ ConditionPrepares(db, e.right)
      [] e.tag = "not" -> ConditionPrepares(db, e.inner)
      [] e.tag = "in_select" -> Prepares(db, e.select)
      [] e.tag = "exists" ->
            FromPrepares(db, e.table, e.alias, e.joins) /\ ConditionPrepares(db, e.condition)
      [] OTHER -> TRUE

FollowUpPrepares(db, fetch) ==
    /\ FromPrepares(db, fetch.table, Root, fetch.joins)
    /\ fetch.source.table # None =>
          fetch.source.table \in DOMAIN db /\ \A i \in DOMAIN fetch.joins : fetch.joins[i].alias # fetch.alias
    /\ \A i \in DOMAIN fetch.followUps : FollowUpPrepares(db, fetch.followUps[i])

Prepares(db, plan) ==
    /\ FromPrepares(db, plan.table, Root, plan.joins)
    /\ plan.offset # None => plan.limit # None
    /\ ConditionPrepares(db, plan.where)
    /\ \A i \in DOMAIN plan.followUps : FollowUpPrepares(db, plan.followUps[i])

-----------------------------------------------------------------------------
\* Rows

RECURSIVE ValueIn(_, _)
ValueIn(env, v) ==
    CASE v.tag = "column" -> ColumnValue(env, v.alias, v.column)
      [] v.tag = "bind" -> v.value
      [] v.tag = "arithmetic" -> Arithmetic(v.op, ValueIn(env, v.left), ValueIn(env, v.right))
      [] v.tag = "negate" -> Negated(ValueIn(env, v.operand))
      [] v.tag = "call" -> Applied(v.name, [i \in DOMAIN v.args |-> ValueIn(env, v.args[i])])

Membership3(e, value, items) ==
    IF e.negated THEN Not3(Member3(value, items)) ELSE Member3(value, items)

RECURSIVE Satisfies(_, _, _), SelectRows(_, _)

\* The rows of a correlated subquery see the aliases of the row around it.
Matches(db, env, table, alias, joins, where) ==
    {row \in JoinAll(db, {(alias :> r) @@ env : r \in db[table]}, joins) :
        Satisfies(db, row, where) = "true"}

\* The first column of the rows a select finds.
FirstColumn(db, plan) ==
    LET rows == SelectRows(db, plan)
    IN  [k \in DOMAIN rows |-> ValueIn(rows[k], plan.values[1])]

Satisfies(db, env, e) ==
    CASE e.tag = "all" -> "true"
      [] e.tag = "compare" -> Compare3(ValueIn(env, e.left), e.op, ValueIn(env, e.right))
      [] e.tag = "is_null" -> Truth((ValueIn(env, e.value) = None) # e.negated)
      [] e.tag = "and" -> And3(Satisfies(db, env, e.left), Satisfies(db, env, e.right))
      [] e.tag = "or" -> Or3(Satisfies(db, env, e.left), Satisfies(db, env, e.right))
      [] e.tag = "not" -> Not3(Satisfies(db, env, e.inner))
      [] e.tag \in {"in_list", "in_select"} ->
            Membership3(e, ValueIn(env, e.left),
                IF e.tag = "in_select" THEN ToSet(FirstColumn(db, e.select))
                ELSE {ValueIn(env, e.items[i]) : i \in DOMAIN e.items})
      [] e.tag = "exists" ->
            Truth(Matches(db, env, e.table, e.alias, e.joins, e.condition) # {})

\* ORDER BY, LIMIT and OFFSET.  Rows with equal keys come in some fixed order.
Sorted(plan, rows) ==
    LET Key(row) == [i \in DOMAIN plan.order |-> ValueIn(row, plan.order[i].value)]
        desc == [i \in DOMAIN plan.order |-> plan.order[i].desc]
    IN  SetToSortSeq(rows, LAMBDA a, b : Precedes(Key(a), Key(b), desc))

Window(plan, rows) ==
    LET first == IF plan.offset = None THEN 0 ELSE plan.offset
        last == IF plan.limit = None \/ first + plan.limit > Len(rows)
                THEN Len(rows) ELSE first + plan.limit
    IN  SubSeq(rows, first + 1, last)

SelectRows(db, plan) ==
    Window(plan, Sorted(plan, Matches(db, <<>>, plan.table, Root, plan.joins, plan.where)))

\* The rows a follow-up fetch finds for one parent.
FollowUpRows(db, fetch, parent) ==
    LET source == fetch.source
        children == IF source.table = None
            THEN {(Root :> row) : row \in {r \in db[fetch.table] : r[source.parent] = parent}}
            ELSE {(Root :> row) @@ (fetch.alias :> r) : <<row, r>> \in
                    {p \in db[fetch.table] \X db[source.table] :
                        p[2][source.parent] = parent /\ p[2][source.child] = p[1].id}}
    IN  JoinAll(db, children, fetch.joins)

=============================================================================
