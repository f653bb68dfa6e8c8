---------------------------- MODULE QueryResolver ----------------------------
(***************************************************************************)
(* query-resolver and the semantic IR it produces: names, types and        *)
(* cardinalities of a parsed query against a catalog.                      *)
(*                                                                         *)
(* An expression is a record with a tag, the parsed form as in query-ast   *)
(* and the resolved form as in query-ir.  A query the resolver refuses has *)
(* the resolution Rejected; which of its errors is reported is not kept.   *)
(*                                                                         *)
(* Parsed values         path(path)  literal(type, value)  null            *)
(*                       arithmetic(op, left, right)  negate(operand)      *)
(*                       call(name, args)                                  *)
(* Parsed predicates     compare(left, op, right)  and, or(left, right)    *)
(*                       not(inner)  exists(path, body)                    *)
(*                       in_list(left, negated, items)                     *)
(*                       in_select(left, negated, select)                  *)
(***************************************************************************)
EXTENDS QueryTables, Integers

-----------------------------------------------------------------------------
\* Cardinalities

CombinedCardinality(cards) ==
    IF "many" \in cards THEN "many"
    ELSE IF "optional" \in cards THEN "optional" ELSE "required"

PathCardinality(steps) == CombinedCardinality({step.card : step \in ToSet(steps)})

-----------------------------------------------------------------------------
\* Paths

\* Where the relation behind a link field is stored: the field itself, or the
\* field of the target type that an inverse link reads backwards.
LinkTraversal(owner, field) ==
    IF field.inverse = None
    THEN [owner |-> owner, field |-> field.name, card |-> field.cardinality, inverse |-> FALSE]
    ELSE [owner |-> field.type, field |-> field.inverse, inverse |-> TRUE,
          card |-> FieldTable[field.type][field.inverse].cardinality]

PathStep(owner, field) ==
    [owner |-> owner, field |-> field.name, kind |-> field.kind, type |-> field.type,
     card |-> field.cardinality, via |-> LinkTraversal(owner, field)]

\* resolve_path goes on from the target of the last step.  None is a path that
\* does not resolve: a name no field has, a name after a scalar, or a multi
\* link where none is allowed.
Extended(steps, step, allowMany) ==
    IF step.kind = "link" /\ step.card = "many" /\ ~allowMany THEN None ELSE Append(steps, step)

ResolvePath(source, names, allowMany) ==
    LET Extend(steps, owner, name) ==
            IF ~HasField(owner, name) THEN None
            ELSE Extended(steps, PathStep(owner, FieldTable[owner][name]), allowMany)
        Follow(steps, name) ==
            IF steps = None THEN None
            ELSE Extend(steps, IF steps = <<>> THEN source ELSE Last(steps).type, name)
    IN  FoldLeft(Follow, <<>>, names)

\* The path must end in a scalar.
PathValue(steps) ==
    IF steps \notin {None, <<>>} /\ Last(steps).kind = "scalar"
    THEN [tag |-> "path", steps |-> steps, type |-> Last(steps).type,
          card |-> PathCardinality(steps)]
    ELSE Rejected

ResolveTypedPath(source, names, allowMany) == PathValue(ResolvePath(source, names, allowMany))

-----------------------------------------------------------------------------
\* Values.  Every resolved value carries its scalar type and cardinality.

IsLiteral(e) == e.tag \in {"literal", "null"}
IsNumeric(value) == value.type \in {"int64", "float64"}

Compatible(left, right) ==
    \/ left.type = right.type
    \/ ~IsLiteral(left) /\ IsLiteral(right) /\ LiteralTypeMatches(left.type, right.type)
    \/ IsLiteral(left) /\ ~IsLiteral(right) /\ LiteralTypeMatches(right.type, left.type)

RECURSIVE IsNonzeroLiteral(_)
IsNonzeroLiteral(value) ==
    \/ value.tag = "literal" /\ IsNumeric(value) /\ value.value # 0
    \/ value.tag = "negate" /\ IsNonzeroLiteral(value.operand)

\* Mutant of ArithmeticCanReturnNull: division is taken to have a result.
NeverNull(op, right) == FALSE

\* SQLite divides by zero to NULL.
ArithmeticCanReturnNull(op, right) == op \in {"/", "%"} /\ ~IsNonzeroLiteral(right)

ResolvedArithmetic(op, left, right) ==
    LET accepted == Accepted(left) /\ Accepted(right)
        cards == {left.card, right.card}
                 \cup (IF ArithmeticCanReturnNull(op, right) THEN {"optional"} ELSE {})
    IN  IF accepted /\ IsNumeric(left) /\ IsNumeric(right) /\ left.type = right.type
           /\ (op = "%" => left.type = "int64")
        THEN [tag |-> "arithmetic", op |-> op, left |-> left, right |-> right,
              type |-> left.type, card |-> CombinedCardinality(cards)]
        ELSE Rejected

ResolvedNegation(operand) ==
    IF Accepted(operand) /\ IsNumeric(operand)
    THEN [tag |-> "negate", operand |-> operand, type |-> operand.type, card |-> operand.card]
    ELSE Rejected

\* i64 and f64 cast numbers; concat and str make strings of arguments that are
\* not the literal null.
ResolvedCall(name, args) ==
    LET types == {args[i].type : i \in DOMAIN args}
        accepted == \A i \in DOMAIN args : Accepted(args[i]) /\ args[i].tag # "null"
        card == CombinedCardinality({args[i].card : i \in DOMAIN args})
        Function(type) == [tag |-> "call", name |-> name, args |-> args, type |-> type, card |-> card]
    IN  IF ~accepted THEN Rejected
        ELSE CASE name \in {"i64", "f64"} /\ Len(args) = 1 /\ types \subseteq {"int64", "float64"}
                      -> Function(IF name = "i64" THEN "int64" ELSE "float64")
               [] name = "concat" /\ Len(args) >= 2 /\ types = {"str"} -> Function("str")
               [] name = "str" /\ Len(args) = 1 -> Function("str")
               [] OTHER -> Rejected

RECURSIVE ResolveValue(_, _)
ResolveValue(source, e) ==
    CASE e.tag = "path" -> ResolveTypedPath(source, e.path, FALSE)
      [] e.tag = "literal" ->
            [tag |-> "literal", type |-> e.type, value |-> e.value, card |-> "required"]
      [] e.tag = "null" -> [tag |-> "null", type |-> "str", value |-> None, card |-> "required"]
      [] e.tag = "arithmetic" ->
            ResolvedArithmetic(e.op, ResolveValue(source, e.left), ResolveValue(source, e.right))
      [] e.tag = "negate" -> ResolvedNegation(ResolveValue(source, e.operand))
      [] e.tag = "call" ->
            ResolvedCall(e.name, [i \in DOMAIN e.args |-> ResolveValue(source, e.args[i])])
      [] OTHER -> Rejected

\* The values an expression is built from.
RECURSIVE Atoms(_)
Atoms(e) ==
    CASE e.tag = "arithmetic" -> Atoms(e.left) \cup Atoms(e.right)
      [] e.tag = "negate" -> Atoms(e.operand)
      [] e.tag = "call" -> UNION {Atoms(e.args[i]) : i \in DOMAIN e.args}
      [] OTHER -> {e.tag}

ContainsPath(e) == "path" \in Atoms(e)

\* resolve_membership_item: no path, no null, nothing that is not a value.
IsRowIndependent(e) == Atoms(e) = {"literal"}

-----------------------------------------------------------------------------
\* Predicates

\* Null is compared by = and != only, and only with a path that may be absent.
NullComparison(value, op) ==
    IF Accepted(value) /\ value.tag = "path" /\ value.card = "optional" /\ op \in {"=", "!="}
    THEN [tag |-> "is_null", value |-> value, negated |-> op = "!="]
    ELSE Rejected

\* What follows the last multi step is the part absent within a match.
SuffixIsOptional(steps) ==
    \E i \in DOMAIN steps :
        /\ steps[i].card = "optional"
        /\ \A j \in i .. Len(steps) : steps[j].card # "many"

\* resolve_multi_path_comparison: some match of the path satisfies the test.
ExistsComparison(path, op, literal, pathOnLeft) ==
    IF IF literal.tag = "null" THEN op \in {"=", "!="} /\ SuffixIsOptional(path.steps)
       ELSE Compatible(path, literal)
    THEN [tag |-> "exists_comparison", path |-> path, op |-> op, literal |-> literal,
          pathOnLeft |-> pathOnLeft]
    ELSE Rejected

SingleComparison(e, left, right) ==
    IF e.right.tag = "null" THEN NullComparison(left, e.op)
    ELSE IF e.left.tag = "null" THEN NullComparison(right, e.op)
    ELSE IF Accepted(left) /\ Accepted(right) /\ Compatible(left, right)
         THEN [tag |-> "compare", left |-> left, op |-> e.op, right |-> right]
         ELSE Rejected

ResolveSingleComparison(source, e) ==
    SingleComparison(e, ResolveValue(source, e.left), ResolveValue(source, e.right))

\* A path, which may have multi links, compared with a literal.
PathComparison(source, e, path, literal) ==
    IF ~Accepted(path) THEN Rejected
    ELSE IF path.card = "many" THEN ExistsComparison(path, e.op, literal, e.left.tag = "path")
    ELSE ResolveSingleComparison(source, e)

ResolveComparison(source, e, allowRelations) ==
    CASE allowRelations /\ e.left.tag = "path" /\ IsLiteral(e.right) ->
            PathComparison(source, e, ResolveTypedPath(source, e.left.path, TRUE),
                           ResolveValue(source, e.right))
      [] allowRelations /\ IsLiteral(e.left) /\ e.right.tag = "path" ->
            PathComparison(source, e, ResolveTypedPath(source, e.right.path, TRUE),
                           ResolveValue(source, e.left))
      [] OTHER -> ResolveSingleComparison(source, e)

Membership(e, left, items) ==
    IF /\ Accepted(left)
       /\ items # <<>>
       /\ \A i \in DOMAIN items :
             IsRowIndependent(e.items[i]) /\ Accepted(items[i]) /\ Compatible(left, items[i])
    THEN [tag |-> "in_list", left |-> left, negated |-> e.negated, items |-> items]
    ELSE Rejected

ResolveMembership(source, e) ==
    Membership(e, ResolveValue(source, e.left),
               [i \in DOMAIN e.items |-> ResolveValue(source, e.items[i])])

\* The select behind `in` projects one required scalar field.
ProjectsRequiredScalar(shape) ==
    /\ Len(shape.items) = 1
    /\ shape.items[1].tag = "field"
    /\ shape.items[1].child = None
    /\ shape.items[1].card = "required"

MembershipSelect(e, left, select) ==
    IF /\ Accepted(left)
       /\ Accepted(select)
       /\ ProjectsRequiredScalar(select.shape)
       /\ Compatible(left, [tag |-> "path",
                            type |-> FieldTable[select.type][select.shape.items[1].name].type])
    THEN [tag |-> "in_select", left |-> left, negated |-> e.negated, select |-> select]
    ELSE Rejected

\* One multi link at the end of single links; the body about its target.
IsScope(steps) ==
    /\ steps \notin {None, <<>>}
    /\ Last(steps).kind = "link"
    /\ \A i \in DOMAIN steps : (steps[i].card = "many") <=> (i = Len(steps))

Scoped(steps, body) ==
    IF Accepted(body) THEN [tag |-> "exists", steps |-> steps, body |-> body] ELSE Rejected

Both(tag, left, right) ==
    IF Accepted(left) /\ Accepted(right) THEN [tag |-> tag, left |-> left, right |-> right]
    ELSE Rejected

Negation(inner) == IF Accepted(inner) THEN [tag |-> "not", inner |-> inner] ELSE Rejected

RECURSIVE ResolvePredicate(_, _, _), ResolveSelect(_), ResolveShape(_, _)

ResolveScoped(steps, e) ==
    IF IsScope(steps) THEN Scoped(steps, ResolvePredicate(Last(steps).type, e.body, FALSE))
    ELSE Rejected

\* Inside a scoped body no further relation may be opened.
ResolvePredicate(source, e, allowRelations) ==
    LET Resolve(part) == ResolvePredicate(source, part, allowRelations)
    IN  CASE e.tag = "compare" -> ResolveComparison(source, e, allowRelations)
          [] e.tag \in {"and", "or"} -> Both(e.tag, Resolve(e.left), Resolve(e.right))
          [] e.tag = "not" -> Negation(Resolve(e.inner))
          [] e.tag = "in_list" -> ResolveMembership(source, e)
          [] e.tag = "in_select" /\ allowRelations ->
                MembershipSelect(e, ResolveValue(source, e.left), ResolveSelect(e.select))
          [] e.tag = "exists" /\ allowRelations -> ResolveScoped(ResolvePath(source, e.path, TRUE), e)
          [] OTHER -> Rejected

\* An absent filter holds of every object.
ResolveFilter(source, filter) ==
    IF filter = None THEN [tag |-> "all"] ELSE ResolvePredicate(source, filter, TRUE)

-----------------------------------------------------------------------------
\* Shapes and selects

\* Scalars have no child shape, links have one, computed items hold a path.
ComputedItem(item, value) ==
    IF ContainsPath(item.value) /\ Accepted(value)
    THEN [tag |-> "computed", name |-> item.name, value |-> value, card |-> value.card]
    ELSE Rejected

FieldItem(source, item, child) ==
    LET field == FieldTable[source][item.name]
    IN  IF child # None /\ child.tag = "rejected" THEN Rejected
        ELSE [tag |-> "field", name |-> item.name, card |-> field.cardinality,
              child |-> child, via |-> LinkTraversal(source, field)]

ResolveItem(source, item) ==
    CASE item.tag = "computed" -> ComputedItem(item, ResolveValue(source, item.value))
      [] item.tag = "field" /\ ~HasField(source, item.name) -> Rejected
      [] item.tag = "field" /\ HasField(source, item.name) ->
            LET field == FieldTable[source][item.name]
            IN  IF IsLink(field) # (item.child # None) THEN Rejected
                ELSE FieldItem(source, item,
                        IF item.child = None THEN None ELSE ResolveShape(field.type, item.child))

AcceptedShape(shape) ==
    IF /\ \A i \in DOMAIN shape.items : Accepted(shape.items[i])
       /\ \A i, j \in DOMAIN shape.items : shape.items[i].name = shape.items[j].name => i = j
    THEN shape ELSE Rejected

ResolveShape(source, items) ==
    AcceptedShape([tag |-> "shape", type |-> source,
                   items |-> [i \in DOMAIN items |-> ResolveItem(source, items[i])]])

AcceptedSelect(q, select) ==
    IF /\ Accepted(select.filter)
       /\ \A i \in DOMAIN q.order :
             ContainsPath(q.order[i].value) /\ Accepted(select.order[i].value)
       /\ Accepted(select.shape)
    THEN select ELSE Rejected

ResolveSelect(q) ==
    IF q.type \notin TypeNames(Catalog) THEN Rejected
    ELSE AcceptedSelect(q,
            [tag |-> "select", type |-> q.type, filter |-> ResolveFilter(q.type, q.filter),
             order |-> [i \in DOMAIN q.order |->
                [value |-> ResolveValue(q.type, q.order[i].value), desc |-> q.order[i].desc]],
             shape |-> ResolveShape(q.type, q.shape), limit |-> q.limit, offset |-> q.offset])

=============================================================================
