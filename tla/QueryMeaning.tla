---------------------------- MODULE QueryMeaning ----------------------------
(***************************************************************************)
(* What a query, as parsed, means on a graph of objects.                   *)
(***************************************************************************)
EXTENDS ObjectGraph, NullLogic

-----------------------------------------------------------------------------
\* Paths

\* An inverse link leads to the objects whose stored link leads here.
TargetsOver(graph, x, field) ==
    IF field.inverse = None THEN StoredTargets(graph, x, field)
    ELSE {y \in Objects(graph, field.type) :
            x \in StoredTargets(graph, y, FieldNamed(field.type, field.inverse))}

Targets(graph, x, name) == TargetsOver(graph, x, FieldNamed(graph[x].type, name))

\* The objects reached from x over a sequence of links.
Reached(graph, x, links) ==
    LET after[i \in 0 .. Len(links)] ==
            IF i = 0 THEN {x}
            ELSE UNION {Targets(graph, y, links[i]) : y \in after[i - 1]}
    IN  after[Len(links)]

ScalarOf(graph, x, name) == IF name = "id" THEN x ELSE graph[x].fields[name]

\* The value at the end of a path of single links: null if nothing is there.
ValueAmong(graph, ends, name) ==
    IF ends = {} THEN None ELSE ScalarOf(graph, CHOOSE y \in ends : TRUE, name)

SingleValue(graph, x, path) == ValueAmong(graph, Reached(graph, x, Front(path)), Last(path))

\* How many steps of a path are needed to pass its last multi link.
MultiPrefix(type, path) ==
    LET typeAt[i \in 1 .. Len(path)] ==
            IF i = 1 THEN type ELSE FieldNamed(typeAt[i - 1], path[i - 1]).type
        multi == {i \in 1 .. Len(path) - 1 : IsManyLink(FieldNamed(typeAt[i], path[i]))}
    IN  IF multi = {} THEN 0 ELSE CHOOSE i \in multi : \A j \in multi : j <= i

-----------------------------------------------------------------------------
\* Expressions about an object x

RECURSIVE Value(_, _, _), Meaning(_, _, _)
Value(graph, x, e) ==
    CASE e.tag = "path" -> SingleValue(graph, x, e.path)
      [] e.tag = "literal" -> e.value
      [] e.tag = "null" -> None
      [] e.tag = "arithmetic" -> Arithmetic(e.op, Value(graph, x, e.left), Value(graph, x, e.right))
      [] e.tag = "negate" -> Negated(Value(graph, x, e.operand))
      [] e.tag = "call" -> Applied(e.name, [i \in DOMAIN e.args |-> Value(graph, x, e.args[i])])

\* Comparing with the literal null asks for absence.
CompareValues(graph, x, e) ==
    IF e.right.tag = "null" THEN Truth((Value(graph, x, e.left) = None) = (e.op = "="))
    ELSE IF e.left.tag = "null" THEN Truth((Value(graph, x, e.right) = None) = (e.op = "="))
    ELSE Compare3(Value(graph, x, e.left), e.op, Value(graph, x, e.right))

\* The path of a comparison, and the comparison with another path in its place.
ComparedPath(e) ==
    IF e.left.tag = "path" THEN e.left.path
    ELSE IF e.right.tag = "path" THEN e.right.path ELSE <<>>

WithPath(e, path) ==
    IF e.left.tag = "path" THEN [e EXCEPT !.left.path = path] ELSE [e EXCEPT !.right.path = path]

\* A comparison over a multi path holds when some object behind its last multi
\* link satisfies it.
CompareOver(graph, x, e, path, prefix) ==
    IF prefix = 0 THEN CompareValues(graph, x, e)
    ELSE Truth(\E y \in Reached(graph, x, SubSeq(path, 1, prefix)) :
                  CompareValues(graph, y, WithPath(e, SubSeq(path, prefix + 1, Len(path)))) = "true")

CompareMeaning(graph, x, e) ==
    CompareOver(graph, x, e, ComparedPath(e), MultiPrefix(graph[x].type, ComparedPath(e)))

MembershipMeaning(e, value, items) ==
    IF e.negated THEN Not3(Member3(value, items)) ELSE Member3(value, items)

\* The objects of a select.  Limit and offset count along the order, which
\* must then tell all objects apart.
FilteredObjects(graph, q) ==
    {x \in Objects(graph, q.type) : q.filter = None \/ Meaning(graph, x, q.filter) = "true"}

OrderKey(graph, x, q) == [i \in DOMAIN q.order |-> Value(graph, x, q.order[i].value)]
OrderedBefore(graph, q, x, y) ==
    Precedes(OrderKey(graph, x, q), OrderKey(graph, y, q), [i \in DOMAIN q.order |-> q.order[i].desc])

Skipped(q) == IF q.offset = None THEN 0 ELSE q.offset
Rank(graph, q, x) == Cardinality({y \in FilteredObjects(graph, q) : OrderedBefore(graph, q, y, x)})

InWindow(q, rank) == rank >= Skipped(q) /\ (q.limit = None \/ rank < Skipped(q) + q.limit)
TakenObjects(graph, q) == {x \in FilteredObjects(graph, q) : InWindow(q, Rank(graph, q, x))}

Meaning(graph, x, e) ==
    CASE e.tag = "compare" -> CompareMeaning(graph, x, e)
      [] e.tag = "and" -> And3(Meaning(graph, x, e.left), Meaning(graph, x, e.right))
      [] e.tag = "or" -> Or3(Meaning(graph, x, e.left), Meaning(graph, x, e.right))
      [] e.tag = "not" -> Not3(Meaning(graph, x, e.inner))
      [] e.tag \in {"in_list", "in_select"} ->
            MembershipMeaning(e, Value(graph, x, e.left),
                IF e.tag = "in_list" THEN {Value(graph, x, e.items[i]) : i \in DOMAIN e.items}
                ELSE {ScalarOf(graph, y, e.select.shape[1].name) : y \in TakenObjects(graph, e.select)})
      [] e.tag = "exists" ->
            Truth(\E y \in Reached(graph, x, e.path) : Meaning(graph, y, e.body) = "true")

-----------------------------------------------------------------------------
\* Results

BagOf(F(_), S) == [v \in {F(x) : x \in S} |-> Cardinality({x \in S : F(x) = v})]

\* The object a shape makes of x: null for an absent single link, a bag for a
\* multi link, stored or inverse.
RECURSIVE Denotation(_, _, _)
Denotation(graph, x, shape) ==
    LET ValueOf(item) ==
            IF item.tag = "computed" THEN Value(graph, x, item.value)
            ELSE IF item.child = None THEN ScalarOf(graph, x, item.name)
            ELSE LET targets == Targets(graph, x, item.name)
                 IN  IF IsManyLink(FieldNamed(graph[x].type, item.name))
                     THEN BagOf(LAMBDA y : Denotation(graph, y, item.child), targets)
                     ELSE IF targets = {} THEN None
                     ELSE Denotation(graph, CHOOSE y \in targets : TRUE, item.child)
    IN  [name \in {shape[i].name : i \in DOMAIN shape} |->
            ValueOf(shape[CHOOSE i \in DOMAIN shape : shape[i].name = name])]

\* A result lists chosen objects, in order, starting after the skipped ones;
\* objects with equal keys may come in any order.
ResultSize(q, available) ==
    IF q.limit # None /\ q.limit < available THEN q.limit
    ELSE IF available < 0 THEN 0 ELSE available

IsListingOf(graph, q, selected, objects) ==
    LET Before(x, y) == OrderedBefore(graph, q, x, y)
    IN  /\ ToSet(objects) \subseteq selected
        /\ Cardinality(ToSet(objects)) = Len(objects)
        /\ Len(objects) = ResultSize(q, Cardinality(selected) - Skipped(q))
        /\ \A i \in DOMAIN objects :
              /\ Cardinality({x \in selected : Before(x, objects[i])}) < Skipped(q) + i
              /\ Cardinality({x \in selected : ~Before(objects[i], x)}) >= Skipped(q) + i

IsResultOf(graph, q, objects) == IsListingOf(graph, q, FilteredObjects(graph, q), objects)

=============================================================================
