------------------------------ MODULE MCQueries ------------------------------
(***************************************************************************)
(* Three people and two departments, for TLC.                              *)
(***************************************************************************)
EXTENDS QuerySession

CONSTANTS p1, p2, p3, d1, d2     \* object ids

MCIdsOf == [type \in {"Person", "Department"} |->
                IF type = "Person" THEN <<p1, p2, p3>> ELSE <<d1, d2>>]
OneDepartment == [MCIdsOf EXCEPT !["Department"] = <<d1>>]
MCNameOrder == <<>>
MCLowercase == [n \in {"Person", "Department"} |-> IF n = "Person" THEN "person" ELSE "department"]

Name == ScalarField("name", "str", "required", TRUE)
Age  == ScalarField("age", "int64", "optional", FALSE)
Boss == LinkField("boss", "Person", "optional", FALSE)
Reports == InverseField("reports", "Person", "boss")
Departments == InverseField("departments", "Department", "members")
Level == ScalarField("level", "int64", "required", FALSE)
HeadLink == LinkField("head", "Person", "required", TRUE)
Members == LinkField("members", "Person", "many", FALSE)
Parent == LinkField("parent", "Department", "optional", FALSE)

MCCatalog == <<ObjectType("Person", <<Name, Age, Boss, Reports, Departments>>),
               ObjectType("Department", <<Level, HeadLink, Parent, Members>>)>>

-----------------------------------------------------------------------------
\* Parsed expressions

Path(names) == [tag |-> "path", path |-> names]
Text(s) == [tag |-> "literal", type |-> "str", value |-> s]
Number(n) == [tag |-> "literal", type |-> "int64", value |-> n]
NullLiteral == [tag |-> "null"]
Arith(l, op, r) == [tag |-> "arithmetic", op |-> op, left |-> l, right |-> r]
Minus(e) == [tag |-> "negate", operand |-> e]
Call(name, args) == [tag |-> "call", name |-> name, args |-> args]
Cmp(l, op, r) == [tag |-> "compare", left |-> l, op |-> op, right |-> r]
And(l, r) == [tag |-> "and", left |-> l, right |-> r]
Or(l, r) == [tag |-> "or", left |-> l, right |-> r]
Not(e) == [tag |-> "not", inner |-> e]
InList(e, items) == [tag |-> "in_list", left |-> e, negated |-> FALSE, items |-> items]
NotInList(e, items) == [tag |-> "in_list", left |-> e, negated |-> TRUE, items |-> items]
InSelect(e, q) == [tag |-> "in_select", left |-> e, negated |-> FALSE, select |-> q]
NotInSelect(e, q) == [tag |-> "in_select", left |-> e, negated |-> TRUE, select |-> q]
Exists(names, body) == [tag |-> "exists", path |-> names, body |-> body]

Field(name) == [tag |-> "field", name |-> name, child |-> None]
Nested(name, shape) == [tag |-> "field", name |-> name, child |-> shape]
Computed(name, e) == [tag |-> "computed", name |-> name, value |-> e]

Select(type, shape, filter) ==
    [tag |-> "select", type |-> type, shape |-> shape, filter |-> filter,
     order |-> <<>>, limit |-> None, offset |-> None]
OrderBy(q, e, desc) == [q EXCEPT !.order = Append(@, [value |-> e, desc |-> desc])]
Limit(q, n, m) == [q EXCEPT !.limit = n, !.offset = m]

Id == <<Field("id")>>
NameIs(s) == Cmp(Path(<<"name">>), "=", Text(s))
People(filter) == Select("Person", Id, filter)
Named(s) == People(NameIs(s))

-----------------------------------------------------------------------------
\* Selects.  Filters of people: a comparison of every kind over every kind of
\* path, and its negation.

Filters == <<
    Cmp(Path(<<"boss", "name">>), "!=", Text("ann")),
    Not(Cmp(Path(<<"boss", "age">>), ">", Number(0))),
    Cmp(Path(<<"boss", "boss", "name">>), "=", Path(<<"name">>)),
    Cmp(Path(<<"boss", "age">>), "=", NullLiteral),
    Cmp(NullLiteral, "!=", Path(<<"boss", "name">>)),
    Or(Cmp(Path(<<"boss", "name">>), "=", Text("ann")), Cmp(Path(<<"age">>), "=", NullLiteral)),
    Cmp(Path(<<"reports", "age">>), ">", Number(1)),
    Cmp(Number(1), ">", Path(<<"reports", "age">>)),
    Not(Cmp(Path(<<"reports", "age">>), "<", Number(1))),
    Cmp(Path(<<"reports", "age">>), "=", NullLiteral),
    Cmp(NullLiteral, "!=", Path(<<"reports", "reports", "boss", "age">>)),
    Cmp(Path(<<"departments", "head", "boss", "age">>), "=", NullLiteral),
    And(Cmp(Path(<<"reports", "name">>), "=", Text("bob")),
        Cmp(Path(<<"reports", "age">>), "=", Number(2))),
    Exists(<<"reports">>, And(NameIs("bob"), Cmp(Path(<<"age">>), "=", Number(2)))),
    Exists(<<"reports">>, Not(Cmp(Path(<<"age">>), "=", Number(2)))),
    Not(Exists(<<"reports">>, Cmp(Path(<<"age">>), "=", Number(2)))),
    Exists(<<"boss", "reports">>, Cmp(Path(<<"boss", "age">>), "<", Path(<<"age">>))),
    Exists(<<"boss", "departments">>, Cmp(Path(<<"head", "boss", "name">>), "!=", Text("ann"))),
    InList(Path(<<"boss", "age">>), <<Number(2), Number(5)>>),
    NotInList(Path(<<"age">>), <<Number(2), Minus(Number(1))>>),
    InSelect(Path(<<"boss", "name">>),
             Select("Person", <<Field("name")>>, Cmp(Path(<<"reports", "name">>), "=", Text("cid")))),
    NotInSelect(Path(<<"boss", "id">>), People(Cmp(Path(<<"boss", "age">>), ">", Number(0)))),
    InSelect(Path(<<"boss", "age">>),
             Limit(OrderBy(Select("Department", <<Field("level")>>, None), Path(<<"level">>), TRUE), 1, None)),
    NotInSelect(Path(<<"age">>), Select("Department", <<Field("level")>>, None)),
    Cmp(Arith(Path(<<"age">>), "/", Path(<<"boss", "age">>)), ">=", Number(0)),
    Cmp(Arith(Number(7), "%", Minus(Path(<<"age">>))), "=", Number(1))>>

DepartmentFilters == <<
    Cmp(Path(<<"members", "name">>), "=", Text("bob")),
    Not(Cmp(Path(<<"members", "boss", "name">>), "=", Text("ann"))),
    Cmp(Path(<<"members", "boss", "name">>), "=", NullLiteral),
    Cmp(Path(<<"head", "reports", "age">>), "!=", NullLiteral),
    Cmp(Path(<<"members", "reports", "age">>), "<", Number(1)),
    Exists(<<"members">>, Or(Cmp(Path(<<"boss", "age">>), "=", NullLiteral), NameIs("cid"))),
    Exists(<<"head", "reports">>, NameIs("cid")),
    Not(Cmp(Path(<<"parent", "head", "name">>), "=", Text("bob"))),
    Or(Cmp(Path(<<"parent", "head", "boss", "age">>), "=", NullLiteral), Cmp(Path(<<"level">>), "=", Number(1)))>>

\* Refused: a relation inside a scoped body, two multi links in a scope, null
\* and an ordering, a membership select of an optional field.
Refused == <<
    People(Exists(<<"reports">>, Cmp(Path(<<"reports", "age">>), "=", Number(1)))),
    People(Exists(<<"reports", "reports">>, NameIs("ann"))),
    People(Cmp(Path(<<"reports", "name">>), "=", NullLiteral)),
    People(Cmp(Path(<<"age">>), "<", NullLiteral)),
    People(InSelect(Number(1), Select("Person", <<Field("age")>>, None)))>>

Shapes == <<
    Select("Person",
        <<Nested("boss", <<Field("name"), Nested("boss", <<Field("age"), Field("id")>>),
                           Computed("above", Path(<<"boss", "name">>))>>),
          Computed("bossname", Path(<<"boss", "name">>)), Field("id")>>,
        Cmp(Path(<<"boss", "boss", "age">>), "=", NullLiteral)),
    Select("Person",
        <<Nested("reports", <<Field("age"), Nested("boss", <<Field("name")>>)>>), Field("name"),
          Nested("boss", <<Nested("departments", <<Field("level")>>), Field("age"),
                           Nested("reports", <<Field("name")>>)>>)>>,
        None),
    Select("Department",
        <<Nested("members", <<Nested("boss", <<Nested("boss", <<Field("name")>>)>>),
                              Nested("reports", <<Field("name")>>)>>),
          Nested("parent", <<Nested("head", <<Field("age")>>), Computed("name", Path(<<"head", "name">>))>>),
          Nested("head", <<Nested("boss", <<Field("name")>>), Computed("age", Path(<<"boss", "age">>))>>),
          Computed("headname", Path(<<"head", "name">>)),
          Computed("half", Arith(Path(<<"level">>), "/", Number(2))),
          Computed("ratio", Arith(Number(2), "/", Path(<<"level">>)))>>,
        Cmp(Path(<<"head", "boss", "name">>), "!=", Text("cid")))>>

Ordered == <<
    OrderBy(Select("Person", <<Field("name")>>, None), Path(<<"boss", "age">>), FALSE),
    Limit(OrderBy(Select("Person", <<Field("name")>>, None), Path(<<"boss", "age">>), TRUE), 1, 1),
    Limit(OrderBy(OrderBy(People(Cmp(Path(<<"departments", "level">>), "<", Number(9))),
                          Path(<<"boss", "boss", "age">>), TRUE),
                  Minus(Path(<<"age">>)), FALSE), 2, None),
    Limit(OrderBy(People(None), Arith(Path(<<"age">>), "*", Number(2)), FALSE), 2, 2)>>

MCQueries ==
    [i \in DOMAIN Filters |-> People(Filters[i])]
    \o [i \in DOMAIN DepartmentFilters |-> Select("Department", Id, DepartmentFilters[i])]
    \o Refused \o Shapes \o Ordered

NoQueries == <<>>

\* A type with a link of its own called root.
RootCatalog == <<ObjectType("Person", <<Name, LinkField("root", "Person", "optional", FALSE)>>)>>
\* A select with an offset and no limit, and one of the link called root.
UnpreparedQueries ==
    <<Limit(OrderBy(People(None), Path(<<"name">>), FALSE), None, 1),
      Select("Person", <<Field("name"), Nested("root", <<Field("name")>>)>>, None)>>

-----------------------------------------------------------------------------
\* Mutations

Set(field, value) == [field |-> field, op |-> ":=", value |-> value]
InsertOf(type, assignments) ==
    [tag |-> "insert", type |-> type, filter |-> None, assignments |-> assignments]
UpdateOf(type, filter, assignments) ==
    [tag |-> "update", type |-> type, filter |-> filter, assignments |-> assignments]
DeleteOf(type, filter) ==
    [tag |-> "delete", type |-> type, filter |-> filter, assignments |-> <<>>]

MCMutations == <<
    InsertOf("Person", <<Set("name", Text("ann")), Set("age", Number(3))>>),
    InsertOf("Person", <<Set("name", Text("bob")), Set("boss", Named("ann")), Set("age", Number(0))>>),
    InsertOf("Person", <<Set("name", Text("cid")), Set("boss", Named("bob"))>>),
    InsertOf("Department", <<Set("level", Number(0)), Set("head", Named("bob")), Set("parent", Text(d1))>>),
    UpdateOf("Person", Cmp(Path(<<"reports", "name">>), "=", Text("bob")), <<Set("boss", Named("cid"))>>),
    UpdateOf("Person", Cmp(Path(<<"boss", "name">>), "=", Text("cid")), <<Set("boss", Named("bob"))>>),
    UpdateOf("Person", Cmp(Path(<<"reports", "age">>), "=", NullLiteral), <<Set("age", Number(2))>>),
    UpdateOf("Person", Cmp(Path(<<"boss", "name">>), "=", Text("bob")),
             <<Set("age", Number(0)), Set("boss", NullLiteral)>>),
    UpdateOf("Department", None, <<Set("head", Named("ann")), Set("level", Number(2)), Set("parent", NullLiteral)>>),
    UpdateOf("Department", None,
             <<[field |-> "members", op |-> "+=", value |-> People(Cmp(Path(<<"age">>), "!=", NullLiteral))]>>),
    UpdateOf("Department", Cmp(Path(<<"head", "name">>), "=", Text("bob")),
             <<[field |-> "members", op |-> "+=", value |-> Named("cid")]>>),
    UpdateOf("Department", Exists(<<"members">>, NameIs("cid")),
             <<[field |-> "members", op |-> "-=",
                value |-> People(Cmp(Path(<<"boss", "name">>), "=", Text("ann")))]>>),
    DeleteOf("Person", Cmp(Path(<<"boss", "age">>), "=", NullLiteral)),
    DeleteOf("Person", Not(Exists(<<"departments">>, Cmp(Path(<<"level">>), ">", Number(1))))),
    DeleteOf("Department", Cmp(Path(<<"members", "name">>), "=", Text("cid"))),
    \* Refused: the filter does not rule out a second object.
    UpdateOf("Person", NameIs("cid"), <<Set("boss", People(Cmp(Path(<<"age">>), "=", Number(0))))>>)>>

=============================================================================
