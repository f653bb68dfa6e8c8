------------------------------ MODULE QueryAst ------------------------------
(***************************************************************************)
(* The syntax trees of the query language (query-ast).  Names and literals *)
(* are the tokens they were written as; a missing part is NoTree or        *)
(* NoCount.                                                                *)
(***************************************************************************)

NoTree == [node |-> "none"]
NoCount == "none"

Literal(token) == [node |-> "literal", token |-> token]
Path(steps) == [node |-> "path", steps |-> steps]

Or(left, right) == [node |-> "or", left |-> left, right |-> right]
And(left, right) == [node |-> "and", left |-> left, right |-> right]
Not(operand) == [node |-> "not", operand |-> operand]
Compare(left, op, right) == [node |-> "compare", left |-> left, op |-> op, right |-> right]
In(left, op, right) == [node |-> "in", left |-> left, op |-> op, right |-> right]
InSelect(select) == [node |-> "in select", select |-> select]
InList(values) == [node |-> "in list", values |-> values]
Arithmetic(left, op, right) == [node |-> "arithmetic", left |-> left, op |-> op, right |-> right]
UnaryArithmetic(op, operand) == [node |-> "unary", op |-> op, operand |-> operand]
FunctionCall(name, args) == [node |-> "call", name |-> name, args |-> args]
ScopedPredicate(path, predicate) == [node |-> "scoped", path |-> path, predicate |-> predicate]

\* A shape is the sequence of its items; a field without one has NoTree.
Shape(items) == [node |-> "shape", items |-> items]
ShapeField(name, shape) == [node |-> "field", name |-> name, shape |-> shape]
ComputedItem(name, expr) == [node |-> "computed", name |-> name, expr |-> expr]
OrderExpr(expr, direction) == [node |-> "order", expr |-> expr, direction |-> direction]

SelectQuery(root, shape, filter, orderBy, limit, offset) ==
    [node |-> "select", root |-> root, shape |-> shape, filter |-> filter,
     orderBy |-> orderBy, limit |-> limit, offset |-> offset]

Assignment(field, operator, value) ==
    [node |-> "assignment", field |-> field, operator |-> operator, value |-> value]

InsertQuery(root, assignments) == [node |-> "insert", root |-> root, assignments |-> assignments]
UpdateQuery(target, filter, assignments) ==
    [node |-> "update", target |-> target, filter |-> filter, assignments |-> assignments]
DeleteQuery(target, filter) == [node |-> "delete", target |-> target, filter |-> filter]

TransactionCommand(command) == [node |-> "transaction", command |-> command]

=============================================================================
