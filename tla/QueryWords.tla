----------------------------- MODULE QueryWords -----------------------------
(***************************************************************************)
(* The words of syntax trees, as they are read from left to right.         *)
(***************************************************************************)
EXTENDS QueryAst, SequencesExt

CONSTANTS MinMagnitude, MinLiteral

Punctuation == {"(", ")", "[", "]", "{", "}", ",", ".", ":"}

\* The words of a tree as they are read from left to right; a direction that is
\* not written is asc.
RECURSIVE Words(_)

AllWords(trees) == FoldLeft(LAMBDA words, tree : words \o Words(tree), <<>>, trees)

Count(keyword, count) == IF count = NoCount THEN <<>> ELSE <<keyword, count>>

Condition(filter) == IF filter = NoTree THEN <<>> ELSE <<"filter">> \o Words(filter)

OperatorWords(op) == IF op = "not in" THEN <<"not", "in">> ELSE <<op>>

Words(tree) ==
    CASE tree.node = "none" -> <<>>
      [] tree.node = "path" -> tree.steps
      [] tree.node = "literal" -> IF tree.token = MinLiteral THEN <<"-", MinMagnitude>> ELSE <<tree.token>>
      [] tree.node \in {"and", "or"} -> Words(tree.left) \o <<tree.node>> \o Words(tree.right)
      [] tree.node = "not" -> <<"not">> \o Words(tree.operand)
      [] tree.node \in {"compare", "in", "arithmetic"} ->
            Words(tree.left) \o OperatorWords(tree.op) \o Words(tree.right)
      [] tree.node = "unary" -> <<tree.op>> \o Words(tree.operand)
      [] tree.node = "in select" -> Words(tree.select)
      [] tree.node = "in list" -> AllWords(tree.values)
      [] tree.node = "call" -> <<tree.name>> \o AllWords(tree.args)
      [] tree.node = "scoped" -> <<"exists">> \o Words(tree.path) \o Words(tree.predicate)
      [] tree.node = "shape" -> AllWords(tree.items)
      [] tree.node = "field" -> <<tree.name>> \o Words(tree.shape)
      [] tree.node = "computed" -> <<tree.name, ":=">> \o Words(tree.expr)
      [] tree.node = "order" -> Words(tree.expr) \o (IF tree.direction = "asc" THEN <<>> ELSE <<"desc">>)
      [] tree.node = "select" ->
            <<"select", tree.root>> \o Words(tree.shape) \o Condition(tree.filter)
            \o (IF tree.orderBy = <<>> THEN <<>> ELSE <<"order", "by">> \o AllWords(tree.orderBy))
            \o Count("limit", tree.limit) \o Count("offset", tree.offset)
      [] tree.node = "assignment" -> <<tree.field, tree.operator>> \o Words(tree.value)
      [] tree.node = "insert" -> <<"insert", tree.root>> \o AllWords(tree.assignments)
      [] tree.node = "update" ->
            <<"update", tree.target>> \o Condition(tree.filter) \o <<"set">> \o AllWords(tree.assignments)
      [] tree.node = "delete" -> <<"delete", tree.target>> \o Condition(tree.filter)

=============================================================================
