----------------------------- MODULE QueryParser -----------------------------
(***************************************************************************)
(* The query parser (query-parser, parser.rs): recursive descent for       *)
(* statements, binding powers for expressions.  A text is the sequence of  *)
(* its tokens, each written as it appears in the source; words are told    *)
(* apart as the lexer does.  A parse function takes the text t and the     *)
(* cursor at, and gives the tree it read and the cursor behind it.  Which  *)
(* error is reported is left out.                                          *)
(***************************************************************************)
EXTENDS QueryAst, Integers, Lists

CONSTANTS
    Names,      \* identifiers that are no contextual keywords
    Strings,    \* string literals
    Floats,     \* float literals
    SmallInts,  \* integer literals below 2^63
    HugeInts    \* integer literals above 2^63

\* The magnitude of i64::MIN, and i64::MIN.
MinMagnitude == "9223372036854775808"
MinLiteral == "-9223372036854775808"

ContextualKeywords == {"and", "or", "not", "in", "exists"}
CommandKeywords == {"start", "transaction", "commit", "rollback"}

EqualityAndOrder == {"=", "!=", "<", "<=", ">", ">="}
Membership == {"in", "not in"}
Additive == {"+", "-"}
Multiplicative == {"*", "/", "%"}

IntTokens == SmallInts \cup HugeInts \cup {MinMagnitude}

\* TokenKind::Ident
IsIdentToken(token) == token \in Names \cup ContextualKeywords

\* token_kind_is_ident: the words of transaction commands are names elsewhere.
IsIdent(token) == IsIdentToken(token) \/ token \in CommandKeywords

-----------------------------------------------------------------------------
\* Results, and the cursor

Failed == [tree |-> NoTree, at |-> 0]
Parsed(tree, at) == [tree |-> tree, at |-> at]
Succeeds(r) == r.at # 0

EndOfText == "end of text"
At(t, at) == IF at <= Len(t) THEN t[at] ELSE EndOfText

Token(expected, t, at) == IF At(t, at) = expected THEN Parsed(expected, at + 1) ELSE Failed

Ident(t, at) == IF IsIdent(At(t, at)) THEN Parsed(At(t, at), at + 1) ELSE Failed

\* expect_literal: an integer has to fit into 64 bits.
LiteralAt(t, at) ==
    IF At(t, at) \in Strings \cup Floats \cup SmallInts \cup {"true", "false", "null"}
    THEN Parsed(Literal(At(t, at)), at + 1)
    ELSE Failed

\* A rule of the grammar read at a cursor: Parse is defined last, by the rules.
\* A rule is <<name>>, <<"expr_bp", least binding power>>, <<"token", token>>,
\* <<"count", keyword>>, or <<"assignment(s)", operators>>.
RECURSIVE Parse(_, _, _)

Followed(first, rest) ==
    IF Succeeds(rest) THEN Parsed(<<first.tree>> \o rest.tree, rest.at) ELSE Failed

\* The tree of a rule out of those of its parts.
Tree(rule, parts) ==
    CASE rule = "path" -> Path(parts)
      [] rule = "scoped" -> ScopedPredicate(parts[1], parts[3])
      [] rule = "call" -> FunctionCall(parts[1], parts[3])
      [] rule = "not" -> Not(parts[2])
      [] rule = "unary" -> UnaryArithmetic(parts[1], parts[2])
      [] rule = "in select" -> InSelect(parts[2])
      [] rule = "in list" -> InList(parts[2])
      [] rule = "grouped" -> parts[2]
      [] rule = "shape" -> Shape(parts)
      [] rule = "computed" -> ComputedItem(parts[1], parts[3])
      [] rule = "nested" -> ShapeField(parts[1], parts[3])
      [] rule = "field" -> ShapeField(parts[1], NoTree)
      [] rule = "order" -> OrderExpr(parts[1], parts[2])
      [] rule = "assignment" -> Assignment(parts[1], parts[2], parts[3])
      [] rule = "select" -> SelectQuery(parts[2], parts[3], parts[4], parts[5], parts[6], parts[7])
      [] rule = "insert" -> InsertQuery(parts[2], parts[3])
      [] rule = "update" -> UpdateQuery(parts[2], parts[3], parts[5])
      [] rule = "delete" -> DeleteQuery(parts[2], parts[3])

Built(rule, r) == IF Succeeds(r) THEN Parsed(Tree(rule, r.tree), r.at) ELSE Failed

\* The rules one after the other.
RECURSIVE InOrder(_, _, _)
ThenInOrder(first, rules, t) ==
    IF Succeeds(first) THEN Followed(first, InOrder(rules, t, first.at)) ELSE Failed
InOrder(rules, t, at) ==
    IF rules = <<>> THEN Parsed(<<>>, at)
    ELSE ThenInOrder(Parse(Head(rules), t, at), Tail(rules), t)

\* One or more, separated by commas.
RECURSIVE CommaList(_, _, _)
ThenComma(first, rule, t) ==
    IF ~Succeeds(first) THEN Failed
    ELSE IF At(t, first.at) = "," THEN Followed(first, CommaList(rule, t, first.at + 1))
    ELSE Parsed(<<first.tree>>, first.at)
CommaList(rule, t, at) == ThenComma(Parse(rule, t, at), rule, t)

\* Any number up to a closing brace; a comma between them and perhaps after them.
RECURSIVE UpToBrace(_, _, _)
ThenUpToBrace(first, rule, t) ==
    IF ~Succeeds(first) \/ At(t, first.at) \notin {",", "}"} THEN Failed
    ELSE Followed(first, UpToBrace(rule, t, first.at + (IF At(t, first.at) = "," THEN 1 ELSE 0)))
UpToBrace(rule, t, at) ==
    IF At(t, at) = "}" THEN Parsed(<<>>, at + 1) ELSE ThenUpToBrace(Parse(rule, t, at), rule, t)

Braced(rule, t, at) == IF At(t, at) = "{" THEN UpToBrace(rule, t, at + 1) ELSE Failed

-----------------------------------------------------------------------------
\* Expressions

\* Mutant of BindingPower: the operators of one level group to the right.
BindingPowerRight(op) ==
    CASE op = "or" -> <<2, 1>>
      [] op = "and" -> <<4, 3>>
      [] op \in EqualityAndOrder \cup Membership -> <<6, 5>>
      [] op \in Additive -> <<8, 7>>
      [] op \in Multiplicative -> <<10, 9>>

\* Left and right.
BindingPower(op) ==
    CASE op = "or" -> <<1, 2>>
      [] op = "and" -> <<3, 4>>
      [] op \in EqualityAndOrder \cup Membership -> <<5, 6>>
      [] op \in Additive -> <<7, 8>>
      [] op \in Multiplicative -> <<9, 10>>

NotRightPower == 5
UnaryRightPower == 11

\* peek_infix_op
InfixOp(t, at) ==
    IF At(t, at) \in EqualityAndOrder \cup Additive \cup Multiplicative \cup {"or", "and", "in"} THEN At(t, at)
    ELSE IF At(t, at) = "not" /\ At(t, at + 1) = "in" THEN "not in"
    ELSE "none"

\* make_binary_expr
Binary(left, op, right) ==
    CASE op = "or" -> Or(left, right)
      [] op = "and" -> And(left, right)
      [] op \in EqualityAndOrder -> Compare(left, op, right)
      [] op \in Membership -> In(left, op, right)
      [] op \in Additive \cup Multiplicative -> Arithmetic(left, op, right)

\* The loop of parse_expr_bp: while an operator binds strongly enough.
RECURSIVE Infix(_, _, _, _)
ThenInfix(left, op, right, least, t) ==
    IF Succeeds(right) THEN Infix(Binary(left, op, right.tree), least, t, right.at) ELSE Failed

WithOperator(left, op, least, t, at) ==
    IF BindingPower(op)[1] < least THEN Parsed(left, at)
    ELSE ThenInfix(left, op,
                   Parse(IF op \in Membership THEN <<"in_rhs">> ELSE <<"expr_bp", BindingPower(op)[2]>>,
                         t, at + (IF op = "not in" THEN 2 ELSE 1)),
                   least, t)

Infix(left, least, t, at) ==
    IF InfixOp(t, at) = "none" THEN Parsed(left, at) ELSE WithOperator(left, InfixOp(t, at), least, t, at)

AfterPrefix(first, least, t) == IF Succeeds(first) THEN Infix(first.tree, least, t, first.at) ELSE Failed

ExprBp(least, t, at) == AfterPrefix(Parse(<<"prefix">>, t, at), least, t)

\* is_primary_expr_start
StartsPrimary(token) ==
    /\ token \notin {"and", "or", "in"}
    /\ \/ IsIdentToken(token)
       \/ token \in IntTokens \cup Strings \cup {".", "(", "true", "false", "null"}

\* reject_adjacent_primary_expr
NotAdjacent(r, t) == IF Succeeds(r) /\ StartsPrimary(At(t, r.at)) THEN Failed ELSE r

Expr(t, at) == NotAdjacent(ExprBp(0, t, at), t)

\* Mutant of UnaryPrefix: every integer behind a minus is the least one.
UnaryPrefixUnchecked(t, at) ==
    IF At(t, at) = "-" /\ At(t, at + 1) \in IntTokens THEN Parsed(Literal(MinLiteral), at + 2)
    ELSE Built("unary", InOrder(<<<<"token", At(t, at)>>, <<"expr_bp", UnaryRightPower>>>>, t, at))

\* A sign; i64::MIN is a literal of its own, since its magnitude is none.
UnaryPrefix(t, at) ==
    IF At(t, at) = "-" /\ At(t, at + 1) = MinMagnitude THEN Parsed(Literal(MinLiteral), at + 2)
    ELSE Built("unary", InOrder(<<<<"token", At(t, at)>>, <<"expr_bp", UnaryRightPower>>>>, t, at))

\* parse_prefix_or_primary
Prefix(t, at) ==
    CASE At(t, at) = "not" -> Built("not", InOrder(<<<<"token", "not">>, <<"expr_bp", NotRightPower>>>>, t, at))
      [] At(t, at) \in {"+", "-"} -> UnaryPrefix(t, at)
      [] OTHER -> Parse(<<"primary">>, t, at)

RECURSIVE PathSteps(_, _)
ThenDot(first, t) ==
    IF ~Succeeds(first) THEN Failed
    ELSE IF At(t, first.at) = "." THEN Followed(first, PathSteps(t, first.at + 1))
    ELSE Parsed(<<first.tree>>, first.at)
PathSteps(t, at) == ThenDot(Ident(t, at), t)

\* parse_path, with or without a leading dot.
PathAt(t, at) == Built("path", PathSteps(t, at + (IF At(t, at) = "." THEN 1 ELSE 0)))

\* exists, a dot, and a brace before anything that is neither a dot nor a name.
StartsScoped(t, at) ==
    /\ At(t, at) = "exists" /\ At(t, at + 1) = "."
    /\ \E k \in (at + 1)..Len(t) :
          /\ t[k] = "{"
          /\ \A j \in (at + 1)..(k - 1) : t[j] = "." \/ IsIdent(t[j])

Scoped(t, at) ==
    Built("scoped", InOrder(<<<<"path">>, <<"token", "{">>, <<"expr">>, <<"token", "}">>>>, t, at + 1))

\* parse_function_call_expr
Call(t, at) ==
    Built("call", InOrder(<<<<"ident">>, <<"token", "(">>,
                            IF At(t, at + 2) = ")" THEN <<"nothing">> ELSE <<"expr_list">>,
                            <<"token", ")">>>>, t, at))

Primary(t, at) ==
    CASE StartsScoped(t, at) -> Scoped(t, at)
      [] At(t, at) = "(" -> Built("grouped", InOrder(<<<<"token", "(">>, <<"expr">>, <<"token", ")">>>>, t, at))
      [] At(t, at) = "." -> PathAt(t, at)
      [] IsIdent(At(t, at)) /\ ~StartsScoped(t, at) ->
            IF At(t, at + 1) = "(" THEN Call(t, at) ELSE PathAt(t, at)
      [] OTHER -> LiteralAt(t, at)

\* parse_in_rhs: a select in parentheses or a list in brackets.
InRhs(t, at) ==
    CASE At(t, at) = "(" -> Built("in select", InOrder(<<<<"token", "(">>, <<"select">>, <<"token", ")">>>>, t, at))
      [] At(t, at) = "[" ->
            Built("in list", InOrder(<<<<"token", "[">>,
                                       IF At(t, at + 1) = "]" THEN <<"nothing">> ELSE <<"expr_list">>,
                                       <<"token", "]">>>>, t, at))
      [] OTHER -> Failed

-----------------------------------------------------------------------------
\* Clauses

ShapeAt(t, at) == Built("shape", Braced(<<"shape_item">>, t, at))

ShapeItem(t, at) ==
    CASE At(t, at + 1) = ":=" -> Built("computed", InOrder(<<<<"ident">>, <<"token", ":=">>, <<"expr">>>>, t, at))
      [] At(t, at + 1) = ":" -> Built("nested", InOrder(<<<<"ident">>, <<"token", ":">>, <<"shape">>>>, t, at))
      [] OTHER -> Built("field", InOrder(<<<<"ident">>>>, t, at))

FilterClause(t, at) ==
    IF At(t, at) = "filter" THEN Parse(<<"expr">>, t, at + 1) ELSE Parsed(NoTree, at)

OrderClause(t, at) ==
    IF At(t, at) # "order" THEN Parsed(<<>>, at)
    ELSE IF At(t, at + 1) = "by" THEN CommaList(<<"order_item">>, t, at + 2)
    ELSE Failed

Direction(t, at) == IF At(t, at) \in {"asc", "desc"} THEN Parsed(At(t, at), at + 1) ELSE Parsed("asc", at)

OrderItem(t, at) == Built("order", InOrder(<<<<"expr">>, <<"direction">>>>, t, at))

\* parse_limit_clause, parse_offset_clause
CountClause(keyword, t, at) ==
    IF At(t, at) # keyword THEN Parsed(NoCount, at)
    ELSE IF At(t, at + 1) \in SmallInts THEN Parsed(At(t, at + 1), at + 2)
    ELSE Failed

SelectAt(t, at) ==
    Built("select", InOrder(<<<<"token", "select">>, <<"ident">>, <<"shape">>, <<"filter">>,
                              <<"order">>, <<"count", "limit">>, <<"count", "offset">>>>, t, at))

\* A value of an insert or update: a literal without sign, or a select.
AssignmentValue(t, at) ==
    IF At(t, at) = "("
    THEN Built("grouped", InOrder(<<<<"token", "(">>, <<"select">>, <<"token", ")">>>>, t, at))
    ELSE LiteralAt(t, at)

AssignmentAt(operators, t, at) ==
    IF At(t, at + 1) \in operators
    THEN Built("assignment", InOrder(<<<<"ident">>, <<"token", At(t, at + 1)>>, <<"value">>>>, t, at))
    ELSE Failed

Parse(rule, t, at) ==
    CASE rule[1] = "token" -> Token(rule[2], t, at)
      [] rule[1] = "ident" -> Ident(t, at)
      [] rule[1] = "path" -> PathAt(t, at)
      [] rule[1] = "expr" -> Expr(t, at)
      [] rule[1] = "expr_bp" -> ExprBp(rule[2], t, at)
      [] rule[1] = "prefix" -> Prefix(t, at)
      [] rule[1] = "primary" -> Primary(t, at)
      [] rule[1] = "expr_list" -> CommaList(<<"expr">>, t, at)
      [] rule[1] = "nothing" -> Parsed(<<>>, at)
      [] rule[1] = "in_rhs" -> InRhs(t, at)
      [] rule[1] = "shape" -> ShapeAt(t, at)
      [] rule[1] = "shape_item" -> ShapeItem(t, at)
      [] rule[1] = "filter" -> FilterClause(t, at)
      [] rule[1] = "order" -> OrderClause(t, at)
      [] rule[1] = "order_item" -> OrderItem(t, at)
      [] rule[1] = "direction" -> Direction(t, at)
      [] rule[1] = "count" -> CountClause(rule[2], t, at)
      [] rule[1] = "select" -> SelectAt(t, at)
      [] rule[1] = "value" -> AssignmentValue(t, at)
      [] rule[1] = "assignment" -> AssignmentAt(rule[2], t, at)
      [] rule[1] = "assignments" -> Braced(<<"assignment", rule[2]>>, t, at)

-----------------------------------------------------------------------------
\* Statements and scripts

StatementRules(keyword) ==
    CASE keyword = "select" -> <<<<"select">>>>
      [] keyword = "insert" -> <<<<"token", "insert">>, <<"ident">>, <<"assignments", {":="}>>>>
      [] keyword = "update" -> <<<<"token", "update">>, <<"ident">>, <<"filter">>, <<"token", "set">>,
                                 <<"assignments", {":=", "+=", "-="}>>>>
      [] keyword = "delete" -> <<<<"token", "delete">>, <<"ident">>, <<"filter">>>>

\* The parts have to reach the end of the text: ensure_eof.
Statement(keyword, r, t) ==
    IF r.at # Len(t) + 1 THEN NoTree
    ELSE IF keyword = "select" THEN r.tree[1]
    ELSE Tree(keyword, r.tree)

\* parse_select, parse_insert, parse_update, parse_delete, by the first word of the
\* text as in compile_query.
ParseQuery(t) ==
    IF At(t, 1) \in {"select", "insert", "update", "delete"}
    THEN Statement(t[1], InOrder(StatementRules(t[1]), t, 1), t)
    ELSE NoTree

ParseTransactionCommand(t) ==
    IF t \in {<<"start", "transaction">>, <<"commit">>, <<"rollback">>}
    THEN TransactionCommand(t[1]) ELSE NoTree

\* push_script_statement: a command is parsed at once, a query later.
IsScriptStatement(t) ==
    t[1] \in {"start", "commit", "rollback"} => ParseTransactionCommand(t) # NoTree

\* Mutant of ParseScript: what follows the last semicolon is run as well.
ParseScriptOpen(t) ==
    LET statements == SelectSeq(Pieces(t, ";"), LAMBDA piece : piece # <<>>)
    IN  IF \A k \in DOMAIN statements : IsScriptStatement(statements[k]) THEN statements ELSE <<>>

\* The statements of a script, none when it is refused: with several of them the
\* last one needs its semicolon too.
ParseScript(t) ==
    LET pieces == Pieces(t, ";")
        statements == SelectSeq(pieces, LAMBDA piece : piece # <<>>)
    IN  IF /\ Len(pieces) > 1 => pieces[Len(pieces)] = <<>>
           /\ \A k \in DOMAIN statements : IsScriptStatement(statements[k])
        THEN statements ELSE <<>>

=============================================================================
