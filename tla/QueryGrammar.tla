---------------------------- MODULE QueryGrammar ----------------------------
(***************************************************************************)
(* What query texts mean, as the language documents it (spec/query.md,     *)
(* Grammar Sketch and Expression Grammar): every rule of the grammar is an *)
(* action that puts phrases together.  A phrase has a text, the tree the   *)
(* text stands for, and, if it is an expression, the strongest rule it     *)
(* belongs to.  Nothing here looks at a text: what the parser makes of the *)
(* texts is the property.                                                  *)
(***************************************************************************)
EXTENDS QueryParser, FiniteSets

CONSTANTS
    Languages   \* parts of the grammar: records of what each uses and of its bounds
                \*   rules: the rules in use, paths: sequences of names, names: those of
                \*   objects, items and functions, literals, signs, factors, terms,
                \*   relations, memberships: the operators in use, separators: what may
                \*   stand between two items in braces, height: phrases beside each
                \*   other, steps: rules used

VARIABLES
    language,   \* the part of the grammar in use
    phrases,    \* the last phrase first
    steps       \* the number of rules used

grammarVars == <<language, phrases, steps>>

\* Nothing can be derived here.
NoLanguage ==
    [rules |-> {}, paths |-> {}, names |-> {}, literals |-> {}, signs |-> {}, factors |-> {}, terms |-> {},
     relations |-> {}, memberships |-> {}, separators |-> {}, height |-> 0, steps |-> 0, entered |-> FALSE]

\* The levels of expression rules, the weakest first.
OrExpr == 1
AndExpr == 2
NotExpr == 3
CompareExpr == 4
AdditiveExpr == 5
MultiplicativeExpr == 6
UnaryExpr == 7
PrimaryExpr == 8

ExprPhrase(level, text, tree) == [sort |-> "expr", level |-> level, text |-> text, tree |-> tree]
Phrase(sort, text, tree) == [sort |-> sort, level |-> 0, text |-> text, tree |-> tree]

GrammarInit(languages) == language \in languages /\ phrases = <<>> /\ steps = 0

\* The last count phrases become one.
Reduce(rule, count, phrase) ==
    /\ rule \in language.rules
    /\ steps < language.steps
    /\ Len(phrases) - count < language.height
    /\ Len(phrases) - count < language.steps - steps  \* enough steps are left to put all together
    /\ phrases' = <<phrase>> \o SubSeq(phrases, count + 1, Len(phrases))
    /\ steps' = steps + 1
    /\ UNCHANGED language

IsSort(k, sort) == Len(phrases) >= k /\ phrases[k].sort = sort
IsExpr(k, level) == IsSort(k, "expr") /\ phrases[k].level >= level

Latest == phrases[1]
Before == phrases[2]

-----------------------------------------------------------------------------
\* Expressions

DottedPath(path) ==
    Reduce("path", 0, ExprPhrase(PrimaryExpr, <<".">> \o path.text, Path(path.steps)))

BarePath(path) ==
    Reduce("bare path", 0, ExprPhrase(PrimaryExpr, path.text, Path(path.steps)))

LiteralExpr(token) == Reduce("literal", 0, ExprPhrase(PrimaryExpr, <<token>>, Literal(token)))

LeastInteger ==
    Reduce("least", 0, ExprPhrase(UnaryExpr, <<"-", MinMagnitude>>, Literal(MinLiteral)))

Group ==
    /\ IsExpr(1, OrExpr)
    /\ Reduce("group", 1, ExprPhrase(PrimaryExpr, <<"(">> \o Latest.text \o <<")">>, Latest.tree))

CallWithout(name) ==
    Reduce("call", 0, ExprPhrase(PrimaryExpr, <<name, "(", ")">>, FunctionCall(name, <<>>)))

CallWithTwo(name) ==
    /\ IsExpr(1, OrExpr) /\ IsExpr(2, OrExpr)
    /\ Reduce("call", 2, ExprPhrase(PrimaryExpr, <<name, "(">> \o Before.text \o <<",">> \o Latest.text \o <<")">>,
                                    FunctionCall(name, <<Before.tree, Latest.tree>>)))

ScopedExpr(path) ==
    /\ IsExpr(1, OrExpr)
    /\ Reduce("scoped", 1, ExprPhrase(PrimaryExpr, <<"exists", ".">> \o path.text \o <<"{">> \o Latest.text \o <<"}">>,
                                      ScopedPredicate(Path(path.steps), Latest.tree)))

SignedExpr(sign) ==
    /\ IsExpr(1, UnaryExpr)
    /\ sign = "-" => Latest.text[1] # MinMagnitude
    /\ Reduce("unary", 1, ExprPhrase(UnaryExpr, <<sign>> \o Latest.text, UnaryArithmetic(sign, Latest.tree)))

\* Binary operators of one level, which group to the left.
Joined(rule, op, level, leftLevel, rightLevel, tree) ==
    /\ IsExpr(1, rightLevel) /\ IsExpr(2, leftLevel)
    /\ Reduce(rule, 2, ExprPhrase(level, Before.text \o <<op>> \o Latest.text, tree))

FactorExpr(op) ==
    Joined("factor", op, MultiplicativeExpr, MultiplicativeExpr, UnaryExpr, Arithmetic(Before.tree, op, Latest.tree))
TermExpr(op) ==
    Joined("term", op, AdditiveExpr, AdditiveExpr, MultiplicativeExpr, Arithmetic(Before.tree, op, Latest.tree))
RelationExpr(op) ==
    Joined("compare", op, CompareExpr, AdditiveExpr, AdditiveExpr, Compare(Before.tree, op, Latest.tree))
ConjunctionExpr ==
    Joined("and", "and", AndExpr, AndExpr, NotExpr, And(Before.tree, Latest.tree))
DisjunctionExpr ==
    Joined("or", "or", OrExpr, OrExpr, AndExpr, Or(Before.tree, Latest.tree))

NegatedExpr ==
    /\ IsExpr(1, NotExpr)
    /\ Reduce("not", 1, ExprPhrase(NotExpr, <<"not">> \o Latest.text, Not(Latest.tree)))

OperatorText(op) == IF op = "not in" THEN <<"not", "in">> ELSE <<op>>

InListExpr(op) ==
    /\ IsExpr(1, OrExpr) /\ IsExpr(2, AdditiveExpr)
    /\ Reduce("in list", 2, ExprPhrase(CompareExpr, Before.text \o OperatorText(op) \o <<"[">> \o Latest.text \o <<"]">>,
                                       In(Before.tree, op, InList(<<Latest.tree>>))))

InListOfTwo(op) ==
    /\ IsExpr(1, OrExpr) /\ IsExpr(2, OrExpr) /\ IsExpr(3, AdditiveExpr)
    /\ Reduce("in list", 3,
              ExprPhrase(CompareExpr,
                         phrases[3].text \o OperatorText(op) \o <<"[">> \o Before.text \o <<",">> \o Latest.text \o <<"]">>,
                         In(phrases[3].tree, op, InList(<<Before.tree, Latest.tree>>))))

InNothing(op) ==
    /\ IsExpr(1, AdditiveExpr)
    /\ Reduce("in list", 1, ExprPhrase(CompareExpr, Latest.text \o OperatorText(op) \o <<"[", "]">>,
                                       In(Latest.tree, op, InList(<<>>))))

InSelectExpr(op) ==
    /\ IsSort(1, "select") /\ IsExpr(2, AdditiveExpr)
    /\ Reduce("in select", 2, ExprPhrase(CompareExpr, Before.text \o OperatorText(op) \o <<"(">> \o Latest.text \o <<")">>,
                                         In(Before.tree, op, InSelect(Latest.tree))))

Expressions ==
    \/ \E path \in language.paths : DottedPath(path) \/ BarePath(path) \/ ScopedExpr(path)
    \/ \E token \in language.literals : LiteralExpr(token)
    \/ LeastInteger \/ Group \/ ConjunctionExpr \/ DisjunctionExpr \/ NegatedExpr
    \/ \E name \in language.names : CallWithout(name) \/ CallWithTwo(name)
    \/ \E sign \in language.signs : SignedExpr(sign)
    \/ \E op \in language.factors : FactorExpr(op)
    \/ \E op \in language.terms : TermExpr(op)
    \/ \E op \in language.relations : RelationExpr(op)
    \/ \E op \in language.memberships : InListExpr(op) \/ InListOfTwo(op) \/ InNothing(op) \/ InSelectExpr(op)

-----------------------------------------------------------------------------
\* Statements.  The tree of a list of items is the sequence of their trees.

Item(count, sort, text, tree) ==
    LET items == phrases[count]
    IN  /\ IsSort(count, sort)
        /\ \E separator \in language.separators :
              Reduce(sort, count, Phrase(sort, IF items.tree = <<>> THEN text ELSE items.text \o separator \o text,
                                         Append(items.tree, tree)))

Items(sort) == Reduce(sort, 0, Phrase(sort, <<>>, <<>>))

FieldItem(name) == Item(1, "items", <<name>>, ShapeField(name, NoTree))

ComputedField(name) ==
    /\ IsExpr(1, OrExpr)
    /\ Item(2, "items", <<name, ":=">> \o Latest.text, ComputedItem(name, Latest.tree))

NestedField(name) ==
    /\ IsSort(1, "shape")
    /\ Item(2, "items", <<name, ":">> \o Latest.text, ShapeField(name, Latest.tree))

\* A comma may follow the last item.
InBraces(items, comma) == <<"{">> \o items.text \o (IF comma /\ items.tree # <<>> THEN <<",">> ELSE <<>>) \o <<"}">>

ClosedShape(comma) ==
    /\ IsSort(1, "items")
    /\ Reduce("shape", 1, Phrase("shape", InBraces(Latest, comma), Shape(Latest.tree)))

Select(root) ==
    /\ IsSort(1, "shape")
    /\ Reduce("select", 1, Phrase("select", <<"select", root>> \o Latest.text,
                                  SelectQuery(root, Latest.tree, NoTree, <<>>, NoCount, NoCount)))

\* The clauses come in one order, so that a later one excludes an earlier one.
Filtered ==
    /\ IsExpr(1, OrExpr) /\ IsSort(2, "select")
    /\ Before.tree.filter = NoTree /\ Before.tree.orderBy = <<>>
    /\ Before.tree.limit = NoCount /\ Before.tree.offset = NoCount
    /\ Reduce("clause", 2, Phrase("select", Before.text \o <<"filter">> \o Latest.text,
                                  [Before.tree EXCEPT !.filter = Latest.tree]))

Ordered(direction) ==
    /\ IsExpr(1, OrExpr) /\ IsSort(2, "select")
    /\ Before.tree.limit = NoCount /\ Before.tree.offset = NoCount
    /\ Reduce("clause", 2,
              Phrase("select",
                     Before.text \o (IF Before.tree.orderBy = <<>> THEN <<"order", "by">> ELSE <<",">>) \o Latest.text \o direction,
                     [Before.tree EXCEPT !.orderBy = Append(@, OrderExpr(Latest.tree, IF direction = <<"desc">> THEN "desc" ELSE "asc"))]))

Limited(count) ==
    /\ IsSort(1, "select") /\ Latest.tree.limit = NoCount /\ Latest.tree.offset = NoCount
    /\ Reduce("clause", 1, Phrase("select", Latest.text \o <<"limit", count>>, [Latest.tree EXCEPT !.limit = count]))

Skipping(count) ==
    /\ IsSort(1, "select") /\ Latest.tree.offset = NoCount
    /\ Reduce("clause", 1, Phrase("select", Latest.text \o <<"offset", count>>, [Latest.tree EXCEPT !.offset = count]))

AssignedLiteral(name, operator, token) ==
    Item(1, "assignments", <<name, operator, token>>, Assignment(name, operator, Literal(token)))

AssignedSelect(name, operator) ==
    /\ IsSort(1, "select")
    /\ Item(2, "assignments", <<name, operator, "(">> \o Latest.text \o <<")">>, Assignment(name, operator, Latest.tree))

OnlySets(assignments) == \A k \in DOMAIN assignments : assignments[k].operator = ":="

Insert(root, comma) ==
    /\ IsSort(1, "assignments") /\ OnlySets(Latest.tree)
    /\ Reduce("insert", 1, Phrase("statement", <<"insert", root>> \o InBraces(Latest, comma), InsertQuery(root, Latest.tree)))

Update(target, comma) ==
    /\ IsSort(1, "assignments")
    /\ Reduce("update", 1, Phrase("statement", <<"update", target, "set">> \o InBraces(Latest, comma),
                                  UpdateQuery(target, NoTree, Latest.tree)))

UpdateWhere(target, comma) ==
    /\ IsSort(1, "assignments") /\ IsExpr(2, OrExpr)
    /\ Reduce("update", 2, Phrase("statement", <<"update", target, "filter">> \o Before.text \o <<"set">> \o InBraces(Latest, comma),
                                  UpdateQuery(target, Before.tree, Latest.tree)))

Delete(target) == Reduce("delete", 0, Phrase("statement", <<"delete", target>>, DeleteQuery(target, NoTree)))

DeleteWhere(target) ==
    /\ IsExpr(1, OrExpr)
    /\ Reduce("delete", 1, Phrase("statement", <<"delete", target, "filter">> \o Latest.text, DeleteQuery(target, Latest.tree)))

Statements ==
    \/ \E sort \in {"items", "assignments"} : Items(sort)
    \/ \E name \in language.names : FieldItem(name) \/ ComputedField(name) \/ NestedField(name)
    \/ \E comma \in BOOLEAN : ClosedShape(comma)
    \/ \E name \in language.names : Select(name) \/ Delete(name) \/ DeleteWhere(name)
    \/ Filtered
    \/ \E direction \in {<<>>, <<"asc">>, <<"desc">>} : Ordered(direction)
    \/ \E count \in SmallInts : Limited(count) \/ Skipping(count)
    \/ \E name \in language.names, operator \in {":=", "+=", "-="} :
          AssignedSelect(name, operator) \/ \E token \in language.literals : AssignedLiteral(name, operator, token)
    \/ \E name \in language.names, comma \in BOOLEAN : Insert(name, comma) \/ Update(name, comma) \/ UpdateWhere(name, comma)

Derive == Expressions \/ Statements

-----------------------------------------------------------------------------
\* A phrase as a statement: an expression is put into a filter.
Sentence(phrase) ==
    IF phrase.sort = "expr" THEN <<"delete", "a", "filter">> \o phrase.text ELSE phrase.text

MeaningOf(phrase) == IF phrase.sort = "expr" THEN DeleteQuery("a", phrase.tree) ELSE phrase.tree

\* Whatever the grammar derives is accepted and means what it derives: operators
\* bind and group as documented, in filters, lists, scopes, groups and items.
SentencesAreUnderstood ==
    phrases # <<>> /\ Latest.sort \in {"select", "statement", "expr"} =>
        ParseQuery(Sentence(Latest)) = MeaningOf(Latest)

=============================================================================
