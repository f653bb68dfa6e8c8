------------------------------ MODULE MCTexts ------------------------------
(***************************************************************************)
(* Parts of the query language, and keyboards, for TLC.                    *)
(***************************************************************************)
EXTENDS QueryTexts

PathOf(text, names) == [text |-> text, steps |-> names]

A == PathOf(<<"a">>, <<"a">>)
LongPath == PathOf(<<"b", ".", "commit">>, <<"b", "commit">>)

\* Every kind of operator, one of each.
Operators ==
    [NoLanguage EXCEPT
        !.rules = {"path", "literal", "group", "unary", "factor", "term", "compare", "and", "or", "not", "in list"},
        !.paths = {A}, !.literals = {"1"}, !.signs = {"-"}, !.factors = {"*"}, !.terms = {"+"},
        !.relations = {"="}, !.memberships = {"not in"}, !.height = 3, !.steps = 7]

Commas == {<<",">>}

\* Selects of names that are commands elsewhere, with all clauses and selects in them.
Selects ==
    [NoLanguage EXCEPT
        !.rules = {"bare path", "least", "call", "scoped", "items", "shape", "select", "clause",
                   "in select", "in list", "delete"},
        !.paths = {LongPath}, !.names = {"start"}, !.memberships = {"in"},
        !.separators = Commas, !.height = 3, !.steps = 8]

Changes ==
    [NoLanguage EXCEPT
        !.rules = {"bare path", "items", "shape", "select", "assignments", "insert", "update", "delete"},
        !.paths = {LongPath}, !.names = {"start"}, !.literals = {"1"},
        !.separators = Commas, !.height = 3, !.steps = 7]

\* Statements with strings, entered at the prompt.
Prompted ==
    [NoLanguage EXCEPT
        !.rules = {"path", "literal", "compare", "scoped", "items", "shape", "select", "clause",
                   "assignments", "insert", "update", "delete"},
        !.paths = {A}, !.names = {"start"}, !.literals = {"'s'"}, !.relations = {"="},
        !.separators = Commas, !.height = 3, !.steps = 6, !.entered = TRUE]

\* Statements with selects in parentheses, in braces or not, entered at the prompt.
Nested ==
    [NoLanguage EXCEPT
        !.rules = {"path", "scoped", "in select", "items", "shape", "select",
                   "assignments", "insert", "update", "delete"},
        !.paths = {A}, !.names = {"start"}, !.memberships = {"in"},
        !.separators = Commas, !.height = 3, !.steps = 7, !.entered = TRUE]

MCLanguages == {Operators, Selects, Changes, Prompted, Nested}

\* Selects that filter by another select, as the guide enters one.
Filters ==
    [NoLanguage EXCEPT
        !.rules = {"path", "in select", "items", "shape", "select", "clause"},
        !.paths = {A}, !.names = {"start"}, !.memberships = {"in"},
        !.separators = Commas, !.height = 3, !.steps = 9, !.entered = TRUE]

OnlyFilters == {Filters}
NoKeyboards == {}

Text(beginning, alphabet) ==
    [beginning |-> beginning, alphabet |-> alphabet, symbols |-> Len(beginning) + 4,
     texts |-> 1, prompt |-> FALSE]

\* In an expression, in a list of assignments, behind a shape, in a script, and
\* at the prompt.
MCKeyboards ==
    {Text(<<"delete", "a", "filter", "a">>,
          {"a", "exists", "not", "in", "and", "1", "-", MinMagnitude, ".", ",", "(", ")", "[", "]", "{", "}", "="}),
     Text(<<"update", "a", "set", "{">>, {"a", "in", "1", MinMagnitude, "-", ":=", "+=", ",", "}", "commit"}),
     Text(<<"select", "a", "{", "}">>, {"a", "order", "by", "asc", "limit", "offset", "1", ",", "-", ";"}),
     Text(<<"commit">>, {"a", "commit", "start", "transaction", "delete", ";"}),
     [beginning |-> <<>>, alphabet |-> {"select", "commit", "a", "{", "}", Quote, NewLine}, symbols |-> 3,
      texts |-> 2, prompt |-> TRUE]}
=============================================================================
