----------------------------- MODULE QueryTexts -----------------------------
(***************************************************************************)
(* Query texts, derived by the grammar of the language reference or typed  *)
(* symbol by symbol, and what the parser and the prompt make of them.      *)
(***************************************************************************)
EXTENDS QueryGrammar, ReplCompile, Typing

textVars == <<grammarVars, typingVars>>

\* Either one, so that the other stays idle.
Init ==
    \/ GrammarInit(Languages) /\ TypingInit({NoKeyboard})
    \/ GrammarInit({NoLanguage}) /\ TypingInit(Keyboards)

Next ==
    \/ Derive /\ UNCHANGED typingVars
    \/ TypeOrEnter /\ UNCHANGED grammarVars

Spec == Init /\ [][Next]_textVars

-----------------------------------------------------------------------------
Read == INSTANCE QueryWords

\* Nothing of an accepted text is passed over, and nothing is read twice or in
\* another place: the words of its tree are those of the text.
NothingIsPassedOver ==
    ParseQuery(editing) # NoTree =>
        Read!Words(ParseQuery(editing)) = SelectSeq(editing, LAMBDA token : token \notin Read!Punctuation \cup {"asc"})

\* A script is run whole or not at all: its statements are all of its text, and
\* a script of several statements that ends within one of them is refused.
ScriptsAreWhole ==
    ParseScript(editing) # <<>> =>
        /\ FlattenSeq(ParseScript(editing)) = SelectSeq(editing, LAMBDA token : token # ";")
        /\ Len(ParseScript(editing)) > 1 => editing[Len(editing)] = ";"

\* The parsers of queries and of scripts read all of what they accept.
AcceptedTextsAreRead == NothingIsPassedOver /\ ScriptsAreWhole

-----------------------------------------------------------------------------
\* Statements of the grammar, entered at the prompt with line breaks, against what
\* complete_repl_inputs takes out of them.

\* Derived from a part of the grammar that is entered at the prompt; no name in it begins
\* a statement or is a command.
IsEnteredStatement(phrase) == language.entered /\ phrase.sort \in {"select", "statement"}

\* A string as it is typed: what it contains looks like the end of a query.
Typed(token) ==
    IF token \in Strings THEN <<Quote, "}", NewLine, "commit", NewLine, "select", Quote>> ELSE <<token>>

\* The tokens with line breaks behind those at the places of the set.
Broken(tokens, breaks) ==
    FlattenSeq([i \in DOMAIN tokens |-> Typed(tokens[i]) \o (IF i \in breaks THEN <<NewLine>> ELSE <<>>)])

\* Up to two line breaks.
Breaks(tokens) == {{i, j} : i, j \in DOMAIN tokens}

\* The places of a statement where a brace is open.
Inside(tokens) ==
    {i \in DOMAIN tokens : Cardinality({j \in 1..i : tokens[j] = "{"}) > Cardinality({j \in 1..i : tokens[j] = "}"})}

\* The places before the selects in parentheses that no brace surrounds.
BeforeOpenSelects(tokens) ==
    {i \in DOMAIN tokens \ Inside(tokens) : i < Len(tokens) /\ tokens[i] = "(" /\ tokens[i + 1] = "select"}

IsEntered(phrase, queries) == Len(queries) = 1 /\ CompileInput(queries[1]) = phrase.tree

\* Pasted with these line breaks, a statement is one query and means what it means.
StaysWhole(phrase, breaks) ==
    LET result == CompleteInputs(<<>>, Broken(phrase.text, breaks))
    IN  result.pending = <<>> /\ IsEntered(phrase, result.queries)

\* A statement pasted with line breaks anywhere between its tokens stays whole, unless
\* a line begins with a select in parentheses that no brace surrounds.
PastesStayWhole ==
    phrases # <<>> /\ IsEnteredStatement(Latest) =>
        \A breaks \in Breaks(Latest.text) :
            breaks \cap BeforeOpenSelects(Latest.text) = {} => StaysWhole(Latest, breaks)

\* Regular Enter while a brace is open continues the input: a statement entered in
\* two lines, the first of which ends in a brace, waits and is then one query.
EnterContinues ==
    phrases # <<>> /\ IsEnteredStatement(Latest) =>
        \A i \in Inside(Latest.text) :
            LET line == CompleteInputs(<<>>, Broken(SubSeq(Latest.text, 1, i), {}))
                rest == CompleteInputs(line.pending, Broken(SubSeq(Latest.text, i + 1, Len(Latest.text)), {}))
            IN  line.queries = <<>> /\ rest.pending = <<>> /\ IsEntered(Latest, rest.queries)

\* complete_repl_inputs takes a statement whole, pasted over lines or continued by Enter
\* in a brace: strings that look like commands, and selects in braces, do not divide it.
\* Lines that begin with another select in parentheses are OpenSelectsStayWhole.
StatementsStayWhole == PastesStayWhole /\ EnterContinues

\* A statement stays whole if a select in its parentheses begins a line.  The guide says
\* so by its example for the prompt, "and .department.id in (", "select Department { id }"
\* (docs/src/organization.md:176-177); needs_more_input does not count parentheses, and
\* starts_data_statement takes the line for a new statement.
OpenSelectsStayWhole ==
    phrases # <<>> /\ IsEnteredStatement(Latest) =>
        \A place \in BeforeOpenSelects(Latest.text) : StaysWhole(Latest, {place})

\* Statements pasted below each other, between the lines of a transaction, are taken
\* apart into exactly these, in their order.
PastesAreTakenApart ==
    Len(phrases) >= 2 /\ IsEnteredStatement(Latest) /\ IsEnteredStatement(Before) =>
        LET result == CompleteInputs(<<>>,
                <<"start", "transaction", NewLine>> \o Broken(Before.text, {Len(Before.text)})
                \o Broken(Latest.text, {Len(Latest.text)}) \o <<"commit">>)
        IN  /\ result.pending = <<>>
            /\ [k \in DOMAIN result.queries |-> CompileInput(result.queries[k])]
                = <<TransactionCommand("start"), Before.tree, Latest.tree, TransactionCommand("commit")>>

=============================================================================
