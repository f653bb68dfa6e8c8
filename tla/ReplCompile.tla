----------------------------- MODULE ReplCompile -----------------------------
(***************************************************************************)
(* What the REPL makes of a query it has taken (tools/repl, compile_input), *)
(* up to the resolver.                                                     *)
(***************************************************************************)
EXTENDS QueryParser, ReplInput

\* The tokens of a query: a string is one, whatever it contains.
StringToken == CHOOSE token \in Strings : TRUE

IsTokenAt(query, i) ==
    IF query[i] = Quote THEN InString(query, i) ELSE ~InString(query, i) /\ query[i] # NewLine

Tokens(query) ==
    LET places == SelectSeq([i \in DOMAIN query |-> i], LAMBDA i : IsTokenAt(query, i))
    IN  [k \in DOMAIN places |-> IF query[places[k]] = Quote THEN StringToken ELSE query[places[k]]]

\* compile_input up to the resolver: the tree of a query or command, NoTree for one
\* that is refused; a string without end is refused by the lexer.
CompileInput(query) ==
    IF InString(query, Len(query)) THEN NoTree
    ELSE IF query[1] \in {"start", "commit", "rollback"} THEN ParseTransactionCommand(Tokens(query))
    ELSE ParseQuery(Tokens(query))

=============================================================================
