------------------------------ MODULE MCSession ------------------------------
(***************************************************************************)
(* REPL sessions for TLC: the inputs are texts, and the REPL's own input   *)
(* handling (ReplInput) says which queries they are.                       *)
(***************************************************************************)
EXTENDS ReplSession, ReplCompile

CONSTANTS p1, p2

Line(words) == words \o <<NewLine>>

StartLine == <<"start", "transaction">>
WriteLine == <<"delete", "a">>
SelectLine == <<"select", "a", "{", "}">>

\* Kinds of queries; a text that is none is "invalid".
QueryKind(query) ==
    IF query \in ExitCommands THEN "exit"
    ELSE LET tree == CompileInput(query)
         IN  CASE tree.node = "none" -> "invalid"
               [] tree.node = "transaction" -> tree.command
               [] tree.node = "select" -> "select"
               [] OTHER -> "write"

Input(before, text) ==
    LET result == CompleteInputs(before, text)
    IN  [before |-> before, after |-> result.pending,
         queries |-> [k \in DOMAIN result.queries |-> QueryKind(result.queries[k])]]

OneLine == {StartLine, WriteLine, <<"commit">>, <<"rollback">>}

\* Pasted: a transaction, one that is rolled back, one that reads and whose last
\* statement is not complete, one that is left open, and one with a statement that
\* is none.
Pastes ==
    {Line(StartLine) \o Line(WriteLine) \o Line(SelectLine) \o Line(WriteLine) \o <<"commit">>,
     Line(WriteLine) \o Line(StartLine) \o Line(WriteLine) \o Line(<<"rollback">>) \o WriteLine,
     Line(StartLine) \o Line(SelectLine) \o <<"insert", "a", "{">>,
     Line(StartLine) \o <<"quit">>,
     Line(StartLine) \o Line(WriteLine) \o Line(<<"delete">>) \o <<"commit">>}

Unfinished == <<"insert", "a", "{">>
Finished == <<"}", NewLine, "commit">>

MCArguments == {"write", "start"}

MCInputsOf == (p1 :> 2) @@ (p2 :> 1)

MCNothing == <<>>

MCInputs ==
    {Input(<<>>, text) : text \in OneLine \cup Pastes}
    \cup {Input(Unfinished, text) : text \in {Finished, <<"a">>}}
=============================================================================
