------------------------------ MODULE ReplInput ------------------------------
(***************************************************************************)
(* How the REPL takes queries out of what is typed or pasted (tools/repl,  *)
(* complete_repl_inputs).                                                  *)
(*                                                                         *)
(* An input is a sequence of symbols: the tokens of the language, line     *)
(* breaks and quotation marks, between which symbols belong to a string.   *)
(* Symbols are taken to be separated by blanks, of which nothing more is   *)
(* kept.                                                                   *)
(***************************************************************************)
EXTENDS Lists

NewLine == "new line"
Quote == "quotation mark"

\* Mutant of DataKeywords: the keyword of deletes was forgotten.
KeywordsWithoutDelete == {"select", "insert", "update"}

DataKeywords == {"select", "insert", "update", "delete"}
CommandLines == {<<"start", "transaction">>, <<"commit">>, <<"rollback">>}
ExitCommands == {<<":quit">>, <<":q">>, <<":exit">>, <<"quit">>, <<"exit">>}

\* Whether a string is open behind symbol i.
InString(input, i) == Cardinality({j \in 1..i : input[j] = Quote}) % 2 = 1

Outside(input, symbol) == {i \in DOMAIN input : input[i] = symbol /\ ~InString(input, i)}

\* Mutant of NeedsMoreInput: an open string does not count.
NeedsMoreBraces(input) == Cardinality(Outside(input, "{")) > Cardinality(Outside(input, "}"))

NeedsMoreInput(input) ==
    \/ InString(input, Len(input))
    \/ Cardinality(Outside(input, "{")) > Cardinality(Outside(input, "}"))

\* str::lines: a break at the end begins no further line.
Lines(input) ==
    LET split == Split(input, NewLine)
    IN  IF split.last = <<>> THEN split.ended ELSE Append(split.ended, split.last)

Trimmed(input) ==
    LET kept == {i \in DOMAIN input : input[i] # NewLine}
    IN  IF kept = {} THEN <<>>
        ELSE SubSeq(input, CHOOSE i \in kept : \A j \in kept : i <= j,
                           CHOOSE i \in kept : \A j \in kept : i >= j)

IsTransactionCommandLine(line) == line \in CommandLines
StartsDataStatement(line) == line # <<>> /\ line[1] \in DataKeywords

\* State of the loop: the text that is not complete yet and the queries taken.
Taking(pending, queries) == [pending |-> pending, queries |-> queries]

Queued(queries, query) == IF query = <<>> THEN queries ELSE Append(queries, query)

\* Mutants of TakeComplete: an open brace or string does not count; a query is not trimmed.
TakeCompleteEager(s) == Taking(<<>>, Queued(s.queries, Trimmed(s.pending)))
TakeCompleteUntrimmed(s) ==
    IF NeedsMoreInput(s.pending) THEN s ELSE Taking(<<>>, Queued(s.queries, s.pending))

TakeComplete(s) ==
    IF NeedsMoreInput(s.pending) THEN s
    ELSE Taking(<<>>, Queued(s.queries, Trimmed(s.pending)))

\* Mutant of AppendPending: a line that comes to nothing takes the pending text's place.
AppendPendingOver(pending, line) == IF Len(line) < 2 THEN line ELSE pending \o <<NewLine>> \o line

AppendPending(pending, line) == IF pending = <<>> THEN line ELSE pending \o <<NewLine>> \o line

\* A line that begins a statement ends the one before it, if that is complete.
TakeLine(s, line) ==
    LET mayBegin == ~NeedsMoreInput(s.pending)
        isCommand == IsTransactionCommandLine(line)
        before == IF mayBegin /\ (isCommand \/ StartsDataStatement(line)) THEN TakeComplete(s) ELSE s
    IN  IF mayBegin /\ isCommand THEN Taking(before.pending, Append(before.queries, line))
        ELSE Taking(AppendPending(before.pending, line), before.queries)

TakeLines(s, lines) ==
    LET upTo[i \in 0..Len(lines)] == IF i = 0 THEN s ELSE TakeLine(upTo[i - 1], lines[i])
    IN  upTo[Len(lines)]

CompleteInputs(pending, input) == TakeComplete(TakeLines(Taking(pending, <<>>), Lines(input)))

=============================================================================
