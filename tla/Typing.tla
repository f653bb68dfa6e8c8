------------------------------- MODULE Typing -------------------------------
(***************************************************************************)
(* Texts typed symbol by symbol, whether they make sense or not: queries   *)
(* and scripts, and lines entered at the REPL's prompt.                    *)
(***************************************************************************)
EXTENDS ReplInput

CONSTANTS
    Keyboards   \* what is typed: records of what the text begins with and of its bounds
                \*   beginning: the text there is already, alphabet: the symbols,
                \*   symbols: symbols of a text, texts: how many are typed, prompt: they
                \*   are entered in the REPL

\* What a text begins with is a text.
ASSUME KeyboardsAssumption == \A k \in Keyboards : k.beginning \in Seq(ToSet(k.beginning))

VARIABLES
    keyboard,   \* what is typed here
    editing,    \* the text being typed
    pending,    \* run_repl's pending text
    taken,      \* the queries taken so far
    entered,    \* everything entered so far; Enter is a line break too
    inputs      \* the number of texts entered

typingVars == <<keyboard, editing, pending, taken, entered, inputs>>

\* Nothing can be typed here.
NoKeyboard == [beginning |-> <<>>, alphabet |-> {}, symbols |-> 0, texts |-> 0, prompt |-> FALSE]

TypingInit(keyboards) ==
    /\ keyboard \in keyboards
    /\ editing = keyboard.beginning
    /\ pending = <<>> /\ taken = <<>> /\ entered = <<>> /\ inputs = 0

\* A key, or Alt+Enter for a line break.
Type(symbol) ==
    /\ Len(editing) < keyboard.symbols /\ inputs < keyboard.texts
    /\ editing' = Append(editing, symbol)
    /\ UNCHANGED <<keyboard, pending, taken, entered, inputs>>

Enter ==
    /\ keyboard.prompt /\ inputs < keyboard.texts
    /\ LET result == CompleteInputs(pending, editing)
       IN  pending' = result.pending /\ taken' = taken \o result.queries
    /\ entered' = entered \o editing \o <<NewLine>>
    /\ editing' = <<>>
    /\ inputs' = inputs + 1
    /\ UNCHANGED keyboard

TypeOrEnter == Enter \/ \E symbol \in keyboard.alphabet : Type(symbol)

TypingSpec == TypingInit(Keyboards \cup {NoKeyboard}) /\ [][TypeOrEnter]_typingVars

-----------------------------------------------------------------------------
\* Pending text is incomplete and queries are complete.
OnlyPendingIsIncomplete ==
    /\ pending # <<>> => NeedsMoreInput(pending)
    /\ \A k \in DOMAIN taken : taken[k] # <<>> /\ ~NeedsMoreInput(taken[k])

\* A text without a symbol.
Without(text, symbol) ==
    LET rest[i \in 0..Len(text)] ==
            IF i = 0 THEN <<>>
            ELSE IF text[i] = symbol THEN rest[i - 1] ELSE Append(rest[i - 1], text[i])
    IN  rest[Len(text)]

\* Everything entered is in a query or still pending, in order and once.
NothingIsLost == Without(FlattenSeq(taken) \o pending, NewLine) = Without(entered, NewLine)

\* A query that is recalled from the history and entered again is the same query,
\* whole, and leaves nothing behind, however it was typed the first time.
HistoryRepeats ==
    \A k \in DOMAIN taken : CompleteInputs(<<>>, taken[k]) = Taking(<<>>, <<taken[k]>>)

\* However a text is typed, divided into inputs and recalled, the prompt takes the
\* same queries out of it, once each and whole.
PromptKeepsText == OnlyPendingIsIncomplete /\ NothingIsLost /\ HistoryRepeats

=============================================================================
