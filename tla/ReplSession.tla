----------------------------- MODULE ReplSession -----------------------------
(***************************************************************************)
(* Sessions of the REPL (`gelite repl --database`) on one database file:   *)
(* run_repl and handle_repl_line of tools/repl over execute_request of     *)
(* gelite-cli, one connection per session.  What is entered is given by    *)
(* the queries complete_repl_inputs takes out of it and by the text that   *)
(* stays pending (ReplInput says which); the content of the file is the    *)
(* set of changes in it, a change being a session, the number of its input *)
(* and the number of the query in that input.                              *)
(*                                                                         *)
(* The follow-up selects of a select hold the lock the select holds and    *)
(* are part of it here.                                                    *)
(***************************************************************************)
EXTENDS Sqlite, Script, SequencesExt

CONSTANTS
    Inputs,         \* what is entered: records with the fields before, queries, after
    Arguments,      \* queries that are given as an argument instead
    NothingPending, \* the pending text at the prompt of a new input
    MaxQueries,     \* bound: queries of one input
    MaxInputs       \* bound: MaxInputs[c], the inputs of all sessions of process c

\* What a query is to the loop; one that does not compile is "invalid".
Queries == Ops \cup {"exit"}

ASSUME InputsAssumption ==
    \A input \in Inputs : input.queries \in Seq(Queries) /\ Len(input.queries) <= MaxQueries
ASSUME ArgumentsAssumption == Arguments \subseteq Queries
ASSUME BoundsAssumption == MaxInputs \in [Connections -> Nat] /\ MaxQueries \in Nat \ {0}

VARIABLES
    pc,             \* pc[c]: where session c is
    interactive,    \* interactive[c]: it reads its queries from the prompt
    pending,        \* pending[c]: run_repl's pending text
    interrupts,     \* interrupts[c]: run_repl's interrupt_count
    inputs,         \* inputs[c]: the queries of every input so far
    next,           \* next[c]: the query of the last input that is run next
    known,          \* known[c]: what the session's messages say of a transaction
    block           \* block[c]: the changes reported since it was started

sessionVars == <<pc, interactive, pending, interrupts, inputs, next, known, block>>
vars == <<sqliteVars, sessionVars>>

PcValues == {"closed", "prompt", "running", "leaving"}
Knowledge == {"open", "closed", "unsure"}

Init ==
    /\ SqliteInit({})
    /\ pc = [c \in Connections |-> "closed"]
    /\ interactive = [c \in Connections |-> FALSE]
    /\ pending = [c \in Connections |-> NothingPending]
    /\ interrupts = [c \in Connections |-> 0]
    /\ inputs = [c \in Connections |-> <<>>]
    /\ next = [c \in Connections |-> 1]
    /\ known = [c \in Connections |-> "closed"]
    /\ block = [c \in Connections |-> {}]

Goto(c, label) == pc' = [pc EXCEPT ![c] = label]

Queue(c) == inputs[c][Len(inputs[c])]
Query(c) == Queue(c)[next[c]]
Running(c) == pc[c] = "running" /\ next[c] <= Len(Queue(c))
Runs(c, query) == Running(c) /\ Query(c) = query

ThisChange(c) == <<c, Len(inputs[c]), next[c]>>

\* The queries of a new input are run from the first one on.
Take(c, queries) ==
    /\ Len(inputs[c]) < MaxInputs[c]
    /\ inputs' = [inputs EXCEPT ![c] = Append(@, queries)]
    /\ next' = [next EXCEPT ![c] = 1]
    /\ Goto(c, "running")

-----------------------------------------------------------------------------
\* The prompt

Open(c) ==
    /\ pc[c] = "closed"
    /\ Goto(c, "prompt")
    /\ interactive' = [interactive EXCEPT ![c] = TRUE]
    /\ UNCHANGED <<sqliteVars, pending, interrupts, inputs, next, known, block>>

\* A query given as an argument: it is not divided, and no prompt follows.
RunArgument(c, query) ==
    /\ pc[c] = "closed"
    /\ Take(c, <<query>>)
    /\ UNCHANGED <<sqliteVars, interactive, pending, interrupts, known, block>>

Enter(c, input) ==
    /\ pc[c] = "prompt"
    /\ input.before = pending[c]
    /\ Take(c, input.queries)
    /\ pending' = [pending EXCEPT ![c] = input.after]
    /\ interrupts' = [interrupts EXCEPT ![c] = 0]
    /\ UNCHANGED <<sqliteVars, interactive, known, block>>

\* Mutant of Interrupt: interrupts are counted, and only the third one leaves.
InterruptThird(c) ==
    /\ pc[c] = "prompt"
    /\ pending' = [pending EXCEPT ![c] = NothingPending]
    /\ interrupts' = [interrupts EXCEPT ![c] = @ + 1]
    /\ Goto(c, IF interrupts[c] >= 2 THEN "leaving" ELSE "prompt")
    /\ UNCHANGED <<sqliteVars, interactive, inputs, next, known, block>>

\* handle_repl_interrupt
Interrupt(c) ==
    /\ pc[c] = "prompt"
    /\ pending' = [pending EXCEPT ![c] = NothingPending]
    /\ interrupts' = [interrupts EXCEPT ![c] = @ + 1]
    /\ Goto(c, IF interrupts[c] >= 1 THEN "leaving" ELSE "prompt")
    /\ UNCHANGED <<sqliteVars, interactive, inputs, next, known, block>>

\* End of input, or the terminal cannot be read.
EndOfInput(c) ==
    /\ pc[c] = "prompt"
    /\ Goto(c, "leaving")
    /\ UNCHANGED <<sqliteVars, interactive, pending, interrupts, inputs, next, known, block>>

-----------------------------------------------------------------------------
\* Queries

\* The query has succeeded.
Advance(c) ==
    /\ next' = [next EXCEPT ![c] = @ + 1]
    /\ UNCHANGED <<pc, interactive, pending, interrupts, inputs>>

\* The rest of the input is dropped.
Stop(c) ==
    /\ Goto(c, IF interactive[c] THEN "prompt" ELSE "leaving")
    /\ next' = [next EXCEPT ![c] = 1]
    /\ UNCHANGED <<interactive, pending, interrupts, inputs>>

\* Every query of the input has succeeded.
FinishInput(c) ==
    /\ pc[c] = "running"
    /\ ~Running(c)
    /\ Stop(c)
    /\ UNCHANGED <<sqliteVars, known, block>>

\* is_exit_command
Exit(c) ==
    /\ Runs(c, "exit")
    /\ Goto(c, "leaving")
    /\ UNCHANGED <<sqliteVars, interactive, pending, interrupts, inputs, next, known, block>>

IsTransaction(query) == query \in {"start", "commit", "rollback"}

\* compile_input fails, or a transaction command is no interactive input.
Refuse(c) ==
    /\ Running(c)
    /\ \/ Query(c) = "invalid"
       \/ IsTransaction(Query(c)) /\ ~interactive[c]
    /\ Stop(c)
    /\ UNCHANGED <<sqliteVars, known, block>>

ReadNow(c) == IF txn[c] THEN Read(c) ELSE AutocommitRead(c)

Select(c) ==
    /\ Runs(c, "select")
    /\ ReadNow(c)
    /\ Advance(c)
    /\ UNCHANGED <<known, block>>

\* Outside of what is known to be a transaction a change is simply made.
Change(c) ==
    /\ Runs(c, "write")
    /\ LET content == View(c) \cup {ThisChange(c)}
       IN  IF txn[c] THEN Write(c, content) ELSE AutocommitWrite(c, content)
    /\ Advance(c)
    /\ block' = [block EXCEPT ![c] = IF known[c] = "closed" THEN {} ELSE @ \cup {ThisChange(c)}]
    /\ UNCHANGED known

\* A transaction command was executed.
Command(c, query, knowledge) ==
    /\ Runs(c, query)
    /\ interactive[c]
    /\ Advance(c)
    /\ known' = [known EXCEPT ![c] = knowledge]
    /\ block' = [block EXCEPT ![c] = {}]

\* Mutant of StartTransaction: BEGIN is not sent.
StartUnsent(c) == Command(c, "start", "open") /\ UNCHANGED sqliteVars

StartTransaction(c) == Command(c, "start", "open") /\ Begin(c)

CommitTransaction(c) == Command(c, "commit", "closed") /\ Commit(c)

\* Mutant of RollbackTransaction: ROLLBACK is not sent.
RollbackUnsent(c) == Command(c, "rollback", "closed") /\ txn[c] /\ UNCHANGED sqliteVars

RollbackTransaction(c) == Command(c, "rollback", "closed") /\ txn[c] /\ Rollback(c)

\* An executor's error: the message leaves a user of an open transaction unsure.
Report(c) ==
    /\ known' = [known EXCEPT ![c] = IF @ = "open" THEN "unsure" ELSE @]
    /\ UNCHANGED block

\* What is left to the executor.
Executes(c) == Running(c) /\ Query(c) \in {"select", "write"} \cup (IF interactive[c] THEN {"start", "commit", "rollback"} ELSE {})

CommitBusyFails(c) ==
    /\ Runs(c, "commit")
    /\ interactive[c]
    /\ CommitBusy(c)
    /\ Report(c)
    /\ Stop(c)

\* Mutants of QueryFails: the loop goes on with the next query; the query is kept.
QuerySkipped(c) == Executes(c) /\ StatementError(c) /\ Report(c) /\ Advance(c)
QueryKept(c) ==
    /\ Executes(c)
    /\ StatementError(c)
    /\ Report(c)
    /\ UNCHANGED <<pc, interactive, pending, interrupts, inputs, next>>

\* A constraint, a lock of another session, an I/O error, or a transaction command
\* SQLite refuses in the state its connection is in.
QueryFails(c) ==
    /\ Executes(c)
    /\ StatementError(c)
    /\ Report(c)
    /\ Stop(c)

-----------------------------------------------------------------------------
\* The connection is closed; SQLite rolls back what is open.  Nothing else
\* of the process is left either.
Gone(c) ==
    /\ Release(c)
    /\ Goto(c, "closed")
    /\ known' = [known EXCEPT ![c] = "closed"]
    /\ block' = [block EXCEPT ![c] = {}]
    /\ interactive' = [interactive EXCEPT ![c] = FALSE]
    /\ pending' = [pending EXCEPT ![c] = NothingPending]
    /\ interrupts' = [interrupts EXCEPT ![c] = 0]
    /\ next' = [next EXCEPT ![c] = 1]
    /\ UNCHANGED inputs

\* run_repl_command returns and drops the runner.
Leave(c) == pc[c] = "leaving" /\ Gone(c)

\* The process is killed.
Crash(c) == pc[c] \in {"prompt", "running"} /\ Die(c) /\ Gone(c)

\* What the program does by itself.
RunInput(c) ==
    \/ Select(c) \/ Change(c) \/ Exit(c) \/ Refuse(c)
    \/ StartTransaction(c) \/ CommitTransaction(c) \/ RollbackTransaction(c)
    \/ CommitBusyFails(c) \/ QueryFails(c) \/ FinishInput(c)

Step(c) ==
    \/ Open(c) \/ \E query \in Arguments : RunArgument(c, query)
    \/ \E input \in Inputs : Enter(c, input)
    \/ Interrupt(c) \/ EndOfInput(c)
    \/ RunInput(c)
    \/ Leave(c) \/ Crash(c)

Next == \E c \in Connections : Step(c)

Spec == Init /\ [][Next]_vars

\* Fairness: a process that is running goes on; nobody has to type.
FairSpec == Spec /\ \A c \in Connections : WF_vars(RunInput(c)) /\ WF_vars(Leave(c))

-----------------------------------------------------------------------------
Content == SUBSET (Connections \X (Nat \ {0}) \X (Nat \ {0}))

\* The connection of a session holds locks only in a transaction, which only an
\* interactive one has; a session that was not left has seen one interrupt at most.
TypeOK ==
    /\ disk \in Content
    /\ txn \in [Connections -> BOOLEAN]
    /\ lock \in [Connections -> LockStates]
    /\ work = [c \in Connections |-> work[c]]
    /\ pc \in [Connections -> PcValues]
    /\ interactive \in [Connections -> BOOLEAN]
    /\ pending = [c \in Connections |-> pending[c]]
    /\ interrupts \in [Connections -> 0..2]
    /\ inputs \in [Connections -> Seq(Seq(Queries))]
    /\ next \in [Connections -> Nat \ {0}]
    /\ known \in [Connections -> Knowledge]
    /\ block \in [Connections -> Content]
    /\ \A c \in Connections :
          /\ IF lock[c] \in WriteLocks THEN work[c] \in Content ELSE work[c] = NoWork
          /\ lock[c] # "none" => txn[c]
          /\ txn[c] => interactive[c]
          /\ pc[c] = "prompt" => interactive[c]
          /\ pc[c] # "leaving" => interrupts[c] < 2
          /\ pc[c] = "running" => inputs[c] # <<>>

\* What COMMIT on connection c would add to the file.
Uncommitted(c) == IF lock[c] \in WriteLocks THEN work[c] \ disk ELSE {}

\* As long as no error was reported, the messages tell whether a transaction is
\* open, and whenever one is, a commit adds exactly the changes reported since its
\* start: also behind an error that left it open, and however busy the file was.
MessagesAreTrue ==
    \A c \in Connections :
        /\ known[c] = "open" => txn[c]
        /\ known[c] = "closed" => ~txn[c]
        /\ txn[c] => block[c] = Uncommitted(c)

\* A later input of c commits by hand.
CommitsLater(c, i) == \E j \in (i + 1)..Len(inputs[c]) : "commit" \in ToSet(inputs[c][j])

\* A transaction that is pasted as one input is in the file as a whole or not at
\* all, whatever fails on the way, and never if it ends with a rollback: the queries
\* behind the first error are dropped, its commit among them.  Only a commit the
\* user enters afterwards can save a part of it.
PastedBlocksAreWhole ==
    \A change \in disk :
        LET c == change[1]  i == change[2]  k == change[3]
            queries == inputs[c][i]
        IN  InBlock(queries, k) =>
                \/ CommitsLater(c, i)
                \/ /\ Committed(queries, k)
                   /\ \A j \in Unit(queries, k) : <<c, i, j>> \in disk

\* What is entered comes to an end, whatever locks the other sessions keep while
\* their users think.
InputsEnd == \A c \in Connections : pc[c] = "running" ~> pc[c] \in {"prompt", "closed"}

Contract == INSTANCE SessionContract WITH
    Processes <- Connections, Changes <- UNION {{c} \X (1..MaxInputs[c]) \X (1..MaxQueries) : c \in Connections}, file <- disk

\* The file and the messages of all sessions go together as the contract says.
ImplementsContract == Contract!Spec

=============================================================================
