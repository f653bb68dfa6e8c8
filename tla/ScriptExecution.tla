-------------------------- MODULE ScriptExecution --------------------------
(***************************************************************************)
(* Processes that run query scripts (`gelite query run`) on one database   *)
(* file: compile_script, then execute_script of gelite-commands over a     *)
(* native runner.  The content of the file is the set of effects in it, an *)
(* effect being a process and the number of the statement that made it.    *)
(*                                                                         *)
(* A select fetches its multi links with further selects (execute_follow_  *)
(* ups), each a statement of its own.                                      *)
(***************************************************************************)
EXTENDS Sqlite, Script, SequencesExt

CONSTANTS
    Scripts,        \* the scripts users run
    MaxFollowUps    \* bound on the follow-up selects of one select

ASSUME ScriptsAssumption == Scripts \subseteq Seq(Ops)

VARIABLES
    pc,             \* pc[c]: what process c is about to do
    script,         \* script[c]: the compiled script of process c
    next,           \* next[c]: the statement c is executing
    inTransaction,  \* inTransaction[c]: execute_script's own flag
    reads,          \* reads[c]: what the selects of statement next[c] have read
    results,        \* results[c]: per executed statement, what it has read
    outcome         \* outcome[c]: how the script of c ended

clientVars == <<pc, script, next, inTransaction, reads, results, outcome>>
vars == <<sqliteVars, clientVars>>

PcValues == {"idle", "run", "follow_up", "failing", "returned", "done"}
Outcomes == {"none", "rejected", "ok", "failed", "crashed"}

Init ==
    /\ SqliteInit({})
    /\ pc = [c \in Connections |-> "idle"]
    /\ script = [c \in Connections |-> <<>>]
    /\ next = [c \in Connections |-> 1]
    /\ inTransaction = [c \in Connections |-> FALSE]
    /\ reads = [c \in Connections |-> <<>>]
    /\ results = [c \in Connections |-> <<>>]
    /\ outcome = [c \in Connections |-> "none"]

Op(c) == script[c][next[c]]
Goto(c, label) == pc' = [pc EXCEPT ![c] = label]

\* Statement next[c] has succeeded: its result is pushed, the loop goes on.
Advance(c, result) ==
    /\ results' = [results EXCEPT ![c] = Append(@, result)]
    /\ next' = [next EXCEPT ![c] = @ + 1]
    /\ reads' = [reads EXCEPT ![c] = <<>>]
    /\ IF next[c] = Len(script[c])
       THEN Goto(c, "returned") /\ outcome' = [outcome EXCEPT ![c] = "ok"]
       ELSE Goto(c, "run") /\ UNCHANGED outcome
    /\ UNCHANGED script

\* The script is given up: whatever its statements returned is dropped.
GiveUp(c, label, result) ==
    /\ Goto(c, label)
    /\ outcome' = [outcome EXCEPT ![c] = result]
    /\ reads' = [reads EXCEPT ![c] = <<>>]
    /\ results' = [results EXCEPT ![c] = <<>>]
    /\ UNCHANGED <<script, next, inTransaction>>

-----------------------------------------------------------------------------
\* compile_script: nothing is executed unless all of the script is accepted.

\* Mutant of AcceptScript: statements are counted from zero.
AcceptScriptZeroBased(c, text) ==
    /\ pc[c] = "idle"
    /\ Compiles(text)
    /\ script' = [script EXCEPT ![c] = text]
    /\ next' = [next EXCEPT ![c] = 0]
    /\ Goto(c, "run")
    /\ UNCHANGED <<sqliteVars, inTransaction, reads, results, outcome>>

AcceptScript(c, text) ==
    /\ pc[c] = "idle"
    /\ Compiles(text)
    /\ script' = [script EXCEPT ![c] = text]
    /\ Goto(c, "run")
    /\ UNCHANGED <<sqliteVars, next, inTransaction, reads, results, outcome>>

RejectScript(c, text) ==
    /\ pc[c] = "idle"
    /\ ~Compiles(text)
    /\ UNCHANGED sqliteVars
    /\ GiveUp(c, "returned", "rejected")

-----------------------------------------------------------------------------
\* execute_query

ReadNow(c) == IF txn[c] THEN Read(c) ELSE AutocommitRead(c)

Select(c) ==
    /\ pc[c] = "run"
    /\ Op(c) = "select"
    /\ ReadNow(c)
    /\ reads' = [reads EXCEPT ![c] = <<View(c)>>]
    /\ Goto(c, "follow_up")
    /\ UNCHANGED <<script, next, inTransaction, results, outcome>>

\* How many follow-ups there are depends on the rows read before.
FollowUp(c) ==
    /\ pc[c] = "follow_up"
    /\ Len(reads[c]) <= MaxFollowUps
    /\ ReadNow(c)
    /\ reads' = [reads EXCEPT ![c] = Append(@, View(c))]
    /\ UNCHANGED <<pc, script, next, inTransaction, results, outcome>>

FinishSelect(c) ==
    /\ pc[c] = "follow_up"
    /\ Advance(c, reads[c])
    /\ UNCHANGED <<sqliteVars, inTransaction>>

WriteStatement(c) ==
    /\ pc[c] = "run"
    /\ Op(c) = "write"
    /\ LET content == View(c) \cup {<<c, next[c]>>}
       IN  IF txn[c] THEN Write(c, content) ELSE AutocommitWrite(c, content)
    /\ Advance(c, <<>>)
    /\ UNCHANGED inTransaction

-----------------------------------------------------------------------------
\* Transaction commands

\* in_transaction = command == TransactionCommand::Start, on success only.
SetInTransaction(c) == inTransaction' = [inTransaction EXCEPT ![c] = Op(c) = "start"]

\* Mutant of StartTransaction: the flag is set, BEGIN is not sent.
StartWithoutBegin(c) ==
    /\ pc[c] = "run"
    /\ Op(c) = "start"
    /\ UNCHANGED sqliteVars
    /\ SetInTransaction(c)
    /\ Advance(c, <<>>)

StartTransaction(c) ==
    /\ pc[c] = "run"
    /\ Op(c) = "start"
    /\ Begin(c)
    /\ SetInTransaction(c)
    /\ Advance(c, <<>>)

CommitTransaction(c) ==
    /\ pc[c] = "run"
    /\ Op(c) = "commit"
    /\ Commit(c)
    /\ SetInTransaction(c)
    /\ Advance(c, <<>>)

\* Mutant of RollbackTransaction: the flag is cleared, ROLLBACK is not sent.
RollbackFlagOnly(c) ==
    /\ pc[c] = "run"
    /\ Op(c) = "rollback"
    /\ UNCHANGED sqliteVars
    /\ SetInTransaction(c)
    /\ Advance(c, <<>>)

RollbackTransaction(c) ==
    /\ pc[c] = "run"
    /\ Op(c) = "rollback"
    /\ txn[c]
    /\ Rollback(c)
    /\ SetInTransaction(c)
    /\ Advance(c, <<>>)

-----------------------------------------------------------------------------
\* Failure

\* Mutant of CommitBusyFails: the flag is cleared before COMMIT has succeeded.
CommitBusyClearsFlag(c) ==
    /\ pc[c] = "run"
    /\ Op(c) = "commit"
    /\ CommitBusy(c)
    /\ SetInTransaction(c)
    /\ Goto(c, "failing")
    /\ UNCHANGED <<script, next, reads, results, outcome>>

CommitBusyFails(c) ==
    /\ pc[c] = "run"
    /\ Op(c) = "commit"
    /\ CommitBusy(c)
    /\ Goto(c, "failing")
    /\ UNCHANGED <<script, next, inTransaction, reads, results, outcome>>

\* Mutant of StatementFails: the loop goes on with the next statement.
StatementSkipped(c) ==
    /\ pc[c] \in {"run", "follow_up"}
    /\ StatementError(c)
    /\ Advance(c, <<>>)
    /\ UNCHANGED inTransaction

\* A constraint, a lock held by another process, an I/O error.
StatementFails(c) ==
    /\ pc[c] \in {"run", "follow_up"}
    /\ StatementError(c)
    /\ Goto(c, "failing")
    /\ UNCHANGED <<script, next, inTransaction, reads, results, outcome>>

\* The ROLLBACK may find that SQLite has rolled back by itself; its result is ignored.
ReturnError(c) ==
    /\ pc[c] = "failing"
    /\ IF inTransaction[c] THEN Rollback(c) ELSE UNCHANGED sqliteVars
    /\ GiveUp(c, "returned", "failed")

\* run_query_command returns and drops the runner.
CloseConnection(c) ==
    /\ pc[c] = "returned"
    /\ Release(c)
    /\ Goto(c, "done")
    /\ UNCHANGED <<script, next, inTransaction, reads, results, outcome>>

\* The process is killed.
Crash(c) ==
    /\ pc[c] \in {"run", "follow_up", "failing"}
    /\ Die(c)
    /\ GiveUp(c, "done", "crashed")

Step(c) ==
    \/ \E text \in Scripts : AcceptScript(c, text) \/ RejectScript(c, text)
    \/ Select(c) \/ FollowUp(c) \/ FinishSelect(c) \/ WriteStatement(c)
    \/ StartTransaction(c) \/ CommitTransaction(c) \/ RollbackTransaction(c)
    \/ CommitBusyFails(c) \/ StatementFails(c) \/ ReturnError(c)
    \/ CloseConnection(c) \/ Crash(c)

Next == \E c \in Connections : Step(c)

Spec == Init /\ [][Next]_vars

-----------------------------------------------------------------------------
\* Effects of process c, of a set of its statements, and of everybody else.
EffectsOf(c, numbers) == {<<c, i>> : i \in numbers}
OfOthers(c, content) == {effect \in content : effect[1] # c}

Content == SUBSET (Connections \X (Nat \ {0}))

\* A connection has a private copy exactly while it holds a write lock, and
\* holds locks only inside a transaction.
TypeOK ==
    /\ disk \in Content
    /\ txn \in [Connections -> BOOLEAN]
    /\ lock \in [Connections -> LockStates]
    /\ work = [c \in Connections |-> work[c]]
    /\ \A c \in Connections :
          /\ IF lock[c] \in WriteLocks THEN work[c] \in Content ELSE work[c] = NoWork
          /\ lock[c] # "none" => txn[c]
    /\ pc \in [Connections -> PcValues]
    /\ script \in [Connections -> Scripts \cup {<<>>}]
    /\ next \in [Connections -> Nat \ {0}]
    /\ inTransaction \in [Connections -> BOOLEAN]
    /\ reads \in [Connections -> Seq(Content)]
    /\ results \in [Connections -> Seq(Seq(Content))]
    /\ outcome \in [Connections -> Outcomes]

\* What the preflight is for: BEGIN is never sent inside a transaction, COMMIT
\* and ROLLBACK never outside one.
TransitionsValid ==
    \A c \in Connections : pc[c] = "run" =>
        /\ Op(c) = "start" => ~txn[c]
        /\ EndsBlock(Op(c)) => txn[c]

\* execute_script leaves its runner outside of any transaction, however it ends
\* and whichever statement failed.
CleanReturn ==
    \A c \in Connections : pc[c] = "returned" => ~txn[c] /\ lock[c] = "none"

\* A script that reports success has every write in the file, except those of
\* the blocks it rolled back itself.
SuccessIsCommitted ==
    \A c \in Connections : outcome[c] = "ok" =>
        \A i \in DOMAIN script[c] :
            script[c][i] = "write" => (<<c, i>> \in disk <=> Committed(script[c], i))

\* Everything the selects up to the current statement have read.
ReadsAt(c, i) ==
    IF i \in DOMAIN results[c] THEN ToSet(results[c][i])
    ELSE IF i = next[c] THEN ToSet(reads[c]) ELSE {}

\* Inside a transaction block the other processes stand still: all selects of
\* the block and all their follow-ups read the same effects of the others.
BlocksReadOneState ==
    \A c \in Connections : \A i, j \in 1..next[c] :
        i <= j /\ SameBlock(script[c], i, j) =>
            \A a \in ReadsAt(c, i), b \in ReadsAt(c, j) : OfOthers(c, a) = OfOthers(c, b)

\* No select reads part of another process's transaction block.
NoPartialBlockRead ==
    \A c \in Connections : \A i \in 1..next[c] : \A content \in ReadsAt(c, i) :
        \A d \in Connections \ {c} : \A k \in DOMAIN script[d] :
            <<d, k>> \in content => EffectsOf(d, Unit(script[d], k)) \subseteq content

\* No process sees another one's block in the making, nor any change during its own.
BlocksAreIsolated == BlocksReadOneState /\ NoPartialBlockRead

\* A script sees its own changes: those of earlier statements that have
\* committed or belong to the open block, and no others.
ReadsOwnWrites ==
    \A c \in Connections : \A j \in 1..next[c] : \A content \in ReadsAt(c, j) :
        \A i \in DOMAIN script[c] : script[c][i] = "write" =>
            (<<c, i>> \in content
                <=> i < j /\ (Committed(script[c], i) \/ SameBlock(script[c], i, j)))

Contract == INSTANCE ScriptContract WITH
    Processes <- Connections, accepted <- script, file <- disk

\* Scripts take effect unit by unit, in order, or stop.
ImplementsContract == Contract!Spec

=============================================================================
