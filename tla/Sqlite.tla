------------------------------- MODULE Sqlite -------------------------------
(***************************************************************************)
(* The SQLite database file as the engine uses it: one file, one           *)
(* connection per process, deferred transactions and the rollback-journal  *)
(* locks SQLite uses by default.  This is the code the repository links    *)
(* and does not contain; it is modelled from the calls in                  *)
(* sqlite-runner/src/native.rs, which opens every connection with a busy   *)
(* timeout of zero: a lock held by another connection is an error at once  *)
(* and never a wait.                                                       *)
(*                                                                         *)
(* The content of the file is left open: this module only says who may see *)
(* and replace it.  A connection that writes works on a private copy,      *)
(* which COMMIT installs in one step.                                      *)
(***************************************************************************)
EXTENDS Naturals

CONSTANTS
    Connections,    \* the processes that open the database file
    NoWork          \* the private copy of a connection that has written nothing

VARIABLES
    disk,   \* the committed content of the file
    txn,    \* txn[c]: an explicit transaction is open on connection c
    lock,   \* lock[c]: the file lock connection c holds
    work    \* work[c]: the uncommitted content c would install

sqliteVars == <<disk, txn, lock, work>>

LockStates == {"none", "shared", "reserved", "pending"}
WriteLocks == {"reserved", "pending"}

SqliteInit(initialDisk) ==
    /\ disk = initialDisk
    /\ txn = [c \in Connections |-> FALSE]
    /\ lock = [c \in Connections |-> "none"]
    /\ work = [c \in Connections |-> NoWork]

Others(c) == Connections \ {c}

\* What a statement on connection c reads: its own writes, else the file.
View(c) == IF lock[c] \in WriteLocks THEN work[c] ELSE disk

\* SHARED is refused while another connection waits to write the file back.
CanRead(c) == \A d \in Others(c) : lock[d] # "pending"

\* RESERVED is held by at most one connection.
CanWrite(c) == \A d \in Others(c) : lock[d] \notin WriteLocks

\* The file may be overwritten only while nobody else reads it.
CanWriteBack(c) == \A d \in Others(c) : lock[d] = "none"

-----------------------------------------------------------------------------
\* BEGIN: deferred, takes no lock; an error inside an open transaction.
Begin(c) ==
    /\ ~txn[c]
    /\ txn' = [txn EXCEPT ![c] = TRUE]
    /\ UNCHANGED <<disk, lock, work>>

\* A SELECT outside a transaction: the lock is gone when the statement ends.
AutocommitRead(c) ==
    /\ ~txn[c]
    /\ CanRead(c)
    /\ UNCHANGED sqliteVars

\* A SELECT inside a transaction keeps its SHARED lock until the end of it, and
\* one that has the lock reads on while somebody waits for it to leave.
Read(c) ==
    /\ txn[c]
    /\ lock[c] = "none" => CanRead(c)
    /\ lock' = [lock EXCEPT ![c] = IF @ = "none" THEN "shared" ELSE @]
    /\ UNCHANGED <<disk, txn, work>>

\* A writing statement outside a transaction is a transaction of its own: it
\* reaches the file, or fails and leaves no lock.
AutocommitWrite(c, db) ==
    /\ ~txn[c]
    /\ CanWriteBack(c)
    /\ disk' = db
    /\ UNCHANGED <<txn, lock, work>>

\* A writing statement inside a transaction, which leaves c with content db.
Write(c, db) ==
    /\ txn[c]
    /\ CanWrite(c)
    /\ lock' = [lock EXCEPT ![c] = IF @ = "pending" THEN @ ELSE "reserved"]
    /\ work' = [work EXCEPT ![c] = db]
    /\ UNCHANGED <<disk, txn>>

\* The transaction of c is over and nothing of it reaches the file.
Release(c) ==
    /\ txn' = [txn EXCEPT ![c] = FALSE]
    /\ lock' = [lock EXCEPT ![c] = "none"]
    /\ work' = [work EXCEPT ![c] = NoWork]
    /\ UNCHANGED disk

CommitRead(c) == txn[c] /\ lock[c] \notin WriteLocks /\ Release(c)

CommitWrite(c) ==
    /\ txn[c]
    /\ lock[c] \in WriteLocks
    /\ CanWriteBack(c)
    /\ disk' = work[c]
    /\ txn' = [txn EXCEPT ![c] = FALSE]
    /\ lock' = [lock EXCEPT ![c] = "none"]
    /\ work' = [work EXCEPT ![c] = NoWork]

Commit(c) == CommitRead(c) \/ CommitWrite(c)

\* COMMIT while somebody reads: SQLITE_BUSY.  The transaction stays open and
\* keeps the PENDING lock, which shuts new readers out.
CommitBusy(c) ==
    /\ txn[c]
    /\ lock[c] \in WriteLocks
    /\ ~CanWriteBack(c)
    /\ lock' = [lock EXCEPT ![c] = "pending"]
    /\ UNCHANGED <<disk, txn, work>>

\* ROLLBACK, an error when no transaction is open; either way c is idle after.
Rollback(c) == Release(c)

\* A statement fails for a reason outside the model (disk full, I/O error, out
\* of memory, lock held by another).  SQLite leaves the transaction open or, for
\* some of these errors, has already rolled it back.
StatementError(c) == UNCHANGED sqliteVars \/ Release(c)

\* The process dies; the next one to open the file discards its journal.
Die(c) == Release(c)

=============================================================================
