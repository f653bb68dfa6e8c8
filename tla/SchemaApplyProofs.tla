------------------------- MODULE SchemaApplyProofs -------------------------
(***************************************************************************)
(* Proofs about SchemaApply, for any set of processes and any schemas.     *)
(*                                                                         *)
(* Two invariants carry them.  HistoryInv is about version numbers and who *)
(* may write: of the statements of a plan it uses only that the last one   *)
(* alone touches the versions table.  ContentInv is about the rows those   *)
(* statements insert and the tables they create, and rests on what         *)
(* SchemaPlanProofs proves of plans.                                       *)
(***************************************************************************)
EXTENDS SchemaApply, SchemaPlanProofs

\* A statement SQLite accepts leaves a database content with the same versions.
LEMMA ExecuteKeepsVersions ==
    ASSUME NEW db, NEW s, IsDatabase(db), Accepts(db, s)
    PROVE  IsDatabase(Execute(db, s)) /\ Execute(db, s).versions = db.versions
<1>1. CASE s.op = "create_table"
    BY <1>1 DEF IsDatabase, Execute
<1>2. CASE s.op = "add_column"
    BY <1>2 DEF IsDatabase, Execute
<1>3. CASE s.op = "create_index"
    BY <1>3 DEF IsDatabase, Execute
<1>4. CASE s.op = "insert_object"
    BY <1>4 DEF IsDatabase, Execute
<1>5. CASE s.op = "insert_field"
    BY <1>5 DEF IsDatabase, Execute
<1>6. QED
    BY <1>1, <1>2, <1>3, <1>4, <1>5 DEF Accepts

\* The last statement adds its row and nothing else to the versions.
LEMMA InsertVersionAddsRow ==
    ASSUME NEW db, NEW row, IsDatabase(db)
    PROVE  /\ IsDatabase(InsertVersionRow(db, row))
           /\ InsertVersionRow(db, row).versions = db.versions \cup {row}
BY DEF IsDatabase, InsertVersionRow
-----------------------------------------------------------------------------
\* Type correctness, split into the variables of Sqlite and those of the clients.

FileTyped ==
    /\ IsDatabase(disk)
    /\ txn \in [Connections -> BOOLEAN]
    /\ lock \in [Connections -> LockStates]
    /\ work = [c \in Connections |-> work[c]]
    /\ \A c \in Connections :
          /\ IF lock[c] \in WriteLocks THEN IsDatabase(work[c]) ELSE work[c] = NoWork
          /\ lock[c] # "none" => txn[c]

ClientTyped ==
    /\ pc \in [Connections -> PcValues]
    /\ want \in [Connections -> Schemas \cup {<<>>}]
    /\ found \in [Connections -> Seq(BOOLEAN)]
    /\ latest = [c \in Connections |-> latest[c]]
    /\ objects = [c \in Connections |-> objects[c]]
    /\ base = [c \in Connections |-> base[c]]
    /\ \A c \in Connections :
          base[c] = [number |-> base[c].number, catalog |-> base[c].catalog]
    /\ step \in [Connections -> Nat]
    /\ outcome \in [Connections -> Outcomes]

LEMMA ControlTypeOKSplit == ControlTypeOK <=> FileTyped /\ ClientTyped
BY DEF ControlTypeOK, FileTyped, ClientTyped

LEMMA ViewIsDatabase ==
    ASSUME FileTyped, NEW c \in Connections
    PROVE  IsDatabase(View(c))
BY DEF FileTyped, View

LEMMA FileRelease ==
    ASSUME FileTyped, NEW c \in Connections, Release(c)
    PROVE  FileTyped'
BY DEF FileTyped, Release, LockStates, WriteLocks

LEMMA FileUnchanged ==
    ASSUME FileTyped, UNCHANGED sqliteVars
    PROVE  FileTyped'
BY DEF FileTyped, sqliteVars

LEMMA FileBegin ==
    ASSUME FileTyped, NEW c \in Connections, Begin(c)
    PROVE  FileTyped'
BY DEF FileTyped, Begin

LEMMA FileRead ==
    ASSUME FileTyped, NEW c \in Connections, Read(c)
    PROVE  FileTyped'
BY DEF FileTyped, Read, LockStates, WriteLocks

LEMMA FileWrite ==
    ASSUME FileTyped, NEW c \in Connections, NEW db, IsDatabase(db), Write(c, db)
    PROVE  FileTyped'
BY DEF FileTyped, Write, LockStates, WriteLocks

LEMMA FileCommit ==
    ASSUME FileTyped, NEW c \in Connections, Commit(c)
    PROVE  FileTyped'
<1>1. CASE CommitRead(c)
    BY <1>1, FileRelease DEF CommitRead
<1>2. CASE CommitWrite(c)
    BY <1>2 DEF FileTyped, CommitWrite, LockStates, WriteLocks
<1>3. QED
    BY <1>1, <1>2 DEF Commit

LEMMA FileCommitBusy ==
    ASSUME FileTyped, NEW c \in Connections, CommitBusy(c)
    PROVE  FileTyped'
BY DEF FileTyped, CommitBusy, LockStates, WriteLocks

LEMMA FileStatementError ==
    ASSUME FileTyped, NEW c \in Connections, StatementError(c)
    PROVE  FileTyped'
BY FileRelease, FileUnchanged DEF StatementError

\* Finish resets the variables of one process to their initial values.
LEMMA FinishTyped ==
    ASSUME ClientTyped, NEW c \in Connections, NEW result \in Outcomes, Finish(c, result)
    PROVE  ClientTyped'
<1>1. "idle" \in PcValues
    BY DEF PcValues
<1>2. pc' \in [Connections -> PcValues]
    BY <1>1 DEF ClientTyped, Finish, Goto
<1>3. want' \in [Connections -> Schemas \cup {<<>>}] /\ found' \in [Connections -> Seq(BOOLEAN)]
    BY DEF ClientTyped, Finish
<1>4. /\ latest' = [d \in Connections |-> latest'[d]]
      /\ objects' = [d \in Connections |-> objects'[d]]
      /\ base' = [d \in Connections |-> base'[d]]
    BY DEF ClientTyped, Finish
<1>5. ASSUME NEW d \in Connections
      PROVE  base'[d] = [number |-> base'[d].number, catalog |-> base'[d].catalog]
    BY DEF ClientTyped, Finish, NoBase
<1>6. step' \in [Connections -> Nat] /\ outcome' \in [Connections -> Outcomes]
    BY DEF ClientTyped, Finish
<1>7. QED
    BY <1>2, <1>3, <1>4, <1>5, <1>6 DEF ClientTyped

\* A step that moves one process on and touches at most its own data.
LEMMA GotoTyped ==
    ASSUME ClientTyped, NEW c \in Connections, NEW label \in PcValues, Goto(c, label),
           UNCHANGED <<want, found, base, step, outcome>>,
           latest' = [d \in Connections |-> latest'[d]],
           objects' = [d \in Connections |-> objects'[d]]
    PROVE  ClientTyped'
BY DEF ClientTyped, Goto

-----------------------------------------------------------------------------
\* Processes start without a connection's lock, transaction or copy.
THEOREM InitTyped == Init => ControlTypeOK
<1> SUFFICES ASSUME Init PROVE FileTyped /\ ClientTyped
    BY ControlTypeOKSplit
<1>1. IsDatabase(EmptyDatabase)
    BY DEF IsDatabase, EmptyDatabase
<1>2. FileTyped
    BY <1>1 DEF Init, SqliteInit, FileTyped, LockStates, WriteLocks
<1>3. ClientTyped
    BY DEF Init, ClientTyped, PcValues, Outcomes, NoBase
<1>4. QED
    BY <1>2, <1>3

\* Every probe, statement, error path and crash keeps them in their types.
THEOREM StepTyped == ControlTypeOK /\ [Next]_vars => ControlTypeOK'
<1> SUFFICES ASSUME FileTyped, ClientTyped, [Next]_vars PROVE FileTyped' /\ ClientTyped'
    BY ControlTypeOKSplit DEF ControlTypeOK, FileTyped, ClientTyped
<1> USE DEF PcValues, Outcomes
<1>1. ASSUME NEW c \in Connections, NEW catalog \in Schemas, StartApply(c, catalog)
      PROVE  FileTyped' /\ ClientTyped'
    BY <1>1, FileUnchanged DEF StartApply, Goto, ClientTyped
<1>2. ASSUME NEW c \in Connections, ProbeTable(c)
      PROVE  FileTyped' /\ ClientTyped'
  <2>1. FileTyped'
    BY <1>2, FileUnchanged DEF ProbeTable, AutocommitRead
  <2> DEFINE probes == Append(found[c], TableExists(disk, MetadataTables[Len(found[c]) + 1]))
  <2>2. probes \in Seq(BOOLEAN)
    BY DEF ClientTyped, TableExists
  <2>3. \/ /\ found' = [found EXCEPT ![c] = probes]
           /\ \/ UNCHANGED pc \/ Goto(c, "begin_read") \/ Goto(c, "plan")
           /\ UNCHANGED <<want, latest, objects, base, step, outcome>>
        \/ Finish(c, "partial")
    BY <1>2 DEF ProbeTable
  <2> HIDE DEF probes
  <2>4. ASSUME Finish(c, "partial") PROVE ClientTyped'
    BY <2>4, FinishTyped
  <2>5. ASSUME /\ found' = [found EXCEPT ![c] = probes]
               /\ \/ UNCHANGED pc \/ Goto(c, "begin_read") \/ Goto(c, "plan")
               /\ UNCHANGED <<want, latest, objects, base, step, outcome>>
        PROVE  ClientTyped'
    <3>1. found' \in [Connections -> Seq(BOOLEAN)]
      BY <2>2, <2>5 DEF ClientTyped
    <3>2. pc' \in [Connections -> PcValues]
      BY <2>5 DEF ClientTyped, Goto
    <3>3. QED
      BY <2>5, <3>1, <3>2 DEF ClientTyped
  <2>6. QED
    BY <2>1, <2>3, <2>4, <2>5
<1>3. ASSUME NEW c \in Connections, ProbeError(c)
      PROVE  FileTyped' /\ ClientTyped'
    BY <1>3, FileUnchanged, FinishTyped DEF ProbeError
<1>4. ASSUME NEW c \in Connections, BeginVerification(c)
      PROVE  FileTyped' /\ ClientTyped'
    BY <1>4, FileBegin DEF BeginVerification, Goto, ClientTyped
<1>5. ASSUME NEW c \in Connections, ReadLatestVersion(c)
      PROVE  FileTyped' /\ ClientTyped'
    BY <1>5, FileRead DEF ReadLatestVersion, Goto, ClientTyped
<1>6. ASSUME NEW c \in Connections, ReadObjects(c)
      PROVE  FileTyped' /\ ClientTyped'
    BY <1>6, FileRead DEF ReadObjects, Goto, ClientTyped
<1>7. ASSUME NEW c \in Connections, ReadFields(c)
      PROVE  FileTyped' /\ ClientTyped'
  <2> DEFINE loaded == [number |-> latest[c].number,
                        catalog |-> CatalogFromRows(objects[c], View(c).fields)]
  <2>1. /\ Read(c)
        /\ \/ base' = [base EXCEPT ![c] = loaded] /\ Goto(c, "commit_read")
           \/ UNCHANGED base /\ Goto(c, "rollback_read")
        /\ UNCHANGED <<want, found, latest, objects, step, outcome>>
    BY <1>7 DEF ReadFields
  <2>2. FileTyped'
    BY <2>1, FileRead
  <2>3. loaded = [number |-> loaded.number, catalog |-> loaded.catalog]
    OBVIOUS
  <2> HIDE DEF loaded
  <2>4. ClientTyped'
    BY <2>1, <2>3 DEF Goto, ClientTyped
  <2>5. QED
    BY <2>2, <2>4
<1>8. ASSUME NEW c \in Connections, CommitVerification(c)
      PROVE  FileTyped' /\ ClientTyped'
    BY <1>8, FileCommit DEF CommitVerification, Goto, ClientTyped
<1>9. ASSUME NEW c \in Connections, VerificationError(c)
      PROVE  FileTyped' /\ ClientTyped'
    BY <1>9, FileStatementError DEF VerificationError, Goto, ClientTyped
<1>10. ASSUME NEW c \in Connections, RollbackVerification(c)
      PROVE  FileTyped' /\ ClientTyped'
    BY <1>10, FileRelease, FinishTyped DEF RollbackVerification, Rollback
<1>11. ASSUME NEW c \in Connections, RejectUnsupported(c) \/ NothingToDo(c)
      PROVE  FileTyped' /\ ClientTyped'
    BY <1>11, FileUnchanged, FinishTyped DEF RejectUnsupported, NothingToDo
<1>12. ASSUME NEW c \in Connections, BeginApply(c)
      PROVE  FileTyped' /\ ClientTyped'
    BY <1>12, FileBegin DEF BeginApply, Goto, ClientTyped
<1>13. ASSUME NEW c \in Connections, ExecuteStatement(c)
      PROVE  FileTyped' /\ ClientTyped'
  <2> DEFINE s == Statements(c)[step[c] + 1]
  <2>1. Accepts(View(c), s) /\ Write(c, Execute(View(c), s))
    BY <1>13 DEF ExecuteStatement
  <2>2. IsDatabase(Execute(View(c), s))
    BY <2>1, ViewIsDatabase, ExecuteKeepsVersions
  <2>3. FileTyped'
    BY <2>1, <2>2, FileWrite
  <2> HIDE DEF s
  <2>4. /\ step' = [step EXCEPT ![c] = step[c] + 1]
        /\ UNCHANGED pc \/ Goto(c, "insert_version")
        /\ UNCHANGED <<want, found, latest, objects, base, outcome>>
    BY <1>13 DEF ExecuteStatement
  <2>5. step' \in [Connections -> Nat]
    BY <2>4 DEF ClientTyped
  <2>6. pc' \in [Connections -> PcValues]
    BY <2>4 DEF Goto, ClientTyped
  <2>7. ClientTyped'
    BY <2>4, <2>5, <2>6 DEF ClientTyped
  <2>8. QED
    BY <2>3, <2>7
<1>14. ASSUME NEW c \in Connections, InsertVersion(c)
      PROVE  FileTyped' /\ ClientTyped'
  <2>1. FileTyped'
    BY <1>14, ViewIsDatabase, InsertVersionAddsRow, FileWrite DEF InsertVersion
  <2>2. ClientTyped'
    BY <1>14 DEF InsertVersion, Goto, ClientTyped
  <2>3. QED
    BY <2>1, <2>2
<1>15. ASSUME NEW c \in Connections, CommitApply(c)
      PROVE  FileTyped' /\ ClientTyped'
    BY <1>15, FileCommit, FinishTyped DEF CommitApply
<1>16. ASSUME NEW c \in Connections, CommitApplyBusy(c)
      PROVE  FileTyped' /\ ClientTyped'
    BY <1>16, FileCommitBusy DEF CommitApplyBusy, Goto, ClientTyped
<1>17. ASSUME NEW c \in Connections, ApplyError(c)
      PROVE  FileTyped' /\ ClientTyped'
    BY <1>17, FileStatementError DEF ApplyError, Goto, ClientTyped
<1>18. ASSUME NEW c \in Connections, RollbackApply(c)
      PROVE  FileTyped' /\ ClientTyped'
    BY <1>18, FileRelease, FinishTyped DEF RollbackApply, Rollback
<1>19. ASSUME NEW c \in Connections, OpenSession(c)
      PROVE  FileTyped' /\ ClientTyped'
    BY <1>19, FileUnchanged DEF OpenSession, Goto, ClientTyped
<1>20. ASSUME NEW c \in Connections, LoadObjects(c)
      PROVE  FileTyped' /\ ClientTyped'
    BY <1>20, FileUnchanged DEF LoadObjects, AutocommitRead, Goto, ClientTyped
<1>21. ASSUME NEW c \in Connections, LoadFields(c)
      PROVE  FileTyped' /\ ClientTyped'
    BY <1>21, FileUnchanged DEF LoadFields, AutocommitRead, Goto, ClientTyped
<1>22. ASSUME NEW c \in Connections, LoadError(c) \/ CloseSession(c)
      PROVE  FileTyped' /\ ClientTyped'
    BY <1>22, FileUnchanged, FinishTyped DEF LoadError, CloseSession
<1>23. ASSUME NEW c \in Connections, Crash(c)
      PROVE  FileTyped' /\ ClientTyped'
    BY <1>23, FileRelease, FinishTyped DEF Crash, Die
<1>24. CASE UNCHANGED vars
  <2>1. UNCHANGED sqliteVars
    BY <1>24 DEF vars
  <2>2. UNCHANGED <<pc, want, found, latest, objects, base, step, outcome>>
    BY <1>24 DEF vars, clientVars
  <2>3. QED
    BY <2>1, <2>2, FileUnchanged DEF ClientTyped
<1>25. QED
    BY <1>1, <1>2, <1>3, <1>4, <1>5, <1>6, <1>7, <1>8, <1>9, <1>10, <1>11, <1>12, <1>13,
       <1>14, <1>15, <1>16, <1>17, <1>18, <1>19, <1>20, <1>21, <1>22, <1>23, <1>24
    DEF Next, ApplySteps, LoadSteps

\* Locks, transactions and program counters are always what TypeOK says of them.
THEOREM TypeCorrect == Spec => []ControlTypeOK
BY InitTyped, StepTyped, PTL DEF Spec

-----------------------------------------------------------------------------
(***************************************************************************)
(* The version history.  VersionsContiguous is not inductive: a commit     *)
(* installs a copy made earlier, with a number computed even earlier.  The *)
(* strengthening says what each process knows: the row it has read and the *)
(* version it plans from are in the file (nothing is ever removed), and    *)
(* the copy it would install has the versions of the file, plus one row    *)
(* with a free number once the version row has been inserted.              *)
(***************************************************************************)

WriterPc == {"apply", "insert_version", "commit", "rollback_write"}
NoBasePc == {"idle", "probe", "load_objects", "load_fields", "serving"}

BaseStored(c) ==
    \/ base[c].number = 0
    \/ \E row \in disk.versions :
          row.number = base[c].number /\ row.snapshot = Snapshot(base[c].catalog)

CopyTracksFile(c) ==
    lock[c] \in WriteLocks =>
        /\ pc[c] \in WriterPc
        /\ pc[c] \in {"apply", "insert_version"} => work[c].versions = disk.versions
        /\ pc[c] = "commit" =>
              /\ work[c].versions = disk.versions \cup {NewVersionRow(c)}
              /\ \A row \in disk.versions : row.number # base[c].number + 1

ProcessInv(c) ==
    /\ latest[c] = NoRow \/ latest[c] \in disk.versions
    /\ BaseStored(c)
    /\ pc[c] \in NoBasePc => base[c].number = 0
    /\ CopyTracksFile(c)

HistoryInv ==
    /\ VersionsContiguous
    /\ \A c \in Connections : ProcessInv(c)

\* What a step of process c leaves alone.
Frame(c) ==
    \A d \in Connections \ {c} :
        /\ lock'[d] = lock[d] /\ work'[d] = work[d]
        /\ pc'[d] = pc[d] /\ want'[d] = want[d]
        /\ latest'[d] = latest[d] /\ base'[d] = base[d]

LockFrame(c) ==
    \A d \in Connections \ {c} : lock'[d] = lock[d] /\ work'[d] = work[d]

ClientFrame(c) ==
    \A d \in Connections \ {c} :
        pc'[d] = pc[d] /\ want'[d] = want[d] /\ latest'[d] = latest[d] /\ base'[d] = base[d]

\* The contiguous versions up to n, and a row numbered n + 1 that is not there.
LEMMA SuccessorContiguous ==
    ASSUME NEW versions, ContiguousVersions(versions), NEW number, NEW snapshot,
           number = 0 \/ \E row \in versions : row.number = number,
           \A row \in versions : row.number # number + 1
    PROVE  /\ ContiguousVersions(versions \cup {VersionRow(number + 1, snapshot)})
           /\ \A row \in versions : row.number <= number
<1> DEFINE new == VersionRow(number + 1, snapshot)
<1>1. number \in Nat
    BY DEF ContiguousVersions
<1>2. \A row \in versions : row.number <= number
  <2> SUFFICES ASSUME NEW row \in versions, row.number > number PROVE FALSE
      BY <1>1 DEF ContiguousVersions
  <2>1. number + 1 \in 1..row.number
    BY <1>1 DEF ContiguousVersions
  <2>2. \E earlier \in versions : earlier.number = number + 1
    BY <2>1 DEF ContiguousVersions
  <2>3. QED
    BY <2>2
<1>3. new.number = number + 1
    BY DEF VersionRow
<1>4. ASSUME NEW n \in 1..(number + 1)
      PROVE  \E earlier \in versions \cup {new} : earlier.number = n
  <2>1. CASE n = number + 1
    BY <2>1, <1>3
  <2>2. CASE n # number + 1
    <3>1. n \in 1..number /\ number # 0
      BY <2>2, <1>1
    <3>2. PICK row \in versions : row.number = number
      BY <3>1
    <3>3. QED
      BY <3>1, <3>2 DEF ContiguousVersions
  <2>3. QED
    BY <2>1, <2>2
<1> HIDE DEF new
<1>5. \A a, b \in versions \cup {new} : a.number = b.number => a = b
    BY <1>3 DEF ContiguousVersions
<1>6. ASSUME NEW row \in versions \cup {new}
      PROVE  /\ row.number \in Nat \ {0}
             /\ \A n \in 1..row.number :
                   \E earlier \in versions \cup {new} : earlier.number = n
  <2>1. CASE row = new
    BY <2>1, <1>1, <1>3, <1>4
  <2>2. CASE row \in versions
    BY <2>2 DEF ContiguousVersions
  <2>3. QED
    BY <2>1, <2>2
<1>7. \A row \in versions \cup {new} : row.number <= new.number
    BY <1>1, <1>2, <1>3 DEF ContiguousVersions
<1>8. ContiguousVersions(versions \cup {new})
    BY <1>5, <1>6, <1>7 DEF ContiguousVersions
<1>9. QED
    BY <1>2, <1>8 DEF new

\* LatestVersion picks the row with the highest number.
LEMMA LatestVersionStored ==
    ASSUME NEW db, db.versions # {}, ContiguousVersions(db.versions)
    PROVE  /\ LatestVersion(db) \in db.versions
           /\ \A row \in db.versions : row.number <= LatestVersion(db).number
BY DEF ContiguousVersions, LatestVersion

LEMMA FrameSplit ==
    ASSUME NEW c, LockFrame(c), ClientFrame(c)
    PROVE  Frame(c)
BY DEF Frame, LockFrame, ClientFrame

\* A step that leaves the file alone is a matter of its own process.
LEMMA QuietStep ==
    ASSUME HistoryInv, NEW c \in Connections, disk' = disk, Frame(c), ProcessInv(c)'
    PROVE  HistoryInv'
<1>1. VersionsContiguous'
    BY DEF HistoryInv, VersionsContiguous
<1>2. ASSUME NEW d \in Connections, d # c PROVE ProcessInv(d)'
  <2>1. ProcessInv(d)
    BY DEF HistoryInv
  <2>2. /\ lock'[d] = lock[d] /\ work'[d] = work[d] /\ pc'[d] = pc[d] /\ want'[d] = want[d]
        /\ latest'[d] = latest[d] /\ base'[d] = base[d]
    BY <1>2 DEF Frame
  <2>3. QED
    BY <2>1, <2>2 DEF ProcessInv, BaseStored, CopyTracksFile, NewVersionRow
<1>3. QED
    BY <1>1, <1>2 DEF HistoryInv

LEMMA ReleaseEffect ==
    ASSUME FileTyped, NEW c \in Connections, Release(c)
    PROVE  disk' = disk /\ lock'[c] = "none" /\ LockFrame(c)
BY DEF FileTyped, Release, LockFrame

LEMMA FinishEffect ==
    ASSUME ClientTyped, NEW c \in Connections, NEW result, Finish(c, result)
    PROVE  pc'[c] = "idle" /\ latest'[c] = NoRow /\ base'[c] = NoBase /\ ClientFrame(c)
BY DEF ClientTyped, Finish, Goto, ClientFrame

\* A process that has ended, or not begun, has nothing to keep true.
LEMMA FinishedProcess ==
    ASSUME NEW c \in Connections, lock'[c] \notin WriteLocks,
           pc'[c] = "idle", latest'[c] = NoRow, base'[c] = NoBase
    PROVE  ProcessInv(c)'
BY DEF ProcessInv, BaseStored, CopyTracksFile, NoBase

\* The end of a command that keeps the file as it is.
LEMMA QuietFinish ==
    ASSUME FileTyped, ClientTyped, HistoryInv, NEW c \in Connections, NEW result,
           Finish(c, result),
           \/ Release(c)
           \/ UNCHANGED sqliteVars /\ pc[c] \notin WriterPc
    PROVE  HistoryInv'
<1>1. disk' = disk /\ LockFrame(c) /\ lock'[c] \notin WriteLocks
  <2>1. CASE Release(c)
    BY <2>1, ReleaseEffect DEF WriteLocks
  <2>2. CASE UNCHANGED sqliteVars /\ pc[c] \notin WriterPc
    <3>1. lock[c] \notin WriteLocks
      BY <2>2 DEF HistoryInv, ProcessInv, CopyTracksFile
    <3>2. QED
      BY <2>2, <3>1 DEF sqliteVars, LockFrame
  <2>3. QED
    BY <2>1, <2>2
<1>2. QED
    BY <1>1, FinishEffect, FrameSplit, FinishedProcess, QuietStep

\* A step of a process that writes nothing and goes on, to a label where it
\* still knows what it knew.
LEMMA QuietGoto ==
    ASSUME FileTyped, ClientTyped, HistoryInv, NEW c \in Connections,
           NEW label, Goto(c, label),
           disk' = disk, LockFrame(c), lock'[c] \notin WriteLocks,
           \A d \in Connections \ {c} : want'[d] = want[d],
           UNCHANGED <<latest, base>>,
           label \in NoBasePc => base[c].number = 0
    PROVE  HistoryInv'
<1>1. pc'[c] = label /\ ClientFrame(c)
    BY DEF Goto, ClientTyped, ClientFrame
<1>2. ProcessInv(c)'
    BY <1>1 DEF HistoryInv, ProcessInv, BaseStored, CopyTracksFile
<1>3. QED
    BY <1>1, <1>2, FrameSplit, QuietStep

LEMMA ReadEffect ==
    ASSUME FileTyped, NEW c \in Connections, Read(c)
    PROVE  /\ disk' = disk /\ LockFrame(c)
           /\ lock[c] \notin WriteLocks => lock'[c] \notin WriteLocks
BY DEF FileTyped, Read, LockFrame, WriteLocks

\* An error leaves the file alone and never turns a read lock into a write lock.
LEMMA ErrorEffect ==
    ASSUME FileTyped, NEW c \in Connections, StatementError(c)
    PROVE  /\ disk' = disk /\ LockFrame(c)
           /\ lock'[c] = "none" \/ (lock'[c] = lock[c] /\ work'[c] = work[c])
BY ReleaseEffect DEF StatementError, sqliteVars, LockFrame

LEMMA WriteEffect ==
    ASSUME FileTyped, NEW c \in Connections, NEW db, Write(c, db)
    PROVE  disk' = disk /\ LockFrame(c) /\ work'[c] = db
BY DEF FileTyped, Write, LockFrame

\* What a writing process sees are the versions of the file.
LEMMA ViewVersions ==
    ASSUME HistoryInv, NEW c \in Connections, pc[c] \in {"apply", "insert_version"}
    PROVE  View(c).versions = disk.versions
BY DEF HistoryInv, ProcessInv, CopyTracksFile, View

\* The commit of an apply: the versions of the file and the planned successor.
LEMMA CommitInstallsSuccessor ==
    ASSUME FileTyped, ClientTyped, HistoryInv, NEW c \in Connections,
           pc[c] = "commit", CommitWrite(c), Finish(c, "applied")
    PROVE  /\ disk'.versions = disk.versions \cup {NewVersionRow(c)}
           /\ \A row \in disk.versions : row.number <= base[c].number
           /\ HistoryInv'
<1>1. /\ disk'.versions = disk.versions \cup {NewVersionRow(c)}
      /\ \A row \in disk.versions : row.number # base[c].number + 1
    BY DEF CommitWrite, HistoryInv, ProcessInv, CopyTracksFile
<1>2. base[c].number = 0 \/ \E row \in disk.versions : row.number = base[c].number
    BY DEF HistoryInv, ProcessInv, BaseStored
<1>3. /\ ContiguousVersions(disk'.versions)
      /\ \A row \in disk.versions : row.number <= base[c].number
  <2>1. ContiguousVersions(disk.versions)
    BY DEF HistoryInv, VersionsContiguous
  <2>2. /\ ContiguousVersions(disk.versions \cup {NewVersionRow(c)})
        /\ \A row \in disk.versions : row.number <= base[c].number
    <3> DEFINE versions == disk.versions
               number == base[c].number
               snapshot == Snapshot(want[c])
    <3> HIDE DEF versions, number, snapshot
    <3>1. /\ ContiguousVersions(versions)
          /\ number = 0 \/ \E row \in versions : row.number = number
          /\ \A row \in versions : row.number # number + 1
      BY <1>1, <1>2, <2>1 DEF versions, number
    <3>2. /\ ContiguousVersions(versions \cup {VersionRow(number + 1, snapshot)})
          /\ \A row \in versions : row.number <= number
      BY <3>1, SuccessorContiguous
    <3>3. QED
      BY <3>2 DEF versions, number, snapshot, NewVersionRow
  <2>3. QED
    BY <1>1, <2>2
<1>4. lock'[c] = "none" /\ LockFrame(c)
    BY DEF CommitWrite, FileTyped, LockFrame
<1>5. ProcessInv(c)'
    BY <1>4, FinishEffect, FinishedProcess DEF WriteLocks
<1>6. ASSUME NEW d \in Connections, d # c PROVE ProcessInv(d)'
  <2>1. lock'[d] = "none"
    BY <1>4, <1>6 DEF CommitWrite, CanWriteBack, Others, LockFrame
  <2>2. pc'[d] = pc[d] /\ latest'[d] = latest[d] /\ base'[d] = base[d]
    BY <1>6, FinishEffect DEF ClientFrame
  <2>3. QED
    BY <1>1, <2>1, <2>2 DEF HistoryInv, ProcessInv, BaseStored, CopyTracksFile, WriteLocks
<1>7. QED
    BY <1>1, <1>3, <1>5, <1>6 DEF HistoryInv, VersionsContiguous

\* A new file has no versions and nobody writes.
THEOREM InitHistory == Init => HistoryInv
<1> SUFFICES ASSUME Init PROVE HistoryInv
    OBVIOUS
<1>1. disk.versions = {}
    BY DEF Init, SqliteInit, EmptyDatabase
<1>2. VersionsContiguous
    BY <1>1 DEF VersionsContiguous, ContiguousVersions
<1>3. \A c \in Connections : ProcessInv(c)
    BY DEF Init, SqliteInit, ProcessInv, BaseStored, CopyTracksFile, NoBase, WriteLocks
<1>4. QED
    BY <1>2, <1>3 DEF HistoryInv

\* Only a commit changes the versions, and it adds the successor of the latest one.
THEOREM StepHistory == ControlTypeOK /\ HistoryInv /\ [Next]_vars => HistoryInv'
<1> SUFFICES ASSUME FileTyped, ClientTyped, HistoryInv, [Next]_vars PROVE HistoryInv'
    BY ControlTypeOKSplit
<1> USE DEF WriterPc, NoBasePc
<1>1. ASSUME NEW c \in Connections, pc[c] \notin WriterPc
      PROVE  lock[c] \notin WriteLocks
    BY <1>1 DEF HistoryInv, ProcessInv, CopyTracksFile
<1>2. ASSUME NEW c \in Connections, pc[c] \in NoBasePc
      PROVE  base[c].number = 0
    BY <1>2 DEF HistoryInv, ProcessInv
<1>3. ASSUME NEW c \in Connections, NEW catalog \in Schemas, StartApply(c, catalog)
      PROVE  HistoryInv'
  <2>1. /\ pc[c] = "idle" /\ Goto(c, "probe") /\ UNCHANGED sqliteVars
        /\ want' = [want EXCEPT ![c] = catalog] /\ UNCHANGED <<latest, base>>
    BY <1>3 DEF StartApply
  <2>2. /\ disk' = disk /\ LockFrame(c) /\ lock'[c] \notin WriteLocks
        /\ \A d \in Connections \ {c} : want'[d] = want[d]
    BY <1>1, <2>1 DEF sqliteVars, LockFrame, ClientTyped
  <2>3. QED
    BY <1>2, <2>1, <2>2, QuietGoto
<1>4. ASSUME NEW c \in Connections, ProbeTable(c)
      PROVE  HistoryInv'
  <2>1. /\ pc[c] = "probe" /\ UNCHANGED sqliteVars
        /\ \/ UNCHANGED <<pc, want, latest, base>>
           \/ /\ Goto(c, "begin_read") \/ Goto(c, "plan")
              /\ UNCHANGED <<want, latest, base>>
           \/ Finish(c, "partial")
    BY <1>4 DEF ProbeTable, AutocommitRead
  <2>2. disk' = disk /\ LockFrame(c) /\ lock'[c] \notin WriteLocks
    BY <1>1, <2>1 DEF sqliteVars, LockFrame
  <2>3. CASE UNCHANGED <<pc, want, latest, base>>
    BY <2>1, <2>3, <1>1
    DEF sqliteVars, HistoryInv, ProcessInv, BaseStored, CopyTracksFile, VersionsContiguous,
        NewVersionRow
  <2>4. CASE (Goto(c, "begin_read") \/ Goto(c, "plan")) /\ UNCHANGED <<want, latest, base>>
    BY <2>2, <2>4, QuietGoto
  <2>5. CASE Finish(c, "partial")
    BY <2>1, <2>5, QuietFinish
  <2>6. QED
    BY <2>1, <2>3, <2>4, <2>5
<1>5. ASSUME NEW c \in Connections,
             ProbeError(c) \/ RejectUnsupported(c) \/ NothingToDo(c)
               \/ LoadError(c) \/ CloseSession(c)
      PROVE  HistoryInv'
    BY <1>5, QuietFinish DEF ProbeError, RejectUnsupported, NothingToDo, LoadError, CloseSession
<1>6. ASSUME NEW c \in Connections,
             BeginVerification(c) \/ BeginApply(c)
      PROVE  HistoryInv'
  <2>1. /\ pc[c] \notin WriterPc /\ Begin(c)
        /\ Goto(c, "version") \/ Goto(c, "apply")
        /\ UNCHANGED <<want, latest, base>>
    BY <1>6 DEF BeginVerification, BeginApply
  <2>2. disk' = disk /\ LockFrame(c) /\ lock'[c] \notin WriteLocks
    BY <1>1, <2>1 DEF Begin, LockFrame
  <2>3. QED
    BY <2>1, <2>2, QuietGoto
<1>7. ASSUME NEW c \in Connections, ReadLatestVersion(c)
      PROVE  HistoryInv'
  <2>1. /\ pc[c] = "version" /\ Read(c)
        /\ \/ Goto(c, "rollback_read") /\ UNCHANGED latest
           \/ /\ View(c).versions # {}
              /\ latest' = [latest EXCEPT ![c] = LatestVersion(View(c))] /\ Goto(c, "objects")
        /\ UNCHANGED <<want, base>>
    BY <1>7 DEF ReadLatestVersion
  <2>2. disk' = disk /\ LockFrame(c) /\ lock'[c] \notin WriteLocks /\ View(c) = disk
    BY <1>1, <2>1, ReadEffect DEF View
  <2>3. latest'[c] = latest[c] \/ latest'[c] \in disk.versions
    BY <2>1, <2>2, LatestVersionStored DEF HistoryInv, VersionsContiguous, ClientTyped
  <2>4. ClientFrame(c)
    BY <2>1 DEF ClientFrame, Goto, ClientTyped
  <2>5. pc'[c] \in {"rollback_read", "objects"}
    BY <2>1 DEF Goto, ClientTyped
  <2>6. ProcessInv(c)'
    BY <2>1, <2>2, <2>3, <2>5 DEF HistoryInv, ProcessInv, BaseStored, CopyTracksFile
  <2>7. QED
    BY <2>2, <2>4, <2>6, FrameSplit, QuietStep
<1>8. ASSUME NEW c \in Connections, ReadObjects(c)
      PROVE  HistoryInv'
  <2>1. /\ pc[c] = "objects" /\ Read(c) /\ Goto(c, "fields")
        /\ UNCHANGED <<want, latest, base>>
    BY <1>8 DEF ReadObjects
  <2>2. QED
    BY <1>1, <2>1, ReadEffect, QuietGoto
<1>9. ASSUME NEW c \in Connections, ReadFields(c)
      PROVE  HistoryInv'
  <2> DEFINE loaded == CatalogFromRows(objects[c], View(c).fields)
  <2>1. /\ pc[c] = "fields" /\ Read(c)
        /\ \/ Goto(c, "rollback_read") /\ UNCHANGED base
           \/ /\ Snapshot(loaded) = latest[c].snapshot
              /\ base' = [base EXCEPT ![c] = [number |-> latest[c].number, catalog |-> loaded]]
              /\ Goto(c, "commit_read")
        /\ UNCHANGED <<want, latest>>
    BY <1>9 DEF ReadFields
  <2> HIDE DEF loaded
  <2>2. disk' = disk /\ LockFrame(c) /\ lock'[c] \notin WriteLocks
    BY <1>1, <2>1, ReadEffect
  <2>3. ClientFrame(c) /\ pc'[c] \in {"rollback_read", "commit_read"}
    BY <2>1 DEF ClientFrame, Goto, ClientTyped
  <2>4. \/ base'[c] = base[c]
        \/ /\ base'[c].number = latest[c].number
           /\ Snapshot(base'[c].catalog) = latest[c].snapshot
    BY <2>1 DEF ClientTyped
  <2>5. BaseStored(c)'
    BY <2>2, <2>4 DEF HistoryInv, ProcessInv, BaseStored, NoRow, VersionRow
  <2>6. ProcessInv(c)'
    BY <2>1, <2>2, <2>3, <2>5 DEF HistoryInv, ProcessInv, CopyTracksFile
  <2>7. QED
    BY <2>2, <2>3, <2>6, FrameSplit, QuietStep
<1>10. ASSUME NEW c \in Connections, CommitVerification(c)
      PROVE  HistoryInv'
  <2>1. /\ pc[c] = "commit_read" /\ Commit(c) /\ Goto(c, "plan")
        /\ UNCHANGED <<want, latest, base>>
    BY <1>10 DEF CommitVerification
  <2>2. Release(c)
    BY <1>1, <2>1 DEF Commit, CommitRead, CommitWrite
  <2>3. QED
    BY <2>1, <2>2, ReleaseEffect, QuietGoto DEF WriteLocks
<1>11. ASSUME NEW c \in Connections, VerificationError(c)
      PROVE  HistoryInv'
  <2>1. /\ pc[c] \notin WriterPc /\ StatementError(c) /\ Goto(c, "rollback_read")
        /\ UNCHANGED <<want, latest, base>>
    BY <1>11 DEF VerificationError
  <2>2. lock'[c] \notin WriteLocks
    BY <1>1, <2>1, ErrorEffect DEF WriteLocks
  <2>3. QED
    BY <2>1, <2>2, ErrorEffect, QuietGoto
<1>12. ASSUME NEW c \in Connections,
              RollbackVerification(c) \/ RollbackApply(c) \/ Crash(c)
      PROVE  HistoryInv'
    BY <1>12, QuietFinish DEF RollbackVerification, RollbackApply, Crash, Rollback, Die
<1>13. ASSUME NEW c \in Connections, ExecuteStatement(c)
      PROVE  HistoryInv'
  <2> DEFINE s == Statements(c)[step[c] + 1]
  <2>1. /\ pc[c] = "apply" /\ Accepts(View(c), s) /\ Write(c, Execute(View(c), s))
        /\ UNCHANGED pc \/ Goto(c, "insert_version")
        /\ UNCHANGED <<want, latest, base>>
    BY <1>13 DEF ExecuteStatement
  <2> HIDE DEF s
  <2>2. Execute(View(c), s).versions = disk.versions
    BY <2>1, ViewIsDatabase, ExecuteKeepsVersions, ViewVersions
  <2>3. disk' = disk /\ LockFrame(c) /\ work'[c].versions = disk.versions
    BY <2>1, <2>2, WriteEffect
  <2>4. ClientFrame(c) /\ pc'[c] \in {"apply", "insert_version"}
    BY <2>1 DEF ClientFrame, Goto, ClientTyped
  <2>5. ProcessInv(c)'
    BY <2>1, <2>3, <2>4 DEF HistoryInv, ProcessInv, BaseStored, CopyTracksFile
  <2>6. QED
    BY <2>3, <2>4, <2>5, FrameSplit, QuietStep
<1>14. ASSUME NEW c \in Connections, InsertVersion(c)
      PROVE  HistoryInv'
  <2>1. /\ pc[c] = "insert_version" /\ AcceptsVersion(View(c), NewVersionRow(c))
        /\ Write(c, InsertVersionRow(View(c), NewVersionRow(c))) /\ Goto(c, "commit")
        /\ UNCHANGED <<want, latest, base>>
    BY <1>14 DEF InsertVersion
  <2>2. View(c).versions = disk.versions
    BY <2>1, ViewVersions
  <2>3. /\ disk' = disk /\ LockFrame(c)
        /\ work'[c].versions = disk.versions \cup {NewVersionRow(c)}
    BY <2>1, <2>2, ViewIsDatabase, InsertVersionAddsRow, WriteEffect
  <2>4. \A row \in disk.versions : row.number # base[c].number + 1
    BY <2>1, <2>2 DEF AcceptsVersion, NewVersionRow, VersionRow
  <2>5. ClientFrame(c) /\ pc'[c] = "commit"
    BY <2>1 DEF ClientFrame, Goto, ClientTyped
  <2>6. ProcessInv(c)'
    BY <2>1, <2>3, <2>4, <2>5 DEF HistoryInv, ProcessInv, BaseStored, CopyTracksFile, NewVersionRow
  <2>7. QED
    BY <2>3, <2>5, <2>6, FrameSplit, QuietStep
<1>15. ASSUME NEW c \in Connections, CommitApply(c)
      PROVE  HistoryInv'
  <2>1. CASE CommitRead(c)
    BY <1>15, <2>1, QuietFinish DEF CommitApply, CommitRead
  <2>2. CASE CommitWrite(c)
    BY <1>15, <2>2, CommitInstallsSuccessor DEF CommitApply
  <2>3. QED
    BY <1>15, <2>1, <2>2 DEF CommitApply, Commit
<1>16. ASSUME NEW c \in Connections, CommitApplyBusy(c) \/ ApplyError(c)
      PROVE  HistoryInv'
  <2>1. /\ disk' = disk /\ LockFrame(c) /\ Goto(c, "rollback_write")
        /\ UNCHANGED <<want, latest, base>>
    BY <1>16, ErrorEffect DEF CommitApplyBusy, ApplyError, CommitBusy, LockFrame, FileTyped
  <2>2. ClientFrame(c) /\ pc'[c] = "rollback_write"
    BY <2>1 DEF ClientFrame, Goto, ClientTyped
  <2>3. ProcessInv(c)'
    BY <2>1, <2>2 DEF HistoryInv, ProcessInv, BaseStored, CopyTracksFile
  <2>4. QED
    BY <2>1, <2>2, <2>3, FrameSplit, QuietStep
<1>17. ASSUME NEW c \in Connections, OpenSession(c) \/ LoadObjects(c)
      PROVE  HistoryInv'
  <2>1. /\ pc[c] \in NoBasePc /\ UNCHANGED sqliteVars
        /\ Goto(c, "load_objects") \/ Goto(c, "load_fields")
        /\ UNCHANGED <<want, latest, base>>
    BY <1>17 DEF OpenSession, LoadObjects, AutocommitRead
  <2>2. disk' = disk /\ LockFrame(c) /\ lock'[c] \notin WriteLocks
    BY <1>1, <2>1 DEF sqliteVars, LockFrame
  <2>3. QED
    BY <1>2, <2>1, <2>2, QuietGoto
<1>18. ASSUME NEW c \in Connections, LoadFields(c)
      PROVE  HistoryInv'
  <2>1. /\ pc[c] = "load_fields" /\ UNCHANGED sqliteVars /\ Goto(c, "serving")
        /\ base' = [base EXCEPT ![c].catalog = CatalogFromRows(objects[c], disk.fields)]
        /\ UNCHANGED <<want, latest>>
    BY <1>18 DEF LoadFields, AutocommitRead
  <2>2. disk' = disk /\ LockFrame(c) /\ lock'[c] \notin WriteLocks
    BY <1>1, <2>1 DEF sqliteVars, LockFrame
  <2>3. base'[c].number = 0
    BY <1>2, <2>1 DEF ClientTyped
  <2>4. ClientFrame(c) /\ pc'[c] = "serving"
    BY <2>1 DEF ClientFrame, Goto, ClientTyped
  <2>5. ProcessInv(c)'
    BY <2>1, <2>2, <2>3, <2>4 DEF HistoryInv, ProcessInv, BaseStored, CopyTracksFile
  <2>6. QED
    BY <2>2, <2>4, <2>5, FrameSplit, QuietStep
<1>19. CASE UNCHANGED vars
    BY <1>19 DEF vars, sqliteVars, clientVars, HistoryInv, ProcessInv, BaseStored,
                 CopyTracksFile, VersionsContiguous, NewVersionRow
<1>20. QED
    BY <1>3, <1>4, <1>5, <1>6, <1>7, <1>8, <1>9, <1>10, <1>11, <1>12, <1>13,
       <1>14, <1>15, <1>16, <1>17, <1>18, <1>19
    DEF Next, ApplySteps, LoadSteps

\* Version numbers stay contiguous whatever processes race, fail or die.
THEOREM HistoryContiguous == Spec => []VersionsContiguous
<1>1. HistoryInv => VersionsContiguous
    BY DEF HistoryInv
<1>2. QED
    BY <1>1, InitTyped, StepTyped, InitHistory, StepHistory, PTL DEF Spec

-----------------------------------------------------------------------------
\* Only the COMMIT of an apply replaces the content of the file.
LEMMA OnlyApplyWrites ==
    ASSUME FileTyped, ClientTyped, HistoryInv, Next, disk' # disk
    PROVE  \E c \in Connections : CommitApply(c) /\ CommitWrite(c)
<1> USE DEF WriterPc
<1>1. ASSUME NEW c \in Connections, Release(c) PROVE FALSE
    BY <1>1 DEF Release
<1>2. ASSUME NEW c \in Connections, StatementError(c) PROVE FALSE
    BY <1>1, <1>2 DEF StatementError, sqliteVars
<1>3. ASSUME NEW c \in Connections, CommitVerification(c) PROVE FALSE
  <2>1. lock[c] \notin WriteLocks
    BY <1>3 DEF CommitVerification, HistoryInv, ProcessInv, CopyTracksFile
  <2>2. QED
    BY <1>1, <1>3, <2>1 DEF CommitVerification, Commit, CommitRead, CommitWrite
<1>4. ASSUME NEW c \in Connections,
             ProbeTable(c) \/ ProbeError(c) \/ BeginVerification(c) \/ ReadLatestVersion(c)
               \/ ReadObjects(c) \/ ReadFields(c) \/ VerificationError(c)
               \/ RollbackVerification(c) \/ RejectUnsupported(c) \/ NothingToDo(c)
      PROVE  FALSE
    BY <1>1, <1>2, <1>4
    DEF ProbeTable, AutocommitRead, ProbeError, BeginVerification, Begin, ReadLatestVersion,
        ReadObjects, ReadFields, Read, VerificationError, RollbackVerification, Rollback,
        RejectUnsupported, NothingToDo, sqliteVars
<1>5. ASSUME NEW c \in Connections,
             BeginApply(c) \/ ExecuteStatement(c) \/ InsertVersion(c) \/ CommitApplyBusy(c)
               \/ ApplyError(c) \/ RollbackApply(c)
      PROVE  FALSE
    BY <1>1, <1>2, <1>5
    DEF BeginApply, Begin, ExecuteStatement, InsertVersion, Write, CommitApplyBusy, CommitBusy,
        ApplyError, RollbackApply, Rollback
<1>6. ASSUME NEW c \in Connections,
             OpenSession(c) \/ LoadSteps(c) \/ CloseSession(c) \/ Crash(c)
               \/ \E catalog \in Schemas : StartApply(c, catalog)
      PROVE  FALSE
    BY <1>1, <1>6
    DEF OpenSession, LoadSteps, LoadObjects, LoadFields, AutocommitRead, LoadError, CloseSession,
        Crash, Die, StartApply, sqliteVars
<1>7. PICK c \in Connections : CommitApply(c)
    BY <1>3, <1>4, <1>5, <1>6 DEF Next, ApplySteps
<1>8. CommitWrite(c)
    BY <1>1, <1>7 DEF CommitApply, Commit, CommitRead
<1>9. QED
    BY <1>7, <1>8

\* The version a process has planned from is the latest one when it commits.
LEMMA BaseIsLatest ==
    ASSUME HistoryInv, NEW c \in Connections,
           \A row \in disk.versions : row.number <= base[c].number
    PROVE  IF HasSchema
           THEN /\ LatestVersion(disk).number = base[c].number
                /\ LatestVersion(disk).snapshot = Snapshot(base[c].catalog)
           ELSE IsInitial(c)
<1>1. CASE HasSchema
  <2>1. ContiguousVersions(disk.versions)
    BY DEF HistoryInv, VersionsContiguous
  <2>2. /\ LatestVersion(disk) \in disk.versions
        /\ \A row \in disk.versions : row.number <= LatestVersion(disk).number
    BY <1>1, <2>1, LatestVersionStored DEF HasSchema
  <2>3. BaseStored(c)
    BY DEF HistoryInv, ProcessInv
  <2>4. base[c].number # 0
    BY <2>1, <2>2 DEF ContiguousVersions
  <2>5. PICK row \in disk.versions :
            row.number = base[c].number /\ row.snapshot = Snapshot(base[c].catalog)
    BY <2>3, <2>4 DEF BaseStored
  <2>6. row.number = LatestVersion(disk).number
    BY <2>1, <2>2, <2>5 DEF ContiguousVersions
  <2>7. row = LatestVersion(disk)
    BY <2>1, <2>2, <2>6 DEF ContiguousVersions
  <2>8. QED
    BY <1>1, <2>5, <2>7
<1>2. CASE ~HasSchema
    BY <1>2 DEF HasSchema, HistoryInv, ProcessInv, BaseStored, IsInitial
<1>3. QED
    BY <1>1, <1>2

\* A process never overwrites a version it has not read: what it commits is the
\* successor of the version, and of the catalog, that is the latest until then.
THEOREM NoLostMigration == Spec => CommitsSucceedTheirBase
<1> DEFINE Succeeds ==
        disk' # disk =>
            \E c \in Connections :
                /\ outcome'[c] = "applied"
                /\ disk'.versions = disk.versions \cup {NewVersionRow(c)}
                /\ IF HasSchema
                   THEN /\ LatestVersion(disk).number = base[c].number
                        /\ LatestVersion(disk).snapshot = Snapshot(base[c].catalog)
                   ELSE IsInitial(c)
<1>1. ControlTypeOK /\ HistoryInv /\ [Next]_vars => [Succeeds]_vars
  <2> SUFFICES ASSUME FileTyped, ClientTyped, HistoryInv, Next, disk' # disk
               PROVE  Succeeds
      BY ControlTypeOKSplit DEF vars, sqliteVars
  <2>1. PICK c \in Connections : CommitApply(c) /\ CommitWrite(c)
    BY OnlyApplyWrites
  <2>2. /\ disk'.versions = disk.versions \cup {NewVersionRow(c)}
        /\ \A row \in disk.versions : row.number <= base[c].number
    BY <2>1, CommitInstallsSuccessor DEF CommitApply
  <2>3. outcome'[c] = "applied"
    BY <2>1 DEF CommitApply, Finish, ClientTyped
  <2>4. QED
    BY <2>2, <2>3, BaseIsLatest
<1>2. QED
    BY <1>1, InitTyped, StepTyped, InitHistory, StepHistory, PTL
    DEF Spec, CommitsSucceedTheirBase

-----------------------------------------------------------------------------
\* Between transactions.  The invariant needs no history: it is kept because every
\* way out of the places in between ends the transaction first.

BetweenPc ==
    {"idle", "probe", "begin_read", "plan", "load_objects", "load_fields", "serving"}

NoneOpenBetween == \A c \in Connections : pc[c] \in BetweenPc => ~txn[c]

\* A step that keeps c where no transaction is, takes it to where one may be, or
\* ends the transaction of c.
LEMMA BetweenStep ==
    ASSUME NoneOpenBetween, NEW c \in Connections,
           \A d \in Connections \ {c} : txn'[d] = txn[d] /\ pc'[d] = pc[d],
           \/ pc[c] \in BetweenPc /\ txn'[c] = txn[c]
           \/ pc'[c] \notin BetweenPc
           \/ ~txn'[c]
    PROVE  NoneOpenBetween'
BY DEF NoneOpenBetween

LEMMA GotoMoves ==
    ASSUME ClientTyped, NEW c \in Connections, NEW label, Goto(c, label)
    PROVE  pc'[c] = label /\ \A d \in Connections \ {c} : pc'[d] = pc[d]
BY DEF Goto, ClientTyped

LEMMA FinishMoves ==
    ASSUME ClientTyped, NEW c \in Connections, NEW result, Finish(c, result)
    PROVE  \A d \in Connections \ {c} : pc'[d] = pc[d]
BY DEF Finish, Goto, ClientTyped

LEMMA NoneOpenBetweenStep == ControlTypeOK /\ NoneOpenBetween /\ [Next]_vars => NoneOpenBetween'
<1> SUFFICES ASSUME FileTyped, ClientTyped, NoneOpenBetween, [Next]_vars
             PROVE  NoneOpenBetween'
    BY ControlTypeOKSplit
<1> USE DEF BetweenPc
<1>1. ASSUME NEW c \in Connections,
             \/ \E catalog \in Schemas : StartApply(c, catalog)
             \/ ProbeTable(c) \/ ProbeError(c) \/ RejectUnsupported(c) \/ NothingToDo(c)
             \/ OpenSession(c) \/ LoadObjects(c) \/ LoadFields(c) \/ LoadError(c) \/ CloseSession(c)
      PROVE  NoneOpenBetween'
  <2>1. pc[c] \in BetweenPc /\ UNCHANGED txn
    BY <1>1 DEF StartApply, ProbeTable, ProbeError, RejectUnsupported, NothingToDo, OpenSession,
        LoadObjects, LoadFields, LoadError, CloseSession, AutocommitRead, sqliteVars
  <2>2. \A d \in Connections \ {c} : pc'[d] = pc[d]
    BY <1>1, FinishMoves, GotoMoves
    DEF StartApply, ProbeTable, ProbeError, RejectUnsupported, NothingToDo, OpenSession,
        LoadObjects, LoadFields, LoadError, CloseSession
  <2>3. QED
    BY <2>1, <2>2, BetweenStep
<1>2. ASSUME NEW c \in Connections,
             \/ BeginVerification(c) \/ ReadLatestVersion(c) \/ ReadObjects(c) \/ ReadFields(c)
             \/ VerificationError(c) \/ BeginApply(c) \/ ExecuteStatement(c) \/ InsertVersion(c)
             \/ CommitApplyBusy(c) \/ ApplyError(c)
      PROVE  NoneOpenBetween'
  <2>1. pc'[c] \notin BetweenPc /\ \A d \in Connections \ {c} : pc'[d] = pc[d]
    BY <1>2, GotoMoves
    DEF BeginVerification, ReadLatestVersion, ReadObjects, ReadFields, VerificationError,
        BeginApply, ExecuteStatement, InsertVersion, CommitApplyBusy, ApplyError
  <2>2. \/ Begin(c) \/ Read(c) \/ StatementError(c) \/ CommitBusy(c)
        \/ \E db : Write(c, db)
    BY <1>2
    DEF BeginVerification, ReadLatestVersion, ReadObjects, ReadFields, VerificationError,
        BeginApply, ExecuteStatement, InsertVersion, CommitApplyBusy, ApplyError
  <2>3. \A d \in Connections \ {c} : txn'[d] = txn[d]
    BY <2>2 DEF Begin, Read, Write, StatementError, CommitBusy, Release, FileTyped, sqliteVars
  <2>4. QED
    BY <2>1, <2>3, BetweenStep
<1>3. ASSUME NEW c \in Connections,
             \/ CommitVerification(c) \/ RollbackVerification(c)
             \/ CommitApply(c) \/ RollbackApply(c) \/ Crash(c)
      PROVE  NoneOpenBetween'
  <2>1. \A d \in Connections \ {c} : pc'[d] = pc[d]
    BY <1>3, GotoMoves, FinishMoves
    DEF CommitVerification, RollbackVerification, CommitApply, RollbackApply, Crash
  <2>2. Commit(c) \/ Release(c)
    BY <1>3
    DEF CommitVerification, RollbackVerification, CommitApply, RollbackApply, Crash, Rollback, Die
  <2>3. ~txn'[c] /\ \A d \in Connections \ {c} : txn'[d] = txn[d]
    BY <2>2 DEF Commit, CommitRead, CommitWrite, Release, FileTyped
  <2>4. QED
    BY <2>1, <2>3, BetweenStep
<1>4. CASE UNCHANGED vars
    BY <1>4 DEF vars, sqliteVars, clientVars, NoneOpenBetween
<1>5. QED
    BY <1>1, <1>2, <1>3, <1>4 DEF Next, ApplySteps, LoadSteps

\* Between its transactions a process has none open and holds no lock, whichever
\* statement failed before, a COMMIT answered BUSY included.
THEOREM NothingLeftOpen == Spec => []NoTransactionLeft
<1>1. Init => NoneOpenBetween
    BY DEF Init, SqliteInit, NoneOpenBetween
<1>2. ControlTypeOK /\ NoneOpenBetween => NoTransactionLeft
    BY DEF ControlTypeOK, NoneOpenBetween, NoTransactionLeft, BetweenPc
<1>3. QED
    BY <1>1, <1>2, InitTyped, StepTyped, NoneOpenBetweenStep, PTL DEF Spec

-----------------------------------------------------------------------------
(***************************************************************************)
(* The content of the file.  StoredSchemaVerifies is not inductive either: *)
(* the rows a commit installs were inserted one by one, from a plan made   *)
(* for the catalog the file had when it was read.  The strengthening says  *)
(* that the rows of the file describe the snapshot of its latest version,  *)
(* that a private copy has the rows of the file and those of the           *)
(* statements executed so far, and what each reader has read.              *)
(***************************************************************************)

ApplyPc == {"apply", "insert_version", "commit"}
QueryPc == {"idle", "load_objects", "load_fields", "serving"}

StoredInv ==
    /\ \A row \in disk.versions : \E catalog \in Schemas : row.snapshot = Snapshot(catalog)
    /\ IF HasSchema
       THEN /\ Describes(disk.objects, disk.fields, LatestVersion(disk).snapshot)
            /\ TablesStored(disk)
       ELSE disk = EmptyDatabase

Executed(c) == {Statements(c)[i] : i \in 1..step[c]}

PlanInv(c) ==
    /\ pc[c] \notin QueryPc => want[c] \in Schemas
    /\ pc[c] \notin WriterPc => step[c] = 0
    /\ pc[c] \in ApplyPc =>
          base[c].number = 0 \/ (Supported(base[c].catalog, want[c]) /\ Statements(c) # <<>>)
    /\ base[c].number # 0 =>
          /\ IsCatalog(base[c].catalog)
          /\ HasSchema /\ LatestVersion(disk).number = base[c].number =>
                base[c].catalog = StoredCatalog

ReaderInv(c) ==
    /\ pc[c] \in {"objects", "fields"} =>
          lock[c] = "shared" /\ HasSchema /\ latest[c] = LatestVersion(disk)
    /\ pc[c] = "fields" => objects[c] = disk.objects
    /\ pc[c] = "load_fields" => HasSchema /\ objects[c] \subseteq disk.objects
    /\ pc[c] = "serving" =>
          /\ IsCatalog(base[c].catalog)
          /\ \E row \in disk.versions : row.snapshot = Snapshot(base[c].catalog)

CopyInv(c) ==
    /\ pc[c] \in {"insert_version", "commit"} =>
          lock[c] \in WriteLocks /\ step[c] = Len(Statements(c))
    /\ pc[c] \in ApplyPc =>
          IF lock[c] \in WriteLocks
          THEN /\ work[c].objects = disk.objects \cup InsertedObjects(Executed(c))
               /\ work[c].fields = disk.fields \cup InsertedFields(Executed(c))
               /\ KeyedRows(work[c].objects, work[c].fields)
               /\ TablesAfter(work[c], disk.tables, disk.indexes, Executed(c))
               /\ CreatesOnce(Statements(c), step[c], disk.tables)
               /\ step[c] <= Len(Statements(c))
          ELSE step[c] = 0

ContentInv ==
    /\ StoredInv
    /\ \A c \in Connections : PlanInv(c) /\ ReaderInv(c) /\ CopyInv(c)

-----------------------------------------------------------------------------
LEMMA WantedCatalog ==
    ASSUME NEW catalog \in Schemas
    PROVE  Declarable(catalog) /\ IsCatalog(catalog) /\ NamesOrdered(catalog)
<1>1. Declarable(catalog)
    BY SchemasAssumption DEF Declarable
<1>2. IsCatalog(catalog)
    BY <1>1, DeclaredCatalog DEF Declarable
<1>3. NamesOrdered(catalog)
    BY NamesAssumption, ListOfSet DEF NamesOrdered
<1>4. QED
    BY <1>1, <1>2, <1>3

\* The stored schema loads, to a catalog with the snapshot of its version.
LEMMA StoredLoads ==
    ASSUME HistoryInv, StoredInv, HasSchema
    PROVE  /\ Loadable(disk.objects, disk.fields)
           /\ Snapshot(StoredCatalog) = LatestVersion(disk).snapshot
           /\ IsCatalog(StoredCatalog)
           /\ \E catalog \in Schemas : /\ LatestVersion(disk).snapshot = Snapshot(catalog)
                                       /\ Describes(disk.objects, disk.fields, Snapshot(catalog))
<1>1. LatestVersion(disk) \in disk.versions
    BY LatestVersionStored DEF HasSchema, HistoryInv, VersionsContiguous
<1>2. PICK catalog \in Schemas : LatestVersion(disk).snapshot = Snapshot(catalog)
    BY <1>1 DEF StoredInv
<1>3. Describes(disk.objects, disk.fields, Snapshot(catalog))
    BY <1>2 DEF StoredInv
<1>4. Declarable(catalog)
    BY WantedCatalog
<1>5. PICK loaded : loaded = CatalogFromRows(disk.objects, disk.fields)
    OBVIOUS
<1>6. /\ Loadable(disk.objects, disk.fields) /\ Snapshot(loaded) = Snapshot(catalog)
      /\ IsCatalog(loaded)
    BY <1>3, <1>4, <1>5, DescribedLoads
<1>7. QED
    BY <1>2, <1>3, <1>5, <1>6 DEF StoredCatalog

\* The plan of a process is a list, its rows have numbers for keys.
LEMMA PlanIsList ==
    ASSUME NEW c \in Connections, PlanInv(c), pc[c] \in ApplyPc
    PROVE  /\ want[c] \in Schemas /\ IsList(Statements(c)) /\ Len(Statements(c)) \in Nat
           /\ DOMAIN Statements(c) = 1..Len(Statements(c))
           /\ KeysAreNumbers(ToSet(Statements(c)))
<1>1. want[c] \in Schemas
    BY DEF PlanInv, ApplyPc, QueryPc
<1>2. IsCatalog(want[c]) /\ NamesOrdered(want[c])
    BY <1>1, WantedCatalog
<1>3. CASE IsInitial(c)
  <2>1. IsList(InitialStatements(want[c])) /\ KeysAreNumbers(ToSet(InitialStatements(want[c])))
    BY <1>2, InitialPlan, InitialKeys
  <2>2. QED
    BY <1>1, <1>3, <2>1, ListLength DEF Statements
<1>4. CASE ~IsInitial(c)
  <2>1. IsCatalog(base[c].catalog)
    BY <1>4 DEF PlanInv, IsInitial
  <2>2. /\ IsList(MigrationStatements(base[c].catalog, want[c]))
        /\ KeysAreNumbers(ToSet(MigrationStatements(base[c].catalog, want[c])))
    BY <1>2, <2>1, MigrationPlan, MigrationKeys
  <2>3. QED
    BY <1>1, <1>4, <2>2, ListLength DEF Statements
<1>5. QED
    BY <1>3, <1>4

-----------------------------------------------------------------------------
\* Frames

\* What a step of process c leaves alone.
WholeFrame(c) ==
    \A d \in Connections \ {c} :
        /\ lock'[d] = lock[d] /\ work'[d] = work[d]
        /\ pc'[d] = pc[d] /\ want'[d] = want[d] /\ latest'[d] = latest[d]
        /\ objects'[d] = objects[d] /\ base'[d] = base[d] /\ step'[d] = step[d]

LEMMA ContentQuiet ==
    ASSUME ContentInv, NEW c \in Connections, disk' = disk, WholeFrame(c),
           PlanInv(c)', ReaderInv(c)', CopyInv(c)'
    PROVE  ContentInv'
<1>1. StoredInv'
    BY DEF ContentInv, StoredInv, HasSchema
<1>2. ASSUME NEW d \in Connections, d # c PROVE PlanInv(d)' /\ ReaderInv(d)' /\ CopyInv(d)'
  <2>1. PlanInv(d) /\ ReaderInv(d) /\ CopyInv(d)
    BY DEF ContentInv
  <2>2. /\ lock'[d] = lock[d] /\ work'[d] = work[d]
        /\ pc'[d] = pc[d] /\ want'[d] = want[d] /\ latest'[d] = latest[d]
        /\ objects'[d] = objects[d] /\ base'[d] = base[d] /\ step'[d] = step[d]
    BY <1>2 DEF WholeFrame
  <2>3. Statements(d)' = Statements(d)
    BY <2>2 DEF Statements, IsInitial
  <2>4. PlanInv(d)'
    BY <2>1, <2>2, <2>3 DEF PlanInv, HasSchema, StoredCatalog
  <2>5. ReaderInv(d)'
    BY <2>1, <2>2 DEF ReaderInv, HasSchema
  <2>6. Executed(d)' = Executed(d)
    BY <2>2, <2>3 DEF Executed
  <2>7. CopyInv(d)'
    BY <2>1, <2>2, <2>3, <2>6 DEF CopyInv
  <2>8. QED
    BY <2>4, <2>5, <2>7
<1>3. QED
    BY <1>1, <1>2 DEF ContentInv

LEMMA FinishWhole ==
    ASSUME ClientTyped, NEW c \in Connections, NEW result, Finish(c, result), LockFrame(c)
    PROVE  /\ pc'[c] = "idle" /\ base'[c] = NoBase /\ step'[c] = 0
           /\ WholeFrame(c)
<1>1. pc'[c] = "idle" /\ base'[c] = NoBase /\ step'[c] = 0
    BY DEF ClientTyped, Finish, Goto
<1>2. \A d \in Connections \ {c} :
        /\ pc'[d] = pc[d] /\ want'[d] = want[d] /\ latest'[d] = latest[d]
        /\ objects'[d] = objects[d] /\ base'[d] = base[d] /\ step'[d] = step[d]
    BY DEF ClientTyped, Finish, Goto
<1>3. QED
    BY <1>1, <1>2 DEF WholeFrame, LockFrame

\* A command that has ended has nothing to keep true.
LEMMA FinishedContent ==
    ASSUME NEW c \in Connections, pc'[c] = "idle", base'[c] = NoBase, step'[c] = 0
    PROVE  PlanInv(c)' /\ ReaderInv(c)' /\ CopyInv(c)'
<1>1. base'[c].number = 0
    BY DEF NoBase
<1>2. PlanInv(c)'
    BY <1>1 DEF PlanInv, QueryPc, ApplyPc
<1>3. ReaderInv(c)'
    BY DEF ReaderInv
<1>4. CopyInv(c)'
    BY DEF CopyInv, ApplyPc
<1>5. QED
    BY <1>2, <1>3, <1>4

LEMMA ContentFinish ==
    ASSUME ClientTyped, ContentInv, NEW c \in Connections, NEW result, Finish(c, result),
           disk' = disk, LockFrame(c)
    PROVE  ContentInv'
BY FinishWhole, FinishedContent, ContentQuiet

\* Places where a process knows no more than its plan.
PlainPc ==
    {"idle", "probe", "begin_read", "version", "commit_read", "plan", "rollback_read",
     "rollback_write", "load_objects"}

LEMMA ContentGoto ==
    ASSUME ClientTyped, ContentInv, NEW c \in Connections, NEW label \in PlainPc,
           Goto(c, label) \/ (UNCHANGED pc /\ pc[c] = label),
           disk' = disk, LockFrame(c),
           \A d \in Connections \ {c} : /\ want'[d] = want[d] /\ latest'[d] = latest[d]
                                        /\ objects'[d] = objects[d],
           UNCHANGED <<base, step>>,
           label \notin QueryPc => want'[c] \in Schemas,
           label # "rollback_write" => pc[c] \notin WriterPc
    PROVE  ContentInv'
<1>1. pc'[c] = label /\ \A d \in Connections \ {c} : pc'[d] = pc[d]
    BY DEF Goto, ClientTyped
<1>2. WholeFrame(c)
    BY <1>1 DEF WholeFrame, LockFrame
<1>3. PlanInv(c) 
    BY DEF ContentInv
<1>4. PlanInv(c)'
    BY <1>1, <1>3 DEF PlanInv, PlainPc, ApplyPc, WriterPc, HasSchema, StoredCatalog
<1>5. ReaderInv(c)'
    BY <1>1 DEF ReaderInv, PlainPc
<1>6. CopyInv(c)'
    BY <1>1 DEF CopyInv, PlainPc, ApplyPc
<1>7. QED
    BY <1>2, <1>4, <1>5, <1>6, ContentQuiet

-----------------------------------------------------------------------------
\* The statements of a plan, one by one

LEMMA InsertedTogether ==
    ASSUME NEW A, NEW B
    PROVE  /\ InsertedObjects(A \cup B) = InsertedObjects(A) \cup InsertedObjects(B)
           /\ InsertedFields(A \cup B) = InsertedFields(A) \cup InsertedFields(B)
BY DEF InsertedObjects, InsertedFields, RowsOf

LEMMA InsertedByOne ==
    ASSUME NEW s
    PROVE  /\ InsertedObjects({s}) = IF s.op = "insert_object" THEN {s.row} ELSE {}
           /\ InsertedFields({s}) = IF s.op = "insert_field" THEN {s.row} ELSE {}
BY DEF InsertedObjects, InsertedFields, RowsOf

LEMMA MoreKeys ==
    ASSUME NEW rows, NEW others, KeyedRows(rows, others)
    PROVE  /\ \A row : /\ row.object_id \in Nat
                       /\ \A o \in rows : o.object_id # row.object_id /\ o.name # row.name
                       => KeyedRows(rows \cup {row}, others)
           /\ \A row : /\ row.field_id \in Nat
                       /\ \A o \in others :
                             o.object_id # row.object_id \/ o.field_id # row.field_id
                       => KeyedRows(rows, others \cup {row})
<1>1. IsFiniteSet(rows) /\ IsFiniteSet(others)
    BY DEF KeyedRows
<1>2. \A row : IsFiniteSet(rows \cup {row}) /\ IsFiniteSet(others \cup {row})
    BY <1>1, FS_AddElement
<1>3. QED
    BY <1>1, <1>2 DEF KeyedRows

\* A statement adds the row it inserts, under a key that is free.
LEMMA ExecuteAddsRows ==
    ASSUME NEW db, NEW s, IsDatabase(db), Accepts(db, s), KeyedRows(db.objects, db.fields),
           s.op = "insert_object" => s.row.object_id \in Nat,
           s.op = "insert_field" => s.row.field_id \in Nat
    PROVE  /\ Execute(db, s).objects = db.objects \cup InsertedObjects({s})
           /\ Execute(db, s).fields = db.fields \cup InsertedFields({s})
           /\ KeyedRows(Execute(db, s).objects, Execute(db, s).fields)
<1>1. /\ InsertedObjects({s}) = IF s.op = "insert_object" THEN {s.row} ELSE {}
      /\ InsertedFields({s}) = IF s.op = "insert_field" THEN {s.row} ELSE {}
    BY InsertedByOne
<1>2. CASE s.op = "create_table"
    BY <1>1, <1>2 DEF IsDatabase, Execute
<1>3. CASE s.op = "add_column"
    BY <1>1, <1>3 DEF IsDatabase, Execute
<1>4. CASE s.op = "create_index"
    BY <1>1, <1>4 DEF IsDatabase, Execute
<1>5. CASE s.op = "insert_object"
  <2>1. Execute(db, s).objects = db.objects \cup {s.row} /\ Execute(db, s).fields = db.fields
    BY <1>5 DEF IsDatabase, Execute
  <2>2. \A row \in db.objects : row.object_id # s.row.object_id /\ row.name # s.row.name
    BY <1>5 DEF Accepts, AcceptsInsertObject
  <2>3. KeyedRows(db.objects \cup {s.row}, db.fields)
    BY <1>5, <2>2, MoreKeys
  <2>4. QED
    BY <1>1, <1>5, <2>1, <2>3
<1>6. CASE s.op = "insert_field"
  <2>1. Execute(db, s).fields = db.fields \cup {s.row} /\ Execute(db, s).objects = db.objects
    BY <1>6 DEF IsDatabase, Execute
  <2>2. \A row \in db.fields :
            row.object_id # s.row.object_id \/ row.field_id # s.row.field_id
    BY <1>6 DEF Accepts, AcceptsInsertField
  <2>3. KeyedRows(db.objects, db.fields \cup {s.row})
    BY <1>6, <2>2, MoreKeys
  <2>4. QED
    BY <1>1, <1>6, <2>1, <2>3
<1>7. QED
    BY <1>2, <1>3, <1>4, <1>5, <1>6 DEF Accepts

\* The rows of the file have keys, before the first schema as after it.
LEMMA StoredKeyed ==
    ASSUME StoredInv
    PROVE  KeyedRows(disk.objects, disk.fields)
<1>1. CASE HasSchema
    BY <1>1 DEF StoredInv, Describes
<1>2. CASE ~HasSchema
  <2>1. disk.objects = {} /\ disk.fields = {}
    BY <1>2 DEF StoredInv, EmptyDatabase
  <2>2. QED
    BY <2>1, NothingDescribed DEF Describes
<1>3. QED
    BY <1>1, <1>2

\* What an executing process sees, whether or not it has written yet.
LEMMA ViewContent ==
    ASSUME ContentInv, NEW c \in Connections, pc[c] \in ApplyPc
    PROVE  /\ View(c).objects = disk.objects \cup InsertedObjects(Executed(c))
           /\ View(c).fields = disk.fields \cup InsertedFields(Executed(c))
           /\ KeyedRows(View(c).objects, View(c).fields)
           /\ TablesAfter(View(c), disk.tables, disk.indexes, Executed(c))
           /\ CreatesOnce(Statements(c), step[c], disk.tables)
<1>1. CASE lock[c] \in WriteLocks
    BY <1>1 DEF ContentInv, CopyInv, View
<1>2. CASE lock[c] \notin WriteLocks
  <2>1. step[c] = 0 /\ View(c) = disk
    BY <1>2 DEF ContentInv, CopyInv, View
  <2>2. Executed(c) = {}
    BY <2>1 DEF Executed
  <2>3. InsertedObjects({}) = {} /\ InsertedFields({}) = {}
    BY DEF InsertedObjects, InsertedFields, RowsOf
  <2>4. TablesAfter(disk, disk.tables, disk.indexes, {})
    BY StoredTablesAfterNothing DEF ContentInv, StoredInv
  <2>5. CreatesOnce(Statements(c), 0, disk.tables)
    BY DEF CreatesOnce
  <2>6. QED
    BY <2>1, <2>2, <2>3, <2>4, <2>5, StoredKeyed DEF ContentInv
<1>3. QED
    BY <1>1, <1>2

LEMMA WriteLocksHeld ==
    ASSUME FileTyped, NEW c \in Connections, NEW db, Write(c, db)
    PROVE  lock'[c] \in WriteLocks
BY DEF FileTyped, Write, WriteLocks, LockStates

LEMMA ContentExecute ==
    ASSUME FileTyped, ClientTyped, HistoryInv, ContentInv,
           NEW c \in Connections, ExecuteStatement(c)
    PROVE  ContentInv'
<1>1. PICK s : s = Statements(c)[step[c] + 1]
    OBVIOUS
<1>2. /\ pc[c] = "apply" /\ step[c] < Len(Statements(c))
      /\ Accepts(View(c), s) /\ Write(c, Execute(View(c), s))
      /\ step' = [step EXCEPT ![c] = @ + 1]
      /\ IF step'[c] = Len(Statements(c)) THEN Goto(c, "insert_version") ELSE UNCHANGED pc
      /\ UNCHANGED <<want, latest, objects, base>>
    BY <1>1 DEF ExecuteStatement
<1>3. PlanInv(c) /\ ReaderInv(c) /\ CopyInv(c) /\ pc[c] \in ApplyPc
    BY <1>2 DEF ContentInv, ApplyPc
<1>4. /\ want[c] \in Schemas /\ Len(Statements(c)) \in Nat
      /\ DOMAIN Statements(c) = 1..Len(Statements(c))
      /\ KeysAreNumbers(ToSet(Statements(c)))
    BY <1>3, PlanIsList
<1>5. step[c] \in Nat /\ step'[c] = step[c] + 1
    BY <1>2 DEF ClientTyped
<1>6. s \in ToSet(Statements(c))
    BY <1>1, <1>2, <1>4, <1>5 DEF ToSet
<1>7. /\ s.op = "insert_object" => s.row.object_id \in Nat
      /\ s.op = "insert_field" => s.row.field_id \in Nat
    BY <1>4, <1>6 DEF KeysAreNumbers, InsertedObjects, InsertedFields, RowsOf
<1>8. PICK db : db = View(c)
    OBVIOUS
<1>9. /\ db.objects = disk.objects \cup InsertedObjects(Executed(c))
      /\ db.fields = disk.fields \cup InsertedFields(Executed(c))
      /\ KeyedRows(db.objects, db.fields) /\ IsDatabase(db)
    BY <1>3, <1>8, ViewContent, ViewIsDatabase
<1>10. PICK after : after = Execute(db, s)
    OBVIOUS
<1>11. /\ after.objects = db.objects \cup InsertedObjects({s})
       /\ after.fields = db.fields \cup InsertedFields({s})
       /\ KeyedRows(after.objects, after.fields)
  <2>1. Accepts(db, s)
    BY <1>2, <1>8
  <2>2. QED
    BY ONLY <1>7, <1>9, <1>10, <2>1, ExecuteAddsRows
<1>12. disk' = disk /\ LockFrame(c) /\ work'[c] = after /\ lock'[c] \in WriteLocks
    BY <1>2, <1>8, <1>10, WriteEffect, WriteLocksHeld
<1>13. Statements(c)' = Statements(c)
    BY <1>2 DEF Statements, IsInitial
<1>14. Executed(c)' = Executed(c) \cup {s}
  <2>1. 1..(step[c] + 1) = (1..step[c]) \cup {step[c] + 1}
    BY <1>5
  <2>2. Executed(c)' = {Statements(c)[i] : i \in 1..(step[c] + 1)}
    BY <1>5, <1>13 DEF Executed
  <2>3. QED
    BY <1>1, <2>1, <2>2 DEF Executed
<1>15. /\ work'[c].objects = disk.objects \cup InsertedObjects(Executed(c)')
       /\ work'[c].fields = disk.fields \cup InsertedFields(Executed(c)')
       /\ KeyedRows(work'[c].objects, work'[c].fields)
  <2>1. /\ InsertedObjects(Executed(c) \cup {s}) = InsertedObjects(Executed(c)) \cup InsertedObjects({s})
        /\ InsertedFields(Executed(c) \cup {s}) = InsertedFields(Executed(c)) \cup InsertedFields({s})
    BY InsertedTogether
  <2>2. QED
    BY <1>9, <1>11, <1>12, <1>14, <2>1
<1>16. /\ TablesAfter(work'[c], disk.tables, disk.indexes, Executed(c)')
       /\ CreatesOnce(Statements(c), step[c] + 1, disk.tables)
  <2>1. PICK tables0, indexes0, statements :
            tables0 = disk.tables /\ indexes0 = disk.indexes /\ statements = Executed(c)
    OBVIOUS
  <2>2. /\ TablesAfter(db, tables0, indexes0, statements) /\ Accepts(db, s)
        /\ CreatesOnce(Statements(c), step[c], tables0)
    BY <1>2, <1>3, <1>8, <2>1, ViewContent
  <2>3. TablesAfter(after, tables0, indexes0, statements \cup {s})
    BY ONLY <1>9, <1>10, <2>2, ExecuteGrows
  <2>4. PICK list, n : list = Statements(c) /\ n = step[c]
    OBVIOUS
  <2>5. /\ statements = {list[i] : i \in 1..n} /\ n \in Nat /\ s = list[n + 1]
        /\ CreatesOnce(list, n, tables0)
    BY <1>1, <1>5, <2>1, <2>2, <2>4 DEF Executed
  <2>6. CreatesOnce(list, n + 1, tables0)
    BY ONLY <2>2, <2>5, CreatesOnceMore
  <2>7. QED
    BY <1>12, <1>14, <2>1, <2>3, <2>4, <2>6
<1>17. /\ pc'[c] = IF step'[c] = Len(Statements(c)) THEN "insert_version" ELSE "apply"
       /\ \A d \in Connections \ {c} : pc'[d] = pc[d]
    BY <1>2 DEF Goto, ClientTyped
<1>18. WholeFrame(c)
    BY <1>2, <1>12, <1>17 DEF WholeFrame, LockFrame, ClientTyped
<1>19. PlanInv(c)'
    BY <1>2, <1>3, <1>4, <1>12, <1>13, <1>17
    DEF PlanInv, ApplyPc, WriterPc, QueryPc, HasSchema, StoredCatalog
<1>20. ReaderInv(c)'
    BY <1>17 DEF ReaderInv
<1>21. CopyInv(c)'
  <2>1. step'[c] <= Len(Statements(c))
    BY <1>2, <1>4, <1>5
  <2>2. QED
    BY <1>5, <1>12, <1>13, <1>15, <1>17, <1>16, <2>1 DEF CopyInv, ApplyPc
<1>22. QED
    BY <1>12, <1>18, <1>19, <1>20, <1>21, ContentQuiet

LEMMA ContentInsertVersion ==
    ASSUME FileTyped, ClientTyped, HistoryInv, ContentInv,
           NEW c \in Connections, InsertVersion(c)
    PROVE  ContentInv'
<1>1. PICK db, row : db = View(c) /\ row = NewVersionRow(c)
    OBVIOUS
<1>2. /\ pc[c] = "insert_version" /\ Write(c, InsertVersionRow(db, row)) /\ Goto(c, "commit")
      /\ UNCHANGED <<want, latest, objects, base, step>>
    BY <1>1 DEF InsertVersion
<1>3. PlanInv(c) /\ CopyInv(c) /\ pc[c] \in ApplyPc
    BY <1>2 DEF ContentInv, ApplyPc
<1>4. /\ db.objects = disk.objects \cup InsertedObjects(Executed(c))
      /\ db.fields = disk.fields \cup InsertedFields(Executed(c))
      /\ KeyedRows(db.objects, db.fields) /\ IsDatabase(db)
      /\ TablesAfter(db, disk.tables, disk.indexes, Executed(c))
      /\ CreatesOnce(Statements(c), step[c], disk.tables)
    BY <1>1, <1>3, ViewContent, ViewIsDatabase
<1>5. PICK after : after = InsertVersionRow(db, row)
    OBVIOUS
<1>6. after.objects = db.objects /\ after.fields = db.fields
    BY <1>4, <1>5 DEF InsertVersionRow, IsDatabase
<1>7. disk' = disk /\ LockFrame(c) /\ work'[c] = after /\ lock'[c] \in WriteLocks
    BY <1>2, <1>5, WriteEffect, WriteLocksHeld
<1>8. Statements(c)' = Statements(c) /\ Executed(c)' = Executed(c)
    BY <1>2 DEF Statements, IsInitial, Executed
<1>9. pc'[c] = "commit" /\ \A d \in Connections \ {c} : pc'[d] = pc[d]
    BY <1>2 DEF Goto, ClientTyped
<1>10. WholeFrame(c)
    BY <1>2, <1>7, <1>9 DEF WholeFrame, LockFrame
<1>11. PlanInv(c)'
    BY <1>2, <1>3, <1>7, <1>8, <1>9
    DEF PlanInv, ApplyPc, WriterPc, QueryPc, HasSchema, StoredCatalog
<1>12. ReaderInv(c)'
    BY <1>9 DEF ReaderInv
<1>13. step[c] = Len(Statements(c)) /\ step[c] <= Len(Statements(c))
    BY <1>2, <1>3 DEF CopyInv, ClientTyped
<1>14. TablesAfter(after, disk.tables, disk.indexes, Executed(c))
  <2>1. after.tables = db.tables /\ after.indexes = db.indexes
    BY <1>4, <1>5 DEF InsertVersionRow, IsDatabase
  <2>2. QED
    BY <1>4, <2>1 DEF TablesAfter, TableNames
<1>15. CopyInv(c)'
    BY <1>2, <1>4, <1>6, <1>7, <1>8, <1>9, <1>13, <1>14 DEF CopyInv, ApplyPc
<1>16. QED
    BY <1>7, <1>10, <1>11, <1>12, <1>15, ContentQuiet

\* A plan that is complete turns the stored rows into those of the wanted schema.
LEMMA CompletedPlan ==
    ASSUME HistoryInv, ContentInv, NEW c \in Connections, pc[c] = "commit",
           \A row \in disk.versions : row.number <= base[c].number
    PROVE  Describes(work[c].objects, work[c].fields, Snapshot(want[c]))
<1>1. PlanInv(c) /\ CopyInv(c) /\ pc[c] \in ApplyPc /\ StoredInv
    BY DEF ContentInv, ApplyPc
<1>2. /\ want[c] \in Schemas
      /\ Len(Statements(c)) \in Nat /\ DOMAIN Statements(c) = 1..Len(Statements(c))
    BY <1>1, PlanIsList
<1>3. Executed(c) = ToSet(Statements(c))
  <2>1. step[c] = Len(Statements(c))
    BY <1>1 DEF CopyInv
  <2>2. QED
    BY <1>2, <2>1 DEF Executed, ToSet
<1>4. /\ work[c].objects = disk.objects \cup InsertedObjects(ToSet(Statements(c)))
      /\ work[c].fields = disk.fields \cup InsertedFields(ToSet(Statements(c)))
      /\ KeyedRows(work[c].objects, work[c].fields)
    BY <1>1, <1>3 DEF CopyInv
<1>5. Declarable(want[c]) /\ IsCatalog(want[c]) /\ NamesOrdered(want[c])
    BY <1>2, WantedCatalog
<1>6. CASE IsInitial(c)
  <2>1. ~HasSchema
    <3> SUFFICES ASSUME HasSchema PROVE FALSE
        OBVIOUS
    <3>1. PICK row \in disk.versions : row.number \in Nat \ {0}
      BY DEF HasSchema, HistoryInv, VersionsContiguous, ContiguousVersions
    <3>2. row.number <= 0
      BY <1>6 DEF IsInitial
    <3>3. QED
      BY <3>1, <3>2
  <2>2. disk.objects = {} /\ disk.fields = {}
    BY <1>1, <2>1 DEF StoredInv, EmptyDatabase
  <2>3. PICK catalog : catalog = want[c]
    OBVIOUS
  <2>4. PICK rows, others : rows = work[c].objects /\ others = work[c].fields
    OBVIOUS
  <2>5. /\ rows = InsertedObjects(ToSet(InitialStatements(catalog)))
        /\ others = InsertedFields(ToSet(InitialStatements(catalog)))
    BY <1>4, <1>6, <2>2, <2>3, <2>4 DEF Statements
  <2>6. /\ rows = {ObjectRow(i, catalog[i].name) : i \in DOMAIN catalog}
        /\ others = UNION {NewFieldRows(i, catalog[i].fields, InitialTarget(catalog)) :
                              i \in DOMAIN catalog}
    BY <1>5, <2>3, <2>5, InitialRows
  <2>7. KeyedRows(rows, others) /\ Declarable(catalog)
    BY <1>4, <1>5, <2>3, <2>4
  <2>8. Describes(rows, others, Snapshot(catalog))
    BY ONLY <2>6, <2>7, InitialDescribes
  <2>9. QED
    BY <2>3, <2>4, <2>8
<1>7. CASE ~IsInitial(c)
  <2>1. HasSchema /\ LatestVersion(disk).number = base[c].number
    BY <1>7, BaseIsLatest DEF IsInitial
  <2>2. PICK catalog \in Schemas :
            /\ LatestVersion(disk).snapshot = Snapshot(catalog)
            /\ Describes(disk.objects, disk.fields, Snapshot(catalog))
    BY <1>1, <2>1, StoredLoads
  <2>3. PICK current, desired : current = base[c].catalog /\ desired = want[c]
    OBVIOUS
  <2>4. current = CatalogFromRows(disk.objects, disk.fields) /\ Supported(current, desired)
    BY <1>1, <1>7, <2>1, <2>3 DEF PlanInv, IsInitial, StoredCatalog
  <2>5. PICK rows0, others0 : rows0 = disk.objects /\ others0 = disk.fields
    OBVIOUS
  <2>6. Migrates(rows0, others0, catalog, current, desired)
    BY <1>5, <2>2, <2>3, <2>4, <2>5, WantedCatalog DEF Migrates
  <2>7. PICK new, kept : new = NewObjects(current, desired) /\ kept = ToSet(KeptObjects(current, desired))
    OBVIOUS
  <2>8. /\ InsertedObjects(ToSet(MigrationStatements(current, desired))) = NewObjectRows(current, new)
        /\ InsertedFields(ToSet(MigrationStatements(current, desired))) =
               MigratedFieldRows(current, desired, new, kept)
    BY <1>5, <2>3, <2>7, MigrationRows DEF NewObjectRows, MigratedFieldRows
  <2>9. PICK rows, more : rows = work[c].objects /\ more = MigratedFieldRows(current, desired, new, kept)
    OBVIOUS
  <2>10. /\ rows = rows0 \cup NewObjectRows(current, new)
         /\ work[c].fields = others0 \cup more
    BY <1>4, <1>7, <2>3, <2>5, <2>8, <2>9 DEF Statements
  <2>11. KeyedRows(rows, others0 \cup more)
    BY <1>4, <2>9, <2>10
  <2>12. Describes(rows, others0 \cup more, Snapshot(desired))
    BY ONLY <2>6, <2>7, <2>9, <2>10, <2>11, MigrationDescribes
  <2>13. QED
    BY <2>3, <2>9, <2>10, <2>12
<1>8. QED
    BY <1>6, <1>7

\* It also leaves the tables and indexes of that schema.
LEMMA CompletedTables ==
    ASSUME HistoryInv, ContentInv, NEW c \in Connections, pc[c] = "commit",
           \A row \in disk.versions : row.number <= base[c].number
    PROVE  /\ AreTablesOf(work[c].tables, Snapshot(want[c]))
           /\ AreIndexesOf(work[c].indexes, Snapshot(want[c]))
           /\ NamesUnique(work[c].tables) /\ TypesApart(Snapshot(want[c]))
           /\ \A row \in disk.versions : GrowsTo(row.snapshot, Snapshot(want[c]))
<1>1. PlanInv(c) /\ CopyInv(c) /\ pc[c] \in ApplyPc /\ StoredInv
    BY DEF ContentInv, ApplyPc
<1>2. PICK list, desired, db, tables0, indexes0 :
          /\ list = Statements(c) /\ desired = want[c] /\ db = work[c]
          /\ tables0 = disk.tables /\ indexes0 = disk.indexes
    OBVIOUS
<1>3. /\ desired \in Schemas /\ Len(list) \in Nat /\ DOMAIN list = 1..Len(list)
      /\ step[c] = Len(list)
    BY <1>1, <1>2, PlanIsList DEF CopyInv
<1>4. Executed(c) = ToSet(list)
    BY <1>2, <1>3 DEF Executed, ToSet
<1>5. TablesAfter(db, tables0, indexes0, ToSet(list)) /\ CreatesOnce(list, Len(list), tables0)
    BY <1>1, <1>2, <1>3, <1>4 DEF CopyInv
<1>6. IsCatalog(desired) /\ NamesOrdered(desired)
    BY <1>3, WantedCatalog
<1>7. IF HasSchema
      THEN /\ LatestVersion(disk).number = base[c].number
           /\ LatestVersion(disk).snapshot = Snapshot(base[c].catalog)
      ELSE IsInitial(c)
    BY BaseIsLatest
<1>8. CASE ~HasSchema
  <2>1. disk = EmptyDatabase /\ IsInitial(c)
    BY <1>1, <1>7, <1>8 DEF StoredInv
  <2>2. tables0 = {} /\ indexes0 = {} /\ disk.versions = {}
    BY <1>2, <2>1 DEF EmptyDatabase
  <2>3. list = InitialStatements(desired)
    BY <1>2, <2>1 DEF Statements
  <2>4. /\ AreTablesOf(db.tables, Snapshot(desired)) /\ AreIndexesOf(db.indexes, Snapshot(desired))
        /\ NamesUnique(db.tables) /\ TypesApart(Snapshot(desired))
    BY ONLY <1>5, <1>6, <2>2, <2>3, InitialTablesStored
  <2>5. QED
    BY <1>2, <2>2, <2>4
<1>9. CASE HasSchema
  <2>1. PICK current : current = base[c].catalog
    OBVIOUS
  <2>2. /\ LatestVersion(disk).snapshot = Snapshot(current)
        /\ \E row \in disk.versions : row.number = base[c].number
        /\ TablesStored(disk)
    BY <1>1, <1>7, <1>9, <2>1, LatestVersionStored
    DEF StoredInv, HasSchema, HistoryInv, VersionsContiguous
  <2>3. base[c].number # 0
    BY <2>2 DEF HistoryInv, VersionsContiguous, ContiguousVersions
  <2>4. /\ IsCatalog(current) /\ Supported(current, desired)
        /\ list = MigrationStatements(current, desired)
    BY <1>1, <1>2, <2>1, <2>3 DEF PlanInv, Statements, IsInitial
  <2>5. /\ AreTablesOf(tables0, Snapshot(current)) /\ AreIndexesOf(indexes0, Snapshot(current))
        /\ NamesUnique(tables0) /\ TypesApart(Snapshot(current))
        /\ \A row \in disk.versions : GrowsTo(row.snapshot, Snapshot(current))
    BY <1>2, <2>2 DEF TablesStored
  <2>6. /\ AreTablesOf(db.tables, Snapshot(desired)) /\ AreIndexesOf(db.indexes, Snapshot(desired))
        /\ NamesUnique(db.tables) /\ TypesApart(Snapshot(desired))
    BY ONLY <1>5, <1>6, <2>4, <2>5, MigratedTablesStored
  <2>7. \A row \in disk.versions : GrowsTo(row.snapshot, Snapshot(desired))
    BY <1>6, <2>4, <2>5, SupportedGrows, GrowsOn
  <2>8. QED
    BY <1>2, <2>6, <2>7
<1>10. QED
    BY <1>8, <1>9

LEMMA ContentCommit ==
    ASSUME FileTyped, ClientTyped, HistoryInv, ContentInv, NEW c \in Connections,
           pc[c] = "commit", CommitWrite(c), Finish(c, "applied")
    PROVE  /\ ContentInv'
           /\ LatestVersion(disk') = NewVersionRow(c)
<1>1. /\ disk'.versions = disk.versions \cup {NewVersionRow(c)}
      /\ \A row \in disk.versions : row.number <= base[c].number
      /\ HistoryInv'
    BY CommitInstallsSuccessor
<1>2. disk' = work[c] /\ \A d \in Connections \ {c} : lock[d] = "none"
    BY DEF CommitWrite, CanWriteBack, Others
<1>3. lock'[c] = "none" /\ LockFrame(c)
    BY DEF CommitWrite, FileTyped, LockFrame
<1>4. want[c] \in Schemas
    BY DEF ContentInv, PlanInv, QueryPc
<1>5. NewVersionRow(c).number = base[c].number + 1
      /\ NewVersionRow(c).snapshot = Snapshot(want[c])
    BY DEF NewVersionRow, VersionRow
<1>6. base[c].number \in Nat /\ \A row \in disk.versions : row.number \in Nat
    BY DEF HistoryInv, ProcessInv, BaseStored, VersionsContiguous, ContiguousVersions
<1>7. LatestVersion(disk') = NewVersionRow(c)
  <2>1. /\ LatestVersion(disk') \in disk'.versions
        /\ \A row \in disk'.versions : row.number <= LatestVersion(disk').number
    <3>1. ContiguousVersions(disk'.versions)
      BY <1>1 DEF HistoryInv, VersionsContiguous
    <3>2. disk'.versions # {}
      BY <1>1
    <3>3. QED
      BY <3>1, <3>2, LatestVersionStored
  <2>2. base[c].number + 1 <= LatestVersion(disk').number
    BY <1>1, <1>5, <2>1
  <2>3. LatestVersion(disk') \notin disk.versions
    BY <1>1, <1>6, <2>2
  <2>4. QED
    BY <1>1, <2>1, <2>3
<1>8. HasSchema'
    BY <1>1 DEF HasSchema
<1>9. StoredInv'
  <2>1. \A row \in disk'.versions : \E catalog \in Schemas : row.snapshot = Snapshot(catalog)
    BY <1>1, <1>4, <1>5 DEF ContentInv, StoredInv
  <2>2. Describes(disk'.objects, disk'.fields, Snapshot(want[c]))
    BY <1>1, <1>2, CompletedPlan
  <2>3. LatestVersion(disk').snapshot = Snapshot(want[c])
    BY <1>5, <1>7
  <2>4. /\ AreTablesOf(disk'.tables, Snapshot(want[c])) /\ AreIndexesOf(disk'.indexes, Snapshot(want[c]))
        /\ NamesUnique(disk'.tables) /\ TypesApart(Snapshot(want[c]))
        /\ \A row \in disk.versions : GrowsTo(row.snapshot, Snapshot(want[c]))
    BY <1>1, <1>2, CompletedTables
  <2>5. \A row \in disk'.versions : GrowsTo(row.snapshot, Snapshot(want[c]))
    BY <1>1, <1>5, <2>4, GrowsToItself
  <2>6. TablesStored(disk')
    BY <2>3, <2>4, <2>5 DEF TablesStored
  <2>7. QED
    BY <1>8, <2>1, <2>2, <2>3, <2>6 DEF StoredInv
<1>10. WholeFrame(c) /\ PlanInv(c)' /\ ReaderInv(c)' /\ CopyInv(c)'
    BY <1>3, FinishWhole, FinishedContent
<1>11. disk.objects \subseteq disk'.objects
    BY <1>2 DEF ContentInv, CopyInv, ApplyPc, CommitWrite
<1>12. ASSUME NEW d \in Connections, d # c PROVE PlanInv(d)' /\ ReaderInv(d)' /\ CopyInv(d)'
  <2>1. PlanInv(d) /\ ReaderInv(d) /\ CopyInv(d) /\ lock[d] = "none"
    BY <1>2, <1>12 DEF ContentInv
  <2>2. /\ lock'[d] = lock[d] /\ work'[d] = work[d]
        /\ pc'[d] = pc[d] /\ want'[d] = want[d] /\ latest'[d] = latest[d]
        /\ objects'[d] = objects[d] /\ base'[d] = base[d] /\ step'[d] = step[d]
    BY <1>10, <1>12 DEF WholeFrame
  <2>3. Statements(d)' = Statements(d)
    BY <2>2 DEF Statements, IsInitial
  <2>4. base[d].number # 0 => LatestVersion(disk').number # base[d].number
    <3> SUFFICES ASSUME base[d].number # 0 PROVE base[c].number + 1 # base[d].number
        BY <1>5, <1>7
    <3>1. PICK row \in disk.versions : row.number = base[d].number
      BY DEF HistoryInv, ProcessInv, BaseStored
    <3>2. QED
      BY <1>1, <1>6, <3>1
  <2>5. PlanInv(d)'
    BY <2>1, <2>2, <2>3, <2>4 DEF PlanInv
  <2>6. ReaderInv(d)'
    <3>1. pc'[d] \notin {"objects", "fields"}
      BY <2>1, <2>2 DEF ReaderInv
    <3>2. pc'[d] = "load_fields" => objects'[d] \subseteq disk'.objects
      BY <1>11, <2>1, <2>2 DEF ReaderInv
    <3>3. pc'[d] = "serving" =>
              /\ IsCatalog(base'[d].catalog)
              /\ \E row \in disk'.versions : row.snapshot = Snapshot(base'[d].catalog)
      BY <1>1, <2>1, <2>2 DEF ReaderInv
    <3>4. QED
      BY <1>8, <3>1, <3>2, <3>3 DEF ReaderInv
  <2>7. CopyInv(d)'
    BY <2>1, <2>2, <2>3 DEF CopyInv, WriteLocks
  <2>8. QED
    BY <2>5, <2>6, <2>7
<1>13. ContentInv'
    BY <1>9, <1>10, <1>12 DEF ContentInv
<1>14. QED
    BY <1>7, <1>13

-----------------------------------------------------------------------------
LEMMA SharedLock ==
    ASSUME FileTyped, NEW c \in Connections, Read(c), lock[c] \notin WriteLocks
    PROVE  lock'[c] = "shared" /\ View(c) = disk /\ disk' = disk /\ LockFrame(c)
BY DEF FileTyped, Read, WriteLocks, LockStates, View, LockFrame

\* The three reads of a verification see one state of the file.
LEMMA ContentRead ==
    ASSUME FileTyped, ClientTyped, HistoryInv, ContentInv, NEW c \in Connections,
           ReadLatestVersion(c) \/ ReadObjects(c) \/ ReadFields(c)
    PROVE  ContentInv'
<1>1. pc[c] \in {"version", "objects", "fields"} /\ Read(c)
    BY DEF ReadLatestVersion, ReadObjects, ReadFields
<1>2. lock[c] \notin WriteLocks
    BY <1>1 DEF HistoryInv, ProcessInv, CopyTracksFile, WriterPc
<1>3. lock'[c] = "shared" /\ View(c) = disk /\ disk' = disk /\ LockFrame(c)
    BY <1>1, <1>2, SharedLock
<1>4. /\ PlanInv(c) /\ ReaderInv(c) /\ StoredInv
      /\ want[c] \in Schemas /\ step[c] = 0
    BY <1>1 DEF ContentInv, PlanInv, QueryPc, WriterPc
<1>5. CASE Goto(c, "rollback_read") /\ UNCHANGED <<want, latest, objects, base, step>>
    BY <1>1, <1>3, <1>4, <1>5, ContentGoto DEF PlainPc, WriterPc
<1>6. CASE /\ pc[c] = "version" /\ HasSchema /\ Goto(c, "objects")
           /\ latest' = [latest EXCEPT ![c] = LatestVersion(disk)]
           /\ UNCHANGED <<want, objects, base, step>>
  <2>1. pc'[c] = "objects" /\ latest'[c] = LatestVersion(disk) /\ WholeFrame(c)
    BY <1>3, <1>6 DEF Goto, ClientTyped, WholeFrame, LockFrame
  <2>2. PlanInv(c)'
    BY <1>3, <1>4, <1>6, <2>1 DEF PlanInv, ApplyPc, HasSchema, StoredCatalog
  <2>3. ReaderInv(c)'
    BY <1>3, <1>6, <2>1 DEF ReaderInv, HasSchema
  <2>4. CopyInv(c)'
    BY <2>1 DEF CopyInv, ApplyPc
  <2>5. QED
    BY <1>3, <2>1, <2>2, <2>3, <2>4, ContentQuiet
<1>7. CASE /\ pc[c] = "objects" /\ Goto(c, "fields")
           /\ objects' = [objects EXCEPT ![c] = disk.objects]
           /\ UNCHANGED <<want, latest, base, step>>
  <2>1. pc'[c] = "fields" /\ objects'[c] = disk.objects /\ WholeFrame(c)
    BY <1>3, <1>7 DEF Goto, ClientTyped, WholeFrame, LockFrame
  <2>2. PlanInv(c)'
    BY <1>3, <1>4, <1>7, <2>1 DEF PlanInv, ApplyPc, HasSchema, StoredCatalog
  <2>3. ReaderInv(c)'
    BY <1>3, <1>4, <1>7, <2>1 DEF ReaderInv, HasSchema
  <2>4. CopyInv(c)'
    BY <2>1 DEF CopyInv, ApplyPc
  <2>5. QED
    BY <1>3, <2>1, <2>2, <2>3, <2>4, ContentQuiet
<1>8. CASE /\ pc[c] = "fields" /\ Goto(c, "commit_read")
           /\ base' = [base EXCEPT ![c] =
                          [number |-> latest[c].number,
                           catalog |-> CatalogFromRows(objects[c], disk.fields)]]
           /\ UNCHANGED <<want, latest, objects, step>>
  <2>1. pc'[c] = "commit_read" /\ WholeFrame(c)
    BY <1>3, <1>8 DEF Goto, ClientTyped, WholeFrame, LockFrame
  <2>2. HasSchema /\ objects[c] = disk.objects
    BY <1>4, <1>8 DEF ReaderInv
  <2>3. base'[c].catalog = StoredCatalog
    BY <1>8, <2>2 DEF ClientTyped, StoredCatalog
  <2>4. IsCatalog(StoredCatalog)
    BY <1>4, <2>2, StoredLoads
  <2>5. PlanInv(c)'
    BY <1>3, <1>4, <1>8, <2>1, <2>3, <2>4 DEF PlanInv, ApplyPc, HasSchema, StoredCatalog
  <2>6. ReaderInv(c)'
    BY <2>1 DEF ReaderInv
  <2>7. CopyInv(c)'
    BY <2>1 DEF CopyInv, ApplyPc
  <2>8. QED
    BY <1>3, <2>1, <2>5, <2>6, <2>7, ContentQuiet
<1>9. QED
    BY <1>3, <1>5, <1>6, <1>7, <1>8 DEF ReadLatestVersion, ReadObjects, ReadFields, HasSchema

\* Object and field rows read apart make the stored catalog all the same: newer
\* field rows would have no owner among older object rows.
LEMMA ContentLoad ==
    ASSUME FileTyped, ClientTyped, HistoryInv, ContentInv, NEW c \in Connections,
           LoadObjects(c) \/ LoadFields(c)
    PROVE  ContentInv'
<1>1. /\ pc[c] \in {"load_objects", "load_fields"} /\ disk' = disk /\ LockFrame(c)
      /\ lock' = lock
    BY DEF LoadObjects, LoadFields, AutocommitRead, sqliteVars, LockFrame
<1>2. /\ PlanInv(c) /\ ReaderInv(c) /\ StoredInv /\ step[c] = 0 /\ base[c].number = 0
    BY <1>1 DEF ContentInv, PlanInv, WriterPc, HistoryInv, ProcessInv, NoBasePc
<1>3. CASE LoadObjects(c)
  <2>1. HasSchema
    BY <1>2, <1>3 DEF LoadObjects, StoredInv, TableExists, TableNames, EmptyDatabase
  <2>2. pc'[c] = "load_fields" /\ objects'[c] = disk.objects /\ UNCHANGED <<want, latest, base, step>>
    BY <1>3 DEF LoadObjects, Goto, ClientTyped
  <2>3. WholeFrame(c)
    BY <1>1, <1>3, <2>2 DEF LoadObjects, Goto, ClientTyped, WholeFrame, LockFrame
  <2>4. PlanInv(c)' /\ CopyInv(c)'
    BY <1>2, <2>2 DEF PlanInv, CopyInv, ApplyPc, QueryPc
  <2>5. ReaderInv(c)'
    BY <1>1, <2>1, <2>2 DEF ReaderInv, HasSchema
  <2>6. QED
    BY <1>1, <2>3, <2>4, <2>5, ContentQuiet
<1>4. CASE LoadFields(c)
  <2>1. pc[c] = "load_fields" /\ Loadable(objects[c], disk.fields)
    BY <1>4 DEF LoadFields
  <2>2. HasSchema /\ objects[c] \subseteq disk.objects
    BY <1>2, <2>1 DEF ReaderInv
  <2>3. Describes(disk.objects, disk.fields, LatestVersion(disk).snapshot)
    BY <1>2, <2>2 DEF StoredInv
  <2>4. ASSUME NEW o \in disk.objects PROVE o \in objects[c]
    <3>1. ImplicitIdRow(o.object_id) \in disk.fields
      BY <2>3 DEF Describes
    <3>2. ImplicitIdRow(o.object_id).object_id = o.object_id
      BY DEF ImplicitIdRow, FieldRow
    <3>3. PICK p \in objects[c] : p.object_id = o.object_id
      BY <2>1, <3>1, <3>2 DEF Loadable, OwnerKnown
    <3>4. QED
      BY <2>2, <2>3, <3>3 DEF Describes, KeyedRows
  <2>5. objects[c] = disk.objects
    BY <2>2, <2>4
  <2>6. /\ pc'[c] = "serving" /\ UNCHANGED <<want, latest, step>>
        /\ base'[c].catalog = StoredCatalog /\ base'[c].number = base[c].number
    BY <1>4, <2>5 DEF LoadFields, Goto, ClientTyped, StoredCatalog
  <2>7. WholeFrame(c)
    BY <1>1, <1>4 DEF LoadFields, Goto, ClientTyped, WholeFrame, LockFrame
  <2>8. PlanInv(c)' /\ CopyInv(c)'
    BY <1>2, <2>6 DEF PlanInv, CopyInv, ApplyPc, QueryPc
  <2>9. /\ LatestVersion(disk) \in disk.versions /\ Snapshot(StoredCatalog) = LatestVersion(disk).snapshot
        /\ IsCatalog(StoredCatalog)
    BY <1>2, <2>2, StoredLoads, LatestVersionStored DEF HasSchema, HistoryInv, VersionsContiguous
  <2>10. ReaderInv(c)'
    BY <1>1, <2>6, <2>9 DEF ReaderInv
  <2>11. QED
    BY <1>1, <2>7, <2>8, <2>10, ContentQuiet
<1>5. QED
    BY <1>3, <1>4

-----------------------------------------------------------------------------
\* Every step keeps the content.

\* A new file has no rows, and no process has read or planned anything.
THEOREM InitContent == Init => ContentInv
<1> SUFFICES ASSUME Init PROVE ContentInv
    OBVIOUS
<1>1. disk = EmptyDatabase /\ ~HasSchema
    BY DEF Init, SqliteInit, EmptyDatabase, HasSchema
<1>2. StoredInv
    BY <1>1 DEF StoredInv, EmptyDatabase
<1>3. ASSUME NEW c \in Connections PROVE PlanInv(c) /\ ReaderInv(c) /\ CopyInv(c)
  <2>1. pc[c] = "idle" /\ step[c] = 0 /\ base[c] = NoBase
    BY DEF Init
  <2>2. base[c].number = 0
    BY <2>1 DEF NoBase
  <2>3. QED
    BY <2>1, <2>2 DEF PlanInv, ReaderInv, CopyInv, ApplyPc, QueryPc
<1>4. QED
    BY <1>2, <1>3 DEF ContentInv

LEMMA ContentBeginApply ==
    ASSUME FileTyped, ClientTyped, HistoryInv, ContentInv, NEW c \in Connections, BeginApply(c)
    PROVE  ContentInv'
<1>1. /\ pc[c] = "plan"
      /\ base[c].number = 0 \/ (Supported(base[c].catalog, want[c]) /\ Statements(c) # <<>>)
      /\ Begin(c) /\ Goto(c, "apply")
      /\ UNCHANGED <<want, latest, objects, base, step>>
    BY DEF BeginApply, IsInitial
<1>2. PlanInv(c) /\ want[c] \in Schemas /\ step[c] = 0
    BY <1>1 DEF ContentInv, PlanInv, QueryPc, WriterPc
<1>3. lock[c] \notin WriteLocks
    BY <1>1 DEF HistoryInv, ProcessInv, CopyTracksFile, WriterPc
<1>4. disk' = disk /\ lock' = lock /\ LockFrame(c)
    BY <1>1 DEF Begin, LockFrame
<1>5. pc'[c] = "apply" /\ \A d \in Connections \ {c} : pc'[d] = pc[d]
    BY <1>1, GotoMoves
<1>6. WholeFrame(c)
    BY <1>1, <1>4, <1>5 DEF WholeFrame, LockFrame
<1>7. Statements(c)' = Statements(c)
    BY <1>1 DEF Statements, IsInitial
<1>8. PlanInv(c)'
    BY <1>1, <1>2, <1>4, <1>5, <1>7 DEF PlanInv, WriterPc, HasSchema, StoredCatalog
<1>9. ReaderInv(c)'
    BY <1>5 DEF ReaderInv
<1>10. CopyInv(c)'
    BY <1>1, <1>2, <1>3, <1>4, <1>5 DEF CopyInv
<1>11. QED
    BY <1>4, <1>6, <1>8, <1>9, <1>10, ContentQuiet

\* Every step of apply_schema and of the loading of a schema keeps the content.
THEOREM StepContent ==
    ControlTypeOK /\ HistoryInv /\ ContentInv /\ [Next]_vars => ContentInv'
<1> SUFFICES ASSUME FileTyped, ClientTyped, HistoryInv, ContentInv, [Next]_vars
             PROVE  ContentInv'
    BY ControlTypeOKSplit
<1>1. ASSUME NEW c \in Connections, UNCHANGED sqliteVars
      PROVE  disk' = disk /\ LockFrame(c)
    BY <1>1 DEF sqliteVars, LockFrame
<1>2. ASSUME NEW c \in Connections, pc[c] \notin QueryPc
      PROVE  want[c] \in Schemas
    BY <1>2 DEF ContentInv, PlanInv
<1>3. ASSUME NEW c \in Connections, NEW catalog \in Schemas, StartApply(c, catalog)
      PROVE  ContentInv'
  <2>1. /\ pc[c] = "idle" /\ Goto(c, "probe") /\ UNCHANGED sqliteVars
        /\ want' = [want EXCEPT ![c] = catalog] /\ UNCHANGED <<latest, objects, base, step>>
    BY <1>3 DEF StartApply
  <2>2. want'[c] \in Schemas /\ \A d \in Connections \ {c} : want'[d] = want[d]
    BY <2>1 DEF ClientTyped
  <2>3. QED
    BY <1>1, <2>1, <2>2, ContentGoto DEF PlainPc, WriterPc
<1>4. ASSUME NEW c \in Connections, ProbeTable(c)
      PROVE  ContentInv'
  <2>1. /\ pc[c] = "probe" /\ UNCHANGED sqliteVars
        /\ \/ UNCHANGED <<pc, want, latest, objects, base, step>>
           \/ /\ Goto(c, "begin_read") \/ Goto(c, "plan")
              /\ UNCHANGED <<want, latest, objects, base, step>>
           \/ Finish(c, "partial")
    BY <1>4 DEF ProbeTable, AutocommitRead
  <2>2. want[c] \in Schemas
    BY <1>2, <2>1 DEF QueryPc
  <2>3. CASE UNCHANGED <<pc, want, latest, objects, base, step>>
    BY <1>1, <2>1, <2>2, <2>3, ContentGoto DEF PlainPc, WriterPc
  <2>4. CASE (Goto(c, "begin_read") \/ Goto(c, "plan")) /\ UNCHANGED <<want, latest, objects, base, step>>
    BY <1>1, <2>1, <2>2, <2>4, ContentGoto DEF PlainPc, WriterPc
  <2>5. CASE Finish(c, "partial")
    BY <1>1, <2>1, <2>5, ContentFinish
  <2>6. QED
    BY <2>1, <2>3, <2>4, <2>5
<1>5. ASSUME NEW c \in Connections,
             ProbeError(c) \/ RejectUnsupported(c) \/ NothingToDo(c)
               \/ LoadError(c) \/ CloseSession(c)
      PROVE  ContentInv'
    BY <1>1, <1>5, ContentFinish
    DEF ProbeError, RejectUnsupported, NothingToDo, LoadError, CloseSession
<1>6. ASSUME NEW c \in Connections, BeginVerification(c)
      PROVE  ContentInv'
  <2>1. /\ pc[c] = "begin_read" /\ Begin(c) /\ Goto(c, "version")
        /\ UNCHANGED <<want, latest, objects, base, step>>
    BY <1>6 DEF BeginVerification
  <2>2. disk' = disk /\ LockFrame(c) /\ want'[c] \in Schemas
    BY <1>2, <2>1 DEF Begin, LockFrame, QueryPc
  <2>3. QED
    BY <2>1, <2>2, ContentGoto DEF PlainPc, WriterPc
<1>7. ASSUME NEW c \in Connections, CommitVerification(c)
      PROVE  ContentInv'
  <2>1. /\ pc[c] = "commit_read" /\ Commit(c) /\ Goto(c, "plan")
        /\ UNCHANGED <<want, latest, objects, base, step>>
    BY <1>7 DEF CommitVerification
  <2>2. lock[c] \notin WriteLocks
    BY <2>1 DEF HistoryInv, ProcessInv, CopyTracksFile, WriterPc
  <2>3. disk' = disk /\ LockFrame(c) /\ want'[c] \in Schemas
    BY <1>2, <2>1, <2>2, ReleaseEffect DEF Commit, CommitRead, CommitWrite, QueryPc
  <2>4. QED
    BY <2>1, <2>3, ContentGoto DEF PlainPc, WriterPc
<1>8. ASSUME NEW c \in Connections, VerificationError(c)
      PROVE  ContentInv'
  <2>1. /\ pc[c] \in {"version", "objects", "fields", "commit_read"}
        /\ StatementError(c) /\ Goto(c, "rollback_read")
        /\ UNCHANGED <<want, latest, objects, base, step>>
    BY <1>8 DEF VerificationError
  <2>2. disk' = disk /\ LockFrame(c) /\ want'[c] \in Schemas
    BY <1>2, <2>1, ErrorEffect DEF QueryPc
  <2>3. QED
    BY <2>1, <2>2, ContentGoto DEF PlainPc, WriterPc
<1>9. ASSUME NEW c \in Connections,
             RollbackVerification(c) \/ RollbackApply(c) \/ Crash(c)
      PROVE  ContentInv'
    BY <1>9, ReleaseEffect, ContentFinish DEF RollbackVerification, RollbackApply, Crash, Rollback, Die
<1>10. ASSUME NEW c \in Connections, CommitApply(c)
      PROVE  ContentInv'
  <2>1. pc[c] = "commit" /\ Commit(c) /\ Finish(c, "applied")
    BY <1>10 DEF CommitApply
  <2>2. lock[c] \in WriteLocks
    BY <2>1 DEF ContentInv, CopyInv
  <2>3. CommitWrite(c)
    BY <2>1, <2>2 DEF Commit, CommitRead
  <2>4. QED
    BY <2>1, <2>3, ContentCommit
<1>11. ASSUME NEW c \in Connections, CommitApplyBusy(c) \/ ApplyError(c)
      PROVE  ContentInv'
  <2>1. /\ pc[c] \notin QueryPc /\ Goto(c, "rollback_write")
        /\ CommitBusy(c) \/ StatementError(c)
        /\ UNCHANGED <<want, latest, objects, base, step>>
    BY <1>11 DEF CommitApplyBusy, ApplyError, QueryPc
  <2>2. disk' = disk /\ LockFrame(c)
    BY <2>1, ErrorEffect DEF CommitBusy, LockFrame, FileTyped
  <2>3. QED
    BY <1>2, <2>1, <2>2, ContentGoto DEF PlainPc
<1>12. ASSUME NEW c \in Connections, OpenSession(c)
      PROVE  ContentInv'
  <2>1. /\ pc[c] = "idle" /\ Goto(c, "load_objects") /\ UNCHANGED sqliteVars
        /\ UNCHANGED <<want, latest, objects, base, step>>
    BY <1>12 DEF OpenSession
  <2>2. QED
    BY <1>1, <2>1, ContentGoto DEF PlainPc, QueryPc, WriterPc
<1>13. ASSUME UNCHANGED vars PROVE ContentInv'
  <2>1. StoredInv'
    BY <1>13 DEF vars, sqliteVars, clientVars, ContentInv, StoredInv, HasSchema
  <2>2. ASSUME NEW c \in Connections PROVE PlanInv(c)' /\ ReaderInv(c)' /\ CopyInv(c)'
    <3>1. PlanInv(c) /\ ReaderInv(c) /\ CopyInv(c)
      BY DEF ContentInv
    <3>2. UNCHANGED <<disk, lock, work, pc, want, latest, objects, base, step>>
      BY <1>13 DEF vars, sqliteVars, clientVars
    <3>3. Statements(c)' = Statements(c) /\ Executed(c)' = Executed(c)
      BY <3>2 DEF Statements, IsInitial, Executed
    <3>4. QED
      BY <3>1, <3>2, <3>3 DEF PlanInv, ReaderInv, CopyInv, HasSchema, StoredCatalog
  <2>3. QED
    BY <2>1, <2>2 DEF ContentInv
<1>14. CASE Next
  <2>1. PICK c \in Connections :
            \/ \E catalog \in Schemas : StartApply(c, catalog)
            \/ ApplySteps(c)
            \/ OpenSession(c) \/ LoadSteps(c) \/ CloseSession(c)
            \/ Crash(c)
    BY <1>14 DEF Next
  <2>2. ReadLatestVersion(c) \/ ReadObjects(c) \/ ReadFields(c) => ContentInv'
    BY ContentRead
  <2>3. LoadObjects(c) \/ LoadFields(c) => ContentInv'
    BY ContentLoad
  <2>4. ExecuteStatement(c) \/ InsertVersion(c) \/ BeginApply(c) => ContentInv'
    BY ContentExecute, ContentInsertVersion, ContentBeginApply
  <2>5. QED
    BY <1>3, <1>4, <1>5, <1>6, <1>7, <1>8, <1>9, <1>10, <1>11, <1>12, <2>1, <2>2, <2>3, <2>4
    DEF ApplySteps, LoadSteps
<1>15. QED
    BY <1>13, <1>14

-----------------------------------------------------------------------------
\* What the content of the file is good for

LEMMA ContentCorrect == Spec => [](ControlTypeOK /\ HistoryInv /\ ContentInv)
BY InitTyped, StepTyped, InitHistory, StepHistory, InitContent, StepContent, PTL DEF Spec

\* Whatever applies, crashes and errors came before, the stored catalog passes the
\* verification the next command makes: the tool never locks itself out of a file.
THEOREM StoredAlwaysVerifies == Spec => []StoredSchemaVerifies
<1>1. HistoryInv /\ ContentInv => StoredSchemaVerifies
    BY StoredLoads DEF ContentInv, StoredSchemaVerifies
<1>2. QED
    BY <1>1, ContentCorrect, PTL

\* A query process reads the catalog in two autocommit statements, between which
\* an apply may commit; it serves the schema of some committed version all the same.
THEOREM SessionsServeVersions == Spec => []SessionCatalogCommitted
<1>1. ContentInv => SessionCatalogCommitted
    BY DEF ContentInv, ReaderInv, SessionCatalogCommitted
<1>2. QED
    BY <1>1, ContentCorrect, PTL

\* The tables and indexes of a file are those an initial plan of its catalog would
\* create, however many migrations led there: a migrated database is no different
\* from a fresh one.
THEOREM PhysicalSchemaMatches == Spec => []PhysicalMatchesCatalog
<1>1. ASSUME HistoryInv, ContentInv PROVE PhysicalMatchesCatalog
  <2>1. CASE ~HasSchema
    BY <1>1, <2>1 DEF ContentInv, StoredInv, PhysicalMatchesCatalog
  <2>2. CASE HasSchema
    <3>1. IsCatalog(StoredCatalog) /\ Snapshot(StoredCatalog) = LatestVersion(disk).snapshot
      BY <1>1, <2>2, StoredLoads DEF ContentInv
    <3>2. PICK catalog, snapshot : catalog = StoredCatalog /\ snapshot = LatestVersion(disk).snapshot
      OBVIOUS
    <3>3. TablesStored(disk)
      BY <1>1, <2>2 DEF ContentInv, StoredInv
    <3>4. /\ \A t : t \in disk.tables <=> IsTableOf(t, snapshot)
          /\ \A x : x \in disk.indexes <=> IsIndexOf(x, snapshot)
      BY <3>2, <3>3 DEF TablesStored, AreTablesOf, AreIndexesOf
    <3>5. /\ \A t : t \in PlannedTables(catalog) <=> IsTableOf(t, snapshot)
          /\ \A x : x \in PlannedIndexes(catalog) <=> IsIndexOf(x, snapshot)
      BY <3>1, <3>2, PlannedOf
    <3>6. disk.tables = PlannedTables(catalog) /\ disk.indexes = PlannedIndexes(catalog)
      BY <3>4, <3>5
    <3>7. QED
      BY <2>2, <3>2, <3>6 DEF PhysicalMatchesCatalog
  <2>3. QED
    BY <2>1, <2>2
<1>2. QED
    BY <1>1, ContentCorrect, PTL

\* A session that opened under an older version can go on: its tables have all its
\* columns, and the columns added since accept a row that does not know them.
THEOREM OldSessionsWork == Spec => []SessionCatalogUsable
<1>1. ASSUME HistoryInv, ContentInv, NEW c \in Connections, pc[c] = "serving",
             NEW known \in PlannedTables(base[c].catalog)
      PROVE  \E table \in disk.tables :
                 /\ table.name = known.name
                 /\ known.columns \subseteq table.columns
                 /\ \A column \in table.columns \ known.columns : column.nullable
  <2>1. /\ IsCatalog(base[c].catalog)
        /\ \E row \in disk.versions : row.snapshot = Snapshot(base[c].catalog)
    BY <1>1 DEF ContentInv, ReaderInv
  <2>2. PICK row \in disk.versions : row.snapshot = Snapshot(base[c].catalog)
    BY <2>1
  <2>3. PICK latest0 : latest0 = LatestVersion(disk).snapshot
    OBVIOUS
  <2>4. TablesStored(disk)
    BY <1>1, <2>2 DEF ContentInv, StoredInv, HasSchema
  <2>5. /\ GrowsTo(row.snapshot, latest0)
        /\ \A t : t \in disk.tables <=> IsTableOf(t, latest0)
    BY <2>3, <2>4 DEF TablesStored, AreTablesOf
  <2>6. IsTableOf(known, row.snapshot)
    BY <2>1, <2>2, PlannedOf
  <2>7. QED
    BY <2>5, <2>6, GrownTablesUsable
<1>2. HistoryInv /\ ContentInv => SessionCatalogUsable
    BY <1>1 DEF SessionCatalogUsable
<1>3. QED
    BY <1>2, ContentCorrect, PTL

\* The outcome of a command is written where the command starts and where it ends.
LEMMA UnchangedBy ==
    ASSUME ClientTyped, [Next]_vars, NEW c \in Connections,
           outcome[c] # "unchanged", outcome'[c] = "unchanged"
    PROVE  NothingToDo(c)
<1>1. ASSUME NEW d \in Connections, NEW result, Finish(d, result)
      PROVE  d = c /\ result = "unchanged"
    BY <1>1 DEF Finish, ClientTyped
<1>2. outcome' # outcome
    OBVIOUS
<1>3. PICK d \in Connections :
            \/ \E catalog \in Schemas : StartApply(d, catalog)
            \/ ApplySteps(d)
            \/ OpenSession(d) \/ LoadSteps(d) \/ CloseSession(d)
            \/ Crash(d)
    BY <1>2 DEF Next, vars, clientVars
<1>4. ASSUME \/ \E catalog \in Schemas : StartApply(d, catalog)
             \/ OpenSession(d)
      PROVE  FALSE
  <2>1. outcome' = [outcome EXCEPT ![d] = "none"]
    BY <1>4 DEF StartApply, OpenSession
  <2>2. QED
    BY <2>1 DEF ClientTyped
<1>5. ASSUME \/ ProbeError(d) \/ RollbackVerification(d) \/ RejectUnsupported(d)
             \/ CommitApply(d) \/ RollbackApply(d) \/ LoadError(d) \/ CloseSession(d) \/ Crash(d)
      PROVE  FALSE
  <2>1. PICK result \in {"failed", "unsupported", "applied", "none"} : Finish(d, result)
    BY <1>5 DEF ProbeError, RollbackVerification, RejectUnsupported, CommitApply, RollbackApply,
        LoadError, CloseSession, Crash
  <2>2. QED
    BY <1>1, <2>1
<1>6. ASSUME \/ BeginVerification(d) \/ ReadLatestVersion(d) \/ ReadObjects(d) \/ ReadFields(d)
             \/ CommitVerification(d) \/ VerificationError(d) \/ BeginApply(d)
             \/ ExecuteStatement(d) \/ InsertVersion(d) \/ CommitApplyBusy(d) \/ ApplyError(d)
             \/ LoadObjects(d) \/ LoadFields(d)
      PROVE  FALSE
    BY <1>2, <1>6 DEF BeginVerification, ReadLatestVersion, ReadObjects, ReadFields,
        CommitVerification, VerificationError, BeginApply, ExecuteStatement, InsertVersion,
        CommitApplyBusy, ApplyError, LoadObjects, LoadFields
<1>7. ASSUME ProbeTable(d) PROVE FALSE
  <2>1. Finish(d, "partial") \/ outcome' = outcome
    BY <1>7 DEF ProbeTable
  <2>2. QED
    BY <1>1, <1>2, <2>1
<1>8. NothingToDo(d)
    BY <1>3, <1>4, <1>5, <1>6, <1>7 DEF ApplySteps, LoadSteps
<1>9. d = c
    BY <1>1, <1>8 DEF NothingToDo
<1>10. QED
    BY <1>8, <1>9

\* "Nothing to do" is the answer only for a schema the history of the file has.
THEOREM UnchangedTruthful == Spec => UnchangedIsTruthful
<1>1. ASSUME FileTyped, ClientTyped, HistoryInv, ContentInv, [Next]_vars,
             NEW c \in Connections, outcome[c] # "unchanged", outcome'[c] = "unchanged"
      PROVE  \E row \in disk.versions : row.snapshot = Snapshot(want[c])
  <2>1. /\ pc[c] = "plan" /\ base[c].number # 0
        /\ Supported(base[c].catalog, want[c])
        /\ MigrationStatements(base[c].catalog, want[c]) = <<>>
    BY <1>1, UnchangedBy DEF NothingToDo, IsInitial, Statements
  <2>2. want[c] \in Schemas /\ IsCatalog(base[c].catalog)
    BY <1>1, <2>1 DEF ContentInv, PlanInv, QueryPc
  <2>3. IsCatalog(want[c]) /\ NamesOrdered(want[c])
    BY <2>2, WantedCatalog
  <2>4. Snapshot(base[c].catalog) = Snapshot(want[c])
    BY <2>1, <2>2, <2>3, EmptyMigration
  <2>5. PICK row \in disk.versions : row.snapshot = Snapshot(base[c].catalog)
    BY <1>1, <2>1 DEF HistoryInv, ProcessInv, BaseStored
  <2>6. QED
    BY <2>4, <2>5
<1> DEFINE Truthful ==
        \A c \in Connections :
            outcome[c] # "unchanged" /\ outcome'[c] = "unchanged" =>
                \E row \in disk.versions : row.snapshot = Snapshot(want[c])
<1>2. ControlTypeOK /\ HistoryInv /\ ContentInv /\ [Next]_vars => [Truthful]_vars
    BY <1>1, ControlTypeOKSplit
<1>3. QED
    BY <1>2, ContentCorrect, PTL DEF Spec, UnchangedIsTruthful

-----------------------------------------------------------------------------
(***************************************************************************)
(* The refinement.  A commit appends one snapshot to the abstract history, *)
(* and every other step leaves the history alone.                          *)
(***************************************************************************)

Applicable == {Snapshot(catalog) : catalog \in Schemas}

RowNumbered(versions, n) == CHOOSE row \in versions : row.number = n

StoredHistory == [n \in 1..LatestNumber |-> RowNumbered(disk.versions, n).snapshot]

LEMMA HistoryIsSequence ==
    ASSUME HistoryInv, StoredInv
    PROVE  /\ LatestNumber \in Nat /\ (HasSchema <=> LatestNumber # 0)
           /\ \A n \in 1..LatestNumber : /\ RowNumbered(disk.versions, n) \in disk.versions
                                         /\ RowNumbered(disk.versions, n).number = n
           /\ StoredHistory \in Seq(Applicable) /\ Len(StoredHistory) = LatestNumber
<1>1. ContiguousVersions(disk.versions)
    BY DEF HistoryInv, VersionsContiguous
<1>2. CASE ~HasSchema
  <2>1. LatestNumber = 0 /\ 1..LatestNumber = {}
    BY <1>2 DEF LatestNumber
  <2>2. StoredHistory \in [1..0 -> Applicable]
    BY <2>1 DEF StoredHistory
  <2>3. Seq(Applicable) = UNION {[1..n -> Applicable] : n \in Nat}
    BY SeqDef
  <2>4. StoredHistory \in Seq(Applicable)
    BY <2>2, <2>3
  <2>5. Len(StoredHistory) = 0
    BY <2>2, <2>4, LenProperties
  <2>6. QED
    BY <1>2, <2>1, <2>4, <2>5
<1>3. CASE HasSchema
  <2>1. /\ LatestVersion(disk) \in disk.versions
        /\ LatestNumber = LatestVersion(disk).number /\ LatestNumber \in Nat \ {0}
    BY <1>1, <1>3, LatestVersionStored DEF HasSchema, LatestNumber, ContiguousVersions
  <2>2. ASSUME NEW n \in 1..LatestNumber
        PROVE  /\ RowNumbered(disk.versions, n) \in disk.versions
               /\ RowNumbered(disk.versions, n).number = n
    <3>1. PICK row \in disk.versions : row.number = n
      BY <1>1, <2>1 DEF ContiguousVersions
    <3>2. QED
      BY <3>1 DEF RowNumbered
  <2>3. StoredHistory \in [1..LatestNumber -> Applicable]
    <3> SUFFICES ASSUME NEW n \in 1..LatestNumber
                 PROVE  RowNumbered(disk.versions, n).snapshot \in Applicable
        BY DEF StoredHistory
    <3>1. QED
      BY <2>2 DEF StoredInv, Applicable
  <2>4. StoredHistory \in Seq(Applicable)
    BY <2>1, <2>3, SeqDef
  <2>5. Len(StoredHistory) = LatestNumber
    BY <2>1, <2>3, <2>4, LenProperties
  <2>6. QED
    BY <1>3, <2>1, <2>2, <2>4, <2>5
<1>4. QED
    BY <1>2, <1>3

\* What a commit makes of the history: the wanted snapshot at its end.
LEMMA CommitAppends ==
    ASSUME FileTyped, ClientTyped, HistoryInv, ContentInv, NEW c \in Connections,
           CommitApply(c), CommitWrite(c)
    PROVE  /\ want[c] \in Schemas
           /\ StoredHistory' = Append(StoredHistory, Snapshot(want[c]))
           /\ HasSchema =>
                /\ ~IsInitial(c) /\ pc[c] = "commit"
                /\ base[c].catalog = StoredCatalog
                /\ LatestVersion(disk).snapshot = Snapshot(base[c].catalog)
                /\ StoredHistory[LatestNumber] = LatestVersion(disk).snapshot
<1>1. pc[c] = "commit" /\ Finish(c, "applied")
    BY DEF CommitApply
<1>2. /\ disk'.versions = disk.versions \cup {NewVersionRow(c)}
      /\ \A row \in disk.versions : row.number <= base[c].number
      /\ HistoryInv' /\ ContentInv' /\ LatestVersion(disk') = NewVersionRow(c)
    BY <1>1, CommitInstallsSuccessor, ContentCommit
<1>3. /\ NewVersionRow(c).number = base[c].number + 1
      /\ NewVersionRow(c).snapshot = Snapshot(want[c])
    BY DEF NewVersionRow, VersionRow
<1>4. IF HasSchema
      THEN /\ LatestVersion(disk).number = base[c].number
           /\ LatestVersion(disk).snapshot = Snapshot(base[c].catalog)
      ELSE IsInitial(c)
    BY <1>2, BaseIsLatest
<1>5. want[c] \in Schemas /\ StoredInv /\ StoredInv'
    BY <1>1, <1>2 DEF ContentInv, PlanInv, QueryPc
<1>6. /\ LatestNumber \in Nat /\ (HasSchema <=> LatestNumber # 0)
      /\ \A n \in 1..LatestNumber : /\ RowNumbered(disk.versions, n) \in disk.versions
                                    /\ RowNumbered(disk.versions, n).number = n
      /\ StoredHistory \in Seq(Applicable) /\ Len(StoredHistory) = LatestNumber
    BY <1>5, HistoryIsSequence
<1>7. HasSchema' /\ LatestNumber' = LatestNumber + 1
    BY <1>2, <1>3, <1>4 DEF HasSchema, LatestNumber, IsInitial
<1>8. ContiguousVersions(disk'.versions) /\ ContiguousVersions(disk.versions)
    BY <1>2 DEF HistoryInv, VersionsContiguous
<1>9. ASSUME NEW n \in 1..(LatestNumber + 1)
      PROVE  RowNumbered(disk'.versions, n).snapshot =
                 IF n = LatestNumber + 1 THEN Snapshot(want[c])
                 ELSE RowNumbered(disk.versions, n).snapshot
  <2>1. \A a, b \in disk'.versions : a.number = b.number => a = b
    BY <1>8 DEF ContiguousVersions
  <2>2. CASE n = LatestNumber + 1
    <3>1. NewVersionRow(c) \in disk'.versions /\ NewVersionRow(c).number = n
      BY <1>2, <1>3, <1>4, <2>2 DEF LatestNumber, IsInitial
    <3>2. RowNumbered(disk'.versions, n) = NewVersionRow(c)
      BY <2>1, <3>1 DEF RowNumbered
    <3>3. QED
      BY <1>3, <2>2, <3>2
  <2>3. CASE n # LatestNumber + 1
    <3>1. n \in 1..LatestNumber
      BY <1>6, <2>3
    <3>2. PICK row : row = RowNumbered(disk.versions, n)
      OBVIOUS
    <3>3. row \in disk'.versions /\ row.number = n
      BY <1>2, <1>6, <3>1, <3>2
    <3>4. RowNumbered(disk'.versions, n) = row
      BY <2>1, <3>3 DEF RowNumbered
    <3>5. QED
      BY <2>3, <3>2, <3>4
  <2>4. QED
    BY <2>2, <2>3
<1>10. StoredHistory' = Append(StoredHistory, Snapshot(want[c]))
  <2>1. PICK old : old = StoredHistory
    OBVIOUS
  <2>2. PICK snapshot : snapshot = Snapshot(want[c])
    OBVIOUS
  <2>3. snapshot \in Applicable
    BY <1>5, <2>2 DEF Applicable
  <2>4. /\ Append(old, snapshot) \in Seq(Applicable) /\ Len(Append(old, snapshot)) = LatestNumber + 1
        /\ \A i \in 1..LatestNumber : Append(old, snapshot)[i] = old[i]
        /\ Append(old, snapshot)[LatestNumber + 1] = snapshot
    BY <1>6, <2>1, <2>3, AppendProperties
  <2>5. Append(old, snapshot) = [n \in 1..(LatestNumber + 1) |-> Append(old, snapshot)[n]]
    BY <1>6, <2>4, LenProperties
  <2>6. ASSUME NEW n \in 1..(LatestNumber + 1)
        PROVE  Append(old, snapshot)[n] = RowNumbered(disk'.versions, n).snapshot
    <3>1. CASE n = LatestNumber + 1
      BY <1>9, <2>2, <2>4, <3>1
    <3>2. CASE n # LatestNumber + 1
      <4>1. n \in 1..LatestNumber
        BY <1>6, <3>2
      <4>2. old[n] = RowNumbered(disk.versions, n).snapshot
        BY <2>1, <4>1 DEF StoredHistory
      <4>3. QED
        BY <1>9, <2>4, <3>2, <4>1, <4>2
    <3>3. QED
      BY <3>1, <3>2
  <2>7. StoredHistory' = [n \in 1..(LatestNumber + 1) |-> RowNumbered(disk'.versions, n).snapshot]
    BY <1>7 DEF StoredHistory
  <2>8. QED
    BY <2>1, <2>2, <2>5, <2>6, <2>7
<1>11. ASSUME HasSchema
       PROVE  /\ ~IsInitial(c) /\ base[c].catalog = StoredCatalog
              /\ StoredHistory[LatestNumber] = LatestVersion(disk).snapshot
  <2>1. LatestNumber # 0 /\ LatestNumber = LatestVersion(disk).number /\ LatestNumber = base[c].number
    BY <1>4, <1>6, <1>11 DEF LatestNumber
  <2>2. base[c].catalog = StoredCatalog
    BY <1>11, <2>1 DEF ContentInv, PlanInv, LatestNumber
  <2>3. LatestVersion(disk) \in disk.versions
    BY <1>8, <1>11, LatestVersionStored DEF HasSchema
  <2>4. RowNumbered(disk.versions, LatestNumber) = LatestVersion(disk)
    <3>1. PICK row : row = RowNumbered(disk.versions, LatestNumber)
      OBVIOUS
    <3>2. row \in disk.versions /\ row.number = LatestVersion(disk).number
      BY <1>6, <2>1, <3>1
    <3>3. \A a, b \in disk.versions : a.number = b.number => a = b
      BY <1>8 DEF ContiguousVersions
    <3>4. QED
      BY <2>3, <3>1, <3>2, <3>3
  <2>5. StoredHistory[LatestNumber] = LatestVersion(disk).snapshot
    BY <1>6, <2>1, <2>4 DEF StoredHistory
  <2>6. QED
    BY <2>1, <2>2, <2>5 DEF IsInitial
<1>12. QED
    BY <1>1, <1>4, <1>5, <1>10, <1>11

\* A migration the planner supports keeps every object and field and adds only
\* fields that existing rows have a value for.
LEMMA SupportedExtends ==
    ASSUME NEW current, NEW desired, IsCatalog(current), IsCatalog(desired),
           Supported(current, desired)
    PROVE  History!Extends(Snapshot(current), Snapshot(desired))
<1> SUFFICES ASSUME NEW before \in Snapshot(current)
             PROVE  \E after \in Snapshot(desired) :
                        /\ after.name = before.name
                        /\ before.fields \subseteq after.fields
                        /\ \A field \in after.fields \ before.fields :
                              field.cardinality # "required" /\ ~field.unique
    BY DEF History!Extends, History!Addable
<1>1. PICK object \in ToSet(current) :
          before = [name |-> object.name, fields |-> ToSet(object.fields)]
    BY DEF Snapshot
<1>2. PICK kept \in ToSet(desired) :
          /\ kept.name = object.name
          /\ ToSet(object.fields) \subseteq ToSet(kept.fields)
          /\ \A f \in ToSet(kept.fields) \ ToSet(object.fields) : ValidFieldAddition(f)
    BY SupportedKeepsFields
<1>3. PICK after : after = [name |-> kept.name, fields |-> ToSet(kept.fields)]
    OBVIOUS
<1>4. after \in Snapshot(desired)
    BY <1>3 DEF Snapshot
<1>5. QED
    BY <1>1, <1>2, <1>3, <1>4 DEF ValidFieldAddition

\* The versions in the file are an append-only history of compatible schemas: the
\* processes, with their locks, errors and crashes, implement the history.
THEOREM HistoryImplemented == Spec => ImplementsHistory
<1> USE DEF StoredHistory, RowNumbered
<1>1. Init => History!Init
  <2> SUFFICES ASSUME Init PROVE StoredHistory = <<>>
      BY DEF History!Init
  <2>1. LatestNumber = 0
    BY DEF Init, SqliteInit, EmptyDatabase, HasSchema, LatestNumber
  <2>2. QED
    BY <2>1
<1>2. ControlTypeOK /\ HistoryInv /\ ContentInv /\ [Next]_vars =>
          [History!Next]_StoredHistory
  <2> HIDE DEF StoredHistory, RowNumbered
  <2> SUFFICES ASSUME FileTyped, ClientTyped, HistoryInv, ContentInv, [Next]_vars,
                      StoredHistory' # StoredHistory
               PROVE  History!Next
      BY ControlTypeOKSplit
  <2>1. disk' # disk
    BY DEF StoredHistory, LatestNumber, HasSchema
  <2>2. PICK c \in Connections : CommitApply(c) /\ CommitWrite(c)
    BY <2>1, OnlyApplyWrites DEF vars, sqliteVars
  <2>3. PICK snapshot : snapshot = Snapshot(want[c])
    OBVIOUS
  <2>4. /\ want[c] \in Schemas
        /\ StoredHistory' = Append(StoredHistory, snapshot)
        /\ HasSchema =>
             /\ ~IsInitial(c) /\ pc[c] = "commit"
             /\ base[c].catalog = StoredCatalog
             /\ LatestVersion(disk).snapshot = Snapshot(base[c].catalog)
             /\ StoredHistory[LatestNumber] = LatestVersion(disk).snapshot
    BY <2>2, <2>3, CommitAppends
  <2>5. ASSUME StoredHistory # <<>>
        PROVE  /\ snapshot # StoredHistory[Len(StoredHistory)]
               /\ History!Extends(StoredHistory[Len(StoredHistory)], snapshot)
    <3>1. /\ LatestNumber \in Nat /\ (HasSchema <=> LatestNumber # 0)
          /\ Len(StoredHistory) = LatestNumber /\ StoredHistory \in Seq(Applicable)
      BY HistoryIsSequence DEF ContentInv
    <3>2. HasSchema
      BY <2>5, <3>1, EmptySeq
    <3>3. /\ Supported(base[c].catalog, want[c])
          /\ MigrationStatements(base[c].catalog, want[c]) # <<>>
          /\ IsCatalog(base[c].catalog)
      BY <2>4, <3>2 DEF ContentInv, PlanInv, ApplyPc, IsInitial, Statements
    <3>4. IsCatalog(want[c]) /\ NamesOrdered(want[c])
      BY <2>4, WantedCatalog
    <3>5. Snapshot(base[c].catalog) # Snapshot(want[c])
      BY <3>3, <3>4, SameSchemaMigration
    <3>6. History!Extends(Snapshot(base[c].catalog), Snapshot(want[c]))
      BY <3>3, <3>4, SupportedExtends
    <3>7. QED
      BY <2>3, <2>4, <3>1, <3>2, <3>5, <3>6
  <2>6. History!AddVersion(snapshot)
    BY <2>4, <2>5 DEF History!AddVersion, History!Last, StoredHistory, RowNumbered
  <2>7. QED
    BY <2>3, <2>4, <2>6 DEF History!Next
<1> HIDE DEF StoredHistory, RowNumbered
<1>3. QED
    BY <1>1, <1>2, ContentCorrect, PTL
    DEF Spec, ImplementsHistory, History!Spec, StoredHistory, RowNumbered

-----------------------------------------------------------------------------
(***************************************************************************)
(* The whole type invariant.  Statements, rows, tables and columns are     *)
(* named after what the schemas declare; what a process reads of them      *)
(* makes a catalog again.                                                  *)
(***************************************************************************)

\* A statement that writes what the file may contain.
TypedStatement(s) ==
    /\ s.op = "create_table" => [name |-> s.name, columns |-> ToSet(s.columns)] \in TableType
    /\ s.op = "add_column" => s.column \in ColumnType
    /\ s.op = "create_index" => s \in IndexType
    /\ s.op = "insert_object" => s.row \in ObjectRowType
    /\ s.op = "insert_field" => s.row \in FieldRowType

\* SQLite executes it on content of the type, to content of the type.
LEMMA TypedContentKept ==
    ASSUME NEW db \in Database, NEW s, TypedStatement(s), Accepts(db, s)
    PROVE  Execute(db, s) \in Database
<1>1. CASE s.op = "create_table"
  <2>1. PICK t \in TableType : t = [name |-> s.name, columns |-> ToSet(s.columns)]
    BY <1>1 DEF TypedStatement
  <2>2. Execute(db, s) = [db EXCEPT !.tables = db.tables \cup {t}]
    BY <1>1, <2>1 DEF Execute
  <2>3. QED
    BY <2>2 DEF Database
<1>2. CASE s.op = "add_column"
  <2>1. PICK added : added = {IF table.name = s.table THEN WithColumn(table, s.column) ELSE table :
                                  table \in db.tables}
    OBVIOUS
  <2>2. Execute(db, s) = [db EXCEPT !.tables = added]
    BY <1>2, <2>1 DEF Execute
  <2>3. ASSUME NEW table \in TableType PROVE WithColumn(table, s.column) \in TableType
    BY <1>2 DEF TypedStatement, WithColumn, TableType
  <2>4. added \in SUBSET TableType
    BY <2>1, <2>3 DEF Database
  <2>5. QED
    BY <2>2, <2>4 DEF Database
<1>3. CASE s.op = "create_index"
  <2>1. s \in IndexType /\ Execute(db, s) = [db EXCEPT !.indexes = db.indexes \cup {s}]
    BY <1>3 DEF TypedStatement, Execute
  <2>2. QED
    BY <2>1 DEF Database
<1>4. CASE s.op = "insert_object"
  <2>1. s.row \in ObjectRowType /\ Execute(db, s) = [db EXCEPT !.objects = db.objects \cup {s.row}]
    BY <1>4 DEF TypedStatement, Execute
  <2>2. QED
    BY <2>1 DEF Database
<1>5. CASE s.op = "insert_field"
  <2>1. s.row \in FieldRowType /\ Execute(db, s) = [db EXCEPT !.fields = db.fields \cup {s.row}]
    BY <1>5 DEF TypedStatement, Execute
  <2>2. QED
    BY <2>1 DEF Database
<1>6. QED
    BY <1>1, <1>2, <1>3, <1>4, <1>5 DEF Accepts

\* What the schemas declare.
LEMMA DeclaredNames ==
    ASSUME NEW catalog \in Schemas, NEW o \in ToSet(catalog)
    PROVE  /\ o.name \in TypesDeclared
           /\ \A f \in ToSet(o.fields) :
                 /\ f.name \in FieldsDeclared /\ f \in DeclaredField
                 /\ f.kind = "link" => f.type \in TypesDeclared
<1>1. Declarable(catalog)
    BY WantedCatalog
<1>2. /\ ToSet(o.fields) \subseteq DeclaredField
      /\ \A f \in ToSet(o.fields) : f.kind = "link" => f.type \in TypeNames(catalog)
    BY <1>1, DeclaredFields
<1>3. o.name \in TypeNames(catalog) /\ TypeNames(catalog) \subseteq TypesDeclared
    BY DEF TypeNames, TypesDeclared
<1>4. FieldNames(o) \subseteq FieldsDeclared
    BY DEF FieldsDeclared
<1>5. \A f \in ToSet(o.fields) : f.name \in FieldNames(o)
    BY DEF FieldNames
<1>6. QED
    BY <1>2, <1>3, <1>4, <1>5

\* The columns of tables, by the kind of field.
LEMMA StoredColumnTyped ==
    ASSUME NEW catalog \in Schemas, NEW o \in ToSet(catalog), NEW f \in ToSet(o.fields)
    PROVE  StoredColumn(f) \in ColumnType
<1>1. /\ f.name \in FieldsDeclared /\ f \in DeclaredField
      /\ f.kind = "link" => f.type \in TypesDeclared
    BY DeclaredNames
<1>2. StoredColumnName(f) \in ColumnsNamed
    BY <1>1 DEF StoredColumnName, ColumnsNamed
<1>3. f.unique \in BOOLEAN /\ (f.kind # "link" => f.type \in ScalarTypes)
    BY <1>1 DEF DeclaredField
<1>4. f.kind # "link" => SqliteAffinity(f.type) \in {"TEXT", "INTEGER", "REAL"}
    BY <1>3 DEF SqliteAffinity, ScalarTypes
<1>5. QED
    BY <1>1, <1>2, <1>3, <1>4 DEF StoredColumn, Column, ColumnType

LEMMA PlainColumnsTyped ==
    ASSUME NEW name \in {"id", "source_id", "target_id", "position"},
           NEW affinity \in {"TEXT", "INTEGER", "REAL"}, NEW nullable \in BOOLEAN, NEW unique \in BOOLEAN,
           NEW references \in {ToAsciiLowercase(type) : type \in TypesDeclared} \cup {None}
    PROVE  Column(name, affinity, nullable, unique, references) \in ColumnType
BY DEF Column, ColumnType, ColumnsNamed

LEMMA ObjectTableTyped ==
    ASSUME NEW catalog \in Schemas, NEW o \in ToSet(catalog),
           NEW fields, IsList(fields), ToSet(fields) \subseteq ToSet(o.fields)
    PROVE  TypedStatement(ObjectTable(o.name, fields))
<1>1. PICK s : s = ObjectTable(o.name, fields)
    OBVIOUS
<1>2. /\ s.op = "create_table" /\ s.name = ToAsciiLowercase(o.name)
      /\ ToSet(s.columns) = ObjectColumns(ToSet(fields))
    BY <1>1, ObjectTableColumns
<1>3. s.name \in TablesNamed
    BY <1>2, DeclaredNames DEF TablesNamed
<1>4. IdColumn \in ColumnType
    BY PlainColumnsTyped DEF IdColumn
<1>5. \A f \in ToSet(fields) : StoredColumn(f) \in ColumnType
    BY StoredColumnTyped
<1>6. ToSet(s.columns) \subseteq ColumnType
    BY <1>2, <1>4, <1>5 DEF ObjectColumns
<1>7. TypedStatement(s)
    BY <1>2, <1>3, <1>6 DEF TypedStatement, TableType
<1>8. QED
    BY <1>1, <1>7

LEMMA RelationTableTyped ==
    ASSUME NEW catalog \in Schemas, NEW o \in ToSet(catalog), NEW f \in ToSet(o.fields), f.kind = "link"
    PROVE  TypedStatement(RelationTable(o.name, f))
<1>1. /\ o.name \in TypesDeclared /\ f.name \in FieldsDeclared /\ f.type \in TypesDeclared
    BY DeclaredNames
<1>2. PICK a, b, p : /\ a = Column("source_id", "TEXT", FALSE, FALSE, ToAsciiLowercase(o.name))
                     /\ b = Column("target_id", "TEXT", FALSE, FALSE, ToAsciiLowercase(f.type))
                     /\ p = Column("position", "INTEGER", TRUE, FALSE, None)
    OBVIOUS
<1>3. a \in ColumnType /\ b \in ColumnType /\ p \in ColumnType
    BY <1>1, <1>2, PlainColumnsTyped
<1>4. PICK columns : columns = <<a, b, p>>
    OBVIOUS
<1>5. ToSet(columns) \subseteq ColumnType
    BY <1>3, <1>4 DEF ToSet
<1>6. RelationTableName(o.name, f.name) \in TablesNamed
    BY <1>1 DEF TablesNamed
<1>7. RelationTable(o.name, f) = CreateTable(RelationTableName(o.name, f.name), columns)
    BY <1>2, <1>4 DEF RelationTable
<1>8. QED
    BY <1>5, <1>6, <1>7 DEF TypedStatement, CreateTable, TableType

LEMMA IndexesTyped ==
    ASSUME NEW catalog \in Schemas, NEW o \in ToSet(catalog), NEW f \in ToSet(o.fields)
    PROVE  \A s \in ToSet(FieldIndexes(o.name, f)) : TypedStatement(s)
<1>1. /\ o.name \in TypesDeclared /\ f.name \in FieldsDeclared
    BY DeclaredNames
<1>2. /\ RelationTableName(o.name, f.name) \in TablesNamed
      /\ ToAsciiLowercase(o.name) \in TablesNamed
    BY <1>1 DEF TablesNamed
<1>3. /\ "source_id" \in ColumnsNamed /\ "target_id" \in ColumnsNamed
      /\ StoredColumnName(f) \in ColumnsNamed
    BY <1>1 DEF StoredColumnName, ColumnsNamed
<1>4. ASSUME NEW table \in TablesNamed, NEW column \in ColumnsNamed
      PROVE  TypedStatement(CreateIndex(table \o "__" \o column \o "_idx", table, column))
  <2>1. PICK s : s = CreateIndex(table \o "__" \o column \o "_idx", table, column)
    OBVIOUS
  <2>2. s \in IndexType
    BY <2>1 DEF IndexType
  <2>3. s.op = "create_index"
    BY <2>1 DEF CreateIndex
  <2>4. TypedStatement(s)
    BY <2>2, <2>3 DEF TypedStatement
  <2>5. QED
    BY <2>1, <2>4
<1> DEFINE IndexOn(table, column) == CreateIndex(table \o "__" \o column \o "_idx", table, column)
           relation == RelationTableName(o.name, f.name)
<1>5. PICK a, b, s : /\ a = IndexOn(relation, "source_id") /\ b = IndexOn(relation, "target_id")
                     /\ s = IndexOn(ToAsciiLowercase(o.name), StoredColumnName(f))
    OBVIOUS
<1>6. TypedStatement(a) /\ TypedStatement(b) /\ TypedStatement(s)
    BY <1>2, <1>3, <1>4, <1>5
<1>7. FieldIndexes(o.name, f) \in {<<>>, <<a, b>>, <<s>>}
    BY <1>5 DEF FieldIndexes
<1>8. ToSet(FieldIndexes(o.name, f)) \subseteq {a, b, s}
    BY <1>7, EmptyTuple, OneItem, TwoItems
<1>9. QED
    BY <1>6, <1>8

\* Rows of fields.
LEMMA FieldRowTyped ==
    ASSUME NEW catalog \in Schemas, NEW o \in ToSet(catalog), NEW f \in ToSet(o.fields),
           NEW id \in Nat, NEW n \in Nat, NEW target, f.kind = "link" => target \in Nat
    PROVE  DeclaredFieldRow(id, n, f, target) \in FieldRowType
<1>1. f.name \in FieldsDeclared /\ f \in DeclaredField
    BY DeclaredNames
<1>2. /\ f.kind \in {"scalar", "link"} /\ f.cardinality \in {"required", "optional", "many"}
      /\ f.unique \in BOOLEAN /\ f.inverse \in STRING \cup {None}
      /\ f.kind = "scalar" => f.type \in ScalarTypes
    BY <1>1 DEF DeclaredField
<1>3. QED
    BY <1>1, <1>2 DEF DeclaredFieldRow, FieldRow, FieldRowType

LEMMA ImplicitRowTyped ==
    ASSUME NEW id \in Nat PROVE ImplicitIdRow(id) \in FieldRowType
BY DEF ImplicitIdRow, FieldRow, FieldRowType, ScalarTypes

LEMMA ObjectRowTyped ==
    ASSUME NEW catalog \in Schemas, NEW o \in ToSet(catalog), NEW id \in Nat
    PROVE  TypedStatement(InsertObject(ObjectRow(id, o.name)))
BY DeclaredNames DEF TypedStatement, InsertObject, ObjectRow, ObjectRowType

LEMMA FieldStatementTyped ==
    ASSUME NEW row \in FieldRowType PROVE TypedStatement(InsertField(row))
BY DEF TypedStatement, InsertField

\* The rows of the fields of an object that is new.
LEMMA NewFieldsTyped ==
    ASSUME NEW catalog \in Schemas, NEW o \in ToSet(catalog), NEW id \in Nat,
           NEW fields, IsList(fields), ToSet(fields) \subseteq ToSet(o.fields),
           NEW target, \A type \in TypeNames(catalog) : target[type] \in Nat
    PROVE  \A s \in ObjectFieldRowsOf(id, fields, target) : TypedStatement(s)
<1>1. DOMAIN fields \subseteq Nat /\ \A j \in DOMAIN fields : fields[j] \in ToSet(o.fields)
    BY ListLength DEF ToSet
<1>2. \A f \in ToSet(o.fields) : f.kind = "link" => target[f.type] \in Nat
    BY WantedCatalog, DeclaredFields
<1>3. ASSUME NEW j \in DOMAIN fields
      PROVE  TypedStatement(InsertField(DeclaredFieldRow(id, j + 1, fields[j], target[fields[j].type])))
  <2>1. PICK f \in ToSet(o.fields) : f = fields[j]
    BY <1>1
  <2>2. PICK t : t = target[f.type]
    OBVIOUS
  <2>3. f.kind = "link" => t \in Nat
    BY <1>2, <2>2
  <2>4. j + 1 \in Nat
    BY <1>1
  <2>5. DeclaredFieldRow(id, j + 1, f, t) \in FieldRowType
    BY <2>3, <2>4, FieldRowTyped
  <2>6. TypedStatement(InsertField(DeclaredFieldRow(id, j + 1, f, t)))
    BY <2>5, FieldStatementTyped
  <2>7. QED
    BY <2>1, <2>2, <2>6
<1>4. TypedStatement(InsertField(ImplicitIdRow(id)))
    BY ImplicitRowTyped, FieldStatementTyped
<1>5. QED
    BY <1>3, <1>4 DEF ObjectFieldRowsOf

LEMMA MetadataTyped == \A s \in MetadataTableStatements : TypedStatement(s)
<1>1. ASSUME NEW name \in ToSet(MetadataTables) PROVE TypedStatement(CreateTable(name, <<>>))
  <2>1. PICK s : s = CreateTable(name, <<>>)
    OBVIOUS
  <2>2. s.op = "create_table" /\ s.name = name /\ s.columns = <<>>
    BY <2>1 DEF CreateTable
  <2>3. name \in TablesNamed /\ ToSet(s.columns) = {}
    BY <2>2, EmptyTuple DEF TablesNamed
  <2>4. TypedStatement(s)
    BY <2>2, <2>3 DEF TypedStatement, TableType
  <2>5. QED
    BY <2>1, <2>4
<1>2. QED
    BY <1>1 DEF MetadataTableStatements

\* Relation tables and indexes of some fields of an object.
LEMMA ObjectPartsTyped ==
    ASSUME NEW catalog \in Schemas, NEW o \in ToSet(catalog), NEW fields, fields \subseteq ToSet(o.fields)
    PROVE  /\ \A s \in RelationTablesOf(o.name, fields) : TypedStatement(s)
           /\ \A s \in IndexesOf(o.name, fields) : TypedStatement(s)
           /\ \A s \in AddedColumnsOf(o, fields) : TypedStatement(s)
<1>1. ASSUME NEW f \in fields, HasRelationTable(f) PROVE TypedStatement(RelationTable(o.name, f))
    BY <1>1, RelationTableTyped DEF HasRelationTable, IsMany
<1>2. ASSUME NEW f \in fields PROVE \A s \in ToSet(FieldIndexes(o.name, f)) : TypedStatement(s)
    BY IndexesTyped
<1>3. ASSUME NEW f \in fields
      PROVE  TypedStatement(AddColumn(ToAsciiLowercase(o.name), StoredColumn(f)))
  <2>1. StoredColumn(f) \in ColumnType
    BY StoredColumnTyped
  <2>2. QED
    BY <2>1 DEF TypedStatement, AddColumn
<1>4. QED
    BY <1>1, <1>2, <1>3 DEF RelationTablesOf, IndexesOf, AddedColumnsOf

\* What plan_initial_schema plans.
LEMMA InitialTypedPlan ==
    ASSUME NEW catalog \in Schemas
    PROVE  \A s \in ToSet(InitialStatements(catalog)) : TypedStatement(s)
<1>1. IsCatalog(catalog) /\ IsList(catalog) /\ \A o \in ToSet(catalog) : IsList(o.fields)
    BY WantedCatalog DEF IsCatalog
<1>2. DOMAIN catalog \subseteq Nat /\ \A i \in DOMAIN catalog : catalog[i] \in ToSet(catalog)
    BY <1>1, ListLength DEF ToSet
<1>3. PICK target : target = InitialTarget(catalog)
    OBVIOUS
<1>4. \A type \in TypeNames(catalog) : target[type] \in Nat
    BY <1>1, <1>2, <1>3, TypeIdFinds DEF InitialTarget
<1>5. \A o \in ToSet(catalog) : TypedStatement(ObjectTable(o.name, o.fields))
    BY <1>1, ObjectTableTyped
<1>6. \A o \in ToSet(catalog) :
          /\ \A s \in RelationTablesOf(o.name, ToSet(o.fields)) : TypedStatement(s)
          /\ \A s \in IndexesOf(o.name, ToSet(o.fields)) : TypedStatement(s)
    BY ObjectPartsTyped
<1>7. \A i \in DOMAIN catalog : TypedStatement(InsertObject(ObjectRow(i, catalog[i].name)))
    BY <1>2, ObjectRowTyped
<1>8. ASSUME NEW i \in DOMAIN catalog
      PROVE  \A s \in ObjectFieldRowsOf(i, catalog[i].fields, target) : TypedStatement(s)
  <2>1. PICK o \in ToSet(catalog) : o = catalog[i]
    BY <1>2
  <2>2. IsList(o.fields) /\ i \in Nat
    BY <1>1, <1>2
  <2>3. \A s \in ObjectFieldRowsOf(i, o.fields, target) : TypedStatement(s)
    BY <1>4, <2>2, NewFieldsTyped
  <2>4. QED
    BY <2>1, <2>3
<1>9. ASSUME NEW s \in InitialItems(catalog) PROVE TypedStatement(s)
    BY <1>3, <1>5, <1>6, <1>7, <1>8, MetadataTyped DEF InitialItems
<1>10. QED
    BY <1>1, <1>9, InitialPlan

\* Ids in a migration: those of the current catalog and the ones that follow.
LEMMA MigrationIdTyped ==
    ASSUME NEW current, NEW desired \in Schemas, IsCatalog(current), NEW name \in TypeNames(desired)
    PROVE  MigrationObjectId(current, desired, name) \in Nat
<1>1. IsList(current) /\ Len(current) \in Nat /\ DOMAIN current \subseteq Nat
    BY ListLength DEF IsCatalog
<1>2. PICK new : new = NewObjects(current, desired)
    OBVIOUS
<1>3. IsList(new) /\ ToSet(new) = {o \in ToSet(desired) : o.name \notin TypeNames(current)}
    BY <1>2, WantedCatalog, NewObjectsItems
<1>4. DOMAIN new \subseteq Nat
    BY <1>3, ListLength
<1>5. CASE name \in TypeNames(current)
    BY <1>1, <1>5, TypeIdFinds DEF MigrationObjectId
<1>6. CASE name \notin TypeNames(current)
  <2>1. name \in TypeNames(new)
    BY <1>3, <1>6 DEF TypeNames
  <2>2. TypeId(new, name) \in Nat
    BY <1>3, <1>4, <2>1, TypeIdFinds
  <2>3. QED
    BY <1>1, <1>2, <1>6, <2>2 DEF MigrationObjectId
<1>7. QED
    BY <1>5, <1>6

LEMMA AddedRowsTyped ==
    ASSUME NEW current, NEW desired \in Schemas, IsCatalog(current), NEW o \in ToSet(desired),
           o.name \in TypeNames(current)
    PROVE  \A s \in AddedFieldRowsOf(current, desired, o) : TypedStatement(s)
<1>1. IsCatalog(desired) /\ NamesOrdered(desired) /\ Declarable(desired)
    BY WantedCatalog
<1>2. PICK added : added = AddedFields(current, o)
    OBVIOUS
<1>3. IsList(added) /\ ToSet(added) \subseteq ToSet(o.fields)
    BY <1>1, <1>2, AddedFieldsItems
<1>4. DOMAIN added \subseteq Nat /\ \A j \in DOMAIN added : added[j] \in ToSet(o.fields)
    BY <1>3, ListLength DEF ToSet
<1>5. PICK object \in ToSet(current) : object.name = o.name
    BY DEF TypeNames
<1>6. FindType(current, o.name) = object
    BY <1>5, FindTypeFinds DEF IsCatalog
<1>7. Len(FindType(current, o.name).fields) \in Nat
    BY <1>6, ListLength DEF IsCatalog
<1>8. PICK id : id = MigrationObjectId(current, desired, o.name)
    OBVIOUS
<1>9. id \in Nat
    BY <1>8, MigrationIdTyped DEF TypeNames
<1>10. ASSUME NEW j \in DOMAIN added
       PROVE  TypedStatement(InsertField(DeclaredFieldRow(id, Len(FindType(current, o.name).fields) + 1 + j,
                  added[j], MigrationObjectId(current, desired, added[j].type))))
  <2>1. PICK f \in ToSet(o.fields) : f = added[j]
    BY <1>4
  <2>2. PICK n, t : /\ n = Len(FindType(current, o.name).fields) + 1 + j
                    /\ t = MigrationObjectId(current, desired, f.type)
    OBVIOUS
  <2>3. n \in Nat
    BY <1>4, <1>7, <2>2
  <2>4. f.kind = "link" => t \in Nat
    BY <1>1, <2>2, DeclaredFields, MigrationIdTyped
  <2>5. DeclaredFieldRow(id, n, f, t) \in FieldRowType
    BY <1>9, <2>3, <2>4, FieldRowTyped
  <2>6. TypedStatement(InsertField(DeclaredFieldRow(id, n, f, t)))
    BY <2>5, FieldStatementTyped
  <2>7. QED
    BY <2>1, <2>2, <2>6
<1>11. QED
    BY <1>2, <1>8, <1>10 DEF AddedFieldRowsOf

\* What plan_schema_migration plans.
LEMMA MigrationTypedPlan ==
    ASSUME NEW current, NEW desired \in Schemas, IsCatalog(current)
    PROVE  \A s \in ToSet(MigrationStatements(current, desired)) : TypedStatement(s)
<1>1. IsCatalog(desired) /\ NamesOrdered(desired)
    BY WantedCatalog
<1>2. PICK new, kept : new = NewObjects(current, desired) /\ kept = ToSet(KeptObjects(current, desired))
    OBVIOUS
<1>3. /\ IsList(new) /\ ToSet(new) \subseteq ToSet(desired)
      /\ kept = {o \in ToSet(desired) : o.name \in TypeNames(current)}
    BY <1>1, <1>2, NewObjectsItems, KeptObjectsItems
<1>4. DOMAIN new \subseteq Nat /\ \A i \in DOMAIN new : new[i] \in ToSet(desired)
  <2>1. DOMAIN new = 1..Len(new)
    BY <1>3, ListLength
  <2>2. \A i \in DOMAIN new : new[i] \in ToSet(new)
    BY DEF ToSet
  <2>3. QED
    BY <1>3, <2>1, <2>2
<1>5. Len(current) \in Nat
    BY ListLength DEF IsCatalog
<1>6. PICK target : target = MigrationTarget(current, desired)
    OBVIOUS
<1>7. \A type \in TypeNames(desired) : target[type] \in Nat
    BY <1>6, MigrationIdTyped DEF MigrationTarget
<1>8. \A o \in ToSet(desired) : IsList(SortedFields(o)) /\ ToSet(SortedFields(o)) = ToSet(o.fields)
    BY <1>1, SortedFieldsItems
<1>9. \A o \in ToSet(desired) : ToSet(AddedFields(current, o)) \subseteq ToSet(o.fields)
    BY <1>1, AddedFieldsItems
<1>10. \A o \in ToSet(new) : TypedStatement(ObjectTable(o.name, SortedFields(o)))
    BY <1>3, <1>8, ObjectTableTyped
<1>11. \A o \in ToSet(desired) :
          /\ \A s \in RelationTablesOf(o.name, ToSet(o.fields)) : TypedStatement(s)
          /\ \A s \in IndexesOf(o.name, ToSet(o.fields)) : TypedStatement(s)
    BY ObjectPartsTyped
<1>12. \A o \in ToSet(desired) :
          /\ \A s \in RelationTablesOf(o.name, ToSet(AddedFields(current, o))) : TypedStatement(s)
          /\ \A s \in IndexesOf(o.name, ToSet(AddedFields(current, o))) : TypedStatement(s)
          /\ \A s \in AddedColumnsOf(o, ToSet(AddedFields(current, o))) : TypedStatement(s)
    BY <1>9, ObjectPartsTyped
<1>13. ASSUME NEW i \in DOMAIN new
       PROVE  /\ TypedStatement(InsertObject(ObjectRow(Len(current) + i, new[i].name)))
              /\ \A s \in ObjectFieldRowsOf(Len(current) + i, SortedFields(new[i]), target) :
                    TypedStatement(s)
  <2>1. PICK o \in ToSet(desired) : o = new[i]
    BY <1>4
  <2>2. PICK id \in Nat : id = Len(current) + i
    BY <1>4, <1>5
  <2>3. PICK fields : fields = SortedFields(o)
    OBVIOUS
  <2>4. IsList(fields) /\ ToSet(fields) \subseteq ToSet(o.fields)
    BY <1>8, <2>3
  <2>5. \A s \in ObjectFieldRowsOf(id, fields, target) : TypedStatement(s)
    BY <1>7, <2>4, NewFieldsTyped
  <2>6. TypedStatement(InsertObject(ObjectRow(id, o.name)))
    BY ObjectRowTyped
  <2>7. QED
    BY <2>1, <2>2, <2>3, <2>5, <2>6
<1>14. \A o \in kept : \A s \in AddedFieldRowsOf(current, desired, o) : TypedStatement(s)
    BY <1>3, AddedRowsTyped
<1>15. ASSUME NEW s \in MigrationItems(current, desired) PROVE TypedStatement(s)
  <2>1. \/ \E o \in ToSet(new) : \/ s = ObjectTable(o.name, SortedFields(o))
                                 \/ s \in RelationTablesOf(o.name, ToSet(o.fields))
                                 \/ s \in IndexesOf(o.name, ToSet(o.fields))
        \/ \E o \in kept : \/ s \in RelationTablesOf(o.name, ToSet(AddedFields(current, o)))
                           \/ s \in AddedColumnsOf(o, ToSet(AddedFields(current, o)))
                           \/ s \in IndexesOf(o.name, ToSet(AddedFields(current, o)))
                           \/ s \in AddedFieldRowsOf(current, desired, o)
        \/ \E i \in DOMAIN new :
              \/ s = InsertObject(ObjectRow(Len(current) + i, new[i].name))
              \/ s \in ObjectFieldRowsOf(Len(current) + i, SortedFields(new[i]), target)
    BY <1>2, <1>6 DEF MigrationItems
  <2>2. QED
    BY <1>3, <1>10, <1>11, <1>12, <1>13, <1>14, <2>1
<1>16. QED
    BY <1>1, <1>15, MigrationPlan

-----------------------------------------------------------------------------
\* A stored catalog is one that a schema can declare, in the order of its ids.
LEMMA StoredCatalogTyped ==
    ASSUME HistoryInv, StoredInv, HasSchema
    PROVE  StoredCatalog \in Catalogs
<1>1. PICK catalog \in Schemas : /\ LatestVersion(disk).snapshot = Snapshot(catalog)
                                 /\ Describes(disk.objects, disk.fields, Snapshot(catalog))
    BY StoredLoads
<1>2. PICK loaded : loaded = CatalogFromRows(disk.objects, disk.fields)
    OBVIOUS
<1>3. Snapshot(loaded) = Snapshot(catalog) /\ IsCatalog(loaded)
    BY <1>1, <1>2, StoredLoads DEF StoredCatalog
<1>4. KeyedRows(disk.objects, disk.fields)
    BY <1>1 DEF Describes
<1>5. ToSet(loaded) = {LoadedObject(o, disk.objects, disk.fields) : o \in disk.objects}
    BY <1>2, <1>4, LoadedObjects
<1>6. Declarable(catalog)
    BY WantedCatalog
<1>7. ASSUME NEW o \in ToSet(loaded) PROVE o \in DeclaredObject
  <2>1. o = [name |-> o.name, fields |-> o.fields]
    BY <1>5 DEF LoadedObject, ObjectType
  <2>2. [name |-> o.name, fields |-> ToSet(o.fields)] \in Snapshot(loaded)
    BY DEF Snapshot
  <2>3. PICK s \in Snapshot(catalog) : s = [name |-> o.name, fields |-> ToSet(o.fields)]
    BY <1>3, <2>2
  <2>4. s.name = o.name /\ s.fields = ToSet(o.fields)
    BY <2>3
  <2>5. PICK p \in ToSet(catalog) : s.name = p.name
    BY <1>6, SnapshotObjects
  <2>6. ToSet(o.fields) \subseteq DeclaredField
    BY <1>6, <2>4, SnapshotObjects
  <2>7. o.fields \in Seq(DeclaredField)
    BY <1>3, <2>6, ListOver DEF IsCatalog
  <2>8. p.name \in STRING
    <3>1. ToSet(catalog) \subseteq DeclaredObject
      BY <1>6, ItemsInSet DEF Declarable, Catalogs
    <3>2. QED
      BY <3>1 DEF DeclaredObject
  <2>9. QED
    BY <2>1, <2>4, <2>5, <2>7, <2>8 DEF DeclaredObject
<1>8. loaded \in Seq(DeclaredObject)
  <2>1. ToSet(loaded) \subseteq DeclaredObject
    BY <1>7
  <2>2. QED
    BY <1>3, <2>1, ListOver DEF IsCatalog
<1>9. QED
    BY <1>2, <1>8 DEF StoredCatalog, Catalogs

\* What a process holds.
ProcessTyped(c) ==
    /\ lock[c] \in WriteLocks => work[c] \in Database
    /\ latest[c] \in VersionRowType
    /\ objects[c] \in SUBSET ObjectRowType
    /\ base[c] \in [number : Nat, catalog : Catalogs]

DataTyped == disk \in Database /\ \A c \in Connections : ProcessTyped(c)

LEMMA TypeOKSplit == TypeOK <=> ControlTypeOK /\ DataTyped
BY DEF TypeOK, DataTyped, ProcessTyped

\* What a step of process c leaves alone of the others' data.
DataFrame(c) ==
    \A d \in Connections \ {c} :
        latest'[d] = latest[d] /\ objects'[d] = objects[d] /\ base'[d] = base[d]

LEMMA DataStep ==
    ASSUME DataTyped, NEW c \in Connections, disk' \in Database, LockFrame(c), DataFrame(c),
           ProcessTyped(c)'
    PROVE  DataTyped'
<1>1. ASSUME NEW d \in Connections \ {c} PROVE ProcessTyped(d)'
    BY DEF DataTyped, ProcessTyped, LockFrame, DataFrame
<1>2. QED
    BY <1>1 DEF DataTyped

\* A step that gives c nothing new to write.
WorkKept(c) == lock'[c] \in WriteLocks => lock[c] \in WriteLocks /\ work'[c] = work[c]

QuietFile(c) == disk' = disk /\ LockFrame(c) /\ WorkKept(c)

LEMMA QuietFiles ==
    ASSUME FileTyped, NEW c \in Connections,
           \/ UNCHANGED sqliteVars
           \/ Begin(c)
           \/ Read(c)
           \/ Release(c)
           \/ CommitBusy(c)
           \/ StatementError(c)
    PROVE  QuietFile(c)
<1>1. UNCHANGED sqliteVars \/ Begin(c) => QuietFile(c)
    BY DEF sqliteVars, Begin, QuietFile, LockFrame, WorkKept
<1>2. Read(c) => QuietFile(c)
    BY DEF FileTyped, Read, QuietFile, LockFrame, WorkKept, WriteLocks
<1>3. Release(c) => QuietFile(c)
    BY ReleaseEffect DEF QuietFile, WorkKept, WriteLocks
<1>4. CommitBusy(c) => QuietFile(c)
    BY DEF FileTyped, CommitBusy, QuietFile, LockFrame, WorkKept, WriteLocks
<1>5. QED
    BY <1>1, <1>2, <1>3, <1>4 DEF StatementError

LEMMA QuietData ==
    ASSUME DataTyped, NEW c \in Connections, QuietFile(c), UNCHANGED <<latest, objects, base>>
    PROVE  DataTyped'
<1>1. ProcessTyped(c)'
    BY DEF DataTyped, ProcessTyped, QuietFile, WorkKept
<1>2. DataFrame(c) /\ disk' \in Database
    BY DEF DataFrame, DataTyped, QuietFile
<1>3. QED
    BY <1>1, <1>2, DataStep DEF QuietFile

\* The end of a command, which forgets what it read.
LEMMA ForgottenTyped == NoRow \in VersionRowType /\ NoBase \in [number : Nat, catalog : Catalogs]
<1>1. NoRow \in VersionRowType
    BY DEF NoRow, VersionRow, VersionRowType, SnapshotType
<1>2. <<>> \in Catalogs
    BY DEF Catalogs
<1>3. QED
    BY <1>1, <1>2 DEF NoBase

LEMMA FinishedData ==
    ASSUME ClientTyped, DataTyped, NEW c \in Connections, NEW result, Finish(c, result),
           LockFrame(c), WorkKept(c) \/ lock'[c] = "none", disk' \in Database
    PROVE  DataTyped'
<1>1. latest'[c] = NoRow /\ objects'[c] = {} /\ base'[c] = NoBase /\ DataFrame(c)
    BY DEF ClientTyped, Finish, DataFrame
<1>2. lock'[c] \in WriteLocks => work'[c] \in Database
    BY DEF DataTyped, ProcessTyped, WorkKept, WriteLocks
<1>3. ProcessTyped(c)'
    BY <1>1, <1>2, ForgottenTyped DEF ProcessTyped
<1>4. QED
    BY <1>1, <1>3, DataStep

LEMMA QuietEnd ==
    ASSUME ClientTyped, DataTyped, NEW c \in Connections, QuietFile(c), NEW result, Finish(c, result)
    PROVE  DataTyped'
BY FinishedData DEF DataTyped, QuietFile

-----------------------------------------------------------------------------
\* A new file is empty, and no process knows anything.
LEMMA InitData == Init => DataTyped
<1> SUFFICES ASSUME Init PROVE DataTyped
    OBVIOUS
<1>1. disk \in Database
    BY DEF Init, SqliteInit, EmptyDatabase, Database
<1>2. ASSUME NEW c \in Connections PROVE ProcessTyped(c)
    BY ForgottenTyped DEF Init, SqliteInit, ProcessTyped, WriteLocks
<1>3. QED
    BY <1>1, <1>2 DEF DataTyped

\* The row a process adds holds the snapshot of a catalog it was asked to apply.
LEMMA NewRowTyped ==
    ASSUME DataTyped, NEW c \in Connections, want[c] \in Schemas
    PROVE  NewVersionRow(c) \in VersionRowType
<1>1. Declarable(want[c])
    BY WantedCatalog
<1>2. ASSUME NEW s \in Snapshot(want[c]) PROVE s \in [name : STRING, fields : SUBSET DeclaredField]
  <2>1. PICK o \in ToSet(want[c]) : s = [name |-> o.name, fields |-> ToSet(o.fields)]
    BY DEF Snapshot
  <2>2. s.fields \subseteq DeclaredField
    BY <1>1, SnapshotObjects
  <2>3. o.name \in STRING
    <3>1. ToSet(want[c]) \subseteq DeclaredObject
      BY <1>1, ItemsInSet DEF Declarable, Catalogs
    <3>2. QED
      BY <3>1 DEF DeclaredObject
  <2>4. QED
    BY <2>1, <2>2, <2>3
<1>3. PICK snapshot : snapshot = Snapshot(want[c])
    OBVIOUS
<1>4. snapshot \in SnapshotType
    BY <1>2, <1>3 DEF SnapshotType
<1>5. base[c].number \in Nat
    BY DEF DataTyped, ProcessTyped
<1>6. QED
    BY <1>3, <1>4, <1>5 DEF NewVersionRow, VersionRow, VersionRowType

\* A step that writes what the file may contain.
LEMMA WrittenData ==
    ASSUME FileTyped, DataTyped, NEW c \in Connections, NEW db \in Database, Write(c, db),
           UNCHANGED <<latest, objects, base>>
    PROVE  DataTyped'
<1>1. disk' = disk /\ LockFrame(c) /\ work'[c] = db
    BY WriteEffect
<1>2. ProcessTyped(c)'
    BY <1>1 DEF DataTyped, ProcessTyped
<1>3. disk' \in Database /\ DataFrame(c)
    BY <1>1 DEF DataTyped, DataFrame
<1>4. QED
    BY <1>1, <1>2, <1>3, DataStep

\* What an executing process sees.
LEMMA ViewOfDatabase ==
    ASSUME DataTyped, NEW c \in Connections
    PROVE  View(c) \in Database
<1>1. CASE lock[c] \in WriteLocks
  <2>1. View(c) = work[c]
    BY <1>1 DEF View
  <2>2. QED
    BY <1>1, <2>1 DEF DataTyped, ProcessTyped
<1>2. CASE lock[c] \notin WriteLocks
  <2>1. View(c) = disk
    BY <1>2 DEF View
  <2>2. QED
    BY <2>1 DEF DataTyped
<1>3. QED
    BY <1>1, <1>2

\* The statements of a plan write typed content on typed content.
LEMMA DataExecute ==
    ASSUME FileTyped, ClientTyped, HistoryInv, ContentInv, DataTyped,
           NEW c \in Connections, ExecuteStatement(c)
    PROVE  DataTyped'
<1>1. PICK s : s = Statements(c)[step[c] + 1]
    OBVIOUS
<1>2. PICK db : db = Execute(View(c), s)
    OBVIOUS
<1>3. /\ pc[c] = "apply" /\ step[c] < Len(Statements(c))
      /\ Accepts(View(c), s) /\ Write(c, db)
      /\ UNCHANGED <<latest, objects, base>>
    BY <1>1, <1>2 DEF ExecuteStatement
<1>4. PlanInv(c) /\ pc[c] \in ApplyPc /\ step[c] \in Nat
    BY <1>3 DEF ContentInv, ApplyPc, ClientTyped
<1>5. /\ want[c] \in Schemas /\ Len(Statements(c)) \in Nat
      /\ DOMAIN Statements(c) = 1..Len(Statements(c))
    BY <1>4, PlanIsList
<1>6. s \in ToSet(Statements(c))
    BY <1>1, <1>3, <1>4, <1>5 DEF ToSet
<1>7. TypedStatement(s)
  <2>1. CASE IsInitial(c)
    <3>1. s \in ToSet(InitialStatements(want[c]))
      BY <1>6, <2>1 DEF Statements
    <3>2. QED
      BY <1>5, <3>1, InitialTypedPlan
  <2>2. CASE ~IsInitial(c)
    <3>1. s \in ToSet(MigrationStatements(base[c].catalog, want[c]))
      BY <1>6, <2>2 DEF Statements
    <3>2. IsCatalog(base[c].catalog)
      BY <1>4, <2>2 DEF PlanInv, IsInitial
    <3>3. QED
      BY <1>5, <3>1, <3>2, MigrationTypedPlan
  <2>3. QED
    BY <2>1, <2>2
<1>8. View(c) \in Database
    BY ViewOfDatabase
<1>9. db \in Database
    BY <1>2, <1>3, <1>7, <1>8, TypedContentKept
<1>10. QED
    BY <1>3, <1>9, WrittenData

LEMMA DataInsertVersion ==
    ASSUME FileTyped, ContentInv, DataTyped, NEW c \in Connections, InsertVersion(c)
    PROVE  DataTyped'
<1>1. PICK row, db : row = NewVersionRow(c) /\ db = InsertVersionRow(View(c), row)
    OBVIOUS
<1>2. pc[c] = "insert_version" /\ Write(c, db) /\ UNCHANGED <<latest, objects, base>>
    BY <1>1 DEF InsertVersion
<1>3. want[c] \in Schemas
    BY <1>2 DEF ContentInv, PlanInv, QueryPc
<1>4. row \in VersionRowType
    BY <1>1, <1>3, NewRowTyped
<1>5. View(c) \in Database
    BY ViewOfDatabase
<1>6. db \in Database
  <2>1. PICK view \in Database : view = View(c)
    BY <1>5
  <2>2. db = [view EXCEPT !.versions = view.versions \cup {row}]
    BY <1>1, <2>1 DEF InsertVersionRow
  <2>3. QED
    BY <1>4, <2>2 DEF Database
<1>7. QED
    BY <1>2, <1>6, WrittenData

\* What the verification reads of the file.
LEMMA DataRead ==
    ASSUME FileTyped, ClientTyped, HistoryInv, ContentInv, DataTyped, NEW c \in Connections,
           ReadLatestVersion(c) \/ ReadObjects(c) \/ ReadFields(c)
    PROVE  DataTyped'
<1>1. pc[c] \in {"version", "objects", "fields"} /\ Read(c)
    BY DEF ReadLatestVersion, ReadObjects, ReadFields
<1>2. lock[c] \notin WriteLocks
    BY <1>1 DEF HistoryInv, ProcessInv, CopyTracksFile, WriterPc
<1>3. lock'[c] = "shared" /\ View(c) = disk /\ disk' = disk /\ LockFrame(c)
    BY <1>1, <1>2, SharedLock
<1>4. /\ QuietFile(c) /\ lock'[c] \notin WriteLocks /\ ProcessTyped(c) /\ disk \in Database
      /\ ReaderInv(c) /\ StoredInv
    BY <1>1, <1>3, QuietFiles DEF DataTyped, ContentInv, WriteLocks
<1>5. CASE UNCHANGED <<latest, objects, base>>
    BY <1>4, <1>5, QuietData
<1>6. CASE /\ HasSchema /\ latest' = [latest EXCEPT ![c] = LatestVersion(disk)]
           /\ UNCHANGED <<objects, base>>
  <2>1. latest'[c] = LatestVersion(disk) /\ DataFrame(c)
    BY <1>6 DEF ClientTyped, DataFrame
  <2>2. LatestVersion(disk) \in disk.versions
    BY <1>6, LatestVersionStored DEF HasSchema, HistoryInv, VersionsContiguous
  <2>3. latest'[c] \in VersionRowType
    BY <1>4, <2>1, <2>2 DEF Database
  <2>4. ProcessTyped(c)'
    BY <1>4, <1>6, <2>3 DEF ProcessTyped
  <2>5. QED
    BY <1>3, <1>4, <2>1, <2>4, DataStep
<1>7. CASE /\ objects' = [objects EXCEPT ![c] = disk.objects]
           /\ UNCHANGED <<latest, base>>
  <2>1. objects'[c] = disk.objects /\ DataFrame(c)
    BY <1>7 DEF ClientTyped, DataFrame
  <2>2. objects'[c] \in SUBSET ObjectRowType
    BY <1>4, <2>1 DEF Database
  <2>3. ProcessTyped(c)'
    BY <1>4, <1>7, <2>2 DEF ProcessTyped
  <2>4. QED
    BY <1>3, <1>4, <2>1, <2>3, DataStep
<1>8. CASE /\ pc[c] = "fields"
           /\ base' = [base EXCEPT ![c] =
                          [number |-> latest[c].number,
                           catalog |-> CatalogFromRows(objects[c], disk.fields)]]
           /\ UNCHANGED <<latest, objects>>
  <2>1. HasSchema /\ objects[c] = disk.objects
    BY <1>4, <1>8 DEF ReaderInv
  <2>2. base'[c] = [number |-> latest[c].number, catalog |-> StoredCatalog] /\ DataFrame(c)
    BY <1>8, <2>1 DEF ClientTyped, StoredCatalog, DataFrame
  <2>3. StoredCatalog \in Catalogs
    BY <1>4, <2>1, StoredCatalogTyped
  <2>4. latest[c].number \in Nat
    BY <1>4 DEF ProcessTyped, VersionRowType
  <2>5. base'[c] \in [number : Nat, catalog : Catalogs]
    BY <2>2, <2>3, <2>4
  <2>6. ProcessTyped(c)'
    BY <1>4, <1>8, <2>5 DEF ProcessTyped
  <2>7. QED
    BY <1>3, <1>4, <2>2, <2>6, DataStep
<1>9. QED
    BY <1>3, <1>5, <1>6, <1>7, <1>8 DEF ReadLatestVersion, ReadObjects, ReadFields, HasSchema

\* Field rows that load with the object rows a session has read found all their owners
\* there, so no object was added in between.
LEMMA LoadedObjectRows ==
    ASSUME ContentInv, NEW c \in Connections, pc[c] = "load_fields",
           Loadable(objects[c], disk.fields)
    PROVE  HasSchema /\ objects[c] = disk.objects
<1>1. HasSchema /\ objects[c] \subseteq disk.objects
    BY DEF ContentInv, ReaderInv
<1>2. Describes(disk.objects, disk.fields, LatestVersion(disk).snapshot)
    BY <1>1 DEF ContentInv, StoredInv
<1>3. ASSUME NEW o \in disk.objects PROVE o \in objects[c]
  <2>1. ImplicitIdRow(o.object_id) \in disk.fields
    BY <1>2 DEF Describes
  <2>2. ImplicitIdRow(o.object_id).object_id = o.object_id
    BY DEF ImplicitIdRow, FieldRow
  <2>3. PICK p \in objects[c] : p.object_id = o.object_id
    BY <2>1, <2>2 DEF Loadable, OwnerKnown
  <2>4. QED
    BY <1>1, <1>2, <2>3 DEF Describes, KeyedRows
<1>4. QED
    BY <1>1, <1>3

\* What a session loads: object rows that older or newer field rows make a catalog of.
LEMMA DataLoad ==
    ASSUME FileTyped, ClientTyped, HistoryInv, ContentInv, DataTyped,
           NEW c \in Connections, LoadObjects(c) \/ LoadFields(c)
    PROVE  DataTyped'
<1>1. /\ UNCHANGED sqliteVars /\ LockFrame(c) /\ ProcessTyped(c) /\ disk \in Database
      /\ disk' \in Database
    BY DEF LoadObjects, LoadFields, AutocommitRead, sqliteVars, LockFrame, DataTyped
<1>2. CASE LoadObjects(c)
  <2>1. objects'[c] = disk.objects /\ DataFrame(c) /\ UNCHANGED <<latest, base>>
    BY <1>2 DEF LoadObjects, ClientTyped, DataFrame
  <2>2. objects'[c] \in SUBSET ObjectRowType
    BY <1>1, <2>1 DEF Database
  <2>3. ProcessTyped(c)'
    BY <1>1, <2>1, <2>2 DEF ProcessTyped, sqliteVars
  <2>4. QED
    BY <1>1, <2>1, <2>3, DataStep
<1>3. CASE LoadFields(c)
  <2>1. /\ pc[c] = "load_fields" /\ Loadable(objects[c], disk.fields)
        /\ base' = [base EXCEPT ![c].catalog = CatalogFromRows(objects[c], disk.fields)]
        /\ objects' = [objects EXCEPT ![c] = {}] /\ UNCHANGED latest
    BY <1>3 DEF LoadFields
  <2>2. HasSchema /\ objects[c] = disk.objects /\ StoredInv
    BY <2>1, LoadedObjectRows DEF ContentInv
  <2>3. /\ base'[c] = [base[c] EXCEPT !.catalog = StoredCatalog]
        /\ objects'[c] = {} /\ DataFrame(c)
    BY <2>1, <2>2 DEF ClientTyped, StoredCatalog, DataFrame
  <2>4. StoredCatalog \in Catalogs
    BY <2>2, StoredCatalogTyped
  <2>5. ProcessTyped(c)'
    BY <1>1, <2>1, <2>3, <2>4 DEF ProcessTyped, sqliteVars
  <2>6. QED
    BY <1>1, <2>3, <2>5, DataStep
<1>4. QED
    BY <1>2, <1>3

-----------------------------------------------------------------------------
\* Every step keeps the data typed.
LEMMA StepData ==
    ControlTypeOK /\ HistoryInv /\ ContentInv /\ DataTyped /\ [Next]_vars => DataTyped'
<1> SUFFICES ASSUME FileTyped, ClientTyped, HistoryInv, ContentInv, DataTyped, [Next]_vars
             PROVE  DataTyped'
    BY ControlTypeOKSplit
<1>1. ASSUME NEW c \in Connections,
             \/ \E catalog \in Schemas : StartApply(c, catalog)
             \/ OpenSession(c)
      PROVE  DataTyped'
  <2>1. UNCHANGED sqliteVars /\ UNCHANGED <<latest, objects, base>>
    BY <1>1 DEF StartApply, OpenSession
  <2>2. QED
    BY <2>1, QuietFiles, QuietData
<1>2. ASSUME NEW c \in Connections, ProbeTable(c)
      PROVE  DataTyped'
  <2>1. UNCHANGED sqliteVars /\ (UNCHANGED <<latest, objects, base>> \/ Finish(c, "partial"))
    BY <1>2 DEF ProbeTable, AutocommitRead
  <2>2. QED
    BY <2>1, QuietFiles, QuietData, QuietEnd
<1>3. ASSUME NEW c \in Connections,
             ProbeError(c) \/ RejectUnsupported(c) \/ NothingToDo(c)
               \/ LoadError(c) \/ CloseSession(c)
      PROVE  DataTyped'
    BY <1>3, QuietFiles, QuietEnd
    DEF ProbeError, RejectUnsupported, NothingToDo, LoadError, CloseSession
<1>4. ASSUME NEW c \in Connections,
             \/ BeginVerification(c) \/ VerificationError(c)
             \/ BeginApply(c) \/ CommitApplyBusy(c) \/ ApplyError(c)
      PROVE  DataTyped'
  <2>1. /\ Begin(c) \/ StatementError(c) \/ CommitBusy(c)
        /\ UNCHANGED <<latest, objects, base>>
    BY <1>4 DEF BeginVerification, VerificationError, BeginApply, CommitApplyBusy, ApplyError
  <2>2. QED
    BY <2>1, QuietFiles, QuietData
<1>5. ASSUME NEW c \in Connections, CommitVerification(c)
      PROVE  DataTyped'
  <2>1. pc[c] = "commit_read" /\ Commit(c) /\ UNCHANGED <<latest, objects, base>>
    BY <1>5 DEF CommitVerification
  <2>2. lock[c] \notin WriteLocks
    BY <2>1 DEF HistoryInv, ProcessInv, CopyTracksFile, WriterPc
  <2>3. Release(c)
    BY <2>1, <2>2 DEF Commit, CommitRead, CommitWrite
  <2>4. QED
    BY <2>1, <2>3, QuietFiles, QuietData
<1>6. ASSUME NEW c \in Connections,
             RollbackVerification(c) \/ RollbackApply(c) \/ Crash(c)
      PROVE  DataTyped'
    BY <1>6, QuietFiles, QuietEnd DEF RollbackVerification, RollbackApply, Crash, Rollback, Die
<1>7. ASSUME NEW c \in Connections, CommitApply(c)
      PROVE  DataTyped'
  <2>1. pc[c] = "commit" /\ Commit(c) /\ Finish(c, "applied")
    BY <1>7 DEF CommitApply
  <2>2. lock[c] \in WriteLocks
    BY <2>1 DEF ContentInv, CopyInv
  <2>3. CommitWrite(c)
    BY <2>1, <2>2 DEF Commit, CommitRead
  <2>4. disk' = work[c] /\ lock'[c] = "none" /\ LockFrame(c)
    BY <2>3 DEF CommitWrite, FileTyped, LockFrame
  <2>5. disk' \in Database
    BY <2>2, <2>4 DEF DataTyped, ProcessTyped
  <2>6. QED
    BY <2>1, <2>4, <2>5, FinishedData
<1>8. ASSUME UNCHANGED vars PROVE DataTyped'
    BY <1>8 DEF vars, sqliteVars, clientVars, DataTyped, ProcessTyped
<1>9. CASE Next
  <2>1. PICK c \in Connections :
            \/ \E catalog \in Schemas : StartApply(c, catalog)
            \/ ApplySteps(c)
            \/ OpenSession(c) \/ LoadSteps(c) \/ CloseSession(c)
            \/ Crash(c)
    BY <1>9 DEF Next
  <2>2. ReadLatestVersion(c) \/ ReadObjects(c) \/ ReadFields(c) => DataTyped'
    BY DataRead
  <2>3. LoadObjects(c) \/ LoadFields(c) => DataTyped'
    BY DataLoad
  <2>4. ExecuteStatement(c) \/ InsertVersion(c) => DataTyped'
    BY DataExecute, DataInsertVersion
  <2>5. QED
    BY <1>1, <1>2, <1>3, <1>4, <1>5, <1>6, <1>7, <2>1, <2>2, <2>3, <2>4
    DEF ApplySteps, LoadSteps
<1>10. QED
    BY <1>8, <1>9

\* Everything the file, a private copy or a process holds is made of what the schemas
\* declare: a statement writes only tables, columns and rows named after them, and what
\* a process reads back is a catalog a schema file can declare.
THEOREM WholeTypeCorrect == Spec => []TypeOK
<1>1. Init => DataTyped
    BY InitData
<1>2. ControlTypeOK /\ HistoryInv /\ ContentInv /\ DataTyped /\ [Next]_vars => DataTyped'
    BY StepData
<1>3. ControlTypeOK /\ DataTyped => TypeOK
    BY TypeOKSplit
<1>4. QED
    BY <1>1, <1>2, <1>3, ContentCorrect, PTL DEF Spec

=============================================================================
