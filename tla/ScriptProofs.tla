---------------------------- MODULE ScriptProofs ----------------------------
(***************************************************************************)
(* Proofs about ScriptExecution, for any processes and any scripts.        *)
(*                                                                         *)
(* The writes before statement n of a script are split into those that     *)
(* belong to the block open at n, which are in the private copy, and those *)
(* that are settled, of which the file has the committed ones.  The first  *)
(* part of the module says how the two sets change from n to n + 1, the    *)
(* second that the file and the copies follow them, and the last what the  *)
(* selects read: a set of pairs of a statement and a content, to which a   *)
(* step adds at most what is read now.                                     *)
(***************************************************************************)
EXTENDS ScriptExecution, CommonProofs

Pending(s, n) == {i \in DOMAIN s : i < n /\ s[i] = "write" /\ SameBlock(s, i, n)}

CommittedWrites(s) == {i \in DOMAIN s : s[i] = "write" /\ Committed(s, i)}

Settled(s, n) == {i \in CommittedWrites(s) : i < n /\ ~SameBlock(s, i, n)}

-----------------------------------------------------------------------------
\* Blocks of a script.

LEMMA NoBlockAtStart == ASSUME NEW s PROVE ~InBlock(s, 1)
BY DEF InBlock

\* Being in a block at n + 1 is decided by statement n.
LEMMA InBlockNext ==
    ASSUME NEW s \in Seq(Ops), NEW n \in DOMAIN s
    PROVE  InBlock(s, n + 1) <=> s[n] = "start" \/ (InBlock(s, n) /\ ~EndsBlock(s[n]))
<1>1. n \in Nat /\ n >= 1
    OBVIOUS
<1>2. ASSUME InBlock(s, n + 1), s[n] # "start"
      PROVE  InBlock(s, n) /\ ~EndsBlock(s[n])
  <2>1. PICK b \in 1..n : s[b] = "start" /\ \A k \in (b + 1)..n : ~EndsBlock(s[k])
    BY <1>1, <1>2 DEF InBlock
  <2>2. b \in 1..(n - 1) /\ n \in (b + 1)..n /\ \A k \in (b + 1)..(n - 1) : k \in (b + 1)..n
    BY <1>1, <1>2, <2>1
  <2>3. QED
    BY <2>1, <2>2 DEF InBlock
<1>3. ASSUME s[n] = "start"
      PROVE  InBlock(s, n + 1)
  <2>1. n \in 1..((n + 1) - 1) /\ \A k \in (n + 1)..((n + 1) - 1) : FALSE
    BY <1>1
  <2>2. QED
    BY <1>3, <2>1 DEF InBlock
<1>4. ASSUME InBlock(s, n), ~EndsBlock(s[n])
      PROVE  InBlock(s, n + 1)
  <2>1. PICK b \in 1..(n - 1) : s[b] = "start" /\ \A k \in (b + 1)..(n - 1) : ~EndsBlock(s[k])
    BY <1>4 DEF InBlock
  <2>2. b \in 1..((n + 1) - 1) /\ \A k \in (b + 1)..((n + 1) - 1) : k = n \/ k \in (b + 1)..(n - 1)
    BY <1>1
  <2>3. \A k \in (b + 1)..((n + 1) - 1) : ~EndsBlock(s[k])
    BY <1>4, <2>1, <2>2
  <2>4. QED
    BY <2>1, <2>2, <2>3 DEF InBlock
<1>5. QED
    BY <1>2, <1>3, <1>4

\* A block that reaches statement n goes on to n + 1 unless n ends it.
LEMMA SameBlockNext ==
    ASSUME NEW s \in Seq(Ops), NEW n \in Nat, NEW i \in Nat, i <= n
    PROVE  SameBlock(s, i, n + 1) <=> SameBlock(s, i, n) /\ ~EndsBlock(s[n])
<1>1. \A k : k \in i..((n + 1) - 1) <=> k = n \/ k \in i..(n - 1)
    OBVIOUS
<1>2. QED
    BY <1>1 DEF SameBlock, NoEndBetween

LEMMA SameBlockInBlock ==
    ASSUME NEW s \in Seq(Ops), NEW i \in Nat, NEW j \in Nat, i <= j, SameBlock(s, i, j)
    PROVE  InBlock(s, j)
<1>1. PICK b \in 1..(i - 1) : s[b] = "start" /\ \A k \in (b + 1)..(i - 1) : ~EndsBlock(s[k])
    BY DEF SameBlock, InBlock
<1>2. b \in 1..(j - 1) /\ \A k \in (b + 1)..(j - 1) : k \in (b + 1)..(i - 1) \/ k \in i..(j - 1)
    OBVIOUS
<1>3. \A k \in (b + 1)..(j - 1) : ~EndsBlock(s[k])
    BY <1>1, <1>2 DEF SameBlock, NoEndBetween
<1>4. QED
    BY <1>1, <1>2, <1>3 DEF InBlock

\* How a block ends decides whether its statements are committed.
LEMMA CommittedAtCommit ==
    ASSUME NEW s \in Seq(Ops), NEW n \in DOMAIN s, s[n] = "commit",
           NEW i \in Nat, i <= n, SameBlock(s, i, n)
    PROVE  Committed(s, i)
BY DEF Committed, SameBlock

LEMMA NotCommittedAtRollback ==
    ASSUME NEW s \in Seq(Ops), NEW n \in DOMAIN s, s[n] = "rollback",
           NEW i \in Nat, i <= n, SameBlock(s, i, n)
    PROVE  ~Committed(s, i)
<1> SUFFICES ASSUME NEW e \in DOMAIN s, e >= i, s[e] = "commit", NoEndBetween(s, i, e)
             PROVE  FALSE
    BY DEF Committed, SameBlock
<1>1. CASE e < n
  <2>1. e \in i..(n - 1)
    BY <1>1
  <2>2. QED
    BY <2>1 DEF SameBlock, NoEndBetween, EndsBlock
<1>2. CASE e > n
  <2>1. n \in i..(e - 1)
    BY <1>2
  <2>2. QED
    BY <2>1 DEF NoEndBetween, EndsBlock
<1>3. QED
    BY <1>1, <1>2

-----------------------------------------------------------------------------
\* The two sets from statement n to statement n + 1.

LEMMA NothingBeforeStart ==
    ASSUME NEW s \in Seq(Ops)
    PROVE  Pending(s, 1) = {} /\ Settled(s, 1) = {}
BY DEF Pending, Settled, CommittedWrites

\* Outside a block nothing is pending.
LEMMA NothingPendingOutside ==
    ASSUME NEW s \in Seq(Ops), NEW n \in Nat, ~InBlock(s, n)
    PROVE  /\ Pending(s, n) = {}
           /\ Settled(s, n) = {i \in CommittedWrites(s) : i < n}
<1>1. \A i \in DOMAIN s : i < n => ~SameBlock(s, i, n)
    BY SameBlockInBlock
<1>2. QED
    BY <1>1 DEF Pending, Settled, CommittedWrites

\* A select or a start changes neither.
LEMMA AfterPlainStatement ==
    ASSUME NEW s \in Seq(Ops), NEW n \in DOMAIN s, s[n] # "write", ~EndsBlock(s[n])
    PROVE  Pending(s, n + 1) = Pending(s, n) /\ Settled(s, n + 1) = Settled(s, n)
<1>1. \A i \in DOMAIN s : s[i] = "write" => (i < n + 1 <=> i < n)
    OBVIOUS
<1>2. \A i \in DOMAIN s : i < n => (SameBlock(s, i, n + 1) <=> SameBlock(s, i, n))
    BY SameBlockNext
<1>3. QED
    BY <1>1, <1>2 DEF Pending, Settled, CommittedWrites

\* A write in a block is pending, ...
LEMMA AfterWriteInBlock ==
    ASSUME NEW s \in Seq(Ops), NEW n \in DOMAIN s, s[n] = "write", InBlock(s, n)
    PROVE  Pending(s, n + 1) = Pending(s, n) \cup {n} /\ Settled(s, n + 1) = Settled(s, n)
<1>1. ~EndsBlock(s[n])
    BY DEF EndsBlock
<1>2. \A i \in DOMAIN s : i < n + 1 <=> i < n \/ i = n
    OBVIOUS
<1>3. \A i \in DOMAIN s : i < n => (SameBlock(s, i, n + 1) <=> SameBlock(s, i, n))
    BY <1>1, SameBlockNext
<1>4. SameBlock(s, n, n + 1)
    BY <1>1 DEF SameBlock, NoEndBetween
<1>5. QED
    BY <1>2, <1>3, <1>4 DEF Pending, Settled, CommittedWrites

\* ... one outside a block is settled by itself, ...
LEMMA AfterWriteOutside ==
    ASSUME NEW s \in Seq(Ops), NEW n \in DOMAIN s, s[n] = "write", ~InBlock(s, n)
    PROVE  /\ n \in CommittedWrites(s)
           /\ Pending(s, n + 1) = {}
           /\ Settled(s, n + 1) = Settled(s, n) \cup {n}
<1>1. n \in CommittedWrites(s)
    BY DEF CommittedWrites, Committed
<1>2. ~InBlock(s, n + 1)
    BY InBlockNext
<1>3. \A i \in DOMAIN s : i < n + 1 <=> i < n \/ i = n
    OBVIOUS
<1>4. QED
    BY <1>1, <1>2, <1>3, NothingPendingOutside DEF CommittedWrites

\* ... a commit settles what is pending, ...
LEMMA AfterCommit ==
    ASSUME NEW s \in Seq(Ops), NEW n \in DOMAIN s, s[n] = "commit"
    PROVE  /\ Pending(s, n + 1) = {}
           /\ Settled(s, n + 1) = Settled(s, n) \cup Pending(s, n)
<1>1. ~InBlock(s, n + 1)
    BY InBlockNext DEF EndsBlock
<1>2. \A i \in DOMAIN s : s[i] = "write" => (i < n + 1 <=> i < n)
    OBVIOUS
<1>3. \A i \in Pending(s, n) : i \in CommittedWrites(s)
    BY CommittedAtCommit DEF Pending, CommittedWrites
<1>4. Settled(s, n + 1) = {i \in CommittedWrites(s) : i < n}
    BY <1>1, <1>2, NothingPendingOutside DEF CommittedWrites
<1>5. QED
    BY <1>1, <1>3, <1>4, NothingPendingOutside DEF Pending, Settled, CommittedWrites

\* ... and a rollback drops it.
LEMMA AfterRollback ==
    ASSUME NEW s \in Seq(Ops), NEW n \in DOMAIN s, s[n] = "rollback"
    PROVE  Pending(s, n + 1) = {} /\ Settled(s, n + 1) = Settled(s, n)
<1>1. ~InBlock(s, n + 1)
    BY InBlockNext DEF EndsBlock
<1>2. \A i \in DOMAIN s : s[i] = "write" => (i < n + 1 <=> i < n)
    OBVIOUS
<1>3. \A i \in CommittedWrites(s) : i < n => ~SameBlock(s, i, n)
    BY NotCommittedAtRollback DEF CommittedWrites
<1>4. Settled(s, n + 1) = {i \in CommittedWrites(s) : i < n}
    BY <1>1, <1>2, NothingPendingOutside DEF CommittedWrites
<1>5. QED
    BY <1>1, <1>3, <1>4, NothingPendingOutside DEF Settled

\* At the end of an accepted script everything that is committed is settled.
LEMMA AllSettledAtEnd ==
    ASSUME NEW s \in Seq(Ops), Compiles(s)
    PROVE  Settled(s, Len(s) + 1) = CommittedWrites(s)
<1>1. ~InBlock(s, Len(s) + 1)
    BY DEF Compiles
<1>2. QED
    BY <1>1, NothingPendingOutside DEF CommittedWrites

-----------------------------------------------------------------------------
\* The pending writes are a unit of the script.

LEMMA PendingIsUnit ==
    ASSUME NEW s \in Seq(Ops), NEW n \in DOMAIN s, EndsBlock(s[n]), NEW i \in Pending(s, n)
    PROVE  Unit(s, i) = Pending(s, n)
<1>1. i \in DOMAIN s /\ i < n /\ s[i] = "write" /\ InBlock(s, i) /\ NoEndBetween(s, i, n)
    BY DEF Pending, SameBlock
<1>2. ASSUME NEW j \in DOMAIN s, s[j] = "write", i < j, SameBlock(s, i, j)
      PROVE  j < n /\ SameBlock(s, j, n)
  <2>1. j # n
    BY <1>2 DEF EndsBlock
  <2>2. ~(j > n)
    <3>1. j > n => n \in i..(j - 1)
      BY <1>1
    <3>2. QED
      BY <1>2, <3>1 DEF SameBlock, NoEndBetween
  <2>3. InBlock(s, j)
    BY <1>1, <1>2, SameBlockInBlock
  <2>4. \A k \in j..(n - 1) : k \in i..(n - 1)
    BY <1>1, <1>2
  <2>5. QED
    BY <1>1, <2>1, <2>2, <2>3, <2>4 DEF SameBlock, NoEndBetween
<1>3. ASSUME NEW j \in DOMAIN s, j < i, SameBlock(s, j, i)
      PROVE  j < n /\ SameBlock(s, j, n)
  <2>1. \A k \in j..(n - 1) : k \in j..(i - 1) \/ k \in i..(n - 1)
    BY <1>1
  <2>2. QED
    BY <1>1, <1>3, <2>1 DEF SameBlock, NoEndBetween
<1>4. ASSUME NEW j \in Pending(s, n), i < j
      PROVE  SameBlock(s, i, j)
  <2>1. \A k \in i..(j - 1) : k \in i..(n - 1)
    BY DEF Pending
  <2>2. QED
    BY <1>1, <2>1 DEF SameBlock, NoEndBetween
<1>5. ASSUME NEW j \in Pending(s, n), j < i
      PROVE  SameBlock(s, j, i)
  <2>1. \A k \in j..(i - 1) : k \in j..(n - 1)
    BY <1>1
  <2>2. QED
    BY <2>1 DEF Pending, SameBlock, NoEndBetween
<1>6. \A j \in DOMAIN s : j = i \/ i < j \/ j < i
    BY <1>1
<1>7. QED
    BY <1>1, <1>2, <1>3, <1>4, <1>5, <1>6 DEF Unit, Pending

LEMMA UnitOutside ==
    ASSUME NEW s \in Seq(Ops), NEW n \in DOMAIN s, s[n] = "write", ~InBlock(s, n)
    PROVE  Unit(s, n) = {n}
<1>1. \A j \in DOMAIN s : j < n => ~SameBlock(s, j, n)
    BY SameBlockInBlock
<1>2. \A j \in DOMAIN s : ~SameBlock(s, n, j)
    BY DEF SameBlock
<1>3. QED
    BY <1>1, <1>2 DEF Unit

-----------------------------------------------------------------------------
\* The invariant, process by process.

Running == {"run", "follow_up", "failing"}

\* The numbers of the effects of process c in the file.
InFile(c) == {effect[2] : effect \in {e \in disk : e[1] = c}}

\* execute_script's flag tells where in the script its process is, SQLite's
\* transaction agrees with it, and a transaction SQLite has given up by itself
\* is never mistaken for an open one.
ControlInv(c) ==
    /\ pc[c] = "idle" => script[c] = <<>> /\ next[c] = 1 /\ ~inTransaction[c]
    /\ script[c] # <<>> => Compiles(script[c])
    /\ pc[c] \in Running =>
          next[c] \in DOMAIN script[c] /\ (inTransaction[c] <=> InBlock(script[c], next[c]))
    /\ pc[c] \in {"run", "follow_up"} => (txn[c] <=> inTransaction[c])
    /\ pc[c] = "follow_up" => Op(c) = "select"
    /\ txn[c] => pc[c] \in Running /\ inTransaction[c]
    /\ outcome[c] = "ok" => pc[c] \in {"returned", "done"}

\* The file has exactly the settled writes of a running script.
FileInv(c) ==
    /\ InFile(c) \subseteq CommittedWrites(script[c])
    /\ pc[c] \in Running => InFile(c) = Settled(script[c], next[c])
    /\ outcome[c] = "ok" => InFile(c) = CommittedWrites(script[c])

\* A private copy is the file with the pending writes; without one none are pending.
CopyInv(c) ==
    IF lock[c] \in WriteLocks
    THEN work[c] = disk \cup EffectsOf(c, Pending(script[c], next[c]))
    ELSE pc[c] \in {"run", "follow_up"} => Pending(script[c], next[c]) = {}

ProcessInv(c) == ControlInv(c) /\ FileInv(c) /\ CopyInv(c)

ScriptInv == TypeOK /\ \A c \in Connections : ProcessInv(c)

-----------------------------------------------------------------------------
\* Type correctness, split into the variables of Sqlite and those of the clients.

ClientTyped ==
    /\ pc \in [Connections -> PcValues]
    /\ script \in [Connections -> Scripts \cup {<<>>}]
    /\ next \in [Connections -> Nat \ {0}]
    /\ inTransaction \in [Connections -> BOOLEAN]
    /\ reads \in [Connections -> Seq(Content)]
    /\ results \in [Connections -> Seq(Seq(Content))]
    /\ outcome \in [Connections -> Outcomes]

LEMMA TypeOKSplit == TypeOK <=> SqliteTyped(Content) /\ ClientTyped
BY DEF TypeOK, SqliteTyped, ClientTyped

LEMMA AdvanceTyped ==
    ASSUME ClientTyped, NEW c \in Connections, NEW result \in Seq(Content),
           Advance(c, result), inTransaction' \in [Connections -> BOOLEAN]
    PROVE  ClientTyped'
<1>1. next' \in [Connections -> Nat \ {0}] /\ script' = script
    BY DEF ClientTyped, Advance
<1>2. <<>> \in Seq(Content) /\ Append(results[c], result) \in Seq(Seq(Content))
    BY DEF ClientTyped
<1>3. reads' \in [Connections -> Seq(Content)]
    BY <1>2 DEF ClientTyped, Advance
<1>4. results' \in [Connections -> Seq(Seq(Content))]
    BY <1>2 DEF ClientTyped, Advance
<1>5. pc' \in [Connections -> PcValues] /\ outcome' \in [Connections -> Outcomes]
    BY DEF ClientTyped, Advance, Goto, PcValues, Outcomes
<1>6. QED
    BY <1>1, <1>3, <1>4, <1>5 DEF ClientTyped

LEMMA GiveUpTyped ==
    ASSUME ClientTyped, NEW c \in Connections, NEW label \in PcValues,
           NEW result \in Outcomes, GiveUp(c, label, result)
    PROVE  ClientTyped'
<1>1. <<>> \in Seq(Content) /\ <<>> \in Seq(Seq(Content))
    OBVIOUS
<1>2. QED
    BY <1>1 DEF ClientTyped, GiveUp, Goto

\* Scripts start closed, with no lock, transaction or copy.
THEOREM InitTyped == Init => TypeOK
<1> SUFFICES ASSUME Init PROVE SqliteTyped(Content) /\ ClientTyped
    BY TypeOKSplit
<1>1. SqliteTyped(Content)
  <2>1. {} \in Content
    BY DEF Content
  <2>2. QED
    BY <2>1, InitTypedSqlite DEF Init
<1>2. <<>> \in Seq(Content) /\ <<>> \in Seq(Seq(Content))
    OBVIOUS
<1>3. ClientTyped
    BY <1>2 DEF Init, ClientTyped, PcValues, Outcomes
<1>4. QED
    BY <1>1, <1>3

\* Every statement, rollback and crash of execute_script keeps the types.
THEOREM StepTyped == TypeOK /\ [Next]_vars => TypeOK'
<1> SUFFICES ASSUME SqliteTyped(Content), ClientTyped, [Next]_vars PROVE SqliteTyped(Content)' /\ ClientTyped'
    BY TypeOKSplit DEF TypeOK, SqliteTyped, ClientTyped
<1>1. ASSUME NEW c \in Connections, NEW text \in Scripts, AcceptScript(c, text)
      PROVE  SqliteTyped(Content)' /\ ClientTyped'
    BY <1>1, SqliteUnchangedTyped DEF AcceptScript, Goto, ClientTyped, PcValues
<1>2. ASSUME NEW c \in Connections, NEW text \in Scripts, RejectScript(c, text)
      PROVE  SqliteTyped(Content)' /\ ClientTyped'
    BY <1>2, SqliteUnchangedTyped, GiveUpTyped DEF RejectScript, PcValues, Outcomes
<1>3. ASSUME NEW c \in Connections, Select(c)
      PROVE  SqliteTyped(Content)' /\ ClientTyped'
  <2>1. <<View(c)>> \in Seq(Content)
    BY ViewTyped
  <2>2. ClientTyped'
    BY <1>3, <2>1 DEF Select, Goto, ClientTyped, PcValues
  <2>3. QED
    BY <1>3, <2>2, ReadTyped DEF Select, ReadNow
<1>4. ASSUME NEW c \in Connections, FollowUp(c)
      PROVE  SqliteTyped(Content)' /\ ClientTyped'
  <2>1. Append(reads[c], View(c)) \in Seq(Content)
    BY ViewTyped DEF ClientTyped
  <2>2. ClientTyped'
    BY <1>4, <2>1 DEF FollowUp, ClientTyped
  <2>3. QED
    BY <1>4, <2>2, ReadTyped DEF FollowUp, ReadNow
<1>5. ASSUME NEW c \in Connections, FinishSelect(c)
      PROVE  SqliteTyped(Content)' /\ ClientTyped'
  <2>1. reads[c] \in Seq(Content) /\ inTransaction' \in [Connections -> BOOLEAN]
    BY <1>5 DEF ClientTyped, FinishSelect
  <2>2. QED
    BY <1>5, <2>1, SqliteUnchangedTyped, AdvanceTyped DEF FinishSelect
<1>6. ASSUME NEW c \in Connections, WriteStatement(c)
      PROVE  SqliteTyped(Content)' /\ ClientTyped'
  <2>1. View(c) \cup {<<c, next[c]>>} \in Content
    BY ViewTyped DEF ClientTyped, Content
  <2>2. SqliteTyped(Content)'
    BY <1>6, <2>1, WriteTyped DEF WriteStatement
  <2>3. <<>> \in Seq(Content) /\ inTransaction' \in [Connections -> BOOLEAN]
    BY <1>6 DEF ClientTyped, WriteStatement
  <2>4. QED
    BY <1>6, <2>2, <2>3, AdvanceTyped DEF WriteStatement
<1>7. ASSUME NEW c \in Connections,
             StartTransaction(c) \/ CommitTransaction(c) \/ RollbackTransaction(c)
      PROVE  SqliteTyped(Content)' /\ ClientTyped'
  <2>1. SqliteTyped(Content)'
    <3>1. CASE StartTransaction(c)
      BY <3>1 DEF StartTransaction, Begin, SqliteTyped
    <3>2. CASE CommitTransaction(c)
      BY <3>2, CommitTyped DEF CommitTransaction
    <3>3. CASE RollbackTransaction(c)
      BY <3>3, ReleaseTyped DEF RollbackTransaction, Rollback
    <3>4. QED
      BY <1>7, <3>1, <3>2, <3>3
  <2>2. SetInTransaction(c) /\ Advance(c, <<>>)
    BY <1>7 DEF StartTransaction, CommitTransaction, RollbackTransaction
  <2>3. <<>> \in Seq(Content) /\ inTransaction' \in [Connections -> BOOLEAN]
    BY <2>2 DEF ClientTyped, SetInTransaction
  <2>4. QED
    BY <2>1, <2>2, <2>3, AdvanceTyped
<1>8. ASSUME NEW c \in Connections, CommitBusyFails(c)
      PROVE  SqliteTyped(Content)' /\ ClientTyped'
  <2>1. SqliteTyped(Content)'
    BY <1>8 DEF CommitBusyFails, CommitBusy, SqliteTyped, LockStates, WriteLocks
  <2>2. ClientTyped'
    BY <1>8 DEF CommitBusyFails, Goto, ClientTyped, PcValues
  <2>3. QED
    BY <2>1, <2>2
<1>9. ASSUME NEW c \in Connections, StatementFails(c)
      PROVE  SqliteTyped(Content)' /\ ClientTyped'
  <2>1. SqliteTyped(Content)'
    BY <1>9, SqliteUnchangedTyped, ReleaseTyped DEF StatementFails, StatementError
  <2>2. ClientTyped'
    BY <1>9 DEF StatementFails, Goto, ClientTyped, PcValues
  <2>3. QED
    BY <2>1, <2>2
<1>10. ASSUME NEW c \in Connections, ReturnError(c)
      PROVE  SqliteTyped(Content)' /\ ClientTyped'
  <2>1. SqliteTyped(Content)'
    BY <1>10, SqliteUnchangedTyped, ReleaseTyped DEF ReturnError, Rollback
  <2>2. QED
    BY <1>10, <2>1, GiveUpTyped DEF ReturnError, PcValues, Outcomes
<1>11. ASSUME NEW c \in Connections, CloseConnection(c)
      PROVE  SqliteTyped(Content)' /\ ClientTyped'
    BY <1>11, ReleaseTyped DEF CloseConnection, Goto, ClientTyped, PcValues
<1>12. ASSUME NEW c \in Connections, Crash(c)
      PROVE  SqliteTyped(Content)' /\ ClientTyped'
    BY <1>12, ReleaseTyped, GiveUpTyped DEF Crash, Die, PcValues, Outcomes
<1>13. CASE UNCHANGED vars
    BY <1>13, SqliteUnchangedTyped DEF vars, clientVars, ClientTyped
<1>14. QED
    BY <1>1, <1>2, <1>3, <1>4, <1>5, <1>6, <1>7, <1>8, <1>9, <1>10, <1>11, <1>12, <1>13
    DEF Next, Step

\* What a process reads and writes is always a set of effects of real statements,
\* and it has a private copy exactly while it holds a write lock.
THEOREM TypeCorrect == Spec => []TypeOK
BY InitTyped, StepTyped, PTL DEF Spec

-----------------------------------------------------------------------------
\* The invariant is inductive.

\* What a step of process c leaves alone, and what it may do to the file.
Frame(c) ==
    \A d \in Connections \ {c} :
        /\ txn'[d] = txn[d] /\ lock'[d] = lock[d] /\ work'[d] = work[d]
        /\ pc'[d] = pc[d] /\ script'[d] = script[d] /\ next'[d] = next[d]
        /\ inTransaction'[d] = inTransaction[d] /\ outcome'[d] = outcome[d]

ClientFrame(c) ==
    \A d \in Connections \ {c} :
        /\ pc'[d] = pc[d] /\ script'[d] = script[d] /\ next'[d] = next[d]
        /\ inTransaction'[d] = inTransaction[d] /\ outcome'[d] = outcome[d]

AddsOwnEffects(c) ==
    \/ disk' = disk
    \/ CanWriteBack(c) /\ \E numbers : disk' = disk \cup EffectsOf(c, numbers)

LEMMA FrameSplit ==
    ASSUME NEW c, SqliteFrame(c), ClientFrame(c)
    PROVE  Frame(c)
BY DEF Frame, SqliteFrame, ClientFrame

LEMMA InFileMember ==
    ASSUME NEW c, NEW i, disk \in Content
    PROVE  <<c, i>> \in disk <=> i \in InFile(c)
<1>1. \A e \in disk : e = <<e[1], e[2]>>
    BY DEF Content
<1>2. QED
    BY <1>1 DEF InFile

LEMMA InFileUnchanged ==
    ASSUME NEW c, disk' = disk
    PROVE  InFile(c)' = InFile(c)
BY DEF InFile

LEMMA InFileGrows ==
    ASSUME NEW c, NEW numbers, disk' = disk \cup EffectsOf(c, numbers)
    PROVE  /\ InFile(c)' = InFile(c) \cup numbers
           /\ \A d : d # c => InFile(d)' = InFile(d)
<1>1. \A e \in EffectsOf(c, numbers) : e[1] = c /\ e[2] \in numbers
    BY DEF EffectsOf
<1>2. \A i \in numbers : <<c, i>> \in EffectsOf(c, numbers) /\ <<c, i>>[1] = c /\ <<c, i>>[2] = i
    BY DEF EffectsOf
<1>3. InFile(c)' \subseteq InFile(c) \cup numbers
    BY <1>1 DEF InFile
<1>4. numbers \subseteq InFile(c)'
  <2> SUFFICES ASSUME NEW i \in numbers PROVE i \in InFile(c)'
      OBVIOUS
  <2>1. <<c, i>> \in {e \in disk' : e[1] = c}
    BY <1>2
  <2>2. QED
    BY <1>2, <2>1 DEF InFile
<1>5. InFile(c) \subseteq InFile(c)'
    BY DEF InFile
<1>6. \A d : d # c => {e \in disk' : e[1] = d} = {e \in disk : e[1] = d}
    BY <1>1
<1>7. QED
    BY <1>3, <1>4, <1>5, <1>6 DEF InFile

\* No step of another process disturbs the invariant of process d: nobody else
\* can write to the file while d has a private copy of it.
LEMMA OthersKept ==
    ASSUME NEW c \in Connections, NEW d \in Connections, c # d,
           Frame(c), AddsOwnEffects(c), ProcessInv(d)
    PROVE  ProcessInv(d)'
<1>1. InFile(d)' = InFile(d)
    BY InFileUnchanged, InFileGrows DEF AddsOwnEffects
<1>2. disk' = disk \/ lock[d] = "none"
    BY DEF AddsOwnEffects, CanWriteBack, Others
<1>3. UNCHANGED <<txn[d], lock[d], work[d], pc[d], script[d], next[d], inTransaction[d], outcome[d]>>
    BY DEF Frame
<1>4. ControlInv(d)'
    BY <1>3 DEF ProcessInv, ControlInv, Op
<1>5. FileInv(d)'
    BY <1>1, <1>3 DEF ProcessInv, FileInv
<1>6. CopyInv(d)'
    BY <1>2, <1>3 DEF ProcessInv, CopyInv, WriteLocks
<1>7. QED
    BY <1>4, <1>5, <1>6 DEF ProcessInv

\* The script of a running process.
LEMMA RunningScript ==
    ASSUME ClientTyped, NEW c \in Connections, ProcessInv(c), pc[c] \in Running
    PROVE  /\ script[c] \in Seq(Ops) /\ Compiles(script[c])
           /\ next[c] \in DOMAIN script[c] /\ next[c] \in Nat
           /\ InFile(c) = Settled(script[c], next[c])
           /\ outcome[c] # "ok"
<1>1. next[c] \in DOMAIN script[c] /\ next[c] \in Nat
    BY DEF ClientTyped, ProcessInv, ControlInv
<1>2. script[c] # <<>>
    BY <1>1
<1>3. script[c] \in Scripts
    BY <1>2 DEF ClientTyped
<1>4. script[c] \in Seq(Ops)
    BY <1>3, ScriptsAssumption
<1>5. Compiles(script[c]) /\ outcome[c] # "ok"
    BY <1>2 DEF ProcessInv, ControlInv, Running
<1>6. QED
    BY <1>1, <1>4, <1>5 DEF ProcessInv, FileInv

\* Process c goes on to the next statement, or to the end of the script.
LEMMA AdvanceKeeps ==
    ASSUME SqliteTyped(Content)', ClientTyped, NEW c \in Connections, ProcessInv(c),
           pc[c] \in {"run", "follow_up"}, NEW result, Advance(c, result),
           inTransaction'[c] <=> InBlock(script[c], next[c] + 1),
           txn'[c] <=> inTransaction'[c],
           InFile(c)' = Settled(script[c], next[c] + 1),
           IF lock'[c] \in WriteLocks
           THEN work'[c] = disk' \cup EffectsOf(c, Pending(script[c], next[c] + 1))
           ELSE Pending(script[c], next[c] + 1) = {}
    PROVE  ProcessInv(c)'
<1>1. /\ script[c] \in Seq(Ops) /\ Compiles(script[c])
      /\ next[c] \in DOMAIN script[c] /\ next[c] \in Nat /\ outcome[c] # "ok"
    BY RunningScript DEF Running
<1>2. script'[c] = script[c] /\ next'[c] = next[c] + 1
    BY DEF Advance, ClientTyped
<1>3. CASE next[c] = Len(script[c])
  <2>1. pc'[c] = "returned" /\ outcome'[c] = "ok"
    BY <1>3 DEF Advance, Goto, ClientTyped
  <2>2. ~InBlock(script[c], next[c] + 1)
    BY <1>1, <1>3 DEF Compiles
  <2>3. InFile(c)' = CommittedWrites(script[c])
    BY <1>1, <1>3, AllSettledAtEnd
  <2>4. ~txn'[c] /\ lock'[c] = "none"
    BY <2>2 DEF SqliteTyped
  <2>5. ControlInv(c)'
    BY <1>1, <1>2, <2>1, <2>4 DEF ControlInv, Running
  <2>6. FileInv(c)'
    BY <1>2, <2>1, <2>3 DEF FileInv, Running
  <2>7. CopyInv(c)'
    BY <2>1, <2>4 DEF CopyInv, WriteLocks
  <2>8. QED
    BY <2>5, <2>6, <2>7 DEF ProcessInv
<1>4. CASE next[c] # Len(script[c])
  <2>1. pc'[c] = "run" /\ outcome'[c] = outcome[c]
    BY <1>4 DEF Advance, Goto, ClientTyped
  <2>2. next[c] + 1 \in DOMAIN script[c]
    BY <1>1, <1>4
  <2>3. ControlInv(c)'
    BY <1>1, <1>2, <2>1, <2>2 DEF ControlInv, Running
  <2>4. Settled(script[c], next[c] + 1) \subseteq CommittedWrites(script[c])
    BY DEF Settled
  <2>5. FileInv(c)'
    BY <1>1, <1>2, <2>1, <2>4 DEF FileInv, Running
  <2>6. CopyInv(c)'
    BY <1>2, <2>1 DEF CopyInv
  <2>7. QED
    BY <2>3, <2>5, <2>6 DEF ProcessInv
<1>5. QED
    BY <1>3, <1>4

\* A step that only moves process c on, without a statement.
LEMMA StatementStep ==
    ASSUME SqliteTyped(Content), SqliteTyped(Content)', ClientTyped, NEW c \in Connections, ProcessInv(c),
           UNCHANGED <<disk, script, next, inTransaction, outcome>>,
           pc[c] \in {"run", "follow_up"},
           \/ pc'[c] = "failing" /\ (txn'[c] => txn[c])
           \/ pc'[c] \in {"run", "follow_up"} /\ txn'[c] = txn[c] /\ Op(c) = "select",
           IF lock'[c] \in WriteLocks
           THEN lock[c] \in WriteLocks /\ work'[c] = work[c]
           ELSE lock[c] \in WriteLocks => pc'[c] = "failing"
    PROVE  ProcessInv(c)'
<1>1. ControlInv(c)'
    BY DEF ProcessInv, ControlInv, Running, Op
<1>2. FileInv(c)'
    BY InFileUnchanged DEF ProcessInv, FileInv, Running
<1>3. CopyInv(c)'
    BY DEF ProcessInv, CopyInv
<1>4. QED
    BY <1>1, <1>2, <1>3 DEF ProcessInv

\* Process c has no transaction left and is not running any more.
LEMMA StoppedKeeps ==
    ASSUME SqliteTyped(Content)', NEW c \in Connections, ProcessInv(c),
           UNCHANGED <<disk, script>>, ~txn'[c], pc'[c] \in {"returned", "done"},
           outcome'[c] # "ok" \/ outcome'[c] = outcome[c]
    PROVE  ProcessInv(c)'
<1>1. lock'[c] = "none"
    BY DEF SqliteTyped
<1>2. ControlInv(c)'
    BY DEF ProcessInv, ControlInv, Running
<1>3. FileInv(c)'
    BY InFileUnchanged DEF ProcessInv, FileInv, Running
<1>4. CopyInv(c)'
    BY <1>1 DEF CopyInv, WriteLocks
<1>5. QED
    BY <1>2, <1>3, <1>4 DEF ProcessInv

LEMMA AcceptKeeps ==
    ASSUME SqliteTyped(Content), ClientTyped, NEW c \in Connections, ProcessInv(c),
           NEW text \in Scripts, AcceptScript(c, text)
    PROVE  Frame(c) /\ disk' = disk /\ ProcessInv(c)'
<1>1. /\ pc[c] = "idle" /\ Compiles(text)
      /\ script'[c] = text /\ pc'[c] = "run"
      /\ UNCHANGED <<disk, txn, lock, work, next, inTransaction, outcome>>
    BY DEF AcceptScript, Goto, ClientTyped, sqliteVars
<1>2. text \in Seq(Ops) /\ 1 \in DOMAIN text
    BY <1>1, ScriptsAssumption DEF Compiles
<1>3. next[c] = 1 /\ ~inTransaction[c] /\ ~txn[c] /\ outcome[c] # "ok"
    BY <1>1 DEF ProcessInv, ControlInv, Running
<1>4. InFile(c) = {}
    BY <1>1 DEF ProcessInv, ControlInv, FileInv, CommittedWrites
<1>5. ControlInv(c)'
    BY <1>1, <1>2, <1>3, NoBlockAtStart DEF ControlInv, Running
<1>6. FileInv(c)'
    BY <1>1, <1>2, <1>3, <1>4, InFileUnchanged, NothingBeforeStart DEF FileInv
<1>7. lock[c] = "none"
    BY <1>3 DEF SqliteTyped
<1>8. CopyInv(c)'
    BY <1>1, <1>2, <1>3, <1>7, NothingBeforeStart DEF CopyInv, WriteLocks
<1>9. Frame(c)
    BY <1>1 DEF AcceptScript, Goto, ClientTyped, Frame
<1>10. QED
    BY <1>1, <1>5, <1>6, <1>8, <1>9 DEF ProcessInv

LEMMA SelectKeeps ==
    ASSUME SqliteTyped(Content), SqliteTyped(Content)', ClientTyped, NEW c \in Connections, ProcessInv(c),
           Select(c) \/ FollowUp(c)
    PROVE  Frame(c) /\ disk' = disk /\ ProcessInv(c)'
<1>1. /\ pc[c] \in {"run", "follow_up"} /\ Op(c) = "select" /\ pc'[c] = "follow_up"
      /\ UNCHANGED <<script, next, inTransaction, outcome>>
    BY DEF Select, FollowUp, Goto, ClientTyped, ProcessInv, ControlInv
<1>2. IF txn[c] THEN Read(c) ELSE AutocommitRead(c)
    BY DEF Select, FollowUp, ReadNow
<1>3. /\ UNCHANGED <<disk, txn, work>> /\ SqliteFrame(c)
      /\ lock'[c] \in WriteLocks <=> lock[c] \in WriteLocks
    BY <1>2, ReadTyped
<1>4. ClientFrame(c)
    BY <1>1 DEF Select, FollowUp, Goto, ClientTyped, ClientFrame
<1>5. ProcessInv(c)'
    BY <1>1, <1>3, StatementStep
<1>6. QED
    BY <1>3, <1>4, <1>5, FrameSplit

\* The frame of a statement that succeeds.
LEMMA AdvanceFrame ==
    ASSUME ClientTyped, NEW c \in Connections, NEW result, Advance(c, result),
           UNCHANGED inTransaction \/ SetInTransaction(c)
    PROVE  ClientFrame(c)
BY DEF Advance, SetInTransaction, Goto, ClientTyped, ClientFrame

LEMMA FinishSelectKeeps ==
    ASSUME SqliteTyped(Content)', ClientTyped, NEW c \in Connections, ProcessInv(c), FinishSelect(c)
    PROVE  Frame(c) /\ disk' = disk /\ ProcessInv(c)'
<1> DEFINE s == script[c]
           n == next[c]
<1>1. pc[c] = "follow_up" /\ s[n] = "select" /\ Advance(c, reads[c])
      /\ UNCHANGED <<disk, txn, lock, work, inTransaction>>
    BY DEF FinishSelect, sqliteVars, ProcessInv, ControlInv, Op
<1>2. s \in Seq(Ops) /\ n \in DOMAIN s /\ InFile(c) = Settled(s, n)
    BY <1>1, RunningScript DEF Running
<1>3. /\ Pending(s, n + 1) = Pending(s, n) /\ Settled(s, n + 1) = Settled(s, n)
      /\ InBlock(s, n + 1) <=> InBlock(s, n)
    BY <1>1, <1>2, AfterPlainStatement, InBlockNext DEF EndsBlock
<1>4. InFile(c)' = InFile(c)
    BY <1>1, InFileUnchanged
<1>5. ProcessInv(c)'
    BY <1>1, <1>2, <1>3, <1>4, AdvanceKeeps DEF ProcessInv, ControlInv, CopyInv, Running
<1>6. Frame(c)
    BY <1>1, AdvanceFrame, FrameSplit DEF SqliteFrame
<1>7. QED
    BY <1>1, <1>5, <1>6

\* A write in a block goes to the private copy, one outside a block to the file.
LEMMA WriteKeeps ==
    ASSUME SqliteTyped(Content), SqliteTyped(Content)', ClientTyped, NEW c \in Connections, ProcessInv(c),
           WriteStatement(c)
    PROVE  Frame(c) /\ AddsOwnEffects(c) /\ ProcessInv(c)'
<1> DEFINE s == script[c]
           n == next[c]
<1>1. /\ pc[c] = "run" /\ s[n] = "write" /\ Advance(c, <<>>) /\ UNCHANGED inTransaction
      /\ IF txn[c] THEN Write(c, View(c) \cup {<<c, n>>})
         ELSE AutocommitWrite(c, View(c) \cup {<<c, n>>})
    BY DEF WriteStatement, Op
<1>2. s \in Seq(Ops) /\ n \in DOMAIN s /\ InFile(c) = Settled(s, n)
    BY <1>1, RunningScript DEF Running
<1>3. (txn[c] <=> inTransaction[c]) /\ (inTransaction[c] <=> InBlock(s, n))
    BY <1>1 DEF ProcessInv, ControlInv, Running
<1>4. InBlock(s, n + 1) <=> InBlock(s, n)
    BY <1>1, <1>2, InBlockNext DEF EndsBlock
<1>5. ClientFrame(c)
    BY <1>1, AdvanceFrame
<1>6. ASSUME txn[c]
      PROVE  SqliteFrame(c) /\ disk' = disk /\ ProcessInv(c)'
  <2>1. /\ disk' = disk /\ txn' = txn /\ lock'[c] \in WriteLocks
        /\ work'[c] = View(c) \cup {<<c, n>>}
    BY <1>1, <1>6 DEF Write, SqliteTyped, WriteLocks
  <2>2. SqliteFrame(c)
    BY <1>1, <1>6 DEF Write, SqliteTyped, SqliteFrame
  <2>3. Pending(s, n + 1) = Pending(s, n) \cup {n} /\ Settled(s, n + 1) = Settled(s, n)
    BY <1>1, <1>2, <1>3, <1>6, AfterWriteInBlock
  <2>4. View(c) = disk \cup EffectsOf(c, Pending(s, n))
    BY <1>1 DEF ProcessInv, CopyInv, View, EffectsOf
  <2>5. work'[c] = disk' \cup EffectsOf(c, Pending(s, n + 1))
    BY <2>1, <2>3, <2>4 DEF EffectsOf
  <2>6. InFile(c)' = Settled(s, n + 1)
    BY <1>2, <2>1, <2>3, InFileUnchanged
  <2>7. ProcessInv(c)'
    BY <1>1, <1>3, <1>4, <1>6, <2>1, <2>5, <2>6, AdvanceKeeps
  <2>8. QED
    BY <2>1, <2>2, <2>7
<1>7. ASSUME ~txn[c]
      PROVE  SqliteFrame(c) /\ AddsOwnEffects(c) /\ ProcessInv(c)'
  <2>1. lock[c] = "none"
    BY <1>7 DEF SqliteTyped
  <2>2. /\ CanWriteBack(c) /\ disk' = disk \cup {<<c, n>>}
        /\ UNCHANGED <<txn, lock, work>>
    BY <1>1, <1>7, <2>1 DEF AutocommitWrite, View, WriteLocks
  <2>3. disk' = disk \cup EffectsOf(c, {n})
    BY <2>2 DEF EffectsOf
  <2>4. Pending(s, n + 1) = {} /\ Settled(s, n + 1) = Settled(s, n) \cup {n}
    BY <1>1, <1>2, <1>3, <1>7, AfterWriteOutside
  <2>5. InFile(c)' = Settled(s, n + 1)
    BY <1>2, <2>3, <2>4, InFileGrows
  <2>6. lock'[c] \notin WriteLocks
    BY <2>1, <2>2 DEF WriteLocks
  <2>7. ProcessInv(c)'
    BY <1>1, <1>3, <1>4, <1>7, <2>2, <2>4, <2>5, <2>6, AdvanceKeeps
  <2>8. QED
    BY <2>2, <2>3, <2>7 DEF SqliteFrame, AddsOwnEffects
<1>8. QED
    BY <1>5, <1>6, <1>7, FrameSplit DEF AddsOwnEffects

LEMMA StartKeeps ==
    ASSUME SqliteTyped(Content), SqliteTyped(Content)', ClientTyped, NEW c \in Connections, ProcessInv(c),
           StartTransaction(c)
    PROVE  Frame(c) /\ disk' = disk /\ ProcessInv(c)'
<1> DEFINE s == script[c]
           n == next[c]
<1>1. /\ pc[c] = "run" /\ s[n] = "start" /\ Begin(c)
      /\ SetInTransaction(c) /\ Advance(c, <<>>)
    BY DEF StartTransaction, Op
<1>2. s \in Seq(Ops) /\ n \in DOMAIN s /\ InFile(c) = Settled(s, n)
    BY <1>1, RunningScript DEF Running
<1>3. inTransaction'[c] /\ txn'[c] /\ UNCHANGED <<disk, lock, work>>
    BY <1>1 DEF SetInTransaction, Begin, ClientTyped, SqliteTyped, Op
<1>4. /\ Pending(s, n + 1) = Pending(s, n) /\ Settled(s, n + 1) = Settled(s, n)
      /\ InBlock(s, n + 1)
    BY <1>1, <1>2, AfterPlainStatement, InBlockNext DEF EndsBlock
<1>5. ProcessInv(c)'
    BY <1>1, <1>2, <1>3, <1>4, InFileUnchanged, AdvanceKeeps DEF ProcessInv, CopyInv
<1>6. SqliteFrame(c)
    BY <1>1 DEF Begin, SqliteTyped, SqliteFrame
<1>7. QED
    BY <1>1, <1>3, <1>5, <1>6, AdvanceFrame, FrameSplit

\* COMMIT puts the pending writes into the file, if there are any.
LEMMA CommitInstallsPending ==
    ASSUME SqliteTyped(Content), NEW c \in Connections, ProcessInv(c),
           pc[c] = "run", Commit(c)
    PROVE  /\ ~txn'[c] /\ lock'[c] = "none" /\ SqliteFrame(c)
           /\ disk' = disk \cup EffectsOf(c, Pending(script[c], next[c]))
           /\ disk' = disk \/ CanWriteBack(c)
<1>1. CASE CommitRead(c)
  <2>1. ~txn'[c] /\ lock'[c] = "none" /\ disk' = disk /\ SqliteFrame(c)
    BY <1>1 DEF CommitRead, Release, SqliteTyped, SqliteFrame
  <2>2. Pending(script[c], next[c]) = {}
    BY <1>1 DEF CommitRead, ProcessInv, CopyInv
  <2>3. QED
    BY <2>1, <2>2 DEF EffectsOf
<1>2. CASE CommitWrite(c)
  <2>1. ~txn'[c] /\ lock'[c] = "none" /\ SqliteFrame(c)
    BY <1>2 DEF CommitWrite, SqliteTyped, SqliteFrame
  <2>2. QED
    BY <1>2, <2>1 DEF CommitWrite, ProcessInv, CopyInv
<1>3. QED
    BY <1>1, <1>2 DEF Commit

LEMMA CommitKeeps ==
    ASSUME SqliteTyped(Content), SqliteTyped(Content)', ClientTyped, NEW c \in Connections, ProcessInv(c),
           CommitTransaction(c)
    PROVE  Frame(c) /\ AddsOwnEffects(c) /\ ProcessInv(c)'
<1> DEFINE s == script[c]
           n == next[c]
<1>1. /\ pc[c] = "run" /\ s[n] = "commit" /\ Commit(c)
      /\ SetInTransaction(c) /\ Advance(c, <<>>)
    BY DEF CommitTransaction, Op
<1>2. s \in Seq(Ops) /\ n \in DOMAIN s /\ InFile(c) = Settled(s, n)
    BY <1>1, RunningScript DEF Running
<1>3. /\ ~txn'[c] /\ lock'[c] = "none" /\ SqliteFrame(c)
      /\ disk' = disk \cup EffectsOf(c, Pending(s, n))
      /\ disk' = disk \/ CanWriteBack(c)
    BY <1>1, CommitInstallsPending
<1>4. ~inTransaction'[c]
    BY <1>1 DEF SetInTransaction, ClientTyped, Op
<1>5. Pending(s, n + 1) = {} /\ Settled(s, n + 1) = Settled(s, n) \cup Pending(s, n)
    BY <1>1, <1>2, AfterCommit
<1>6. ~InBlock(s, n + 1)
    BY <1>1, <1>2, InBlockNext DEF EndsBlock
<1>7. InFile(c)' = Settled(s, n + 1)
    BY <1>2, <1>3, <1>5, InFileGrows
<1>8. lock'[c] \notin WriteLocks
    BY <1>3 DEF WriteLocks
<1>9. ProcessInv(c)'
    BY <1>1, <1>3, <1>4, <1>5, <1>6, <1>7, <1>8, AdvanceKeeps
<1>10. AddsOwnEffects(c)
    BY <1>3 DEF AddsOwnEffects
<1>11. QED
    BY <1>1, <1>3, <1>9, <1>10, AdvanceFrame, FrameSplit

LEMMA RollbackKeeps ==
    ASSUME SqliteTyped(Content), SqliteTyped(Content)', ClientTyped, NEW c \in Connections, ProcessInv(c),
           RollbackTransaction(c)
    PROVE  Frame(c) /\ disk' = disk /\ ProcessInv(c)'
<1> DEFINE s == script[c]
           n == next[c]
<1>1. /\ pc[c] = "run" /\ s[n] = "rollback" /\ Release(c)
      /\ SetInTransaction(c) /\ Advance(c, <<>>)
    BY DEF RollbackTransaction, Rollback, Op
<1>2. s \in Seq(Ops) /\ n \in DOMAIN s /\ InFile(c) = Settled(s, n)
    BY <1>1, RunningScript DEF Running
<1>3. disk' = disk /\ ~txn'[c] /\ lock'[c] = "none" /\ SqliteFrame(c)
    BY <1>1, ReleaseTyped
<1>4. ~inTransaction'[c]
    BY <1>1 DEF SetInTransaction, ClientTyped, Op
<1>5. /\ Pending(s, n + 1) = {} /\ Settled(s, n + 1) = Settled(s, n)
      /\ ~InBlock(s, n + 1)
    BY <1>1, <1>2, AfterRollback, InBlockNext DEF EndsBlock
<1>6. InFile(c)' = Settled(s, n + 1)
    BY <1>2, <1>3, <1>5, InFileUnchanged
<1>7. lock'[c] \notin WriteLocks
    BY <1>3 DEF WriteLocks
<1>8. ProcessInv(c)'
    BY <1>1, <1>3, <1>4, <1>5, <1>6, <1>7, AdvanceKeeps
<1>9. QED
    BY <1>1, <1>3, <1>8, AdvanceFrame, FrameSplit

LEMMA FailureKeeps ==
    ASSUME SqliteTyped(Content), SqliteTyped(Content)', ClientTyped, NEW c \in Connections, ProcessInv(c),
           CommitBusyFails(c) \/ StatementFails(c)
    PROVE  Frame(c) /\ disk' = disk /\ ProcessInv(c)'
<1>1. /\ pc[c] \in {"run", "follow_up"} /\ pc'[c] = "failing"
      /\ UNCHANGED <<script, next, inTransaction, outcome>>
    BY DEF CommitBusyFails, StatementFails, Goto, ClientTyped
<1>2. ClientFrame(c)
    BY DEF CommitBusyFails, StatementFails, Goto, ClientTyped, ClientFrame
<1>3. CASE CommitBusy(c) \/ UNCHANGED sqliteVars
  <2>1. /\ UNCHANGED <<disk, txn, work>> /\ SqliteFrame(c)
        /\ lock'[c] \in WriteLocks <=> lock[c] \in WriteLocks
    BY <1>3 DEF CommitBusy, sqliteVars, SqliteTyped, SqliteFrame, WriteLocks
  <2>2. ProcessInv(c)'
    BY <1>1, <2>1, StatementStep
  <2>3. QED
    BY <1>2, <2>1, <2>2, FrameSplit
<1>4. CASE Release(c)
  <2>1. disk' = disk /\ ~txn'[c] /\ lock'[c] \notin WriteLocks /\ SqliteFrame(c)
    BY <1>4, ReleaseTyped DEF WriteLocks
  <2>2. ProcessInv(c)'
    BY <1>1, <2>1, StatementStep
  <2>3. QED
    BY <1>2, <2>1, <2>2, FrameSplit
<1>5. QED
    BY <1>3, <1>4 DEF CommitBusyFails, StatementFails, StatementError

\* However a process ends, it has no transaction any more: execute_script's flag
\* was set whenever there was one to roll back.
LEMMA EndKeeps ==
    ASSUME SqliteTyped(Content), SqliteTyped(Content)', ClientTyped, NEW c \in Connections, ProcessInv(c),
           \/ \E text \in Scripts : RejectScript(c, text)
           \/ ReturnError(c) \/ CloseConnection(c) \/ Crash(c)
    PROVE  Frame(c) /\ disk' = disk /\ ProcessInv(c)'
<1>1. /\ script' = script /\ pc'[c] \in {"returned", "done"} /\ ClientFrame(c)
      /\ outcome'[c] # "ok" \/ outcome'[c] = outcome[c]
    BY DEF RejectScript, ReturnError, CloseConnection, Crash, GiveUp, Goto,
           ClientTyped, ClientFrame
<1>2. Release(c) \/ (UNCHANGED sqliteVars /\ (pc[c] = "idle" \/ ~inTransaction[c]))
    BY DEF RejectScript, ReturnError, Rollback, CloseConnection, Crash, Die
<1>3. disk' = disk /\ ~txn'[c] /\ SqliteFrame(c)
  <2>1. CASE Release(c)
    BY <2>1, ReleaseTyped
  <2>2. CASE UNCHANGED sqliteVars /\ (pc[c] = "idle" \/ ~inTransaction[c])
    BY <2>2 DEF sqliteVars, SqliteFrame, ProcessInv, ControlInv, Running
  <2>3. QED
    BY <1>2, <2>1, <2>2
<1>4. QED
    BY <1>1, <1>3, StoppedKeeps, FrameSplit

-----------------------------------------------------------------------------
\* Before the first statement the flag of compile_script and SQLite agree.
THEOREM InitScript == Init => ScriptInv
<1> SUFFICES ASSUME Init, NEW c \in Connections PROVE ProcessInv(c)
    BY InitTyped DEF ScriptInv
<1>1. /\ disk = {} /\ ~txn[c] /\ lock[c] = "none" /\ pc[c] = "idle" /\ script[c] = <<>>
      /\ next[c] = 1 /\ ~inTransaction[c] /\ outcome[c] = "none"
    BY DEF Init, SqliteInit
<1>2. InFile(c) = {}
    BY <1>1 DEF InFile
<1>3. QED
    BY <1>1, <1>2 DEF ProcessInv, ControlInv, FileInv, CopyInv, Running, WriteLocks

LEMMA StepKeeps ==
    ASSUME ScriptInv, TypeOK', NEW c \in Connections, Step(c)
    PROVE  Frame(c) /\ AddsOwnEffects(c) /\ ProcessInv(c)'
<1>1. SqliteTyped(Content) /\ SqliteTyped(Content)' /\ ClientTyped /\ ProcessInv(c)
    BY DEF ScriptInv, TypeOK, SqliteTyped, ClientTyped
<1>2. CASE \E text \in Scripts : AcceptScript(c, text)
    BY <1>1, <1>2, AcceptKeeps DEF AddsOwnEffects
<1>3. CASE Select(c) \/ FollowUp(c)
    BY <1>1, <1>3, SelectKeeps DEF AddsOwnEffects
<1>4. CASE FinishSelect(c)
    BY <1>1, <1>4, FinishSelectKeeps DEF AddsOwnEffects
<1>5. CASE WriteStatement(c)
    BY <1>1, <1>5, WriteKeeps
<1>6. CASE StartTransaction(c)
    BY <1>1, <1>6, StartKeeps DEF AddsOwnEffects
<1>7. CASE CommitTransaction(c)
    BY <1>1, <1>7, CommitKeeps
<1>8. CASE RollbackTransaction(c)
    BY <1>1, <1>8, RollbackKeeps DEF AddsOwnEffects
<1>9. CASE CommitBusyFails(c) \/ StatementFails(c)
    BY <1>1, <1>9, FailureKeeps DEF AddsOwnEffects
<1>10. CASE \/ \E text \in Scripts : RejectScript(c, text)
            \/ ReturnError(c) \/ CloseConnection(c) \/ Crash(c)
    BY <1>1, <1>10, EndKeeps DEF AddsOwnEffects
<1>11. QED
    BY <1>2, <1>3, <1>4, <1>5, <1>6, <1>7, <1>8, <1>9, <1>10 DEF Step

\* Every statement, failure and rollback keeps the flag and the transaction agreeing.
THEOREM StepScript == ScriptInv /\ [Next]_vars => ScriptInv'
<1> SUFFICES ASSUME ScriptInv, [Next]_vars, TypeOK', NEW d \in Connections
             PROVE  ProcessInv(d)'
    BY StepTyped DEF ScriptInv
<1>1. ASSUME NEW c \in Connections, Step(c)
      PROVE  ProcessInv(d)'
  <2>1. Frame(c) /\ AddsOwnEffects(c) /\ ProcessInv(c)'
    BY <1>1, StepKeeps
  <2>2. c # d => ProcessInv(d)'
    BY <2>1, OthersKept DEF ScriptInv
  <2>3. QED
    BY <2>1, <2>2
<1>2. CASE UNCHANGED vars
  <2>1. UNCHANGED <<disk, txn[d], lock[d], work[d], pc[d], script[d], next[d],
                    inTransaction[d], outcome[d]>>
    BY <1>2 DEF vars, sqliteVars, clientVars
  <2>2. InFile(d)' = InFile(d)
    BY <2>1, InFileUnchanged
  <2>3. ProcessInv(d)
    BY DEF ScriptInv
  <2>4. ControlInv(d)' /\ FileInv(d)' /\ CopyInv(d)'
    BY <2>1, <2>2, <2>3 DEF ProcessInv, ControlInv, FileInv, CopyInv, Op
  <2>5. QED
    BY <2>4 DEF ProcessInv
<1>3. QED
    BY <1>1, <1>2 DEF Next

\* The invariant of script execution holds in every reachable state.
THEOREM ScriptInvariant == Spec => []ScriptInv
BY InitScript, StepScript, PTL DEF Spec

-----------------------------------------------------------------------------
\* What compile_script accepts never makes SQLite refuse a BEGIN, COMMIT or
\* ROLLBACK for the state of its transaction.
THEOREM PreflightSound == Spec => []TransitionsValid
<1>1. ScriptInv => TransitionsValid
  <2> SUFFICES ASSUME ScriptInv, NEW c \in Connections, pc[c] = "run"
               PROVE  (Op(c) = "start" => ~txn[c]) /\ (EndsBlock(Op(c)) => txn[c])
      BY DEF TransitionsValid
  <2>1. ClientTyped /\ ProcessInv(c)
    BY DEF ScriptInv, TypeOK, ClientTyped
  <2>2. Compiles(script[c]) /\ next[c] \in DOMAIN script[c]
    BY <2>1, RunningScript DEF Running
  <2>3. txn[c] <=> InBlock(script[c], next[c])
    BY <2>1 DEF ProcessInv, ControlInv, Running
  <2>4. QED
    BY <2>2, <2>3 DEF Compiles, Op
<1>2. QED
    BY <1>1, ScriptInvariant, PTL

\* execute_script returns with no transaction open and no lock held, whatever
\* its statements, failures and rollbacks were.
THEOREM ReturnsClean == Spec => []CleanReturn
<1>1. ScriptInv => CleanReturn
    BY DEF ScriptInv, TypeOK, ProcessInv, ControlInv, CleanReturn, Running
<1>2. QED
    BY <1>1, ScriptInvariant, PTL

\* When execute_script reports success, the file has every write of the script
\* but those in blocks it rolled back.
THEOREM SuccessIsDurable == Spec => []SuccessIsCommitted
<1>1. ScriptInv => SuccessIsCommitted
  <2> SUFFICES ASSUME ScriptInv, NEW c \in Connections, outcome[c] = "ok",
                      NEW i \in DOMAIN script[c], script[c][i] = "write"
               PROVE  <<c, i>> \in disk <=> Committed(script[c], i)
      BY DEF SuccessIsCommitted
  <2>1. InFile(c) = CommittedWrites(script[c])
    BY DEF ScriptInv, ProcessInv, FileInv
  <2>2. <<c, i>> \in disk <=> i \in InFile(c)
    BY InFileMember DEF ScriptInv, TypeOK
  <2>3. QED
    BY <2>1, <2>2 DEF CommittedWrites
<1>2. QED
    BY <1>1, ScriptInvariant, PTL

-----------------------------------------------------------------------------
\* Refinement

LEMMA ContractOperators ==
    ASSUME NEW s, NEW i
    PROVE  /\ Contract!Compiles(s) <=> Compiles(s)
           /\ Contract!Committed(s, i) <=> Committed(s, i)
           /\ Contract!Unit(s, i) = Unit(s, i)
           /\ \A c, numbers : Contract!Effects(c, numbers) = EffectsOf(c, numbers)
BY DEF Contract!Compiles, Contract!Committed, Contract!Unit, Contract!Effects,
       Contract!InBlock, Contract!SameBlock, Contract!NoEndBetween, Contract!EndsBlock,
       Compiles, Committed, Unit, EffectsOf, InBlock, SameBlock, NoEndBetween, EndsBlock

\* A unit that goes to the file after everything before it is an Install.
LEMMA UnitInstalled ==
    ASSUME disk \in Content, NEW c \in Connections, NEW n,
           InFile(c) = Settled(script[c], n), script' = script,
           NEW i \in CommittedWrites(script[c]),
           Unit(script[c], i) \cap Settled(script[c], n) = {},
           \A j \in CommittedWrites(script[c]) :
               (\A k \in Unit(script[c], i) : j < k) => j \in Settled(script[c], n),
           disk' = disk \cup EffectsOf(c, Unit(script[c], i))
    PROVE  i \in DOMAIN script[c] /\ Contract!Install(c, i)
<1> DEFINE s == script[c]
           unit == Unit(script[c], i)
<1>1. i \in DOMAIN s /\ s[i] = "write" /\ Committed(s, i)
    BY DEF CommittedWrites
<1>2. EffectsOf(c, unit) \cap disk = {}
    BY InFileMember DEF EffectsOf
<1>3. \A j \in DOMAIN s :
          s[j] = "write" /\ Committed(s, j) /\ (\A k \in unit : j < k) => <<c, j>> \in disk
    BY InFileMember DEF CommittedWrites
<1>4. QED
    BY <1>1, <1>2, <1>3, ContractOperators DEF Contract!Install

\* COMMIT installs the block it ends, an autocommit write itself.
LEMMA CommitRefines ==
    ASSUME SqliteTyped(Content), ClientTyped, NEW c \in Connections, ProcessInv(c),
           CommitTransaction(c)
    PROVE  script' = script /\ (disk' = disk \/ \E i \in DOMAIN script[c] : Contract!Install(c, i))
<1> DEFINE s == script[c]
           n == next[c]
<1>1. pc[c] = "run" /\ s[n] = "commit" /\ Commit(c) /\ script' = script
    BY DEF CommitTransaction, Advance, Op
<1>2. s \in Seq(Ops) /\ n \in DOMAIN s /\ n \in Nat /\ InFile(c) = Settled(s, n)
    BY <1>1, RunningScript DEF Running
<1>3. disk' = disk \cup EffectsOf(c, Pending(s, n))
    BY <1>1, CommitInstallsPending
<1>4. CASE Pending(s, n) = {}
    BY <1>1, <1>3, <1>4 DEF EffectsOf
<1>5. CASE Pending(s, n) # {}
  <2>1. PICK i \in Pending(s, n) : TRUE
    BY <1>5
  <2>2. Unit(s, i) = Pending(s, n)
    BY <1>1, <1>2, PendingIsUnit DEF EndsBlock
  <2>3. i \in CommittedWrites(s)
    BY <1>1, <1>2, CommittedAtCommit DEF Pending, CommittedWrites
  <2>4. Pending(s, n) \cap Settled(s, n) = {}
    BY DEF Pending, Settled
  <2>5. \A j \in CommittedWrites(s) : (\A k \in Pending(s, n) : j < k) => j \in Settled(s, n)
    <3> SUFFICES ASSUME NEW j \in CommittedWrites(s), \A k \in Pending(s, n) : j < k
                 PROVE  j \in Settled(s, n)
        OBVIOUS
    <3>1. /\ j \in DOMAIN s /\ s[j] = "write" /\ j < i
          /\ i \in DOMAIN s /\ i < n
      BY DEF CommittedWrites, Pending
    <3>2. j < n /\ ~(j < j)
      BY <1>2, <3>1
    <3>3. ~SameBlock(s, j, n)
      BY <3>1, <3>2 DEF Pending
    <3>4. QED
      BY <3>2, <3>3 DEF Settled
  <2>6. disk \in Content
    BY DEF SqliteTyped
  <2>7. i \in DOMAIN s /\ Contract!Install(c, i)
    BY <1>1, <1>2, <1>3, <2>2, <2>3, <2>4, <2>5, <2>6, UnitInstalled
  <2>8. QED
    BY <1>1, <2>7
<1>6. QED
    BY <1>4, <1>5

LEMMA WriteRefines ==
    ASSUME SqliteTyped(Content), ClientTyped, NEW c \in Connections, ProcessInv(c),
           WriteStatement(c)
    PROVE  script' = script /\ (disk' = disk \/ \E i \in DOMAIN script[c] : Contract!Install(c, i))
<1> DEFINE s == script[c]
           n == next[c]
<1>1. /\ pc[c] = "run" /\ s[n] = "write" /\ script' = script
      /\ IF txn[c] THEN Write(c, View(c) \cup {<<c, n>>})
         ELSE AutocommitWrite(c, View(c) \cup {<<c, n>>})
    BY DEF WriteStatement, Advance, Op
<1>2. s \in Seq(Ops) /\ n \in DOMAIN s /\ n \in Nat /\ InFile(c) = Settled(s, n)
    BY <1>1, RunningScript DEF Running
<1>3. CASE txn[c]
    BY <1>1, <1>3 DEF Write
<1>4. CASE ~txn[c]
  <2>1. ~InBlock(s, n)
    BY <1>1, <1>4 DEF ProcessInv, ControlInv, Running
  <2>2. View(c) = disk
    BY <1>4 DEF SqliteTyped, View, WriteLocks
  <2>3. Unit(s, n) = {n} /\ n \in CommittedWrites(s)
    BY <1>1, <1>2, <2>1, UnitOutside, AfterWriteOutside
  <2>4. disk' = disk \cup EffectsOf(c, {n})
    BY <1>1, <1>4, <2>2 DEF AutocommitWrite, EffectsOf
  <2>5. Settled(s, n) = {j \in CommittedWrites(s) : j < n}
    BY <1>2, <2>1, NothingPendingOutside
  <2>6. {n} \cap Settled(s, n) = {}
    BY <1>2, <2>5
  <2>7. \A j \in CommittedWrites(s) : (\A k \in {n} : j < k) => j \in Settled(s, n)
    BY <2>5
  <2>8. QED
    BY <1>1, <1>2, <2>3, <2>4, <2>6, <2>7, UnitInstalled DEF SqliteTyped
<1>5. QED
    BY <1>3, <1>4

\* Every other step leaves scripts and file alone or accepts a script.
LEMMA StepRefines ==
    ASSUME ScriptInv, [Next]_vars
    PROVE  [Contract!Next]_(Contract!contractVars)
<1>1. SqliteTyped(Content) /\ ClientTyped
    BY DEF ScriptInv, TypeOK, SqliteTyped, ClientTyped
<1>2. ASSUME NEW c \in Connections, CommitTransaction(c) \/ WriteStatement(c)
      PROVE  [Contract!Next]_(Contract!contractVars)
  <2>1. ProcessInv(c)
    BY DEF ScriptInv
  <2>2. script' = script /\ (disk' = disk \/ \E i \in DOMAIN script[c] : Contract!Install(c, i))
    BY <1>1, <1>2, <2>1, CommitRefines, WriteRefines
  <2>3. QED
    BY <2>2 DEF Contract!Next, Contract!contractVars
<1>3. ASSUME NEW c \in Connections, NEW text \in Scripts, AcceptScript(c, text)
      PROVE  Contract!Next
  <2>1. script[c] = <<>>
    BY <1>3 DEF ScriptInv, ProcessInv, ControlInv, AcceptScript
  <2>2. Contract!Accept(c, text)
    BY <1>3, <2>1, ContractOperators DEF AcceptScript, sqliteVars, Contract!Accept
  <2>3. QED
    BY <2>2 DEF Contract!Next
<1>4. ASSUME NEW c \in Connections,
             \/ \E text \in Scripts : RejectScript(c, text)
             \/ Select(c) \/ FollowUp(c) \/ FinishSelect(c)
             \/ StartTransaction(c) \/ RollbackTransaction(c)
             \/ CommitBusyFails(c) \/ StatementFails(c) \/ ReturnError(c)
             \/ CloseConnection(c) \/ Crash(c)
      PROVE  UNCHANGED <<script, disk>>
  <2>1. UNCHANGED script
    BY <1>4 DEF RejectScript, Select, FollowUp, FinishSelect, StartTransaction,
        RollbackTransaction, CommitBusyFails, StatementFails, ReturnError,
        CloseConnection, Crash, Advance, GiveUp
  <2>2. UNCHANGED disk
    BY <1>4 DEF RejectScript, Select, FollowUp, FinishSelect, StartTransaction,
        RollbackTransaction, CommitBusyFails, StatementFails, ReturnError,
        CloseConnection, Crash, ReadNow, Read, AutocommitRead, Begin, Rollback,
        CommitBusy, StatementError, Die, Release, sqliteVars
  <2>3. QED
    BY <2>1, <2>2
<1>5. CASE UNCHANGED vars
    BY <1>5 DEF vars, sqliteVars, clientVars, Contract!contractVars
<1>6. QED
    BY <1>2, <1>3, <1>4, <1>5 DEF Next, Step, Contract!contractVars

\* Scripts take effect unit by unit and in order, or stop.
THEOREM ScriptsImplementContract == Spec => ImplementsContract
<1>1. Init => Contract!Init
    BY DEF Init, SqliteInit, Contract!Init
<1>2. ScriptInv /\ [Next]_vars => [Contract!Next]_(Contract!contractVars)
    BY StepRefines
<1>3. QED
    BY <1>1, <1>2, ScriptInvariant, PTL DEF Spec, ImplementsContract, Contract!Spec

-----------------------------------------------------------------------------
\* The writes of a unit share their fate.

LEMMA CommittedTogether ==
    ASSUME NEW s \in Seq(Ops), NEW k \in CommittedWrites(s), NEW u \in Unit(s, k)
    PROVE  u \in CommittedWrites(s)
<1>1. /\ k \in DOMAIN s /\ s[k] = "write" /\ Committed(s, k) /\ k \in Nat
      /\ u \in DOMAIN s /\ s[u] = "write" /\ u \in Nat
    BY DEF CommittedWrites, Unit
<1>2. CASE u = k
    BY <1>1, <1>2 DEF CommittedWrites
<1>3. CASE k < u /\ SameBlock(s, k, u)
  <2>1. InBlock(s, k) /\ \A i \in k..(u - 1) : ~EndsBlock(s[i])
    BY <1>3 DEF SameBlock, NoEndBetween
  <2>2. PICK e \in DOMAIN s : e >= k /\ s[e] = "commit" /\ NoEndBetween(s, k, e)
    BY <1>1, <2>1 DEF Committed
  <2>3. e >= u
    BY <1>1, <2>1, <2>2 DEF EndsBlock
  <2>4. NoEndBetween(s, u, e)
    BY <1>1, <1>3, <2>2, <2>3 DEF NoEndBetween
  <2>5. QED
    BY <1>1, <2>2, <2>3, <2>4 DEF CommittedWrites, Committed
<1>4. CASE u < k /\ SameBlock(s, u, k)
  <2>1. InBlock(s, k)
    BY <1>1, <1>4, SameBlockInBlock
  <2>2. PICK e \in DOMAIN s : e >= k /\ s[e] = "commit" /\ NoEndBetween(s, k, e)
    BY <1>1, <2>1 DEF Committed
  <2>3. NoEndBetween(s, u, e)
    BY <1>1, <1>4, <2>2 DEF SameBlock, NoEndBetween
  <2>4. QED
    BY <1>1, <1>4, <2>2, <2>3 DEF CommittedWrites, Committed
<1>5. QED
    BY <1>2, <1>3, <1>4 DEF Unit

\* What is settled before statement n is settled unit by unit.
LEMMA SettledTogether ==
    ASSUME NEW s \in Seq(Ops), NEW n \in Nat, NEW k \in Settled(s, n), NEW u \in Unit(s, k)
    PROVE  u \in Settled(s, n)
<1>1. /\ k \in CommittedWrites(s) /\ k < n /\ ~SameBlock(s, k, n) /\ k \in Nat
      /\ u \in CommittedWrites(s) /\ u \in Nat
  <2>1. k \in CommittedWrites(s) /\ k < n /\ ~SameBlock(s, k, n)
    BY DEF Settled
  <2>2. u \in CommittedWrites(s)
    BY <2>1, CommittedTogether
  <2>3. QED
    BY <2>1, <2>2 DEF CommittedWrites
<1>2. CASE u = k
    BY <1>2
<1>3. CASE k < u /\ SameBlock(s, k, u)
  <2>1. InBlock(s, k) /\ \A i \in k..(u - 1) : ~EndsBlock(s[i])
    BY <1>3 DEF SameBlock, NoEndBetween
  <2>2. PICK e \in k..(n - 1) : EndsBlock(s[e])
    BY <1>1, <2>1 DEF SameBlock, NoEndBetween
  <2>3. e \in u..(n - 1)
    BY <1>1, <2>1, <2>2
  <2>4. u < n /\ ~SameBlock(s, u, n)
    BY <1>1, <2>2, <2>3 DEF SameBlock, NoEndBetween
  <2>5. QED
    BY <1>1, <2>4 DEF Settled
<1>4. CASE u < k /\ SameBlock(s, u, k)
  <2>1. InBlock(s, k)
    BY <1>1, <1>4, SameBlockInBlock
  <2>2. PICK e \in k..(n - 1) : EndsBlock(s[e])
    BY <1>1, <2>1 DEF SameBlock, NoEndBetween
  <2>3. e \in u..(n - 1) /\ u < n
    BY <1>1, <1>4, <2>2
  <2>4. ~SameBlock(s, u, n)
    BY <2>2, <2>3 DEF SameBlock, NoEndBetween
  <2>5. QED
    BY <1>1, <2>3, <2>4 DEF Settled
<1>5. QED
    BY <1>2, <1>3, <1>4 DEF Unit

-----------------------------------------------------------------------------
\* What has been read.

History(c) == UNION {{j} \X ReadsAt(c, j) : j \in 1..next[c]}

\* Results are there for the statements before the current one, until they are dropped.
ShapeInv(c) ==
    /\ \/ Len(results[c]) = next[c] - 1
       \/ results[c] = <<>> /\ reads[c] = <<>> /\ pc[c] \notin Running
    /\ pc[c] \in {"idle", "run"} => reads[c] = <<>>

\* The file contains blocks as a whole.
UnitsInFile(c) == \A k \in InFile(c) : Unit(script[c], k) \subseteq InFile(c)

\* A read returned the process's own changes so far,
OwnRead(c, read) ==
    \A i \in Nat : <<c, i>> \in read[2] <=>
        i \in Settled(script[c], read[1]) \cup Pending(script[c], read[1])

\* of other processes committed blocks as a whole,
OthersRead(c, read) ==
    \A d \in Connections \ {c} : \A k \in Nat : <<d, k>> \in read[2] =>
        /\ k \in CommittedWrites(script[d])
        /\ EffectsOf(d, Unit(script[d], k)) \subseteq read[2]

\* and, while its block is open, what it would return now.
StillCurrent(c, read) ==
    pc[c] \in {"run", "follow_up"} /\ SameBlock(script[c], read[1], next[c]) =>
        lock[c] # "none" /\ OfOthers(c, read[2]) = OfOthers(c, View(c))

OneState(c) ==
    \A a, b \in History(c) : a[1] <= b[1] /\ SameBlock(script[c], a[1], b[1]) =>
        OfOthers(c, a[2]) = OfOthers(c, b[2])

ReadsInv(c) ==
    /\ ShapeInv(c) /\ UnitsInFile(c) /\ OneState(c)
    /\ \A read \in History(c) : OwnRead(c, read) /\ OthersRead(c, read) /\ StillCurrent(c, read)

IsolationInv == ScriptInv /\ \A c \in Connections : ReadsInv(c)

LEMMA HistoryTyped ==
    ASSUME ClientTyped, NEW c \in Connections, NEW read \in History(c)
    PROVE  /\ read[1] \in 1..next[c] /\ read[1] \in Nat /\ read[2] \in Content
           /\ read[2] \in ReadsAt(c, read[1])
<1>1. read[1] \in 1..next[c] /\ read[2] \in ReadsAt(c, read[1])
    BY DEF History
<1>2. next[c] \in Nat /\ reads[c] \in Seq(Content) /\ results[c] \in Seq(Seq(Content))
    BY DEF ClientTyped
<1>3. read[2] \in Content
    BY <1>1, <1>2 DEF ReadsAt, ToSet
<1>4. QED
    BY <1>1, <1>2, <1>3

LEMMA HistoryUnchanged ==
    ASSUME NEW c, next'[c] = next[c], reads'[c] = reads[c], results'[c] = results[c]
    PROVE  History(c)' = History(c)
BY DEF History, ReadsAt

\* A statement that is done moves what it has read to the results.
LEMMA AdvanceHistory ==
    ASSUME ClientTyped, NEW c \in Connections, ShapeInv(c), pc[c] \in Running,
           Advance(c, reads[c])
    PROVE  ShapeInv(c)' /\ History(c)' \subseteq History(c)
<1>1. /\ results[c] \in Seq(Seq(Content)) /\ reads[c] \in Seq(Content) /\ next[c] \in Nat \ {0}
      /\ results'[c] = Append(results[c], reads[c]) /\ next'[c] = next[c] + 1 /\ reads'[c] = <<>>
    BY DEF ClientTyped, Advance
<1>2. Len(results[c]) = next[c] - 1
    BY DEF ShapeInv
<1>3. /\ DOMAIN results'[c] = 1..next[c] /\ DOMAIN results[c] = 1..(next[c] - 1)
      /\ Len(results'[c]) = next'[c] - 1
      /\ \A j \in 1..(next[c] - 1) : results'[c][j] = results[c][j]
      /\ results'[c][next[c]] = reads[c]
    BY <1>1, <1>2
<1>4. ToSet(<<>>) = {}
    BY DEF ToSet
<1>5. ASSUME NEW j \in 1..(next[c] + 1), NEW content \in ReadsAt(c, j)'
      PROVE  j \in 1..next[c] /\ content \in ReadsAt(c, j)
  <2>1. CASE j \in 1..(next[c] - 1)
    BY <1>1, <1>3, <1>5, <2>1 DEF ReadsAt
  <2>2. CASE j = next[c]
    BY <1>1, <1>3, <1>5, <2>2 DEF ReadsAt
  <2>3. CASE j = next[c] + 1
    BY <1>1, <1>3, <1>4, <1>5, <2>3 DEF ReadsAt
  <2>4. QED
    BY <1>1, <2>1, <2>2, <2>3
<1>6. History(c)' \subseteq History(c)
    BY <1>1, <1>5 DEF History
<1>7. QED
    BY <1>1, <1>3, <1>6 DEF ShapeInv

\* A select adds what it reads now.
LEMMA SelectHistory ==
    ASSUME ClientTyped, NEW c \in Connections, ShapeInv(c), pc[c] \in Running, pc'[c] = "follow_up",
           next' = next, results' = results,
           reads'[c] \in {<<View(c)>>, Append(reads[c], View(c))}
    PROVE  ShapeInv(c)' /\ \A read \in History(c)' : read \in History(c) \/ read = <<next[c], View(c)>>
<1>1. reads[c] \in Seq(Content) /\ next[c] \in Nat \ {0}
    BY DEF ClientTyped
<1>2. Len(results[c]) = next[c] - 1
    BY DEF ShapeInv
<1>3. ToSet(reads'[c]) \subseteq ToSet(reads[c]) \cup {View(c)}
    BY <1>1 DEF ToSet
<1>4. ASSUME NEW j \in 1..next[c], NEW content \in ReadsAt(c, j)'
      PROVE  content \in ReadsAt(c, j) \/ (j = next[c] /\ content = View(c))
  <2>1. CASE j \in DOMAIN results[c]
    BY <1>4, <2>1 DEF ReadsAt
  <2>2. CASE j \notin DOMAIN results[c]
    BY <1>3, <1>4, <2>2 DEF ReadsAt
  <2>3. QED
    BY <2>1, <2>2
<1>5. \A read \in History(c)' : read \in History(c) \/ read = <<next[c], View(c)>>
    BY <1>4 DEF History
<1>6. ShapeInv(c)'
    BY <1>2 DEF ShapeInv
<1>7. QED
    BY <1>5, <1>6

Reading(c) == Select(c) \/ FollowUp(c)

\* What a step of process c does to what has been read.
LEMMA StepHistory ==
    ASSUME ClientTyped, NEW c \in Connections, ProcessInv(c), ShapeInv(c), Step(c)
    PROVE  /\ ShapeInv(c)'
           /\ \A read \in History(c)' :
                 read \in History(c) \/ (Reading(c) /\ read = <<next[c], View(c)>>)
           /\ \A d \in Connections \ {c} : reads'[d] = reads[d] /\ results'[d] = results[d]
<1>1. ASSUME NEW text \in Scripts, AcceptScript(c, text)
      PROVE  ShapeInv(c)' /\ History(c)' = History(c) /\ UNCHANGED <<reads, results>>
  <2>1. UNCHANGED <<next, reads, results>> /\ pc[c] = "idle" /\ pc'[c] = "run"
    BY <1>1 DEF AcceptScript, Goto, ClientTyped
  <2>2. next[c] = 1 /\ results[c] \in Seq(Seq(Content))
    BY <2>1 DEF ProcessInv, ControlInv, ClientTyped
  <2>3. Len(results[c]) = next[c] - 1
    BY <2>2 DEF ShapeInv
  <2>4. QED
    BY <2>1, <2>3, HistoryUnchanged DEF ShapeInv
<1>2. CASE CommitBusyFails(c) \/ StatementFails(c) \/ CloseConnection(c)
  <2>1. /\ UNCHANGED <<next, reads, results>>
        /\ pc'[c] \in {"failing", "done"} /\ (pc'[c] = "failing" => pc[c] \in Running)
    BY <1>2 DEF CommitBusyFails, StatementFails, CloseConnection, Goto, ClientTyped, Running
  <2>2. QED
    BY <2>1, HistoryUnchanged DEF ShapeInv, Running
<1>3. CASE (\E text \in Scripts : RejectScript(c, text)) \/ ReturnError(c) \/ Crash(c)
  <2>1. /\ reads' = [reads EXCEPT ![c] = <<>>] /\ results' = [results EXCEPT ![c] = <<>>]
        /\ pc'[c] \in {"returned", "done"}
    BY <1>3 DEF RejectScript, ReturnError, Crash, GiveUp, Goto, ClientTyped
  <2>2. reads'[c] = <<>> /\ results'[c] = <<>>
    BY <2>1 DEF ClientTyped
  <2>3. ToSet(<<>>) = {} /\ DOMAIN <<>> = {}
    BY DEF ToSet
  <2>4. History(c)' = {}
    BY <2>2, <2>3 DEF History, ReadsAt
  <2>5. ShapeInv(c)'
    BY <2>1, <2>2 DEF ShapeInv, Running
  <2>6. QED
    BY <2>1, <2>4, <2>5 DEF ClientTyped
<1>4. CASE Reading(c)
  <2>1. /\ pc[c] \in Running /\ pc'[c] = "follow_up" /\ next' = next /\ results' = results
        /\ reads'[c] \in {<<View(c)>>, Append(reads[c], View(c))}
        /\ \A d \in Connections \ {c} : reads'[d] = reads[d]
    BY <1>4 DEF Reading, Select, FollowUp, Goto, ClientTyped, Running
  <2>2. QED
    BY <1>4, <2>1, SelectHistory
<1>5. CASE \/ FinishSelect(c) \/ WriteStatement(c)
           \/ StartTransaction(c) \/ CommitTransaction(c) \/ RollbackTransaction(c)
  <2>1. pc[c] \in Running /\ Advance(c, reads[c])
    BY <1>5 DEF FinishSelect, WriteStatement, StartTransaction, CommitTransaction,
        RollbackTransaction, ShapeInv, Running
  <2>2. \A d \in Connections \ {c} : reads'[d] = reads[d] /\ results'[d] = results[d]
    BY <2>1 DEF Advance, ClientTyped
  <2>3. QED
    BY <2>1, <2>2, AdvanceHistory
<1>6. QED
    BY <1>1, <1>2, <1>3, <1>4, <1>5 DEF Step, Reading

-----------------------------------------------------------------------------
\* What a process reads now.

LEMMA ViewContent ==
    ASSUME ScriptInv, NEW c \in Connections, pc[c] \in {"run", "follow_up"}
    PROVE  View(c) = disk \cup EffectsOf(c, Pending(script[c], next[c]))
BY DEF ScriptInv, ProcessInv, CopyInv, View, EffectsOf

LEMMA ReadingStep ==
    ASSUME ScriptInv, NEW c \in Connections, Reading(c)
    PROVE  /\ pc[c] \in {"run", "follow_up"} /\ pc'[c] = "follow_up"
           /\ UNCHANGED <<script, next, disk, txn, work>> /\ View(c)' = View(c)
           /\ txn[c] \/ lock[c] # "none" => lock'[c] # "none"
<1>1. SqliteTyped(Content) /\ ClientTyped
    BY DEF ScriptInv, TypeOK, SqliteTyped, ClientTyped
<1>2. /\ pc[c] \in {"run", "follow_up"} /\ pc'[c] = "follow_up"
      /\ script' = script /\ next' = next
      /\ IF txn[c] THEN Read(c) ELSE AutocommitRead(c)
    BY <1>1 DEF Reading, Select, FollowUp, ReadNow, Goto, ClientTyped
<1>3. /\ UNCHANGED <<disk, txn, work>>
      /\ lock'[c] \in WriteLocks <=> lock[c] \in WriteLocks
    BY <1>1, <1>2, ReadTyped
<1>4. lock[c] # "none" => txn[c]
    BY <1>1 DEF SqliteTyped
<1>5. txn[c] => lock'[c] # "none"
    BY <1>1, <1>2 DEF Read, SqliteTyped
<1>6. QED
    BY <1>2, <1>3, <1>4, <1>5 DEF View

\* A read now has the properties of a read.
LEMMA NewRead ==
    ASSUME ScriptInv, \A d \in Connections : UnitsInFile(d),
           NEW c \in Connections, Reading(c)
    PROVE  LET read == <<next[c], View(c)>>
           IN  OwnRead(c, read) /\ OthersRead(c, read)
<1>1. pc[c] \in {"run", "follow_up"}
    BY ReadingStep
<1>2. /\ disk \in Content /\ ProcessInv(c)
      /\ View(c) = disk \cup EffectsOf(c, Pending(script[c], next[c]))
    BY <1>1, ViewContent DEF ScriptInv, TypeOK
<1>3. InFile(c) = Settled(script[c], next[c])
    BY <1>1, <1>2 DEF ProcessInv, FileInv, Running
<1>4. \A i \in Nat : <<c, i>> \in View(c) <=>
          i \in Settled(script[c], next[c]) \cup Pending(script[c], next[c])
    BY <1>2, <1>3, InFileMember DEF EffectsOf
<1>5. ASSUME NEW d \in Connections \ {c}, NEW k \in Nat, <<d, k>> \in View(c)
      PROVE  k \in CommittedWrites(script[d]) /\ EffectsOf(d, Unit(script[d], k)) \subseteq View(c)
  <2>1. <<d, k>> \in disk
    BY <1>2, <1>5 DEF EffectsOf
  <2>2. k \in InFile(d)
    BY <1>2, <2>1, InFileMember
  <2>3. k \in CommittedWrites(script[d]) /\ Unit(script[d], k) \subseteq InFile(d)
    BY <2>2 DEF ScriptInv, ProcessInv, FileInv, UnitsInFile
  <2>4. EffectsOf(d, Unit(script[d], k)) \subseteq disk
    BY <1>2, <2>3, InFileMember DEF EffectsOf
  <2>5. QED
    BY <1>2, <2>3, <2>4
<1>6. QED
    BY <1>4, <1>5 DEF OwnRead, OthersRead

-----------------------------------------------------------------------------
\* Steps of the process itself.

LEMMA UnitsKept ==
    ASSUME ScriptInv, ScriptInv', NEW c \in Connections, Step(c), UnitsInFile(c)
    PROVE  UnitsInFile(c)'
<1>1. /\ SqliteTyped(Content) /\ ClientTyped /\ ClientTyped' /\ ProcessInv(c)
      /\ FileInv(c)'
    BY DEF ScriptInv, TypeOK, SqliteTyped, ClientTyped, ProcessInv
<1>2. CASE CommitTransaction(c) \/ WriteStatement(c)
  <2>1. pc[c] \in Running /\ Advance(c, <<>>)
    BY <1>2 DEF CommitTransaction, WriteStatement, Running
  <2>2. script[c] \in Seq(Ops) /\ script'[c] = script[c]
    BY <1>1, <2>1, RunningScript DEF Advance
  <2>3. next'[c] \in Nat
    BY <1>1 DEF ClientTyped
  <2>4. pc'[c] = "run" \/ outcome'[c] = "ok"
    BY <1>1, <2>1 DEF Advance, Goto, ClientTyped
  <2>5. InFile(c)' = Settled(script[c], next'[c]) \/ InFile(c)' = CommittedWrites(script[c])
    BY <1>1, <2>2, <2>4 DEF FileInv, Running
  <2>6. QED
    BY <2>2, <2>3, <2>5, SettledTogether, CommittedTogether DEF UnitsInFile
<1>3. ASSUME NEW text \in Scripts, AcceptScript(c, text)
      PROVE  UnitsInFile(c)'
  <2>1. script[c] = <<>> /\ disk' = disk
    BY <1>1, <1>3 DEF AcceptScript, sqliteVars, ProcessInv, ControlInv
  <2>2. InFile(c)' = {}
    BY <1>1, <2>1, InFileUnchanged DEF ProcessInv, FileInv, CommittedWrites
  <2>3. QED
    BY <2>2 DEF UnitsInFile
<1>4. CASE \/ \E text \in Scripts : RejectScript(c, text)
           \/ Select(c) \/ FollowUp(c) \/ FinishSelect(c)
           \/ StartTransaction(c) \/ RollbackTransaction(c)
           \/ CommitBusyFails(c) \/ StatementFails(c) \/ ReturnError(c)
           \/ CloseConnection(c) \/ Crash(c)
  <2>1. UNCHANGED script
    BY <1>4 DEF RejectScript, Select, FollowUp, FinishSelect, StartTransaction,
        RollbackTransaction, CommitBusyFails, StatementFails, ReturnError,
        CloseConnection, Crash, Advance, GiveUp
  <2>2. UNCHANGED disk
    BY <1>4 DEF RejectScript, Select, FollowUp, FinishSelect, StartTransaction,
        RollbackTransaction, CommitBusyFails, StatementFails, ReturnError,
        CloseConnection, Crash, ReadNow, Read, AutocommitRead, Begin, Rollback,
        CommitBusy, StatementError, Die, Release, sqliteVars
  <2>3. QED
    BY <2>1, <2>2, InFileUnchanged DEF UnitsInFile
<1>5. QED
    BY <1>2, <1>3, <1>4 DEF Step

\* A read stays current until the block of its statement ends.
LEMMA CurrentKept ==
    ASSUME ScriptInv, NEW c \in Connections, Step(c), script'[c] = script[c],
           NEW read, read[1] \in 1..next[c], StillCurrent(c, read)
    PROVE  StillCurrent(c, read)'
<1> DEFINE s == script[c]
           n == next[c]
<1>1. SqliteTyped(Content) /\ ClientTyped /\ ProcessInv(c)
    BY DEF ScriptInv, TypeOK, SqliteTyped, ClientTyped
<1>2. n \in Nat \ {0} /\ read[1] \in Nat /\ read[1] <= n
    BY <1>1 DEF ClientTyped
<1> SUFFICES ASSUME pc'[c] \in {"run", "follow_up"}, SameBlock(script'[c], read[1], next'[c])
             PROVE  lock'[c] # "none" /\ OfOthers(c, read[2])' = OfOthers(c, View(c))'
    BY DEF StillCurrent
<1>3. CASE Reading(c)
  <2>1. pc[c] \in {"run", "follow_up"} /\ next' = next /\ View(c)' = View(c)
        /\ (lock[c] # "none" => lock'[c] # "none")
    BY <1>3, ReadingStep
  <2>2. SameBlock(s, read[1], n)
    BY <2>1
  <2>3. QED
    BY <2>1, <2>2 DEF StillCurrent, OfOthers
<1>4. ASSUME pc[c] \in {"run", "follow_up"}, NEW result, Advance(c, result), s \in Seq(Ops)
      PROVE  ~EndsBlock(s[n]) /\ lock[c] # "none" /\ OfOthers(c, read[2]) = OfOthers(c, View(c))
  <2>1. next'[c] = n + 1
    BY <1>1, <1>4 DEF Advance, ClientTyped
  <2>2. SameBlock(s, read[1], n) /\ ~EndsBlock(s[n])
    BY <1>2, <1>4, <2>1, SameBlockNext
  <2>3. QED
    BY <1>4, <2>2 DEF StillCurrent
<1>5. pc[c] \in {"run", "follow_up"} => s \in Seq(Ops)
    BY <1>1, RunningScript DEF Running
<1>6. CASE FinishSelect(c)
  <2>1. pc[c] \in {"run", "follow_up"} /\ Advance(c, reads[c]) /\ UNCHANGED sqliteVars
    BY <1>6 DEF FinishSelect
  <2>2. View(c)' = View(c) /\ lock' = lock
    BY <2>1 DEF View, sqliteVars
  <2>3. QED
    BY <1>4, <1>5, <2>1, <2>2 DEF OfOthers
<1>7. CASE WriteStatement(c)
  <2>1. /\ pc[c] \in {"run", "follow_up"} /\ Advance(c, <<>>)
        /\ IF txn[c] THEN Write(c, View(c) \cup {<<c, n>>})
           ELSE AutocommitWrite(c, View(c) \cup {<<c, n>>})
    BY <1>7 DEF WriteStatement
  <2>2. lock[c] # "none" /\ OfOthers(c, read[2]) = OfOthers(c, View(c))
    BY <1>4, <1>5, <2>1
  <2>3. Write(c, View(c) \cup {<<c, n>>})
    BY <1>1, <2>1, <2>2 DEF SqliteTyped
  <2>4. lock'[c] \in WriteLocks /\ work'[c] = View(c) \cup {<<c, n>>}
    BY <1>1, <2>3 DEF Write, SqliteTyped, WriteLocks
  <2>5. View(c)' = View(c) \cup {<<c, n>>} /\ lock'[c] # "none"
    BY <2>4 DEF View, WriteLocks
  <2>6. QED
    BY <2>2, <2>5 DEF OfOthers
<1>8. CASE StartTransaction(c)
  <2>1. pc[c] \in {"run", "follow_up"} /\ Advance(c, <<>>) /\ ~txn[c]
    BY <1>8 DEF StartTransaction, Begin
  <2>2. lock[c] # "none"
    BY <1>4, <1>5, <2>1
  <2>3. QED
    BY <1>1, <2>1, <2>2 DEF SqliteTyped
<1>9. CASE CommitTransaction(c) \/ RollbackTransaction(c)
  <2>1. pc[c] \in {"run", "follow_up"} /\ Advance(c, <<>>) /\ EndsBlock(s[n])
    BY <1>9 DEF CommitTransaction, RollbackTransaction, Op, EndsBlock
  <2>2. QED
    BY <1>4, <1>5, <2>1
<1>10. CASE \E text \in Scripts : AcceptScript(c, text)
  <2>1. n = 1 /\ next' = next
    BY <1>1, <1>10 DEF AcceptScript, ProcessInv, ControlInv
  <2>2. SameBlock(s, 1, 1)
    BY <1>2, <2>1
  <2>3. QED
    BY <2>2, NoBlockAtStart DEF SameBlock
<1>11. CASE \/ \E text \in Scripts : RejectScript(c, text)
            \/ CommitBusyFails(c) \/ StatementFails(c) \/ ReturnError(c)
            \/ CloseConnection(c) \/ Crash(c)
    BY <1>1, <1>11 DEF RejectScript, CommitBusyFails, StatementFails, ReturnError,
       CloseConnection, Crash, GiveUp, Goto, ClientTyped
<1>12. QED
    BY <1>3, <1>6, <1>7, <1>8, <1>9, <1>10, <1>11 DEF Step, Reading

\* A read now is current.
LEMMA NewReadCurrent ==
    ASSUME ScriptInv, NEW c \in Connections, Reading(c)
    PROVE  \A read : read = <<next[c], View(c)>> => StillCurrent(c, read)'
<1>1. /\ pc[c] \in {"run", "follow_up"} /\ UNCHANGED <<script, next>> /\ View(c)' = View(c)
      /\ (txn[c] => lock'[c] # "none")
    BY ReadingStep
<1>2. ClientTyped /\ ProcessInv(c)
    BY DEF ScriptInv, TypeOK, ClientTyped
<1>3. InBlock(script[c], next[c]) => txn[c]
    BY <1>1, <1>2 DEF ProcessInv, ControlInv, Running
<1>4. SameBlock(script[c], next[c], next[c]) => lock'[c] # "none"
    BY <1>1, <1>3 DEF SameBlock
<1>5. QED
    BY <1>1, <1>4 DEF StillCurrent, OfOthers

\* What the reads of one block have in common is decided when they are made.
LEMMA OneStateKept ==
    ASSUME ScriptInv, NEW c \in Connections, OneState(c), script'[c] = script[c],
           \A read \in History(c) : StillCurrent(c, read),
           \A read \in History(c)' :
               read \in History(c) \/ (Reading(c) /\ read = <<next[c], View(c)>>)
    PROVE  OneState(c)'
<1> DEFINE s == script[c]
           n == next[c]
<1>1. ClientTyped
    BY DEF ScriptInv, TypeOK, ClientTyped
<1>2. \A read \in History(c) : read[1] \in Nat /\ read[1] <= n
  <2>1. n \in Nat
    BY <1>1 DEF ClientTyped
  <2>2. QED
    BY <1>1, <2>1, HistoryTyped
<1> SUFFICES ASSUME NEW a \in History(c)', NEW b \in History(c)',
                    a[1] <= b[1], SameBlock(s, a[1], b[1])
             PROVE  OfOthers(c, a[2]) = OfOthers(c, b[2])
    BY DEF OneState, OfOthers
<1>3. CASE a \in History(c) /\ b \in History(c)
    BY <1>3 DEF OneState
<1>4. CASE a \in History(c) /\ Reading(c) /\ b = <<n, View(c)>>
  <2>1. pc[c] \in {"run", "follow_up"}
    BY <1>4, ReadingStep
  <2>2. b[1] = n /\ b[2] = View(c)
    BY <1>4
  <2>3. QED
    BY <1>4, <2>1, <2>2 DEF StillCurrent
<1>5. CASE Reading(c) /\ a = <<n, View(c)>> /\ b \in History(c)
  <2>1. pc[c] \in {"run", "follow_up"}
    BY <1>5, ReadingStep
  <2>2. a[1] = n /\ a[2] = View(c)
    BY <1>5
  <2>3. b[1] = n
    <3>1. n \in Nat
      BY <1>1 DEF ClientTyped
    <3>2. QED
      BY <1>2, <1>5, <2>2, <3>1
  <2>4. SameBlock(s, b[1], n)
    BY <2>2, <2>3
  <2>5. QED
    BY <1>5, <2>1, <2>2, <2>4 DEF StillCurrent
<1>6. CASE Reading(c) /\ a = <<n, View(c)>> /\ b = <<n, View(c)>>
    BY <1>6
<1>7. QED
    BY <1>3, <1>4, <1>5, <1>6

\* A script is replaced only before anything of it was executed.
LEMMA ScriptKept ==
    ASSUME ScriptInv, NEW c \in Connections, Step(c)
    PROVE  \/ script' = script
           \/ /\ script[c] = <<>> /\ pc[c] = "idle"
              /\ \A d \in Connections \ {c} : script'[d] = script[d]
<1>1. ClientTyped /\ ProcessInv(c)
    BY DEF ScriptInv, TypeOK, ClientTyped
<1>2. ASSUME NEW text \in Scripts, AcceptScript(c, text)
      PROVE  /\ script[c] = <<>> /\ pc[c] = "idle"
             /\ \A d \in Connections \ {c} : script'[d] = script[d]
    BY <1>1, <1>2 DEF AcceptScript, ProcessInv, ControlInv, ClientTyped
<1>3. CASE \/ \E text \in Scripts : RejectScript(c, text)
           \/ Select(c) \/ FollowUp(c) \/ FinishSelect(c) \/ WriteStatement(c)
           \/ StartTransaction(c) \/ CommitTransaction(c) \/ RollbackTransaction(c)
           \/ CommitBusyFails(c) \/ StatementFails(c) \/ ReturnError(c)
           \/ CloseConnection(c) \/ Crash(c)
    BY <1>3 DEF RejectScript, Select, FollowUp, FinishSelect, WriteStatement, StartTransaction,
        CommitTransaction, RollbackTransaction, CommitBusyFails, StatementFails, ReturnError,
        CloseConnection, Crash, Advance, GiveUp
<1>4. QED
    BY <1>2, <1>3 DEF Step

\* A read stays what it was: what it has of others is about scripts that stay.
LEMMA OthersReadKept ==
    ASSUME ScriptInv, NEW c \in Connections, Step(c), NEW d \in Connections,
           NEW read, OthersRead(d, read)
    PROVE  OthersRead(d, read)'
<1>1. ASSUME NEW e \in Connections \ {d}, NEW k \in Nat, <<e, k>> \in read[2]
      PROVE  script'[e] = script[e]
  <2>1. k \in CommittedWrites(script[e])
    BY <1>1 DEF OthersRead
  <2>2. script[e] # <<>>
    BY <2>1 DEF CommittedWrites
  <2>3. QED
    BY <2>2, ScriptKept
<1>2. QED
    BY <1>1 DEF OthersRead, EffectsOf

-----------------------------------------------------------------------------
\* The invariant.

\* Of the process that takes the step, ...
LEMMA OwnReadsKept ==
    ASSUME ScriptInv, ScriptInv', NEW c \in Connections, Step(c),
           \A d \in Connections : ReadsInv(d)
    PROVE  ReadsInv(c)'
<1>1. /\ ClientTyped /\ ProcessInv(c) /\ ReadsInv(c) /\ ShapeInv(c)
      /\ \A d \in Connections : UnitsInFile(d)
    BY DEF ScriptInv, TypeOK, ClientTyped, ReadsInv
<1>2. /\ ShapeInv(c)'
      /\ \A read \in History(c)' :
            read \in History(c) \/ (Reading(c) /\ read = <<next[c], View(c)>>)
    BY <1>1, StepHistory
<1>3. UnitsInFile(c)'
    BY <1>1, UnitsKept
<1>4. CASE script'[c] = script[c]
  <2>1. OneState(c)'
    BY <1>1, <1>2, <1>4, OneStateKept DEF ReadsInv
  <2>2. ASSUME NEW read \in History(c)
        PROVE  OwnRead(c, read)' /\ OthersRead(c, read)' /\ StillCurrent(c, read)'
    <3>1. OwnRead(c, read) /\ OthersRead(c, read) /\ StillCurrent(c, read)
      BY <1>1 DEF ReadsInv
    <3>2. OwnRead(c, read)'
      BY <1>4, <3>1 DEF OwnRead
    <3>3. read[1] \in 1..next[c]
      BY <1>1, HistoryTyped
    <3>4. QED
      BY <1>4, <3>1, <3>2, <3>3, OthersReadKept, CurrentKept
  <2>3. ASSUME NEW read, Reading(c), read = <<next[c], View(c)>>
        PROVE  OwnRead(c, read)' /\ OthersRead(c, read)' /\ StillCurrent(c, read)'
    <3>1. OwnRead(c, read) /\ OthersRead(c, read)
      BY <1>1, <2>3, NewRead
    <3>2. OwnRead(c, read)'
      BY <1>4, <3>1 DEF OwnRead
    <3>3. QED
      BY <2>3, <3>1, <3>2, OthersReadKept, NewReadCurrent
  <2>4. QED
    BY <1>2, <1>3, <2>1, <2>2, <2>3 DEF ReadsInv
<1>5. CASE script'[c] # script[c]
  <2>1. pc[c] = "idle" /\ script[c] = <<>>
    BY <1>5, ScriptKept
  <2>2. ~Reading(c)
    BY <2>1 DEF Reading, Select, FollowUp
  <2>3. History(c) = {}
    <3>1. next[c] = 1 /\ reads[c] = <<>>
      BY <1>1, <2>1 DEF ProcessInv, ControlInv, ShapeInv
    <3>2. results[c] \in Seq(Seq(Content))
      BY <1>1 DEF ClientTyped
    <3>3. Len(results[c]) = 0 \/ results[c] = <<>>
      BY <1>1, <3>1 DEF ShapeInv
    <3>4. ~(1 \in DOMAIN results[c])
      BY <3>2, <3>3
    <3>5. ToSet(<<>>) = {}
      BY DEF ToSet
    <3>6. ReadsAt(c, 1) = {} /\ 1..next[c] = {1}
      BY <3>1, <3>4, <3>5 DEF ReadsAt
    <3>7. QED
      BY <3>6 DEF History
  <2>4. History(c)' = {}
    BY <1>2, <2>2, <2>3
  <2>5. QED
    BY <1>2, <1>3, <2>4 DEF ReadsInv, OneState
<1>6. QED
    BY <1>4, <1>5

\* ... and of all others.
LEMMA OtherReadsKept ==
    ASSUME ScriptInv, ScriptInv', NEW c \in Connections, Step(c), ReadsInv(c),
           NEW d \in Connections \ {c}, ReadsInv(d)
    PROVE  ReadsInv(d)'
<1>1. /\ ClientTyped /\ ProcessInv(c) /\ ShapeInv(c) /\ TypeOK'
    BY DEF ScriptInv, TypeOK, ClientTyped, ReadsInv
<1>2. Frame(c) /\ AddsOwnEffects(c)
    BY <1>1, StepKeeps
<1>3. /\ UNCHANGED <<txn[d], lock[d], work[d], pc[d], script[d], next[d]>>
      /\ reads'[d] = reads[d] /\ results'[d] = results[d]
    BY <1>1, <1>2, StepHistory DEF Frame
<1>4. History(d)' = History(d)
    BY <1>3, HistoryUnchanged
<1>5. InFile(d)' = InFile(d)
    BY <1>2, InFileUnchanged, InFileGrows DEF AddsOwnEffects
<1>6. disk' = disk \/ lock[d] = "none"
    BY <1>2 DEF AddsOwnEffects, CanWriteBack, Others
<1>7. ShapeInv(d)' /\ UnitsInFile(d)' /\ OneState(d)'
    BY <1>3, <1>4, <1>5 DEF ReadsInv, ShapeInv, UnitsInFile, OneState, OfOthers
<1>8. lock[d] # "none" => View(d)' = View(d)
    BY <1>3, <1>6 DEF View
<1>9. ASSUME NEW read \in History(d)
      PROVE  OwnRead(d, read)' /\ OthersRead(d, read)' /\ StillCurrent(d, read)'
  <2>1. OwnRead(d, read) /\ OthersRead(d, read) /\ StillCurrent(d, read)
    BY DEF ReadsInv
  <2>2. OwnRead(d, read)'
    BY <1>3, <2>1 DEF OwnRead
  <2>3. StillCurrent(d, read)'
    BY <1>3, <1>8, <2>1 DEF StillCurrent, OfOthers
  <2>4. QED
    BY <2>1, <2>2, <2>3, OthersReadKept
<1>10. QED
    BY <1>4, <1>7, <1>9 DEF ReadsInv

\* Scripts start without having read or written.
THEOREM InitIsolation == Init => IsolationInv
<1> SUFFICES ASSUME Init, NEW c \in Connections PROVE ReadsInv(c)
    BY InitScript DEF IsolationInv
<1>1. /\ disk = {} /\ pc[c] = "idle" /\ next[c] = 1 /\ reads[c] = <<>> /\ results[c] = <<>>
    BY DEF Init, SqliteInit
<1>2. ToSet(<<>>) = {} /\ DOMAIN <<>> = {} /\ Len(<<>>) = 0
    BY DEF ToSet
<1>3. History(c) = {}
    BY <1>1, <1>2 DEF History, ReadsAt
<1>4. InFile(c) = {}
    BY <1>1 DEF InFile
<1>5. QED
    BY <1>1, <1>2, <1>3, <1>4 DEF ReadsInv, ShapeInv, UnitsInFile, OneState

\* Every statement, rollback and crash keeps reads and writes in their blocks.
THEOREM StepIsolation == IsolationInv /\ [Next]_vars => IsolationInv'
<1> SUFFICES ASSUME ScriptInv, ScriptInv', \A c \in Connections : ReadsInv(c), [Next]_vars,
                    NEW d \in Connections
             PROVE  ReadsInv(d)'
    BY StepScript DEF IsolationInv
<1>1. ASSUME NEW c \in Connections, Step(c)
      PROVE  ReadsInv(d)'
    BY <1>1, OwnReadsKept, OtherReadsKept
<1>2. CASE UNCHANGED vars
  <2>1. UNCHANGED <<disk, txn, lock, work, pc, script, next, reads, results>>
    BY <1>2 DEF vars, sqliteVars, clientVars
  <2>2. History(d)' = History(d) /\ InFile(d)' = InFile(d) /\ View(d)' = View(d)
    BY <2>1, HistoryUnchanged, InFileUnchanged DEF View
  <2>3. QED
    BY <2>1, <2>2 DEF ReadsInv, ShapeInv, UnitsInFile, OneState, OwnRead, OthersRead,
       StillCurrent, OfOthers, EffectsOf
<1>3. QED
    BY <1>1, <1>2 DEF Next

LEMMA ScriptDomain ==
    ASSUME ClientTyped, NEW c \in Connections
    PROVE  DOMAIN script[c] \subseteq Nat
<1>1. script[c] \in Scripts \/ script[c] = <<>>
    BY DEF ClientTyped
<1>2. CASE script[c] \in Scripts
  <2>1. script[c] \in Seq(Ops)
    BY <1>2, ScriptsAssumption
  <2>2. QED
    BY <2>1
<1>3. QED
    BY <1>1, <1>2

\* What each script read and wrote stays accounted for in every reachable state.
THEOREM IsolationInvariant == Spec => []IsolationInv
BY InitIsolation, StepIsolation, PTL DEF Spec

-----------------------------------------------------------------------------
\* All selects of a transaction block read one state of the other processes'
\* changes, in which their blocks are there as a whole or not at all.
THEOREM BlocksIsolated == Spec => []BlocksAreIsolated
<1>1. IsolationInv => BlocksReadOneState
  <2> SUFFICES ASSUME IsolationInv, NEW c \in Connections,
                      NEW i \in 1..next[c], NEW j \in 1..next[c],
                      i <= j, SameBlock(script[c], i, j),
                      NEW a \in ReadsAt(c, i), NEW b \in ReadsAt(c, j)
               PROVE  OfOthers(c, a) = OfOthers(c, b)
      BY DEF BlocksReadOneState
  <2>1. <<i, a>> \in History(c) /\ <<j, b>> \in History(c)
    BY DEF History
  <2>2. OneState(c)
    BY DEF IsolationInv, ReadsInv
  <2>3. QED
    BY <2>1, <2>2 DEF OneState
<1>2. IsolationInv => NoPartialBlockRead
  <2> SUFFICES ASSUME IsolationInv, NEW c \in Connections,
                      NEW i \in 1..next[c], NEW content \in ReadsAt(c, i),
                      NEW d \in Connections \ {c}, NEW k \in DOMAIN script[d],
                      <<d, k>> \in content
               PROVE  EffectsOf(d, Unit(script[d], k)) \subseteq content
      BY DEF NoPartialBlockRead
  <2>1. <<i, content>> \in History(c)
    BY DEF History
  <2>2. OthersRead(c, <<i, content>>)
    BY <2>1 DEF IsolationInv, ReadsInv
  <2>3. k \in Nat
    BY ScriptDomain DEF IsolationInv, ScriptInv, TypeOK, ClientTyped
  <2>4. QED
    BY <2>2, <2>3 DEF OthersRead
<1>3. QED
    BY <1>1, <1>2, IsolationInvariant, PTL DEF BlocksAreIsolated

\* A select of a script reads exactly the script's own changes that have been
\* committed before it or belong to the block it is in.
THEOREM OwnWritesAreRead == Spec => []ReadsOwnWrites
<1>1. IsolationInv => ReadsOwnWrites
  <2> SUFFICES ASSUME IsolationInv, NEW c \in Connections,
                      NEW j \in 1..next[c], NEW content \in ReadsAt(c, j),
                      NEW i \in DOMAIN script[c], script[c][i] = "write"
               PROVE  <<c, i>> \in content
                          <=> i < j /\ (Committed(script[c], i) \/ SameBlock(script[c], i, j))
      BY DEF ReadsOwnWrites
  <2>1. <<j, content>> \in History(c)
    BY DEF History
  <2>2. OwnRead(c, <<j, content>>)
    BY <2>1 DEF IsolationInv, ReadsInv
  <2>3. i \in Nat
    BY ScriptDomain DEF IsolationInv, ScriptInv, TypeOK, ClientTyped
  <2>4. <<c, i>> \in content <=> i \in Settled(script[c], j) \cup Pending(script[c], j)
    BY <2>2, <2>3 DEF OwnRead
  <2>5. QED
    BY <2>4 DEF Settled, Pending, CommittedWrites
<1>2. QED
    BY <1>1, IsolationInvariant, PTL

=============================================================================
