-------------------------- MODULE ReplSessionProofs --------------------------
(***************************************************************************)
(* Proofs about ReplSession, for any sessions, inputs and arguments.       *)
(*                                                                         *)
(* Two facts carry them.  A session with a write lock has a copy that is   *)
(* the file and the changes reported since the start of its transaction,   *)
(* because nobody else can change the file meanwhile.  And a change is     *)
(* never made twice: all that were made belong to earlier inputs, or to    *)
(* earlier queries of the input that is running.  The last part proves     *)
(* that a transaction entered as one input reaches the file as a whole.    *)
(***************************************************************************)
EXTENDS ReplSession, CommonProofs

\* What the messages of session c have to do with its connection.
KnowledgeInv(c) ==
    /\ known[c] = "open" => txn[c]
    /\ known[c] = "closed" => ~txn[c]
    /\ txn[c] => block[c] = Uncommitted(c)
    /\ lock[c] \in WriteLocks => disk \subseteq work[c]

\* The change was made by a query that is over.
IsPast(change) ==
    LET c == change[1]
    IN  \/ change[2] < Len(inputs[c])
        \/ change[2] = Len(inputs[c]) /\ (pc[c] = "running" => change[3] < next[c])

AllPast ==
    /\ \A change \in disk : IsPast(change)
    /\ \A c \in Connections : \A change \in block[c] : IsPast(change)

InputsBounded(c) ==
    /\ Len(inputs[c]) <= MaxInputs[c]
    /\ \A i \in DOMAIN inputs[c] : Len(inputs[c][i]) <= MaxQueries

SessionInv ==
    /\ TypeOK
    /\ AllPast
    /\ \A c \in Connections : KnowledgeInv(c) /\ InputsBounded(c)

-----------------------------------------------------------------------------
\* Type correctness, split into the variables of Sqlite and those of the sessions.

SessionTyped ==
    /\ pc \in [Connections -> PcValues]
    /\ interactive \in [Connections -> BOOLEAN]
    /\ pending = [c \in Connections |-> pending[c]]
    /\ interrupts \in [Connections -> 0..2]
    /\ inputs \in [Connections -> Seq(Seq(Queries))]
    /\ next \in [Connections -> Nat \ {0}]
    /\ known \in [Connections -> Knowledge]
    /\ block \in [Connections -> Content]
    /\ \A c \in Connections :
          /\ pc[c] = "prompt" => interactive[c]
          /\ pc[c] # "leaving" => interrupts[c] < 2
          /\ pc[c] = "running" => inputs[c] # <<>>

LEMMA TypeOKSplit ==
    TypeOK <=> SqliteTyped(Content) /\ SessionTyped /\ \A c \in Connections : txn[c] => interactive[c]
BY DEF TypeOK, SqliteTyped, SessionTyped

\* What a step of session c leaves alone, and what has been made stays made.
SessionFrame(c) ==
    \A d \in Connections \ {c} :
        /\ pc'[d] = pc[d] /\ interactive'[d] = interactive[d] /\ inputs'[d] = inputs[d]
        /\ next'[d] = next[d] /\ known'[d] = known[d] /\ block'[d] = block[d]

Changes == Connections \X (Nat \ {0}) \X (Nat \ {0})

PastStays == \A change \in Changes : IsPast(change) => IsPast(change)'

LEMMA PastStaysBy ==
    ASSUME SessionTyped, NEW c \in Connections, SessionFrame(c),
           \/ /\ inputs'[c] = inputs[c]
              /\ pc'[c] = "running" => pc[c] = "running" /\ next'[c] \in Nat /\ next[c] <= next'[c]
           \/ Len(inputs'[c]) = Len(inputs[c]) + 1
    PROVE  PastStays
<1> SUFFICES ASSUME NEW change \in Changes, IsPast(change) PROVE IsPast(change)'
    BY DEF PastStays
<1>1. change[1] \in Connections /\ change[2] \in Nat /\ change[3] \in Nat
    BY DEF Changes
<1>2. Len(inputs[change[1]]) \in Nat /\ next[change[1]] \in Nat
    BY <1>1 DEF SessionTyped
<1>3. CASE change[1] = c
    BY <1>1, <1>2, <1>3 DEF IsPast
<1>4. CASE change[1] # c
    BY <1>1, <1>4 DEF IsPast, SessionFrame
<1>5. QED
    BY <1>3, <1>4

\* Nothing is made but by queries that are over.
LEMMA AllPastBy ==
    ASSUME SessionTyped, SessionTyped', disk \in Content, disk' \in Content, AllPast, PastStays,
           NEW c \in Connections, SessionFrame(c),
           \A change \in disk' \cup block'[c] : change \in disk \cup block[c] \/ IsPast(change)'
    PROVE  AllPast'
<1>1. \A change \in disk' : IsPast(change)'
    BY DEF AllPast, PastStays, Content, Changes
<1>2. \A change \in block'[c] : IsPast(change)'
    BY DEF AllPast, PastStays, Content, Changes, SessionTyped
<1>3. ASSUME NEW d \in Connections, d # c, NEW change \in block'[d]
      PROVE  IsPast(change)'
    BY <1>3 DEF AllPast, PastStays, Content, Changes, SessionTyped, SessionFrame
<1>4. QED
    BY <1>1, <1>2, <1>3 DEF AllPast

-----------------------------------------------------------------------------
\* What the parts of the sessions' actions do.

LEMMA AppendedTo ==
    ASSUME NEW S, NEW s \in Seq(S), NEW e \in S
    PROVE  /\ Append(s, e) \in Seq(S) /\ Append(s, e) # <<>>
           /\ Len(Append(s, e)) = Len(s) + 1
           /\ \A i \in DOMAIN Append(s, e) : Append(s, e)[i] = IF i \in DOMAIN s THEN s[i] ELSE e
OBVIOUS

LEMMA TakeKeeps ==
    ASSUME SessionTyped, NEW c \in Connections, NEW queries \in Seq(Queries),
           Len(queries) <= MaxQueries, InputsBounded(c), Take(c, queries),
           UNCHANGED <<interactive, known, block>>,
           pending' = [d \in Connections |-> pending'[d]],
           interrupts' \in [Connections -> 0..2], interrupts'[c] < 2,
           \A d \in Connections \ {c} : interrupts'[d] = interrupts[d]
    PROVE  SessionTyped' /\ SessionFrame(c) /\ PastStays /\ InputsBounded(c)'
<1>1. /\ Len(inputs[c]) < MaxInputs[c]
      /\ inputs' = [inputs EXCEPT ![c] = Append(inputs[c], queries)]
      /\ next' = [next EXCEPT ![c] = 1]
      /\ pc' = [pc EXCEPT ![c] = "running"]
    BY DEF Take, Goto
<1>2. inputs[c] \in Seq(Seq(Queries)) /\ Len(inputs[c]) \in Nat
    BY DEF SessionTyped
<1>3. /\ Append(inputs[c], queries) \in Seq(Seq(Queries))
      /\ Append(inputs[c], queries) # <<>>
      /\ Len(Append(inputs[c], queries)) = Len(inputs[c]) + 1
      /\ \A i \in DOMAIN Append(inputs[c], queries) :
             Append(inputs[c], queries)[i] = IF i \in DOMAIN inputs[c] THEN inputs[c][i] ELSE queries
    BY <1>2, AppendedTo
<1>4. inputs'[c] = Append(inputs[c], queries)
    BY <1>1 DEF SessionTyped
<1>5. SessionTyped'
  <2>1. inputs' \in [Connections -> Seq(Seq(Queries))]
    BY <1>1, <1>3 DEF SessionTyped
  <2>2. next' \in [Connections -> Nat \ {0}] /\ pc' \in [Connections -> PcValues]
    BY <1>1 DEF SessionTyped, PcValues
  <2>3. \A d \in Connections :
            /\ pc'[d] = "prompt" => interactive'[d]
            /\ pc'[d] # "leaving" => interrupts'[d] < 2
            /\ pc'[d] = "running" => inputs'[d] # <<>>
    BY <1>1, <1>3, <1>4 DEF SessionTyped
  <2>4. QED
    BY <2>1, <2>2, <2>3 DEF SessionTyped
<1>6. SessionFrame(c)
    BY <1>1 DEF SessionTyped, SessionFrame
<1>7. PastStays
    BY <1>3, <1>4, <1>6, PastStaysBy
<1>8. InputsBounded(c)'
  <2>1. MaxInputs[c] \in Nat
    BY BoundsAssumption
  <2>2. Len(inputs'[c]) <= MaxInputs[c]
    BY <1>1, <1>2, <1>3, <1>4, <2>1
  <2>3. \A i \in DOMAIN inputs'[c] : Len(inputs'[c][i]) <= MaxQueries
    BY <1>3, <1>4 DEF InputsBounded
  <2>4. QED
    BY <2>2, <2>3 DEF InputsBounded
<1>9. QED
    BY <1>5, <1>6, <1>7, <1>8

LEMMA AdvanceKeeps ==
    ASSUME SessionTyped, NEW c \in Connections, Running(c), Advance(c), InputsBounded(c),
           known' \in [Connections -> Knowledge], block' \in [Connections -> Content],
           \A d \in Connections \ {c} : known'[d] = known[d] /\ block'[d] = block[d]
    PROVE  /\ SessionTyped' /\ SessionFrame(c) /\ PastStays /\ InputsBounded(c)'
           /\ \A change : change = ThisChange(c) => IsPast(change)'
           /\ interactive' = interactive
<1>1. /\ next' = [next EXCEPT ![c] = next[c] + 1]
      /\ UNCHANGED <<pc, interactive, pending, interrupts, inputs>>
    BY DEF Advance
<1>2. next[c] \in Nat \ {0} /\ next[c] + 1 \in Nat \ {0} /\ next'[c] = next[c] + 1
    BY <1>1 DEF SessionTyped
<1>3. SessionTyped'
    BY <1>1, <1>2 DEF SessionTyped
<1>4. SessionFrame(c)
    BY <1>1 DEF SessionTyped, SessionFrame
<1>5. PastStays
    BY <1>1, <1>2, <1>4, PastStaysBy
<1>6. \A change : change = <<c, Len(inputs[c]), next[c]>> => IsPast(change)'
    BY <1>1, <1>2 DEF IsPast
<1>7. InputsBounded(c)'
    BY <1>1 DEF InputsBounded
<1>8. QED
    BY <1>1, <1>3, <1>4, <1>5, <1>6, <1>7 DEF ThisChange

LEMMA StopKeeps ==
    ASSUME SessionTyped, NEW c \in Connections, pc[c] = "running", Stop(c), InputsBounded(c),
           known' \in [Connections -> Knowledge], block' = block,
           \A d \in Connections \ {c} : known'[d] = known[d]
    PROVE  SessionTyped' /\ SessionFrame(c) /\ PastStays /\ InputsBounded(c)' /\ interactive' = interactive
<1>1. /\ pc' = [pc EXCEPT ![c] = IF interactive[c] THEN "prompt" ELSE "leaving"]
      /\ next' = [next EXCEPT ![c] = 1]
      /\ UNCHANGED <<interactive, pending, interrupts, inputs>>
    BY DEF Stop, Goto
<1>2. SessionTyped'
    BY <1>1 DEF SessionTyped, PcValues
<1>3. SessionFrame(c)
    BY <1>1 DEF SessionTyped, SessionFrame
<1>4. PastStays
    BY <1>1, <1>3, PastStaysBy DEF SessionTyped
<1>5. InputsBounded(c)'
    BY <1>1 DEF InputsBounded
<1>6. QED
    BY <1>1, <1>2, <1>3, <1>4, <1>5

\* The session goes on to another place, or is over.
LEMMA GotoKeeps ==
    ASSUME SessionTyped, SessionTyped', NEW c \in Connections, InputsBounded(c), SessionFrame(c),
           inputs'[c] = inputs[c], pc'[c] # "running"
    PROVE  PastStays /\ InputsBounded(c)'
BY PastStaysBy DEF InputsBounded

-----------------------------------------------------------------------------
\* What a step of session c comes to.
Moves(c) ==
    /\ SqliteTyped(Content)' /\ SessionTyped'
    /\ SqliteFrame(c) /\ SessionFrame(c)
    /\ disk' = disk \/ CanWriteBack(c)
    /\ txn'[c] => interactive'[c]
    /\ KnowledgeInv(c)' /\ InputsBounded(c)' /\ AllPast'

\* What is assumed of the state before it.
Ready(c) ==
    /\ SqliteTyped(Content) /\ SessionTyped /\ AllPast
    /\ txn[c] => interactive[c]
    /\ KnowledgeInv(c) /\ InputsBounded(c)

\* Steps the connection takes no part in.
LEMMA SessionOnly ==
    ASSUME NEW c \in Connections, Ready(c), UNCHANGED <<sqliteVars, known, block>>,
           SessionTyped', SessionFrame(c), PastStays, InputsBounded(c)',
           interactive[c] => interactive'[c]
    PROVE  Moves(c)
<1>1. SqliteTyped(Content)' /\ SqliteFrame(c) /\ disk' = disk
    BY SqliteUnchangedTyped DEF Ready, sqliteVars, SqliteFrame
<1>2. txn'[c] => interactive'[c]
    BY DEF Ready, sqliteVars
<1>3. KnowledgeInv(c)'
    BY DEF Ready, KnowledgeInv, Uncommitted, sqliteVars
<1>4. AllPast'
    BY <1>1, AllPastBy DEF Ready, SqliteTyped
<1>5. QED
    BY <1>1, <1>2, <1>3, <1>4 DEF Moves

LEMMA PromptMoves ==
    ASSUME NEW c \in Connections, Ready(c),
           Open(c) \/ Interrupt(c) \/ EndOfInput(c) \/ Exit(c)
    PROVE  Moves(c)
<1>1. /\ UNCHANGED <<sqliteVars, known, block, inputs, next>>
      /\ pc'[c] # "running"
    BY DEF Ready, SessionTyped, Open, Interrupt, EndOfInput, Exit, Goto
<1>2. SessionFrame(c) /\ (interactive[c] => interactive'[c])
    BY DEF Ready, SessionTyped, SessionFrame, Open, Interrupt, EndOfInput, Exit, Goto
<1>3. SessionTyped'
  <2>1. CASE Open(c)
    BY <2>1 DEF Ready, SessionTyped, Open, Goto, PcValues
  <2>2. CASE Interrupt(c)
    <3>1. pc[c] = "prompt" /\ interrupts[c] \in 0..2 /\ interrupts[c] < 2
      BY <2>2 DEF Ready, SessionTyped, Interrupt
    <3>2. interrupts' = [interrupts EXCEPT ![c] = interrupts[c] + 1] /\ interrupts[c] + 1 \in 0..2
      BY <2>2, <3>1 DEF Interrupt
    <3>3. interrupts' \in [Connections -> 0..2]
      BY <3>2 DEF Ready, SessionTyped
    <3>4. pc' = [pc EXCEPT ![c] = IF interrupts[c] >= 1 THEN "leaving" ELSE "prompt"]
      BY <2>2 DEF Interrupt, Goto
    <3>5. \A d \in Connections :
            /\ pc'[d] = "prompt" => interactive[d]
            /\ pc'[d] # "leaving" => interrupts'[d] < 2
            /\ pc'[d] = "running" => inputs[d] # <<>>
      BY <3>1, <3>2, <3>4 DEF Ready, SessionTyped
    <3>6. pending' = [d \in Connections |-> pending'[d]]
      BY <2>2 DEF Interrupt, Ready, SessionTyped
    <3>7. QED
      BY <2>2, <3>3, <3>4, <3>5, <3>6 DEF Interrupt, Ready, SessionTyped, PcValues
  <2>3. CASE EndOfInput(c)
    BY <2>3 DEF Ready, SessionTyped, EndOfInput, Goto, PcValues
  <2>4. CASE Exit(c)
    BY <2>4 DEF Ready, SessionTyped, Exit, Goto, PcValues
  <2>5. QED
    BY <2>1, <2>2, <2>3, <2>4
<1>4. QED
    BY <1>1, <1>2, <1>3, GotoKeeps, SessionOnly DEF Ready

LEMMA InputMoves ==
    ASSUME NEW c \in Connections, Ready(c),
           \/ \E query \in Arguments : RunArgument(c, query)
           \/ \E input \in Inputs : Enter(c, input)
    PROVE  Moves(c)
<1>1. ASSUME NEW query \in Arguments, RunArgument(c, query)
      PROVE  Moves(c)
  <2>1. query \in Queries /\ <<query>> \in Seq(Queries) /\ Len(<<query>>) <= MaxQueries
    BY ArgumentsAssumption, BoundsAssumption
  <2>2. /\ Take(c, <<query>>) /\ pc[c] = "closed"
        /\ UNCHANGED <<sqliteVars, interactive, pending, interrupts, known, block>>
    BY <1>1 DEF RunArgument
  <2>3. SessionTyped' /\ SessionFrame(c) /\ PastStays /\ InputsBounded(c)'
    BY <2>1, <2>2, TakeKeeps DEF Ready, SessionTyped
  <2>4. QED
    BY <2>2, <2>3, SessionOnly
<1>2. ASSUME NEW input \in Inputs, Enter(c, input)
      PROVE  Moves(c)
  <2>1. input.queries \in Seq(Queries) /\ Len(input.queries) <= MaxQueries
    BY InputsAssumption
  <2>2. /\ Take(c, input.queries)
        /\ UNCHANGED <<sqliteVars, interactive, known, block>>
        /\ pending' = [pending EXCEPT ![c] = input.after]
        /\ interrupts' = [interrupts EXCEPT ![c] = 0]
    BY <1>2 DEF Enter
  <2>3. pending' = [d \in Connections |-> pending'[d]]
    BY <2>2 DEF Ready, SessionTyped
  <2>4. interrupts \in [Connections -> 0..2] /\ SessionTyped /\ InputsBounded(c)
    BY DEF Ready, SessionTyped
  <2>5. /\ interrupts' \in [Connections -> 0..2] /\ interrupts'[c] < 2
        /\ \A d \in Connections \ {c} : interrupts'[d] = interrupts[d]
    BY <2>2, <2>4
  <2>6. SessionTyped' /\ SessionFrame(c) /\ PastStays /\ InputsBounded(c)'
    BY <2>1, <2>2, <2>3, <2>4, <2>5, TakeKeeps
  <2>7. QED
    BY <2>2, <2>6, SessionOnly
<1>3. QED
    BY <1>1, <1>2

LEMMA StopMoves ==
    ASSUME NEW c \in Connections, Ready(c), FinishInput(c) \/ Refuse(c)
    PROVE  Moves(c)
<1>1. pc[c] = "running" /\ Stop(c) /\ UNCHANGED <<sqliteVars, known, block>>
    BY DEF FinishInput, Refuse, Running
<1>2. QED
    BY <1>1, StopKeeps, SessionOnly DEF Ready, SessionTyped

-----------------------------------------------------------------------------
\* Statements.

LEMMA SelectMoves ==
    ASSUME NEW c \in Connections, Ready(c), Select(c)
    PROVE  Moves(c)
<1>1. Running(c) /\ Advance(c) /\ UNCHANGED <<known, block>>
      /\ IF txn[c] THEN Read(c) ELSE AutocommitRead(c)
    BY DEF Select, Runs, ReadNow
<1>2. /\ SqliteTyped(Content)' /\ SqliteFrame(c) /\ UNCHANGED <<disk, txn, work>>
      /\ lock'[c] \in WriteLocks <=> lock[c] \in WriteLocks
    BY <1>1, ReadTyped DEF Ready
<1>3. SessionTyped' /\ SessionFrame(c) /\ PastStays /\ InputsBounded(c)' /\ interactive' = interactive
    BY <1>1, AdvanceKeeps DEF Ready, SessionTyped
<1>4. KnowledgeInv(c)'
    BY <1>1, <1>2 DEF Ready, KnowledgeInv, Uncommitted
<1>5. AllPast'
    BY <1>1, <1>2, <1>3, AllPastBy DEF Ready, SqliteTyped
<1>6. QED
    BY <1>2, <1>3, <1>4, <1>5 DEF Moves, Ready

\* A change is a new one.
LEMMA ThisChangeIsNew ==
    ASSUME SessionTyped, AllPast, NEW c \in Connections, Running(c)
    PROVE  /\ ThisChange(c) \in Changes /\ ThisChange(c) \notin disk
           /\ \A d \in Connections : ThisChange(c) \notin block[d]
<1>1. /\ inputs[c] \in Seq(Seq(Queries)) /\ inputs[c] # <<>>
      /\ next[c] \in Nat \ {0} /\ pc[c] = "running"
    BY DEF SessionTyped, Running
<1>2. Len(inputs[c]) \in Nat \ {0}
    BY <1>1
<1>3. ThisChange(c) \in Changes
    BY <1>1, <1>2 DEF ThisChange, Changes
<1>4. ~IsPast(ThisChange(c))
    BY <1>1, <1>2 DEF IsPast, ThisChange
<1>5. QED
    BY <1>3, <1>4 DEF AllPast

LEMMA ChangeMoves ==
    ASSUME NEW c \in Connections, Ready(c), Change(c)
    PROVE  Moves(c)
<1> DEFINE change == ThisChange(c)
           content == View(c) \cup {change}
<1>1. /\ Running(c) /\ Advance(c) /\ known' = known
      /\ IF txn[c] THEN Write(c, content) ELSE AutocommitWrite(c, content)
      /\ block' = [block EXCEPT ![c] = IF known[c] = "closed" THEN {} ELSE block[c] \cup {change}]
    BY DEF Change, Runs
<1>2. /\ change \in Changes /\ change \notin disk
      /\ \A d \in Connections : change \notin block[d]
    BY <1>1, ThisChangeIsNew DEF Ready
<1>3. content \in Content
  <2>1. View(c) \in Content
    BY ViewTyped DEF Ready
  <2>2. QED
    BY <1>2, <2>1 DEF Content, Changes
<1> HIDE DEF content
<1>4. /\ SqliteTyped(Content)' /\ SqliteFrame(c) /\ txn' = txn
      /\ txn[c] => disk' = disk /\ lock'[c] \in WriteLocks /\ work'[c] = content
      /\ ~txn[c] => CanWriteBack(c) /\ disk' = content /\ UNCHANGED <<lock, work>>
    BY <1>1, <1>3, WriteTyped DEF Ready
<1>5. block'[c] = (IF known[c] = "closed" THEN {} ELSE block[c] \cup {change})
      /\ block' \in [Connections -> Content]
      /\ \A d \in Connections \ {c} : block'[d] = block[d]
    BY <1>1, <1>2 DEF Ready, SessionTyped, Content, Changes
<1>6. /\ SessionTyped' /\ SessionFrame(c) /\ PastStays /\ InputsBounded(c)'
      /\ \A past : past = change => IsPast(past)'
      /\ interactive' = interactive
    BY <1>1, <1>5, AdvanceKeeps DEF Ready, SessionTyped
<1>7. txn[c] => known[c] # "closed"
    BY DEF Ready, KnowledgeInv
<1>8. content = (IF lock[c] \in WriteLocks THEN disk \cup block[c] ELSE disk) \cup {change}
      /\ (txn[c] /\ lock[c] \notin WriteLocks => block[c] = {})
      /\ (txn[c] => block[c] \cap disk = {})
      /\ (~txn[c] => lock[c] = "none")
  <2>1. ~txn[c] => lock[c] = "none"
    BY DEF Ready, SqliteTyped
  <2>2. lock[c] \in WriteLocks => txn[c]
    BY <2>1 DEF WriteLocks
  <2>3. lock[c] \in WriteLocks => work[c] = disk \cup block[c]
    BY <2>2 DEF Ready, KnowledgeInv, Uncommitted
  <2>4. (txn[c] /\ lock[c] \notin WriteLocks => block[c] = {})
        /\ (txn[c] => block[c] \cap disk = {})
    BY DEF Ready, KnowledgeInv, Uncommitted
  <2>5. QED
    BY <2>1, <2>3, <2>4 DEF content, View
<1>9. KnowledgeInv(c)'
  <2>1. CASE txn[c]
    <3>1. /\ disk' = disk /\ lock'[c] \in WriteLocks /\ txn'[c]
          /\ work'[c] = disk \cup block'[c] /\ block'[c] \cap disk = {}
      BY <1>2, <1>4, <1>5, <1>7, <1>8, <2>1
    <3>2. QED
      BY <1>1, <1>7, <2>1, <3>1 DEF Ready, KnowledgeInv, Uncommitted
  <2>2. CASE ~txn[c]
    <3>1. ~txn'[c] /\ lock'[c] = "none"
      BY <1>4, <1>8, <2>2
    <3>2. QED
      BY <1>1, <2>2, <3>1 DEF Ready, KnowledgeInv, WriteLocks
  <2>3. QED
    BY <2>1, <2>2
<1>10. \A past \in disk' \cup block'[c] : past \in disk \cup block[c] \/ IsPast(past)'
  <2>1. disk' \subseteq disk \cup block[c] \cup {change}
    BY <1>4, <1>8
  <2>2. block'[c] \subseteq block[c] \cup {change}
    BY <1>5
  <2>3. QED
    BY <1>6, <2>1, <2>2
<1>11. AllPast'
  <2>1. disk \in Content /\ disk' \in Content
    BY <1>4 DEF Ready, SqliteTyped
  <2>2. QED
    BY <1>6, <1>10, <2>1, AllPastBy DEF Ready
<1>12. QED
  BY <1>4, <1>6, <1>9, <1>11 DEF Moves, Ready

LEMMA CommandAdvances ==
    ASSUME NEW c \in Connections, Ready(c), NEW query, NEW knowledge \in Knowledge,
           Command(c, query, knowledge)
    PROVE  /\ SessionTyped' /\ SessionFrame(c) /\ PastStays /\ InputsBounded(c)'
           /\ interactive' = interactive /\ interactive[c]
           /\ known'[c] = knowledge /\ block'[c] = {}
<1>1. /\ Running(c) /\ Advance(c) /\ interactive[c]
      /\ known' = [known EXCEPT ![c] = knowledge]
      /\ block' = [block EXCEPT ![c] = {}]
    BY DEF Command, Runs
<1>2. /\ known' \in [Connections -> Knowledge] /\ block' \in [Connections -> Content]
      /\ known'[c] = knowledge /\ block'[c] = {}
      /\ \A d \in Connections \ {c} : known'[d] = known[d] /\ block'[d] = block[d]
    BY <1>1 DEF Ready, SessionTyped, Content
<1>3. QED
    BY <1>1, <1>2, AdvanceKeeps DEF Ready

LEMMA StartMoves ==
    ASSUME NEW c \in Connections, Ready(c), StartTransaction(c)
    PROVE  Moves(c)
<1>1. Begin(c) /\ Command(c, "start", "open") /\ "open" \in Knowledge
    BY DEF StartTransaction, Knowledge
<1>2. /\ SqliteTyped(Content)' /\ SqliteFrame(c) /\ ~txn[c] /\ txn'[c]
      /\ UNCHANGED <<disk, lock, work>>
    BY <1>1, BeginTyped DEF Ready
<1>3. /\ SessionTyped' /\ SessionFrame(c) /\ PastStays /\ InputsBounded(c)'
      /\ interactive' = interactive /\ interactive[c]
      /\ known'[c] = "open" /\ block'[c] = {}
    BY <1>1, CommandAdvances
<1>4. lock'[c] = "none"
    BY <1>2 DEF Ready, SqliteTyped
<1>5. KnowledgeInv(c)'
    BY <1>2, <1>3, <1>4 DEF KnowledgeInv, Uncommitted, WriteLocks
<1>6. AllPast'
    BY <1>2, <1>3, AllPastBy DEF Ready, SqliteTyped
<1>7. QED
    BY <1>2, <1>3, <1>5, <1>6 DEF Moves

\* COMMIT adds the changes reported since the start, and nothing else.
LEMMA CommitInstallsBlock ==
    ASSUME NEW c \in Connections, Ready(c), Commit(c)
    PROVE  /\ SqliteTyped(Content)' /\ SqliteFrame(c)
           /\ txn[c] /\ ~txn'[c] /\ lock'[c] = "none"
           /\ disk' = disk \cup block[c]
           /\ disk' = disk \/ CanWriteBack(c)
<1>1. /\ SqliteTyped(Content)' /\ SqliteFrame(c)
      /\ txn[c] /\ ~txn'[c] /\ lock'[c] = "none"
      /\ IF lock[c] \in WriteLocks THEN CanWriteBack(c) /\ disk' = work[c] ELSE disk' = disk
    BY CommitTyped DEF Ready
<1>2. disk' = disk \cup block[c]
    BY <1>1 DEF Ready, KnowledgeInv, Uncommitted
<1>3. QED
    BY <1>1, <1>2

LEMMA CommitMoves ==
    ASSUME NEW c \in Connections, Ready(c), CommitTransaction(c)
    PROVE  Moves(c)
<1>1. Commit(c) /\ Command(c, "commit", "closed") /\ "closed" \in Knowledge
    BY DEF CommitTransaction, Knowledge
<1>2. /\ SqliteTyped(Content)' /\ SqliteFrame(c)
      /\ txn[c] /\ ~txn'[c] /\ lock'[c] = "none"
      /\ disk' = disk \cup block[c]
      /\ disk' = disk \/ CanWriteBack(c)
    BY <1>1, CommitInstallsBlock
<1>3. /\ SessionTyped' /\ SessionFrame(c) /\ PastStays /\ InputsBounded(c)'
      /\ known'[c] = "closed" /\ block'[c] = {}
    BY <1>1, CommandAdvances
<1>4. KnowledgeInv(c)'
    BY <1>2, <1>3 DEF KnowledgeInv, WriteLocks
<1>5. AllPast'
    BY <1>2, <1>3, AllPastBy DEF Ready, SqliteTyped
<1>6. QED
    BY <1>2, <1>3, <1>4, <1>5 DEF Moves

LEMMA RollbackMoves ==
    ASSUME NEW c \in Connections, Ready(c), RollbackTransaction(c)
    PROVE  Moves(c)
<1>1. Release(c) /\ Command(c, "rollback", "closed") /\ "closed" \in Knowledge
    BY DEF RollbackTransaction, Rollback, Knowledge
<1>2. SqliteTyped(Content)' /\ SqliteFrame(c) /\ disk' = disk /\ ~txn'[c] /\ lock'[c] = "none"
    BY <1>1, ReleaseTyped DEF Ready
<1>3. /\ SessionTyped' /\ SessionFrame(c) /\ PastStays /\ InputsBounded(c)'
      /\ known'[c] = "closed" /\ block'[c] = {}
    BY <1>1, CommandAdvances
<1>4. KnowledgeInv(c)'
    BY <1>2, <1>3 DEF KnowledgeInv, WriteLocks
<1>5. AllPast'
    BY <1>2, <1>3, AllPastBy DEF Ready, SqliteTyped
<1>6. QED
    BY <1>2, <1>3, <1>4, <1>5 DEF Moves

-----------------------------------------------------------------------------
\* Errors leave a transaction as it is, or SQLite has rolled it back; the message
\* says neither.
LEMMA FailureMoves ==
    ASSUME NEW c \in Connections, Ready(c), CommitBusyFails(c) \/ QueryFails(c)
    PROVE  Moves(c)
<1>1. /\ pc[c] = "running" /\ Stop(c) /\ Report(c)
      /\ CommitBusy(c) \/ StatementError(c)
    BY DEF CommitBusyFails, QueryFails, Executes, Runs, Running
<1>2. known' = [known EXCEPT ![c] = IF known[c] = "open" THEN "unsure" ELSE known[c]] /\ block' = block
    BY <1>1 DEF Report
<1>3. /\ known' \in [Connections -> Knowledge]
      /\ known'[c] # "open" /\ (known'[c] = "closed" => known[c] = "closed")
      /\ \A d \in Connections \ {c} : known'[d] = known[d]
    BY <1>2 DEF Ready, SessionTyped, Knowledge
<1>4. SessionTyped' /\ SessionFrame(c) /\ PastStays /\ InputsBounded(c)' /\ interactive' = interactive
    BY <1>1, <1>2, <1>3, StopKeeps DEF Ready
<1>5. /\ SqliteTyped(Content)' /\ SqliteFrame(c) /\ disk' = disk
      /\ \/ /\ UNCHANGED <<txn, work>>
            /\ lock'[c] \in WriteLocks <=> lock[c] \in WriteLocks
         \/ ~txn'[c] /\ lock'[c] = "none"
  <2>1. CASE CommitBusy(c)
    BY <2>1, CommitBusyTyped DEF Ready
  <2>2. CASE StatementError(c)
    BY <2>2, StatementErrorTyped DEF Ready, sqliteVars
  <2>3. QED
    BY <1>1, <2>1, <2>2
<1>6. txn'[c] => txn[c]
    BY <1>5
<1>7. KnowledgeInv(c)'
    BY <1>2, <1>3, <1>5 DEF Ready, KnowledgeInv, Uncommitted, WriteLocks
<1>8. AllPast'
    BY <1>2, <1>4, <1>5, AllPastBy DEF Ready, SqliteTyped
<1>9. QED
    BY <1>4, <1>5, <1>6, <1>7, <1>8 DEF Moves, Ready

\* The end of a session, by itself or by force.
LEMMA EndMoves ==
    ASSUME NEW c \in Connections, Ready(c), Leave(c) \/ Crash(c)
    PROVE  Moves(c)
<1>1. Gone(c) /\ Release(c) /\ inputs' = inputs
    BY DEF Leave, Crash, Die, Gone
<1>2. SqliteTyped(Content)' /\ SqliteFrame(c) /\ disk' = disk /\ ~txn'[c] /\ lock'[c] = "none"
    BY <1>1, ReleaseTyped DEF Ready
<1>3. SessionTyped'
  <2>1. pending' = [d \in Connections |-> pending'[d]]
    BY <1>1 DEF Ready, SessionTyped, Gone
  <2>2. /\ pc' \in [Connections -> PcValues] /\ interactive' \in [Connections -> BOOLEAN]
        /\ interrupts' \in [Connections -> 0..2] /\ next' \in [Connections -> Nat \ {0}]
    BY <1>1 DEF Ready, SessionTyped, Gone, Goto, PcValues
  <2>3. known' \in [Connections -> Knowledge] /\ block' \in [Connections -> Content]
    BY <1>1 DEF Ready, SessionTyped, Gone, Knowledge, Content
  <2>4. \A d \in Connections :
            /\ pc'[d] = "prompt" => interactive'[d]
            /\ pc'[d] # "leaving" => interrupts'[d] < 2
            /\ pc'[d] = "running" => inputs'[d] # <<>>
    BY <1>1 DEF Ready, SessionTyped, Gone, Goto
  <2>5. inputs' \in [Connections -> Seq(Seq(Queries))]
    BY <1>1 DEF Ready, SessionTyped
  <2>6. QED
    BY <2>1, <2>2, <2>3, <2>4, <2>5 DEF SessionTyped
<1>4. SessionFrame(c)
    BY <1>1 DEF Ready, SessionTyped, SessionFrame, Gone, Goto
<1>5. pc'[c] = "closed" /\ known'[c] = "closed" /\ block'[c] = {}
    BY <1>1 DEF Ready, SessionTyped, Gone, Goto
<1>6. PastStays /\ InputsBounded(c)'
    BY <1>1, <1>3, <1>4, <1>5, GotoKeeps DEF Ready
<1>7. KnowledgeInv(c)'
    BY <1>2, <1>5 DEF KnowledgeInv, WriteLocks
<1>8. AllPast'
    BY <1>2, <1>3, <1>4, <1>5, <1>6, AllPastBy DEF Ready, SqliteTyped
<1>9. QED
    BY <1>2, <1>3, <1>4, <1>6, <1>7, <1>8 DEF Moves

-----------------------------------------------------------------------------
\* The invariant is inductive.

\* Sessions start without inputs, messages or changes.
THEOREM InitSession == Init => SessionInv
<1> SUFFICES ASSUME Init PROVE SessionInv
    OBVIOUS
<1>1. SqliteTyped(Content)
  <2>1. {} \in Content
    BY DEF Content
  <2>2. QED
    BY <2>1, InitTypedSqlite DEF Init
<1>2. SessionTyped
  <2>1. <<>> \in Seq(Seq(Queries))
    OBVIOUS
  <2>2. QED
    BY <2>1 DEF Init, SessionTyped, PcValues, Knowledge, Content
<1>3. disk = {} /\ \A c \in Connections : ~txn[c] /\ lock[c] = "none"
    BY DEF Init, SqliteInit
<1>4. AllPast
    BY <1>3 DEF Init, AllPast
<1>5. ASSUME NEW c \in Connections
      PROVE  KnowledgeInv(c) /\ InputsBounded(c)
  <2>1. KnowledgeInv(c)
    BY <1>3 DEF Init, KnowledgeInv, WriteLocks
  <2>2. MaxInputs[c] \in Nat
    BY BoundsAssumption
  <2>3. inputs[c] = <<>>
    BY DEF Init
  <2>4. QED
    BY <2>1, <2>2, <2>3 DEF InputsBounded
<1>6. QED
    BY <1>1, <1>2, <1>3, <1>4, <1>5, TypeOKSplit DEF SessionInv

LEMMA StepMoves ==
    ASSUME SessionInv, NEW c \in Connections, Step(c)
    PROVE  Moves(c)
<1>1. Ready(c)
    BY TypeOKSplit DEF SessionInv, Ready
<1>2. QED
    BY <1>1, PromptMoves, InputMoves, StopMoves, SelectMoves, ChangeMoves, StartMoves,
       CommitMoves, RollbackMoves, FailureMoves, EndMoves
    DEF Step, RunInput

\* Nobody else can change the file while session d has a copy of it.
LEMMA OthersKept ==
    ASSUME NEW c \in Connections, NEW d \in Connections, c # d,
           SqliteFrame(c), SessionFrame(c), disk' = disk \/ CanWriteBack(c),
           KnowledgeInv(d), InputsBounded(d), txn[d] => interactive[d]
    PROVE  KnowledgeInv(d)' /\ InputsBounded(d)' /\ (txn'[d] => interactive'[d])
<1>1. /\ txn'[d] = txn[d] /\ lock'[d] = lock[d] /\ work'[d] = work[d]
      /\ known'[d] = known[d] /\ block'[d] = block[d]
      /\ interactive'[d] = interactive[d] /\ inputs'[d] = inputs[d]
    BY DEF SqliteFrame, SessionFrame
<1>2. disk' = disk \/ lock[d] = "none"
    BY DEF CanWriteBack, Others
<1>3. KnowledgeInv(d)'
    BY <1>1, <1>2 DEF KnowledgeInv, Uncommitted, WriteLocks
<1>4. QED
    BY <1>1, <1>3 DEF InputsBounded

\* Each query, input, interrupt, exit and crash keeps what messages say true.
THEOREM StepSession == SessionInv /\ [Next]_vars => SessionInv'
<1> SUFFICES ASSUME SessionInv, [Next]_vars PROVE SessionInv'
    OBVIOUS
<1>1. SqliteTyped(Content) /\ SessionTyped /\ \A c \in Connections : txn[c] => interactive[c]
    BY TypeOKSplit DEF SessionInv
<1>2. ASSUME NEW c \in Connections, Step(c)
      PROVE  SessionInv'
  <2>1. Moves(c)
    BY <1>2, StepMoves
  <2>2. \A d \in Connections : KnowledgeInv(d)' /\ InputsBounded(d)' /\ (txn'[d] => interactive'[d])
    BY <1>1, <2>1, OthersKept DEF Moves, SessionInv
  <2>3. TypeOK'
    BY <2>1, <2>2 DEF Moves, TypeOK, SqliteTyped, SessionTyped
  <2>4. QED
    BY <2>1, <2>2, <2>3 DEF Moves, SessionInv
<1>3. CASE UNCHANGED vars
  <2>1. UNCHANGED <<disk, txn, lock, work, pc, interactive, pending, interrupts, inputs, next, known, block>>
    BY <1>3 DEF vars, sqliteVars, sessionVars
  <2>2. TypeOK'
    BY <2>1 DEF SessionInv, TypeOK
  <2>3. AllPast'
    BY <2>1 DEF SessionInv, AllPast, IsPast
  <2>4. \A c \in Connections : KnowledgeInv(c)' /\ InputsBounded(c)'
    BY <2>1 DEF SessionInv, KnowledgeInv, InputsBounded, Uncommitted
  <2>5. QED
    BY <2>2, <2>3, <2>4 DEF SessionInv
<1>4. QED
    BY <1>2, <1>3 DEF Next

\* What the messages of a session say of its connection and its changes stays true.
THEOREM SessionInvariant == Spec => []SessionInv
BY InitSession, StepSession, PTL DEF Spec

\* A session without a prompt never has a transaction, and what is in the file, in
\* a private copy or reported is always a set of changes of real queries.
THEOREM TypeCorrect == Spec => []TypeOK
<1>1. SessionInv => TypeOK
    BY DEF SessionInv
<1>2. QED
    BY <1>1, SessionInvariant, PTL

\* What the REPL has reported tells whether a transaction is open and what its
\* commit would add, as long as no error was reported.
THEOREM MessagesStayTrue == Spec => []MessagesAreTrue
<1>1. SessionInv => MessagesAreTrue
    BY DEF SessionInv, KnowledgeInv, MessagesAreTrue
<1>2. QED
    BY <1>1, SessionInvariant, PTL

-----------------------------------------------------------------------------
\* Refinement

LEMMA ChangeRefines ==
    ASSUME SessionInv, NEW c \in Connections, Change(c)
    PROVE  \E change \in UNION {{d} \X (1..MaxInputs[d]) \X (1..MaxQueries) : d \in Connections} :
               Contract!Change(c, change)
<1> DEFINE change == ThisChange(c)
<1>1. /\ Running(c) /\ known' = known
      /\ IF txn[c] THEN Write(c, View(c) \cup {change}) ELSE AutocommitWrite(c, View(c) \cup {change})
      /\ block' = [block EXCEPT ![c] = IF known[c] = "closed" THEN {} ELSE block[c] \cup {change}]
    BY DEF Change, Runs
<1>2. SqliteTyped(Content) /\ SessionTyped /\ AllPast /\ KnowledgeInv(c) /\ InputsBounded(c)
    BY TypeOKSplit DEF SessionInv
<1>3. /\ change \notin disk
      /\ \A d \in Connections : change \notin block[d]
    BY <1>1, <1>2, ThisChangeIsNew
<1>4. change \in UNION {{d} \X (1..MaxInputs[d]) \X (1..MaxQueries) : d \in Connections}
  <2>1. /\ inputs[c] \in Seq(Seq(Queries)) /\ inputs[c] # <<>> /\ next[c] \in Nat \ {0}
        /\ next[c] <= Len(inputs[c][Len(inputs[c])])
    BY <1>1, <1>2 DEF SessionTyped, Running, Queue
  <2>2. Len(inputs[c]) \in DOMAIN inputs[c] /\ Len(inputs[c]) \in Nat \ {0}
    BY <2>1
  <2>3. inputs[c][Len(inputs[c])] \in Seq(Queries)
    BY <2>1, <2>2
  <2>4. Len(inputs[c][Len(inputs[c])]) \in Nat
    BY <2>3
  <2>5. Len(inputs[c]) <= MaxInputs[c] /\ Len(inputs[c][Len(inputs[c])]) <= MaxQueries
    BY <1>2, <2>2 DEF InputsBounded
  <2>6. MaxInputs[c] \in Nat /\ MaxQueries \in Nat
    BY BoundsAssumption
  <2>7. Len(inputs[c]) \in 1..MaxInputs[c] /\ next[c] \in 1..MaxQueries
    BY <2>1, <2>2, <2>4, <2>5, <2>6
  <2>8. QED
    BY <2>7 DEF ThisChange
<1>5. CASE txn[c]
  <2>1. disk' = disk /\ known[c] # "closed"
    BY <1>1, <1>2, <1>5 DEF Write, KnowledgeInv
  <2>2. QED
    BY <1>1, <1>3, <1>4, <2>1 DEF Contract!Change
<1>6. CASE ~txn[c]
  <2>1. View(c) = disk /\ known[c] # "open"
    BY <1>2, <1>6 DEF SqliteTyped, View, WriteLocks, KnowledgeInv
  <2>2. disk' = disk \cup {change}
    BY <1>1, <1>6, <2>1 DEF AutocommitWrite
  <2>3. QED
    BY <1>1, <1>3, <1>4, <2>1, <2>2 DEF Contract!Change
<1>7. QED
    BY <1>5, <1>6

LEMMA CommandRefines ==
    ASSUME SessionInv, NEW c \in Connections,
           StartTransaction(c) \/ CommitTransaction(c) \/ RollbackTransaction(c)
    PROVE  Contract!Start(c) \/ Contract!Commit(c) \/ Contract!Abandon(c)
<1>1. Ready(c)
    BY TypeOKSplit DEF SessionInv, Ready
<1>2. CASE StartTransaction(c)
  <2>1. disk' = disk /\ known[c] # "open"
    BY <1>1, <1>2 DEF StartTransaction, Begin, Ready, KnowledgeInv
  <2>2. QED
    BY <1>2, <2>1 DEF StartTransaction, Command, Contract!Start
<1>3. CASE CommitTransaction(c)
  <2>1. disk' = disk \cup block[c] /\ known[c] # "closed"
    BY <1>1, <1>3, CommitInstallsBlock DEF CommitTransaction, Ready, KnowledgeInv
  <2>2. QED
    BY <1>3, <2>1 DEF CommitTransaction, Command, Contract!Commit
<1>4. CASE RollbackTransaction(c)
    BY <1>4 DEF RollbackTransaction, Command, Rollback, Release, Contract!Abandon
<1>5. QED
    BY <1>2, <1>3, <1>4

LEMMA FailureRefines ==
    ASSUME SessionInv, NEW c \in Connections, CommitBusyFails(c) \/ QueryFails(c)
    PROVE  Contract!Fail(c) \/ UNCHANGED <<disk, known, block>>
<1>1. disk' = disk /\ Report(c)
    BY DEF CommitBusyFails, QueryFails, CommitBusy, StatementError, Release, sqliteVars
<1>2. /\ known' = [known EXCEPT ![c] = IF known[c] = "open" THEN "unsure" ELSE known[c]]
      /\ block' = block
    BY <1>1 DEF Report
<1>3. CASE known[c] = "open"
    BY <1>1, <1>2, <1>3 DEF Contract!Fail
<1>4. CASE known[c] # "open"
  <2>1. known' = known
    BY <1>2, <1>4 DEF SessionInv, TypeOK
  <2>2. QED
    BY <1>1, <1>2, <2>1
<1>5. QED
    BY <1>3, <1>4

LEMMA StepRefines ==
    ASSUME SessionInv, [Next]_vars
    PROVE  [Contract!Next]_(Contract!contractVars)
<1>1. ASSUME NEW c \in Connections, Change(c)
      PROVE  Contract!Next
    BY <1>1, ChangeRefines DEF Contract!Next
<1>2. ASSUME NEW c \in Connections,
             StartTransaction(c) \/ CommitTransaction(c) \/ RollbackTransaction(c)
      PROVE  Contract!Next
    BY <1>2, CommandRefines DEF Contract!Next
<1>3. ASSUME NEW c \in Connections, CommitBusyFails(c) \/ QueryFails(c)
      PROVE  [Contract!Next]_(Contract!contractVars)
    BY <1>3, FailureRefines DEF Contract!Next, Contract!contractVars
<1>4. ASSUME NEW c \in Connections, Leave(c) \/ Crash(c)
      PROVE  Contract!Next
  <2>1. Contract!Abandon(c)
    BY <1>4 DEF Leave, Crash, Gone, Release, Contract!Abandon
  <2>2. QED
    BY <2>1 DEF Contract!Next
<1>5. ASSUME NEW c \in Connections,
             \/ Open(c) \/ \E query \in Arguments : RunArgument(c, query)
             \/ \E input \in Inputs : Enter(c, input)
             \/ Interrupt(c) \/ EndOfInput(c)
             \/ Select(c) \/ Exit(c) \/ Refuse(c) \/ FinishInput(c)
      PROVE  UNCHANGED <<disk, known, block>>
    BY <1>5 DEF Open, RunArgument, Enter, Interrupt, EndOfInput, Select, Exit, Refuse, FinishInput,
        ReadNow, Read, AutocommitRead, sqliteVars
<1>6. CASE UNCHANGED vars
    BY <1>6 DEF vars, sqliteVars, sessionVars, Contract!contractVars
<1>7. QED
    BY <1>1, <1>2, <1>3, <1>4, <1>5, <1>6 DEF Next, Step, RunInput, Contract!contractVars

\* Whatever the sessions do to one file, what each of them reports is what happens
\* to it: the file and the messages go together as the contract says.
THEOREM SessionsImplementContract == Spec => ImplementsContract
<1>1. Init => Contract!Init
    BY DEF Init, SqliteInit, Contract!Init
<1>2. SessionInv /\ [Next]_vars => [Contract!Next]_(Contract!contractVars)
    BY StepRefines
<1>3. QED
    BY <1>1, <1>2, SessionInvariant, PTL DEF Spec, ImplementsContract, Contract!Spec

-----------------------------------------------------------------------------
\* Transactions entered as one input

\* They reach the file as a whole.  While an input runs, a transaction that was
\* started in it is open, and its changes are those reported; once it stops,
\* only the commit of a later input can bring them to the file.

\* The transaction the running input is in is open, and has its changes so far.
BlockInv(c) ==
    pc[c] = "running" /\ InBlock(Queue(c), next[c]) =>
        /\ txn[c]
        /\ \A j \in 1..(next[c] - 1) :
              Queue(c)[j] = "write" /\ SameBlock(Queue(c), j, next[c]) => <<c, Len(inputs[c]), j>> \in block[c]

\* What a commit would bring to the file is of this session, and no command has
\* ended its transaction.
PendingInv(c) ==
    txn[c] => \A change \in block[c] :
        /\ change[1] = c /\ change[2] \in DOMAIN inputs[c]
        /\ change[3] \in DOMAIN inputs[c][change[2]]
        /\ change[2] = Len(inputs[c]) /\ pc[c] = "running" =>
              change[3] < next[c] /\ NoEndBetween(Queue(c), change[3], next[c])

\* The property, of one change in the file.
IsWhole(change) ==
    InBlock(inputs[change[1]][change[2]], change[3]) =>
        \/ CommitsLater(change[1], change[2])
        \/ /\ Committed(inputs[change[1]][change[2]], change[3])
           /\ \A j \in Unit(inputs[change[1]][change[2]], change[3]) : <<change[1], change[2], j>> \in disk

BlocksInv ==
    /\ SessionInv
    /\ \A c \in Connections : BlockInv(c) /\ PendingInv(c)
    /\ \A change \in disk : IsWhole(change)

-----------------------------------------------------------------------------
\* Blocks of an input.

LEMMA BlockGoesOn ==
    ASSUME NEW q, NEW n \in Nat \ {0}, q[n] # "start", InBlock(q, n + 1)
    PROVE  InBlock(q, n) /\ ~EndsBlock(q[n])
<1>1. PICK b \in 1..n : q[b] = "start" /\ \A k \in (b + 1)..n : ~EndsBlock(q[k])
    BY DEF InBlock
<1>2. b \in 1..(n - 1) /\ n \in (b + 1)..n
    BY <1>1
<1>3. \A k \in (b + 1)..(n - 1) : ~EndsBlock(q[k])
    BY <1>1
<1>4. QED
    BY <1>1, <1>2, <1>3 DEF InBlock

LEMMA SameBlockGoesOn ==
    ASSUME NEW q, NEW n \in Nat \ {0}, NEW j \in 1..n, SameBlock(q, j, n + 1)
    PROVE  SameBlock(q, j, n)
BY DEF SameBlock, NoEndBetween

LEMMA SameBlockIsInBlock ==
    ASSUME NEW q, NEW n \in Nat, NEW j \in 1..n, SameBlock(q, j, n)
    PROVE  InBlock(q, n)
<1>1. PICK b \in 1..(j - 1) : q[b] = "start" /\ \A k \in (b + 1)..(j - 1) : ~EndsBlock(q[k])
    BY DEF SameBlock, InBlock
<1>2. b \in 1..(n - 1) /\ \A k \in (b + 1)..(n - 1) : ~EndsBlock(q[k])
    BY <1>1 DEF SameBlock, NoEndBetween
<1>3. QED
    BY <1>1, <1>2 DEF InBlock

\* The writes of a unit that is committed at n come before n.
LEMMA UnitBeforeCommit ==
    ASSUME NEW q \in Seq(Queries), NEW n \in DOMAIN q, q[n] = "commit",
           NEW k \in DOMAIN q, k < n, InBlock(q, k), NoEndBetween(q, k, n)
    PROVE  /\ Committed(q, k)
           /\ \A j \in Unit(q, k) : j = k \/ (j \in 1..(n - 1) /\ q[j] = "write" /\ SameBlock(q, j, n))
<1>1. k \in Nat /\ n \in Nat
    OBVIOUS
<1>2. Committed(q, k)
    BY <1>1 DEF Committed
<1>3. ASSUME NEW j \in Unit(q, k), j # k
      PROVE  j \in 1..(n - 1) /\ q[j] = "write" /\ SameBlock(q, j, n)
  <2>1. j \in DOMAIN q /\ j \in Nat /\ j >= 1 /\ q[j] = "write"
    BY <1>3 DEF Unit
  <2>2. CASE k < j /\ SameBlock(q, k, j)
    <3>1. j < n
      BY <1>1, <2>1, <2>2 DEF SameBlock, NoEndBetween, EndsBlock
    <3>2. InBlock(q, j)
      BY <1>1, <2>1, <2>2, SameBlockIsInBlock
    <3>3. NoEndBetween(q, j, n)
      BY <1>1, <2>1, <2>2 DEF NoEndBetween
    <3>4. QED
      BY <2>1, <3>1, <3>2, <3>3, <1>1 DEF SameBlock
  <2>3. CASE j < k /\ SameBlock(q, j, k)
    <3>1. NoEndBetween(q, j, n)
      BY <1>1, <2>1, <2>3 DEF SameBlock, NoEndBetween
    <3>2. QED
      BY <1>1, <2>1, <2>3, <3>1 DEF SameBlock
  <2>4. QED
    BY <1>3, <2>2, <2>3 DEF Unit
<1>4. QED
    BY <1>2, <1>3

-----------------------------------------------------------------------------
\* Inputs are only added, and what is in the file stays there.
InputsStay ==
    \A d \in Connections :
        /\ Len(inputs[d]) <= Len(inputs'[d])
        /\ \A i \in DOMAIN inputs[d] : i \in DOMAIN inputs'[d] /\ inputs'[d][i] = inputs[d][i]

LEMMA WholeStays ==
    ASSUME SessionTyped, SessionTyped', InputsStay, disk \subseteq disk',
           NEW change \in Changes, IsPast(change), IsWhole(change)
    PROVE  IsWhole(change)'
<1> DEFINE c == change[1]
           i == change[2]
<1>1. c \in Connections /\ i \in Nat \ {0} /\ i <= Len(inputs[c]) /\ Len(inputs[c]) \in Nat /\ Len(inputs'[c]) \in Nat
    BY DEF Changes, IsPast, SessionTyped
<1>2. i \in DOMAIN inputs[c] /\ inputs'[c][i] = inputs[c][i]
    BY <1>1 DEF InputsStay, SessionTyped
<1>3. ASSUME CommitsLater(c, i) PROVE CommitsLater(c, i)'
  <2>1. PICK j \in (i + 1)..Len(inputs[c]) : "commit" \in ToSet(inputs[c][j])
    BY <1>3 DEF CommitsLater
  <2>2. j \in DOMAIN inputs[c] /\ j \in (i + 1)..Len(inputs'[c])
    BY <1>1, <2>1 DEF InputsStay, SessionTyped
  <2>3. inputs'[c][j] = inputs[c][j]
    BY <1>1, <2>2 DEF InputsStay
  <2>4. QED
    BY <2>1, <2>2, <2>3 DEF CommitsLater
<1>4. QED
    BY <1>1, <1>2, <1>3 DEF IsWhole

\* What a step of session c has to keep; the rest of the invariant follows.
KeepsBlocks(c) ==
    /\ BlockInv(c)' /\ PendingInv(c)'
    /\ InputsStay
    /\ disk \subseteq disk'
    /\ \A change \in disk' : change \in disk \/ IsWhole(change)'

\* Steps that leave inputs and file alone.
LEMMA NoInput ==
    ASSUME SessionTyped, UNCHANGED <<inputs, disk>>
    PROVE  InputsStay /\ disk \subseteq disk' /\ \A change \in disk' : change \in disk
BY DEF InputsStay, SessionTyped

-----------------------------------------------------------------------------
\* The actions

LEMMA TakeKeepsBlocks ==
    ASSUME BlocksInv, NEW c \in Connections, NEW queries \in Seq(Queries), Take(c, queries),
           UNCHANGED <<sqliteVars, block>>
    PROVE  KeepsBlocks(c)
<1>1. /\ inputs' = [inputs EXCEPT ![c] = Append(inputs[c], queries)]
      /\ next' = [next EXCEPT ![c] = 1]
    BY DEF Take
<1>2. /\ inputs \in [Connections -> Seq(Seq(Queries))] /\ next \in [Connections -> Nat \ {0}]
    BY TypeOKSplit DEF BlocksInv, SessionInv, SessionTyped
<1>3. /\ inputs'[c] = Append(inputs[c], queries) /\ next'[c] = 1
      /\ \A d \in Connections \ {c} : inputs'[d] = inputs[d]
    BY <1>1, <1>2
<1>4. /\ Len(inputs'[c]) = Len(inputs[c]) + 1 /\ Len(inputs[c]) \in Nat
      /\ \A i \in DOMAIN inputs[c] : i \in DOMAIN inputs'[c] /\ inputs'[c][i] = inputs[c][i]
      /\ \A i \in DOMAIN inputs[c] : i # Len(inputs'[c])
    BY <1>2, <1>3
<1>5. InputsStay
  <2>1. ASSUME NEW d \in Connections, d # c
        PROVE  Len(inputs[d]) <= Len(inputs'[d]) /\ inputs'[d] = inputs[d]
    BY <1>2, <1>3, <2>1
  <2>2. Len(inputs[c]) <= Len(inputs'[c])
    BY <1>4
  <2>3. QED
    BY <1>4, <2>1, <2>2 DEF InputsStay
<1>6. BlockInv(c)'
    BY <1>3 DEF BlockInv, InBlock
<1>7. PendingInv(c)'
    BY <1>4 DEF BlocksInv, PendingInv, sqliteVars
<1>8. QED
    BY <1>5, <1>6, <1>7 DEF KeepsBlocks, sqliteVars

\* The input is over, or none is running; what is open may stay open.
LEMMA StopKeepsBlocks ==
    ASSUME BlocksInv, NEW c \in Connections, pc'[c] # "running",
           UNCHANGED <<inputs, disk>>, block' = block \/ ~txn'[c], txn'[c] => txn[c]
    PROVE  KeepsBlocks(c)
<1>1. SessionTyped
    BY TypeOKSplit DEF BlocksInv, SessionInv
<1>2. PendingInv(c)'
    BY DEF BlocksInv, PendingInv
<1>3. QED
    BY <1>1, <1>2, NoInput DEF KeepsBlocks, BlockInv

\* The running input, at a query.
LEMMA AtQuery ==
    ASSUME SessionTyped, NEW c \in Connections, Running(c)
    PROVE  /\ pc[c] = "running" /\ Queue(c) \in Seq(Queries)
           /\ next[c] \in Nat \ {0} /\ next[c] \in DOMAIN Queue(c)
           /\ Len(inputs[c]) \in DOMAIN inputs[c] /\ Len(inputs[c]) \in Nat \ {0}
<1>1. inputs[c] \in Seq(Seq(Queries)) /\ inputs[c] # <<>> /\ next[c] \in Nat \ {0} /\ pc[c] = "running"
    BY DEF SessionTyped, Running
<1>2. Len(inputs[c]) \in Nat \ {0} /\ Len(inputs[c]) \in DOMAIN inputs[c]
    BY <1>1
<1>3. QED
    BY <1>1, <1>2 DEF Queue, Running

LEMMA AdvanceKeepsBlocks ==
    ASSUME BlocksInv, NEW c \in Connections, Running(c), Advance(c), Query(c) \in {"select", "write"},
           txn' = txn,
           block'[c] = block[c] \/ block'[c] = block[c] \cup {ThisChange(c)},
           Query(c) = "write" /\ txn[c] => block'[c] = block[c] \cup {ThisChange(c)}
    PROVE  BlockInv(c)' /\ PendingInv(c)' /\ InputsStay /\ (~txn[c] => ~InBlock(Queue(c), next[c]))
<1> DEFINE q == Queue(c)
           n == next[c]
<1>1. SessionTyped
    BY TypeOKSplit DEF BlocksInv, SessionInv
<1>2. /\ pc[c] = "running" /\ q \in Seq(Queries)
      /\ n \in Nat \ {0} /\ n \in DOMAIN q
      /\ Len(inputs[c]) \in DOMAIN inputs[c] /\ Len(inputs[c]) \in Nat \ {0}
    BY <1>1, AtQuery
<1>3. next'[c] = n + 1 /\ pc' = pc /\ inputs' = inputs /\ Queue(c)' = q
    BY <1>1 DEF Advance, SessionTyped, Queue
<1>4. q[n] \in {"select", "write"} /\ ~EndsBlock(q[n]) /\ q[n] # "start"
    BY DEF Query, EndsBlock
<1>5. BlockInv(c) /\ PendingInv(c)
    BY DEF BlocksInv
<1>6. BlockInv(c)'
  <2> SUFFICES ASSUME InBlock(q, n + 1)
               PROVE  /\ txn[c]
                      /\ \A j \in 1..n : q[j] = "write" /\ SameBlock(q, j, n + 1) => <<c, Len(inputs[c]), j>> \in block'[c]
    BY <1>2, <1>3 DEF BlockInv
  <2>1. InBlock(q, n)
    BY <1>2, <1>4, BlockGoesOn
  <2>2. /\ txn[c]
        /\ \A j \in 1..(n - 1) : q[j] = "write" /\ SameBlock(q, j, n) => <<c, Len(inputs[c]), j>> \in block[c]
    BY <1>2, <1>5, <2>1 DEF BlockInv
  <2>3. ASSUME NEW j \in 1..n, q[j] = "write", SameBlock(q, j, n + 1)
        PROVE  <<c, Len(inputs[c]), j>> \in block'[c]
    <3>1. SameBlock(q, j, n)
      BY <1>2, <2>3, SameBlockGoesOn
    <3>2. CASE j = n
      BY <2>2, <2>3, <3>2 DEF Query, ThisChange
    <3>3. CASE j # n
      BY <1>2, <2>2, <2>3, <3>1, <3>3
    <3>4. QED
      BY <3>2, <3>3
  <2>4. QED
    BY <2>2, <2>3
<1>7. PendingInv(c)'
  <2> SUFFICES ASSUME txn[c], NEW change \in block'[c]
               PROVE  /\ change[1] = c /\ change[2] \in DOMAIN inputs[c]
                      /\ change[3] \in DOMAIN inputs[c][change[2]]
                      /\ change[2] = Len(inputs[c]) => change[3] < n + 1 /\ NoEndBetween(q, change[3], n + 1)
    BY <1>2, <1>3 DEF PendingInv
  <2>1. CASE change \in block[c]
    <3>1. /\ change[1] = c /\ change[2] \in DOMAIN inputs[c]
          /\ change[3] \in DOMAIN inputs[c][change[2]]
          /\ change[2] = Len(inputs[c]) => change[3] < n /\ NoEndBetween(q, change[3], n)
      BY <1>2, <1>5, <2>1 DEF PendingInv
    <3>2. inputs[c][change[2]] \in Seq(Queries)
      BY <1>1, <3>1 DEF SessionTyped
    <3>3. change[3] \in Nat
      BY <3>1, <3>2
    <3>4. ASSUME change[2] = Len(inputs[c])
          PROVE  change[3] < n + 1 /\ NoEndBetween(q, change[3], n + 1)
      BY <1>2, <1>4, <3>1, <3>3, <3>4 DEF NoEndBetween
    <3>5. QED
      BY <3>1, <3>4
  <2>2. CASE change \notin block[c]
    <3>1. change = <<c, Len(inputs[c]), n>>
      BY <2>2 DEF ThisChange
    <3>2. NoEndBetween(q, n, n + 1)
      BY <1>2, <1>4 DEF NoEndBetween
    <3>3. QED
      BY <1>2, <3>1, <3>2 DEF Queue
  <2>3. QED
    BY <2>1, <2>2
<1>8. InputsStay
    BY <1>1, <1>3 DEF InputsStay, SessionTyped
<1>9. ~txn[c] => ~InBlock(q, n)
    BY <1>2, <1>5 DEF BlockInv
<1>10. QED
    BY <1>6, <1>7, <1>8, <1>9

LEMMA SelectKeepsBlocks ==
    ASSUME BlocksInv, NEW c \in Connections, Select(c)
    PROVE  KeepsBlocks(c)
<1>1. Running(c) /\ Advance(c) /\ Query(c) = "select" /\ block' = block
    BY DEF Select, Runs
<1>2. disk' = disk /\ txn' = txn
    BY DEF Select, ReadNow, Read, AutocommitRead, sqliteVars
<1>3. BlockInv(c)' /\ PendingInv(c)' /\ InputsStay
    BY <1>1, <1>2, AdvanceKeepsBlocks
<1>4. QED
    BY <1>2, <1>3 DEF KeepsBlocks

\* A change outside a transaction is in no block of its input.
LEMMA ChangeKeepsBlocks ==
    ASSUME BlocksInv, NEW c \in Connections, Change(c)
    PROVE  KeepsBlocks(c)
<1>1. /\ SessionTyped /\ SqliteTyped(Content) /\ KnowledgeInv(c)
    BY TypeOKSplit DEF BlocksInv, SessionInv
<1>2. /\ Running(c) /\ Advance(c) /\ Query(c) = "write"
      /\ IF txn[c] THEN Write(c, View(c) \cup {ThisChange(c)}) ELSE AutocommitWrite(c, View(c) \cup {ThisChange(c)})
      /\ block' = [block EXCEPT ![c] = IF known[c] = "closed" THEN {} ELSE block[c] \cup {ThisChange(c)}]
    BY DEF Change, Runs
<1>3. txn' = txn
    BY <1>2 DEF Write, AutocommitWrite
<1>4. CASE txn[c]
  <2>1. disk' = disk /\ block'[c] = block[c] \cup {ThisChange(c)}
    BY <1>1, <1>2, <1>4 DEF Write, KnowledgeInv, SessionTyped
  <2>2. QED
    BY <1>2, <1>3, <1>4, <2>1, AdvanceKeepsBlocks DEF KeepsBlocks
<1>5. CASE ~txn[c]
  <2>1. lock[c] \notin WriteLocks
    BY <1>1, <1>5 DEF SqliteTyped, WriteLocks
  <2>2. disk' = disk \cup {ThisChange(c)}
    BY <1>2, <1>5, <2>1 DEF AutocommitWrite, View
  <2>3. ~InBlock(Queue(c), next[c]) /\ InputsStay /\ inputs' = inputs
    <3>1. block' = block => block'[c] = block[c]
      OBVIOUS
    <3>2. /\ pc[c] = "running"
      BY <1>2 DEF Running
    <3>3. QED
      BY <1>1, <1>2, <1>5, <3>2 DEF BlocksInv, BlockInv, Advance, InputsStay, SessionTyped
  <2>4. ASSUME NEW change, change = ThisChange(c) PROVE IsWhole(change)'
    <3>1. change[1] = c /\ change[2] = Len(inputs[c]) /\ change[3] = next[c]
      BY <2>4 DEF ThisChange
    <3>2. ~InBlock(inputs'[change[1]][change[2]], change[3])
      BY <2>3, <3>1 DEF Queue
    <3>3. QED
      BY <3>2 DEF IsWhole
  <2>5. PendingInv(c)'
    BY <1>3, <1>5 DEF PendingInv
  <2>6. BlockInv(c)'
    <3>1. /\ pc[c] = "running" /\ next[c] \in Nat \ {0}
          /\ next'[c] = next[c] + 1 /\ Queue(c)' = Queue(c) /\ Query(c) = Queue(c)[next[c]]
      BY <1>1, <1>2 DEF Advance, SessionTyped, Queue, Query, Running
    <3>2. ~InBlock(Queue(c), next[c] + 1)
      BY <1>2, <2>3, <3>1, BlockGoesOn
    <3>3. QED
      BY <3>1, <3>2 DEF BlockInv
  <2>7. QED
    BY <2>2, <2>3, <2>4, <2>5, <2>6 DEF KeepsBlocks
<1>6. QED
    BY <1>4, <1>5

\* A transaction that is started is the only one.
LEMMA StartKeepsBlocks ==
    ASSUME BlocksInv, NEW c \in Connections, StartTransaction(c)
    PROVE  KeepsBlocks(c)
<1> DEFINE q == Queue(c)
           n == next[c]
<1>1. SessionTyped
    BY TypeOKSplit DEF BlocksInv, SessionInv
<1>2. /\ Running(c) /\ Advance(c) /\ Query(c) = "start" /\ Begin(c)
      /\ block' = [block EXCEPT ![c] = {}]
    BY DEF StartTransaction, Command, Runs
<1>3. disk' = disk /\ inputs' = inputs /\ ~txn[c] /\ txn'[c] /\ block'[c] = {}
  <2>1. c \in DOMAIN txn
    BY TypeOKSplit DEF BlocksInv, SessionInv, SqliteTyped
  <2>2. QED
    BY <1>1, <1>2, <2>1 DEF Begin, Advance, SessionTyped
<1>4. /\ pc[c] = "running" /\ n \in Nat \ {0}
      /\ next'[c] = n + 1 /\ Queue(c)' = q /\ q[n] = "start"
    BY <1>1, <1>2 DEF Advance, SessionTyped, Queue, Query, Running
<1>5. ~InBlock(q, n)
    BY <1>3, <1>4 DEF BlocksInv, BlockInv
<1>6. ASSUME NEW j \in 1..n, q[j] = "write"
      PROVE  ~SameBlock(q, j, n + 1)
    BY <1>4, <1>5, <1>6, SameBlockGoesOn, SameBlockIsInBlock
<1>7. BlockInv(c)'
    BY <1>3, <1>4, <1>6 DEF BlockInv
<1>8. PendingInv(c)'
    BY <1>3 DEF PendingInv
<1>9. QED
    BY <1>1, <1>3, <1>7, <1>8, NoInput DEF KeepsBlocks

\* Behind the end of a transaction no block is open.
LEMMA EndKeepsBlocks ==
    ASSUME BlocksInv, NEW c \in Connections, Running(c), Advance(c), EndsBlock(Query(c)), block'[c] = {}
    PROVE  BlockInv(c)' /\ PendingInv(c)' /\ InputsStay
<1>1. SessionTyped
    BY TypeOKSplit DEF BlocksInv, SessionInv
<1>2. /\ pc[c] = "running" /\ next[c] \in Nat \ {0} /\ inputs' = inputs
      /\ next'[c] = next[c] + 1 /\ Queue(c)' = Queue(c) /\ Query(c) = Queue(c)[next[c]]
    BY <1>1 DEF Advance, SessionTyped, Queue, Query, Running
<1>3. Queue(c)[next[c]] # "start"
    BY <1>2 DEF EndsBlock
<1>4. ~InBlock(Queue(c), next[c] + 1)
    BY <1>2, <1>3, BlockGoesOn
<1>5. QED
    BY <1>1, <1>2, <1>4 DEF BlockInv, PendingInv, InputsStay, SessionTyped

\* What a commit brings to the file is whole, or was entered in earlier inputs.
LEMMA CommitKeepsBlocks ==
    ASSUME BlocksInv, NEW c \in Connections, CommitTransaction(c)
    PROVE  KeepsBlocks(c)
<1> DEFINE q == Queue(c)
           n == next[c]
<1>1. Ready(c) /\ SessionTyped
    BY TypeOKSplit DEF BlocksInv, SessionInv, Ready
<1>2. /\ Running(c) /\ Advance(c) /\ Query(c) = "commit" /\ Commit(c)
      /\ block' = [block EXCEPT ![c] = {}]
    BY DEF CommitTransaction, Command, Runs
<1>3. block'[c] = {} /\ inputs' = inputs
    BY <1>1, <1>2 DEF SessionTyped, Advance
<1>4. txn[c] /\ disk' = disk \cup block[c]
    BY <1>1, <1>2, CommitInstallsBlock
<1>5. BlockInv(c)' /\ PendingInv(c)' /\ InputsStay
    BY <1>2, <1>3, EndKeepsBlocks DEF EndsBlock
<1>6. /\ pc[c] = "running" /\ q \in Seq(Queries)
      /\ n \in Nat \ {0} /\ n \in DOMAIN q /\ q[n] = "commit"
      /\ Len(inputs[c]) \in DOMAIN inputs[c] /\ Len(inputs[c]) \in Nat \ {0}
    BY <1>1, <1>2, AtQuery DEF Query
<1>7. BlockInv(c) /\ PendingInv(c)
    BY DEF BlocksInv
<1>8. ASSUME NEW change \in block[c] PROVE IsWhole(change)'
  <2>1. /\ change[1] = c /\ change[2] \in DOMAIN inputs[c]
        /\ change[3] \in DOMAIN inputs[c][change[2]]
        /\ change[2] = Len(inputs[c]) => change[3] < n /\ NoEndBetween(q, change[3], n)
    BY <1>4, <1>6, <1>7, <1>8 DEF PendingInv
  <2>2. change = <<change[1], change[2], change[3]>>
    BY <1>1, <1>8 DEF SessionTyped, Content
  <2>3. CASE change[2] # Len(inputs[c])
    <3>1. Len(inputs[c]) \in (change[2] + 1)..Len(inputs[c])
      BY <1>1, <1>6, <2>1, <2>3 DEF SessionTyped
    <3>2. "commit" \in ToSet(inputs[c][Len(inputs[c])])
      BY <1>6 DEF Queue, ToSet
    <3>3. CommitsLater(c, change[2])'
      BY <1>3, <3>1, <3>2 DEF CommitsLater
    <3>4. QED
      BY <2>1, <3>3 DEF IsWhole
  <2>4. CASE change[2] = Len(inputs[c])
    <3> DEFINE k == change[3]
    <3> SUFFICES ASSUME InBlock(q, k)
                 PROVE  Committed(q, k) /\ \A j \in Unit(q, k) : <<c, Len(inputs[c]), j>> \in disk'
      BY <1>3, <2>1, <2>4 DEF IsWhole, Queue
    <3>1. k \in DOMAIN q /\ k < n /\ NoEndBetween(q, k, n)
      BY <2>1, <2>4 DEF Queue
    <3>2. /\ Committed(q, k)
          /\ \A j \in Unit(q, k) : j = k \/ (j \in 1..(n - 1) /\ q[j] = "write" /\ SameBlock(q, j, n))
      BY <1>6, <3>1, UnitBeforeCommit
    <3>3. InBlock(q, n)
      <4>1. k \in 1..n
        BY <1>6, <3>1
      <4>2. QED
        BY <1>6, <3>1, <4>1, SameBlockIsInBlock DEF SameBlock
    <3>4. \A j \in 1..(n - 1) : q[j] = "write" /\ SameBlock(q, j, n) => <<c, Len(inputs[c]), j>> \in block[c]
      BY <1>6, <1>7, <3>3 DEF BlockInv
    <3>5. ASSUME NEW j \in Unit(q, k) PROVE <<c, Len(inputs[c]), j>> \in disk'
      BY <1>4, <1>8, <2>1, <2>2, <2>4, <3>2, <3>4, <3>5
    <3>6. QED
      BY <3>2, <3>5
  <2>5. QED
    BY <2>3, <2>4
<1>9. QED
    BY <1>4, <1>5, <1>8 DEF KeepsBlocks

LEMMA StepKeepsBlocks ==
    ASSUME BlocksInv, NEW c \in Connections, Step(c)
    PROVE  KeepsBlocks(c)
<1>1. SessionTyped /\ SqliteTyped(Content)
    BY TypeOKSplit DEF BlocksInv, SessionInv
<1>2. CASE \/ \E query \in Arguments : RunArgument(c, query)
           \/ \E input \in Inputs : Enter(c, input)
  <2>1. ASSUME NEW query \in Arguments, RunArgument(c, query) PROVE KeepsBlocks(c)
    <3>1. <<query>> \in Seq(Queries)
      BY ArgumentsAssumption
    <3>2. QED
      BY <2>1, <3>1, TakeKeepsBlocks DEF RunArgument
  <2>2. ASSUME NEW input \in Inputs, Enter(c, input) PROVE KeepsBlocks(c)
    BY <2>2, InputsAssumption, TakeKeepsBlocks DEF Enter
  <2>3. QED
    BY <1>2, <2>1, <2>2
<1>3. CASE Open(c) \/ Interrupt(c) \/ EndOfInput(c) \/ Exit(c)
  <2>1. /\ UNCHANGED <<sqliteVars, block, inputs>>
        /\ pc'[c] # "running"
    BY <1>1, <1>3 DEF SessionTyped, Open, Interrupt, EndOfInput, Exit, Goto
  <2>2. QED
    BY <2>1, StopKeepsBlocks DEF sqliteVars
<1>4. CASE FinishInput(c) \/ Refuse(c)
  <2>1. Stop(c) /\ UNCHANGED <<sqliteVars, block>>
    BY <1>4 DEF FinishInput, Refuse
  <2>2. pc'[c] # "running" /\ inputs' = inputs
    BY <1>1, <2>1 DEF Stop, Goto, SessionTyped
  <2>3. QED
    BY <2>1, <2>2, StopKeepsBlocks DEF sqliteVars
<1>5. CASE CommitBusyFails(c) \/ QueryFails(c)
  <2>1. Stop(c) /\ block' = block /\ (CommitBusy(c) \/ StatementError(c))
    BY <1>5 DEF CommitBusyFails, QueryFails, Report
  <2>2. pc'[c] # "running" /\ inputs' = inputs
    BY <1>1, <2>1 DEF Stop, Goto, SessionTyped
  <2>3. disk' = disk /\ (txn'[c] => txn[c])
    BY <1>1, <2>1 DEF CommitBusy, StatementError, Release, sqliteVars, SqliteTyped
  <2>4. QED
    BY <2>1, <2>2, <2>3, StopKeepsBlocks
<1>6. CASE Leave(c) \/ Crash(c)
  <2>1. Release(c) /\ inputs' = inputs /\ pc' = [pc EXCEPT ![c] = "closed"]
    BY <1>6 DEF Leave, Crash, Gone, Goto
  <2>2. pc'[c] # "running" /\ disk' = disk /\ ~txn'[c]
    BY <1>1, <2>1 DEF Release, SqliteTyped, SessionTyped
  <2>3. QED
    BY <2>1, <2>2, StopKeepsBlocks
<1>7. CASE RollbackTransaction(c)
  <2>1. /\ Running(c) /\ Advance(c) /\ Query(c) = "rollback" /\ Release(c)
        /\ block' = [block EXCEPT ![c] = {}]
    BY <1>7 DEF RollbackTransaction, Rollback, Command, Runs
  <2>2. disk' = disk /\ block'[c] = {}
    BY <1>1, <2>1 DEF Release, SessionTyped
  <2>3. QED
    BY <2>1, <2>2, EndKeepsBlocks DEF KeepsBlocks, EndsBlock
<1>8. QED
    BY <1>2, <1>3, <1>4, <1>5, <1>6, <1>7, SelectKeepsBlocks, ChangeKeepsBlocks, StartKeepsBlocks,
       CommitKeepsBlocks DEF Step, RunInput

-----------------------------------------------------------------------------
\* Nothing has been made yet.
THEOREM InitBlocks == Init => BlocksInv
<1> SUFFICES ASSUME Init PROVE BlocksInv
    OBVIOUS
<1>1. SessionInv /\ disk = {}
    BY InitSession DEF Init, SqliteInit
<1>2. \A c \in Connections : ~txn[c] /\ pc[c] # "running"
    BY DEF Init, SqliteInit
<1>3. QED
    BY <1>1, <1>2 DEF BlocksInv, BlockInv, PendingInv

\* A step of a session leaves alone what the invariant says of the others.
THEOREM StepBlocks == BlocksInv /\ [Next]_vars => BlocksInv'
<1> SUFFICES ASSUME BlocksInv, [Next]_vars PROVE BlocksInv'
    OBVIOUS
<1>1. SessionInv /\ SessionTyped /\ disk \in Content /\ AllPast
    BY TypeOKSplit DEF BlocksInv, SessionInv, TypeOK
<1>2. SessionInv' /\ SessionTyped'
  <2>1. SessionInv'
    BY <1>1, StepSession
  <2>2. TypeOK'
    BY <2>1 DEF SessionInv
  <2>3. QED
    BY <2>1, <2>2 DEF TypeOK, SessionTyped
<1>3. ASSUME NEW c \in Connections, Step(c)
      PROVE  BlocksInv'
  <2>1. KeepsBlocks(c)
    BY <1>3, StepKeepsBlocks
  <2>2. SqliteFrame(c) /\ SessionFrame(c)
    BY <1>1, <1>3, StepMoves DEF Moves
  <2>3. ASSUME NEW d \in Connections, d # c
        PROVE  BlockInv(d)' /\ PendingInv(d)'
    BY <2>2, <2>3 DEF BlocksInv, BlockInv, PendingInv, Queue, SqliteFrame, SessionFrame
  <2>4. ASSUME NEW change \in disk'
        PROVE  IsWhole(change)'
    <3>1. CASE change \in disk
      <4>1. change \in Changes /\ IsPast(change) /\ IsWhole(change)
        BY <1>1, <3>1 DEF BlocksInv, Content, Changes, AllPast
      <4>2. QED
        BY <1>1, <1>2, <2>1, <4>1, WholeStays DEF KeepsBlocks
    <3>2. CASE change \notin disk
      BY <2>1, <3>2 DEF KeepsBlocks
    <3>3. QED
      BY <3>1, <3>2
  <2>5. QED
    BY <1>2, <2>1, <2>3, <2>4 DEF BlocksInv, KeepsBlocks
<1>4. CASE UNCHANGED vars
  <2>1. UNCHANGED <<pc, inputs, next, block, txn, disk>>
    BY <1>4 DEF vars, sqliteVars, sessionVars
  <2>2. QED
    BY <1>2, <2>1 DEF BlocksInv, BlockInv, PendingInv, IsWhole, CommitsLater, Queue
<1>5. QED
    BY <1>3, <1>4 DEF Next

\* The invariant in every reachable state.
THEOREM BlocksInvariant == Spec => []BlocksInv
BY InitBlocks, StepBlocks, PTL DEF Spec

\* A transaction pasted as one input is committed as a whole or, unless the user
\* commits later by hand, not at all: no error in the middle of the input lets its
\* commit run without the statements before it.
THEOREM PastesCommitWhole == Spec => []PastedBlocksAreWhole
<1>1. BlocksInv => PastedBlocksAreWhole
    BY DEF BlocksInv, IsWhole, PastedBlocksAreWhole
<1>2. QED
    BY <1>1, BlocksInvariant, PTL

=============================================================================
