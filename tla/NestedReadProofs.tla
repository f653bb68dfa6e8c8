--------------------------- MODULE NestedReadProofs ---------------------------
(***************************************************************************)
(* Proofs about FollowUps: the nested result of a select with multi links  *)
(* is made of lists that were true, for any plan of fetches, any contents  *)
(* and any other processes that write.                                     *)
(*                                                                         *)
(* The calls that are open form a stack.  The rows of each call but the    *)
(* outermost are the children of the batch its caller has sent, in one     *)
(* content of the file, and have true lists for the fetches done so far;   *)
(* the children its caller has collected are true lists for the parents of *)
(* the batches finished.  Batches have no parent in common, so that a list *)
(* is put together once.                                                   *)
(***************************************************************************)
EXTENDS FollowUps, CommonProofs

-----------------------------------------------------------------------------
\* The batches of follow-up fetches and the calls that are open

\* A sequence, whatever it is a sequence of.
IsSequence(s) == Len(s) \in Nat /\ s = [i \in 1..Len(s) |-> s[i]]

LEMMA SequenceOf ==
    ASSUME NEW s, IsSequence(s)
    PROVE  s \in Seq({s[i] : i \in 1..Len(s)})
BY DEF IsSequence

\* Sequence t is s with x at its top.
HasTop(t, x, s) ==
    /\ IsSequence(t) /\ t # <<>>
    /\ \A i \in DOMAIN t : \/ i = 1 /\ t[i] = x
                           \/ i > 1 /\ i \in DOMAIN s /\ t[i] = s[i]

LEMMA TopReplaced ==
    ASSUME NEW s, NEW x, IsSequence(s), s # <<>>
    PROVE  \A t : t = <<x>> \o Tail(s) => HasTop(t, x, s)
<1> TAKE t
<1> HAVE t = <<x>> \o Tail(s)
<1> DEFINE S == {s[i] : i \in 1..Len(s)} \cup {x}
<1>1. s \in Seq(S) /\ <<x>> \in Seq(S)
    BY DEF IsSequence
<1>2. QED
    BY <1>1 DEF IsSequence, HasTop

-----------------------------------------------------------------------------
\* Lists of the members of a finite set.

LEMMA SetToSeqTyped ==
    ASSUME NEW S, IsFiniteSet(S)
    PROVE  SetToSeq(S) \in Seq(S) /\ IsFiniteSet(DOMAIN SetToSeq(S))
<1>1. Cardinality(S) \in Nat /\ ExistsBijection(1..Cardinality(S), S)
    BY FS_CardinalityType
<1>2. \E f \in [1..Cardinality(S) -> S] : IsInjective(f)
    BY <1>1 DEF ExistsBijection, Bijection, Injection
<1>3. SetToSeq(S) \in [1..Cardinality(S) -> S]
    BY <1>2 DEF SetToSeq
<1>4. SetToSeq(S) \in Seq(S) /\ DOMAIN SetToSeq(S) = 1..Cardinality(S)
    BY <1>1, <1>3
<1>5. QED
    BY <1>1, <1>4, FS_Interval

\* slice::chunks: no chunk is empty or longer than asked for.
LEMMA ChunksTyped ==
    ASSUME NEW S, NEW ids \in Seq(S), NEW size \in Nat \ {0}
    PROVE  /\ Chunks(ids, size) \in Seq(Seq(S))
           /\ \A k \in DOMAIN Chunks(ids, size) :
                 Chunks(ids, size)[k] # <<>> /\ Len(Chunks(ids, size)[k]) <= size
<1> DEFINE L == Len(ids)
           N == (L + size - 1) \div size
<1>1. L \in Nat /\ N \in Nat /\ N * size <= L + size - 1
    OBVIOUS
<1>2. ASSUME NEW k \in 1..N
      PROVE  /\ (k - 1) * size \in Nat /\ k * size \in Nat /\ (k - 1) * size < L
             /\ k * size = (k - 1) * size + size
  <2>1. k * size <= N * size
    BY <1>1
  <2>2. QED
    BY <1>1, <2>1
<1>3. ASSUME NEW k \in 1..N, NEW chunk, chunk = SubSeq(ids, (k - 1) * size + 1, Smaller(k * size, L))
      PROVE  chunk \in Seq(S) /\ chunk # <<>> /\ Len(chunk) <= size
  <2> DEFINE from == (k - 1) * size
             to == Smaller(k * size, L)
  <2>1. from \in Nat /\ to \in Nat /\ from < to /\ to <= L /\ to <= from + size
    BY <1>1, <1>2 DEF Smaller
  <2> HIDE DEF from, to
  <2>2. chunk = SubSeq(ids, from + 1, to)
    BY <1>3 DEF from, to
  <2>3. Len(chunk) = to - from /\ chunk \in Seq(S)
    BY <2>1, <2>2
  <2>4. QED
    BY <2>1, <2>3
<1>4. Chunks(ids, size) = [k \in 1..N |-> SubSeq(ids, (k - 1) * size + 1, Smaller(k * size, L))]
    BY DEF Chunks
<1> HIDE DEF N
<1>5. \A k \in 1..N : /\ Chunks(ids, size)[k] \in Seq(S)
                      /\ Chunks(ids, size)[k] # <<>> /\ Len(Chunks(ids, size)[k]) <= size
    BY <1>3, <1>4
<1>6. DOMAIN Chunks(ids, size) = 1..N
    BY <1>4
<1>7. Chunks(ids, size) \in [1..N -> Seq(S)]
    BY <1>4, <1>5
<1>8. QED
    BY <1>1, <1>5, <1>6, <1>7

-----------------------------------------------------------------------------
\* The invariant.

\* There are finitely many rows, and each has an owner or none for every fetch.
RowsTyped(rows, fetches) ==
    /\ IsFiniteSet(DOMAIN rows)
    /\ \A k \in DOMAIN rows :
          /\ "owners" \in DOMAIN rows[k]
          /\ \A i \in DOMAIN fetches : rows[k].owners[i] \in Ids \cup {NoId}

BatchFits(fetch, batch) == batch # <<>> /\ FixedBinds[fetch] + Len(batch) <= MaxBindValues

CallInv(call) ==
    /\ call = [fetches |-> call.fetches, rows |-> call.rows, index |-> call.index,
               started |-> call.started, batches |-> call.batches, children |-> call.children]
    /\ CallTypeOK(call)
    /\ RowsTyped(call.rows, call.fetches)
    /\ \A k \in DOMAIN call.batches : BatchFits(Fetch(call), call.batches[k])

StackInv(s) ==
    /\ IsSequence(s)
    /\ \A i \in DOMAIN s : CallInv(s[i]) /\ (i > 1 => s[i].started)

FollowUpsInv ==
    /\ SqliteTyped(Databases)
    /\ pc \in [Readers -> PcValues]
    /\ stack = [c \in Readers |-> stack[c]]
    /\ \A c \in Readers : StackInv(stack[c]) /\ (stack[c] # <<>> <=> pc[c] = "running")

LEMMA EmptyStack == StackInv(<<>>)
BY DEF StackInv, IsSequence

-----------------------------------------------------------------------------
\* What is done with one call.

LEMMA NewCall ==
    ASSUME NEW fetches \in Seq(Fetches), NEW rows, RowsTyped(rows, fetches)
    PROVE  CallInv(Call(fetches, rows))
<1> DEFINE call == Call(fetches, rows)
<1>1. /\ call.fetches = fetches /\ call.rows = rows /\ call.index = 1
      /\ call.started = FALSE /\ call.batches = <<>>
    BY DEF Call
<1>2. call = [fetches |-> call.fetches, rows |-> call.rows, index |-> call.index,
              started |-> call.started, batches |-> call.batches, children |-> call.children]
    BY DEF Call
<1> HIDE DEF call
<1>3. 1 \in 1..(Len(fetches) + 1) /\ <<>> \in Seq(Seq(Ids)) /\ DOMAIN <<>> = {}
    OBVIOUS
<1>4. CallTypeOK(call)
    BY <1>1, <1>3 DEF CallTypeOK
<1>5. CallInv(call)
    BY <1>1, <1>2, <1>3, <1>4 DEF CallInv
<1>6. QED
    BY <1>5 DEF call

LEMMA SelectRowsTyped ==
    ASSUME NEW d \in Databases
    PROVE  RowsTyped(SelectRows(d), RootFetches)
<1> DEFINE row == [id \in d.rows |-> Row(d, RootFetches, NoId, id)]
           found == {Row(d, RootFetches, NoId, id) : id \in d.rows}
<1>1. IsFiniteSet(d.rows) /\ d.rows \subseteq Ids
    BY IdsAssumption, DatabasesAssumption, FS_Subset
<1>2. row \in Surjection(d.rows, found)
    BY DEF Surjection
<1>3. IsFiniteSet(found)
    BY <1>1, <1>2, FS_Surjection
<1>4. \A r \in found : /\ "owners" \in DOMAIN r
                       /\ \A i \in DOMAIN RootFetches : r.owners[i] \in Ids \cup {NoId}
  <2> SUFFICES ASSUME NEW id \in d.rows, NEW i \in DOMAIN RootFetches
               PROVE  d.owner[RootFetches[i]][id] \in Ids \cup {NoId}
      BY DEF Row
  <2>1. RootFetches[i] \in Fetches
    BY PlanAssumption
  <2>2. QED
    BY <1>1, <2>1, DatabasesAssumption
<1> HIDE DEF found
<1>5. SetToSeq(found) \in Seq(found) /\ IsFiniteSet(DOMAIN SetToSeq(found))
    BY <1>3, SetToSeqTyped
<1>6. \A k \in DOMAIN SetToSeq(found) : SetToSeq(found)[k] \in found
    BY <1>5
<1>7. RowsTyped(SetToSeq(found), RootFetches)
    BY <1>4, <1>5, <1>6 DEF RowsTyped
<1>8. QED
    BY <1>7 DEF found, SelectRows

LEMMA BatchRowsTyped ==
    ASSUME NEW d \in Databases, NEW f \in Fetches, NEW batch
    PROVE  RowsTyped(BatchRows(d, f, batch), SubFetches[f])
<1> DEFINE pairs == {p \in d.links[f] : p[1] \in ToSet(batch)}
           row == [pair \in pairs |-> Row(d, SubFetches[f], pair[1], pair[2])]
           found == {Row(d, SubFetches[f], pair[1], pair[2]) : pair \in pairs}
<1>1. IsFiniteSet(pairs) /\ pairs \subseteq Ids \X Ids
  <2>1. IsFiniteSet(Ids \X Ids)
    BY IdsAssumption, FS_Product
  <2>2. pairs \subseteq Ids \X Ids
    BY DatabasesAssumption
  <2>3. QED
    BY <2>1, <2>2, FS_Subset
<1> HIDE DEF pairs
<1>2. row \in Surjection(pairs, found)
    BY DEF Surjection
<1>3. IsFiniteSet(found)
    BY <1>1, <1>2, FS_Surjection
<1>4. \A r \in found : /\ "owners" \in DOMAIN r
                       /\ \A i \in DOMAIN SubFetches[f] : r.owners[i] \in Ids \cup {NoId}
  <2> SUFFICES ASSUME NEW pair \in pairs, NEW i \in DOMAIN SubFetches[f]
               PROVE  d.owner[SubFetches[f][i]][pair[2]] \in Ids \cup {NoId}
      BY DEF Row
  <2>1. SubFetches[f][i] \in Fetches /\ pair[2] \in Ids
    BY <1>1, PlanAssumption
  <2>2. QED
    BY <2>1, DatabasesAssumption
<1> HIDE DEF found
<1>5. SetToSeq(found) \in Seq(found) /\ IsFiniteSet(DOMAIN SetToSeq(found))
    BY <1>3, SetToSeqTyped
<1>6. \A k \in DOMAIN SetToSeq(found) : SetToSeq(found)[k] \in found
    BY <1>5
<1>7. RowsTyped(SetToSeq(found), SubFetches[f])
    BY <1>4, <1>5, <1>6 DEF RowsTyped
<1>8. QED
    BY <1>7 DEF found, pairs, BatchRows

LEMMA ParentIdsTyped ==
    ASSUME NEW call, CallInv(call), ~AtEnd(call)
    PROVE  ParentIds(call) \in Seq(Ids) /\ Fetch(call) \in Fetches /\ call.index \in DOMAIN call.fetches
<1> DEFINE rows == call.rows
           owners == {rows[k].owners[call.index] : k \in DOMAIN rows}
           owner == [k \in DOMAIN rows |-> rows[k].owners[call.index]]
<1>1. call.index \in DOMAIN call.fetches /\ Fetch(call) \in Fetches
    BY DEF CallInv, CallTypeOK, AtEnd, Fetch
<1>2. owner \in Surjection(DOMAIN rows, owners)
    BY DEF Surjection
<1>3. IsFiniteSet(owners)
    BY <1>2, FS_Surjection DEF CallInv, RowsTyped
<1>4. owners \ {NoId} \subseteq Ids
    BY <1>1 DEF CallInv, RowsTyped
<1>5. IsFiniteSet(owners \ {NoId})
    BY <1>3, FS_RemoveElement
<1>6. SetToSeq(owners \ {NoId}) \in Seq(Ids)
  <2> HIDE DEF owners
  <2>1. SetToSeq(owners \ {NoId}) \in Seq(owners \ {NoId})
    BY <1>5, SetToSeqTyped
  <2>2. QED
    BY <1>4, <2>1
<1>7. QED
    BY <1>1, <1>6 DEF ParentIds

LEMMA NextFetchTyped ==
    ASSUME NEW call, CallInv(call), ~AtEnd(call), call.batches = <<>>
    PROVE  CallInv(NextFetch(call))
<1>1. PICK new : new = [fetches |-> call.fetches, rows |-> call.rows, index |-> call.index + 1,
                        started |-> FALSE, batches |-> call.batches, children |-> call.children]
    OBVIOUS
<1>2. NextFetch(call) = new
  <2>1. PICK f, r, x, s, b, ch : call = [fetches |-> f, rows |-> r, index |-> x,
                                         started |-> s, batches |-> b, children |-> ch] /\ x \in Int
    BY DEF CallInv, CallTypeOK
  <2>2. NextFetch(call) = [fetches |-> f, rows |-> r, index |-> x + 1,
                           started |-> FALSE, batches |-> b, children |-> ch]
    <3>1. PICK one : one = [call EXCEPT !.index = x + 1]
      OBVIOUS
    <3>2. one = [fetches |-> f, rows |-> r, index |-> x + 1,
                 started |-> s, batches |-> b, children |-> ch]
      BY <2>1, <3>1
    <3>3. NextFetch(call) = [one EXCEPT !.started = FALSE]
      BY <2>1, <3>1 DEF NextFetch
    <3>4. QED
      BY <3>2, <3>3
  <2>3. QED
    BY <1>1, <2>1, <2>2
<1>3. call.index + 1 \in 1..(Len(call.fetches) + 1)
    BY DEF CallInv, CallTypeOK, AtEnd
<1>4. CallTypeOK(new) /\ DOMAIN new.batches = {}
    BY <1>1, <1>3 DEF CallInv, CallTypeOK
<1>5. RowsTyped(new.rows, new.fetches)
    BY <1>1 DEF CallInv
<1>6. new = [fetches |-> new.fetches, rows |-> new.rows, index |-> new.index,
             started |-> new.started, batches |-> new.batches, children |-> new.children]
    BY <1>1
<1>7. QED
    BY <1>2, <1>4, <1>5, <1>6 DEF CallInv

LEMMA AttachedTyped ==
    ASSUME NEW call, CallInv(call), NEW new, new = [call EXCEPT !.rows = Attached(call)]
    PROVE  CallInv(new) /\ AtEnd(new) = AtEnd(call) /\ new.batches = call.batches
<1>1. /\ new.fetches = call.fetches /\ new.rows = Attached(call) /\ new.index = call.index
      /\ new.started = call.started /\ new.batches = call.batches
      /\ new = [fetches |-> new.fetches, rows |-> new.rows, index |-> new.index,
                started |-> new.started, batches |-> new.batches, children |-> new.children]
    BY DEF CallInv
<1>2. DOMAIN Attached(call) = DOMAIN call.rows
    BY DEF Attached
<1>3. ASSUME NEW k \in DOMAIN call.rows
      PROVE  /\ "owners" \in DOMAIN Attached(call)[k]
             /\ Attached(call)[k].owners = call.rows[k].owners
  <2>1. "owners" \in DOMAIN call.rows[k]
    BY DEF CallInv, RowsTyped
  <2>2. \A x : LET changed == [call.rows[k] EXCEPT !.lists[call.index] = x]
              IN  "owners" \in DOMAIN changed /\ changed.owners = call.rows[k].owners
    BY <2>1
  <2>3. QED
    BY <2>1, <2>2 DEF Attached
<1>4. RowsTyped(new.rows, new.fetches)
    BY <1>1, <1>2, <1>3 DEF CallInv, RowsTyped
<1>5. CallTypeOK(new) /\ Fetch(new) = Fetch(call) /\ AtEnd(new) = AtEnd(call)
    BY <1>1 DEF CallInv, CallTypeOK, Fetch, AtEnd
<1>6. QED
    BY <1>1, <1>4, <1>5 DEF CallInv

\* The batches of a fetch leave room for what its projection binds.
LEMMA StartedTyped ==
    ASSUME NEW call, CallInv(call), ~AtEnd(call), BatchSize(Fetch(call)) > 0,
           NEW new, new = [call EXCEPT !.started = TRUE,
                                       !.batches = Chunks(ParentIds(call), BatchSize(Fetch(call))),
                                       !.children = [id \in Ids |-> <<>>]]
    PROVE  CallInv(new) /\ new.started
<1> DEFINE size == BatchSize(Fetch(call))
           chunks == Chunks(ParentIds(call), size)
<1>1. ParentIds(call) \in Seq(Ids) /\ Fetch(call) \in Fetches /\ call.index \in DOMAIN call.fetches
    BY ParentIdsTyped
<1>2. size \in Nat \ {0} /\ size = MaxBindValues - FixedBinds[Fetch(call)]
      /\ FixedBinds[Fetch(call)] \in Nat /\ MaxBindValues \in Nat
    BY <1>1, PlanAssumption DEF BatchSize
<1>3. /\ new.fetches = call.fetches /\ new.rows = call.rows /\ new.index = call.index
      /\ new.started = TRUE /\ new.batches = chunks
      /\ new = [fetches |-> new.fetches, rows |-> new.rows, index |-> new.index,
                started |-> new.started, batches |-> new.batches, children |-> new.children]
    BY DEF CallInv
<1> HIDE DEF size
<1>4. chunks \in Seq(Seq(Ids)) /\ \A k \in DOMAIN chunks : chunks[k] # <<>> /\ Len(chunks[k]) <= size
    BY <1>1, <1>2, ChunksTyped
<1> HIDE DEF chunks
<1>5. ASSUME NEW k \in DOMAIN chunks
      PROVE  BatchFits(Fetch(call), chunks[k])
  <2>1. chunks[k] \in Seq(Ids) /\ Len(chunks[k]) \in Nat
    BY <1>4
  <2>2. QED
    BY <1>2, <1>4, <2>1 DEF BatchFits
<1>6. CallTypeOK(new) /\ Fetch(new) = Fetch(call)
    BY <1>1, <1>3, <1>4 DEF CallInv, CallTypeOK, Fetch
<1>7. QED
    BY <1>3, <1>5, <1>6 DEF CallInv

LEMMA BatchTakenTyped ==
    ASSUME NEW call, CallInv(call), call.started, call.batches # <<>>,
           NEW new, new = [call EXCEPT !.batches = Tail(@)]
    PROVE  CallInv(new) /\ new.started
<1>1. /\ new.fetches = call.fetches /\ new.rows = call.rows /\ new.index = call.index
      /\ new.started = call.started /\ new.batches = Tail(call.batches)
      /\ new = [fetches |-> new.fetches, rows |-> new.rows, index |-> new.index,
                started |-> new.started, batches |-> new.batches, children |-> new.children]
    BY DEF CallInv
<1>2. call.batches \in Seq(Seq(Ids))
    BY DEF CallInv, CallTypeOK
<1>3. /\ Tail(call.batches) \in Seq(Seq(Ids))
      /\ \A k \in DOMAIN Tail(call.batches) :
            k + 1 \in DOMAIN call.batches /\ Tail(call.batches)[k] = call.batches[k + 1]
    BY <1>2
<1>4. CallTypeOK(new) /\ Fetch(new) = Fetch(call)
    BY <1>1, <1>3 DEF CallInv, CallTypeOK, Fetch
<1>5. \A k \in DOMAIN new.batches : BatchFits(Fetch(new), new.batches[k])
    BY <1>1, <1>3, <1>4 DEF CallInv
<1>6. RowsTyped(new.rows, new.fetches)
    BY <1>1 DEF CallInv
<1>7. new.started
    BY <1>1
<1>8. QED
    BY <1>1, <1>4, <1>5, <1>6, <1>7 DEF CallInv

LEMMA GroupedTyped ==
    ASSUME NEW call, CallInv(call), call.started,
           NEW children, NEW new, new = [call EXCEPT !.children = children]
    PROVE  CallInv(new) /\ new.started
<1>1. /\ new.fetches = call.fetches /\ new.rows = call.rows /\ new.index = call.index
      /\ new.started = call.started /\ new.batches = call.batches
      /\ new = [fetches |-> new.fetches, rows |-> new.rows, index |-> new.index,
                started |-> new.started, batches |-> new.batches, children |-> new.children]
    BY DEF CallInv
<1>2. CallTypeOK(new) /\ Fetch(new) = Fetch(call)
    BY <1>1 DEF CallInv, CallTypeOK, Fetch
<1>3. QED
    BY <1>1, <1>2 DEF CallInv

-----------------------------------------------------------------------------
\* Steps of a reader, as far as its calls are concerned.

LEMMA ReplaceTopKeeps ==
    ASSUME NEW s, StackInv(s), s # <<>>, NEW call, CallInv(call), NEW t, t = <<call>> \o Tail(s)
    PROVE  StackInv(t) /\ t # <<>>
<1>1. HasTop(t, call, s)
    BY TopReplaced DEF StackInv
<1>2. QED
    BY <1>1 DEF HasTop, StackInv

LEMMA PushKeeps ==
    ASSUME NEW s, NEW call, NEW caller, NEW t, StackInv(s), s # <<>>,
           CallInv(call), CallInv(caller), caller.started, t = <<call, caller>> \o Tail(s)
    PROVE  StackInv(t) /\ t # <<>>
<1> DEFINE S == {s[i] : i \in 1..Len(s)} \cup {call, caller}
<1>1. s \in Seq(S) /\ <<call, caller>> \in Seq(S)
    BY DEF StackInv, IsSequence
<1>2. Tail(s) \in Seq(S) /\ Len(Tail(s)) = Len(s) - 1 /\ \A i \in 1..(Len(s) - 1) : Tail(s)[i] = s[i + 1]
    BY <1>1
<1>3. t \in Seq(S) /\ Len(t) = Len(s) + 1 /\ t[1] = call /\ t[2] = caller
    BY <1>1, <1>2
<1>4. \A i \in 3..Len(t) : t[i] = s[i - 1] /\ i - 1 \in DOMAIN s /\ i - 1 > 1
    BY <1>1, <1>2, <1>3
<1>5. IsSequence(t) /\ t # <<>>
    BY <1>3 DEF IsSequence
<1>6. ASSUME NEW i \in DOMAIN t
      PROVE  CallInv(t[i]) /\ (i > 1 => t[i].started)
  <2>1. i = 1 \/ i = 2 \/ i \in 3..Len(t)
    BY <1>3
  <2>2. QED
    BY <1>3, <1>4, <2>1 DEF StackInv
<1>7. QED
    BY <1>5, <1>6 DEF StackInv

LEMMA PopKeeps ==
    ASSUME NEW s, NEW caller, NEW t, StackInv(s), Len(s) > 1,
           CallInv(caller), caller.started, t = <<caller>> \o SubSeq(s, 3, Len(s))
    PROVE  StackInv(t) /\ t # <<>>
<1> DEFINE S == {s[i] : i \in 1..Len(s)} \cup {caller}
<1>1. s \in Seq(S) /\ <<caller>> \in Seq(S)
    BY DEF StackInv, IsSequence
<1>2. SubSeq(s, 3, Len(s)) \in Seq(S) /\ \A i \in 1..Len(SubSeq(s, 3, Len(s))) :
          SubSeq(s, 3, Len(s))[i] = s[i + 2] /\ i + 2 \in DOMAIN s
    BY <1>1
<1>3. t \in Seq(S) /\ Len(t) = 1 + Len(SubSeq(s, 3, Len(s))) /\ t[1] = caller
    BY <1>1, <1>2
<1>4. \A i \in 2..Len(t) : t[i] = s[i + 1] /\ i + 1 \in DOMAIN s /\ i + 1 > 1
    BY <1>1, <1>2, <1>3
<1>5. IsSequence(t) /\ t # <<>>
    BY <1>3 DEF IsSequence
<1>6. ASSUME NEW i \in DOMAIN t
      PROVE  CallInv(t[i]) /\ (i > 1 => t[i].started)
  <2>1. i = 1 \/ i \in 2..Len(t)
    BY <1>3
  <2>2. QED
    BY <1>3, <1>4, <2>1 DEF StackInv
<1>7. QED
    BY <1>5, <1>6 DEF StackInv

LEMMA OnlyCall ==
    ASSUME NEW call, CallInv(call)
    PROVE  StackInv(<<call>>) /\ <<call>> # <<>>
BY DEF StackInv, IsSequence

LEMMA TopTyped ==
    ASSUME FollowUpsInv, NEW c \in Readers, pc[c] = "running"
    PROVE  /\ StackInv(stack[c]) /\ stack[c] # <<>> /\ CallInv(Top(c))
           /\ ~Top(c).started => Top(c).batches = <<>>
<1>1. StackInv(stack[c]) /\ stack[c] # <<>>
    BY DEF FollowUpsInv
<1>2. Top(c) = stack[c][1] /\ 1 \in DOMAIN stack[c]
  <2>1. stack[c] \in Seq({stack[c][i] : i \in 1..Len(stack[c])})
    BY <1>1, SequenceOf DEF StackInv
  <2>2. QED
    BY <1>1, <2>1 DEF Top
<1>3. CallInv(Top(c))
    BY <1>1, <1>2 DEF StackInv
<1>4. QED
    BY <1>1, <1>3 DEF CallInv, CallTypeOK

\* A step of reader c that leaves it with stack s.
LEMMA ReaderKeeps ==
    ASSUME FollowUpsInv, NEW c \in Readers, SqliteTyped(Databases)',
           NEW label \in PcValues, pc' = [pc EXCEPT ![c] = label],
           NEW s, stack' = [stack EXCEPT ![c] = s],
           StackInv(s), s # <<>> <=> label = "running"
    PROVE  FollowUpsInv'
<1>1. pc' \in [Readers -> PcValues] /\ pc'[c] = label /\ \A d \in Readers \ {c} : pc'[d] = pc[d]
    BY DEF FollowUpsInv
<1>2. /\ stack' = [d \in Readers |-> stack'[d]] /\ stack'[c] = s
      /\ \A d \in Readers \ {c} : stack'[d] = stack[d]
    BY DEF FollowUpsInv
<1>3. ASSUME NEW d \in Readers
      PROVE  StackInv(stack'[d]) /\ (stack'[d] # <<>> <=> pc'[d] = "running")
  <2>1. CASE d = c
    BY <1>1, <1>2, <2>1
  <2>2. CASE d # c
    BY <1>1, <1>2, <2>2 DEF FollowUpsInv
  <2>3. QED
    BY <2>1, <2>2
<1>4. QED
    BY <1>1, <1>2, <1>3 DEF FollowUpsInv, StackInv, IsSequence, CallInv, CallTypeOK, RowsTyped,
       BatchFits, Fetch

LEMMA ReadNowTyped ==
    ASSUME FollowUpsInv, NEW c \in Readers, ReadNow(c)
    PROVE  SqliteTyped(Databases)' /\ View(c) \in Databases
BY ReadersAssumption, ReadTyped, ViewTyped DEF FollowUpsInv, ReadNow

LEMMA RunningKept ==
    ASSUME FollowUpsInv, NEW c \in Readers, pc[c] = "running", UNCHANGED pc
    PROVE  pc' = [pc EXCEPT ![c] = "running"] /\ "running" \in PcValues
BY DEF FollowUpsInv, PcValues

LEMMA SelectRootsKeeps ==
    ASSUME FollowUpsInv, NEW c \in Readers, SelectRoots(c)
    PROVE  FollowUpsInv'
<1>1. SqliteTyped(Databases)' /\ View(c) \in Databases
    BY ReadNowTyped DEF SelectRoots
<1>2. CallInv(Call(RootFetches, SelectRows(View(c))))
    BY <1>1, SelectRowsTyped, NewCall, PlanAssumption
<1>3. "running" \in PcValues
    BY DEF PcValues
<1>4. QED
    BY <1>1, <1>2, <1>3, OnlyCall, ReaderKeeps DEF SelectRoots, Goto

\* Steps that replace the innermost call and do nothing else.
LEMMA ReplaceKeeps ==
    ASSUME FollowUpsInv, NEW c \in Readers, pc[c] = "running",
           UNCHANGED <<sqliteVars, pc>>, NEW call, CallInv(call), ReplaceTop(c, call)
    PROVE  FollowUpsInv'
<1>1. StackInv(stack[c]) /\ stack[c] # <<>>
    BY TopTyped
<1>2. PICK t : t = <<call>> \o Tail(stack[c])
    OBVIOUS
<1>3. StackInv(t) /\ t # <<>>
    BY <1>1, <1>2, ReplaceTopKeeps
<1>4. SqliteTyped(Databases)'
    BY SqliteUnchangedTyped DEF FollowUpsInv
<1>5. pc' = [pc EXCEPT ![c] = "running"] /\ "running" \in PcValues
    BY RunningKept
<1>6. stack' = [stack EXCEPT ![c] = t]
    BY <1>2 DEF ReplaceTop
<1>7. QED
    BY <1>3, <1>4, <1>5, <1>6, ReaderKeeps

LEMMA FetchKeeps ==
    ASSUME FollowUpsInv, NEW c \in Readers, SkipFetch(c) \/ StartFetch(c) \/ FinishFetch(c)
    PROVE  FollowUpsInv'
<1>1. pc[c] = "running" /\ ~AtEnd(Top(c)) /\ UNCHANGED <<sqliteVars, pc>>
    BY DEF SkipFetch, StartFetch, FinishFetch
<1>2. CallInv(Top(c)) /\ (~Top(c).started => Top(c).batches = <<>>)
    BY <1>1, TopTyped
<1>3. CASE SkipFetch(c)
  <2>1. CallInv(NextFetch(Top(c)))
    BY <1>1, <1>2, <1>3, NextFetchTyped DEF SkipFetch
  <2>2. QED
    BY <1>1, <1>3, <2>1, ReplaceKeeps DEF SkipFetch
<1>4. CASE StartFetch(c)
  <2>1. PICK new : new = [Top(c) EXCEPT !.started = TRUE,
                                        !.batches = Chunks(ParentIds(Top(c)), BatchSize(Fetch(Top(c)))),
                                        !.children = [id \in Ids |-> <<>>]]
    OBVIOUS
  <2>2. CallInv(new)
    BY <1>1, <1>2, <1>4, <2>1, StartedTyped DEF StartFetch
  <2>3. QED
    BY <1>1, <1>4, <2>1, <2>2, ReplaceKeeps DEF StartFetch
<1>5. CASE FinishFetch(c)
  <2>1. PICK new : new = [Top(c) EXCEPT !.rows = Attached(Top(c))]
    OBVIOUS
  <2>2. CallInv(new) /\ AtEnd(new) = AtEnd(Top(c)) /\ new.batches = Top(c).batches
    BY <1>2, <2>1, AttachedTyped
  <2>3. CallInv(NextFetch(new))
    BY <1>1, <1>5, <2>2, NextFetchTyped DEF FinishFetch
  <2>4. QED
    BY <1>1, <1>5, <2>1, <2>3, ReplaceKeeps DEF FinishFetch
<1>6. QED
    BY <1>3, <1>4, <1>5

LEMMA FetchBatchKeeps ==
    ASSUME FollowUpsInv, NEW c \in Readers, FetchBatch(c)
    PROVE  FollowUpsInv'
<1> DEFINE fetch == Fetch(Top(c))
<1>1. /\ pc[c] = "running" /\ ~AtEnd(Top(c)) /\ Top(c).started /\ Top(c).batches # <<>>
      /\ UNCHANGED pc
    BY DEF FetchBatch
<1>2. StackInv(stack[c]) /\ stack[c] # <<>> /\ CallInv(Top(c))
    BY <1>1, TopTyped
<1>3. SqliteTyped(Databases)' /\ View(c) \in Databases
    BY ReadNowTyped DEF FetchBatch
<1>4. PICK below : below = Call(SubFetches[fetch], BatchRows(View(c), fetch, Head(Top(c).batches)))
    OBVIOUS
<1>5. PICK caller : caller = [Top(c) EXCEPT !.batches = Tail(@)]
    OBVIOUS
<1>6. CallInv(below)
  <2>1. fetch \in Fetches /\ SubFetches[fetch] \in Seq(Fetches)
    BY <1>1, <1>2, ParentIdsTyped, PlanAssumption
  <2>2. QED
    BY <1>3, <1>4, <2>1, BatchRowsTyped, NewCall
<1>7. CallInv(caller) /\ caller.started
    BY <1>1, <1>2, <1>5, BatchTakenTyped
<1>8. PICK t : t = <<below, caller>> \o Tail(stack[c])
    OBVIOUS
<1>9. StackInv(t) /\ t # <<>>
    BY <1>2, <1>6, <1>7, <1>8, PushKeeps
<1>10. pc' = [pc EXCEPT ![c] = "running"] /\ "running" \in PcValues
    BY <1>1, RunningKept
<1>11. stack' = [stack EXCEPT ![c] = t]
    BY <1>4, <1>5, <1>8 DEF FetchBatch
<1>12. QED
    BY <1>3, <1>9, <1>10, <1>11, ReaderKeeps

LEMMA FinishBatchKeeps ==
    ASSUME FollowUpsInv, NEW c \in Readers, FinishBatch(c)
    PROVE  FollowUpsInv'
<1>1. pc[c] = "running" /\ Len(stack[c]) > 1 /\ UNCHANGED <<sqliteVars, pc>>
    BY DEF FinishBatch
<1>2. StackInv(stack[c]) /\ IsSequence(stack[c])
    BY <1>1, TopTyped DEF StackInv
<1>3. 2 \in DOMAIN stack[c]
    BY <1>1, <1>2, SequenceOf
<1>4. PICK caller : caller = [stack[c][2] EXCEPT !.children = Grouped(@, Top(c).rows)]
    OBVIOUS
<1>5. CallInv(stack[c][2]) /\ stack[c][2].started
    BY <1>2, <1>3 DEF StackInv
<1>6. CallInv(caller) /\ caller.started
    BY <1>4, <1>5, GroupedTyped
<1>7. PICK t : t = <<caller>> \o SubSeq(stack[c], 3, Len(stack[c]))
    OBVIOUS
<1>8. StackInv(t) /\ t # <<>>
    BY <1>1, <1>2, <1>6, <1>7, PopKeeps
<1>9. SqliteTyped(Databases)'
    BY <1>1, SqliteUnchangedTyped DEF FollowUpsInv
<1>10. pc' = [pc EXCEPT ![c] = "running"] /\ "running" \in PcValues
    BY <1>1, RunningKept
<1>11. stack' = [stack EXCEPT ![c] = t]
    BY <1>4, <1>7 DEF FinishBatch
<1>12. QED
    BY <1>8, <1>9, <1>10, <1>11, ReaderKeeps

\* Steps that leave no call.
LEMMA EndingKeeps ==
    ASSUME FollowUpsInv, NEW c \in Readers,
           \/ BeginBlock(c) \/ NoRoomForParents(c) \/ Answer(c) \/ StatementFails(c) \/ Close(c)
    PROVE  FollowUpsInv'
<1>1. SqliteTyped(Databases)'
  <2>1. SqliteTyped(Databases) /\ c \in Connections
    BY ReadersAssumption DEF FollowUpsInv
  <2>2. UNCHANGED sqliteVars \/ Begin(c) \/ StatementError(c) \/ Release(c)
    BY DEF BeginBlock, NoRoomForParents, Answer, StatementFails, Close
  <2>3. QED
    BY <2>1, <2>2, SqliteUnchangedTyped, BeginTyped, StatementErrorTyped, ReleaseTyped
<1>2. stack' = [stack EXCEPT ![c] = <<>>]
  <2>1. CASE NoRoomForParents(c) \/ Answer(c) \/ StatementFails(c)
    BY <2>1 DEF NoRoomForParents, Answer, StatementFails
  <2>2. CASE BeginBlock(c) \/ Close(c)
    <3>1. stack' = stack /\ pc[c] # "running"
      BY <2>2 DEF BeginBlock, Close
    <3>2. stack[c] = <<>>
      BY <3>1 DEF FollowUpsInv
    <3>3. QED
      BY <3>1, <3>2 DEF FollowUpsInv
  <2>3. QED
    BY <2>1, <2>2
<1>3. \E label \in PcValues \ {"running"} : pc' = [pc EXCEPT ![c] = label]
    BY DEF BeginBlock, NoRoomForParents, Answer, StatementFails, Close, Goto, PcValues
<1>4. QED
    BY <1>1, <1>2, <1>3, EmptyStack, ReaderKeeps

LEMMA SameCalls ==
    ASSUME FollowUpsInv, SqliteTyped(Databases)', UNCHANGED <<pc, stack>>
    PROVE  FollowUpsInv'
BY DEF FollowUpsInv

-----------------------------------------------------------------------------
\* Before any select runs there is no call, so the invariant of the calls holds.
THEOREM InitFollowUps == Init => FollowUpsInv
<1> SUFFICES ASSUME Init PROVE FollowUpsInv
    OBVIOUS
<1>1. SqliteTyped(Databases)
    BY InitTypedSqlite DEF Init
<1>2. QED
    BY <1>1, EmptyStack DEF Init, FollowUpsInv, PcValues

\* Entering a call, planning, running a batch and attaching its rows all keep it.
THEOREM StepFollowUps == FollowUpsInv /\ [Next]_vars => FollowUpsInv'
<1> SUFFICES ASSUME FollowUpsInv, [Next]_vars PROVE FollowUpsInv'
    OBVIOUS
<1>1. ASSUME NEW c \in Readers, BeginBlock(c) \/ ReaderStep(c)
      PROVE  FollowUpsInv'
    BY <1>1, SelectRootsKeeps, FetchKeeps, FetchBatchKeeps, FinishBatchKeeps, EndingKeeps DEF ReaderStep
<1>2. ASSUME NEW w \in Connections \ Readers, NEW d \in Databases, WriterCommits(w, d)
      PROVE  FollowUpsInv'
  <2>1. ~txn[w] /\ AutocommitWrite(w, d) /\ UNCHANGED <<pc, stack>>
    BY <1>2 DEF WriterCommits, AutocommitWrite
  <2>2. SqliteTyped(Databases)'
    BY <2>1, WriteTyped DEF FollowUpsInv
  <2>3. QED
    BY <2>1, <2>2, SameCalls
<1>3. CASE UNCHANGED vars
    BY <1>3, SqliteUnchangedTyped, SameCalls DEF vars, readerVars, FollowUpsInv
<1>4. QED
    BY <1>1, <1>2, <1>3 DEF Next

\* The invariant of the open calls and their batches holds throughout.
THEOREM FollowUpsInvariant == Spec => []FollowUpsInv
BY InitFollowUps, StepFollowUps, PTL DEF Spec

\* Calls are open exactly while a select runs, and those that wait for another
\* one are in the middle of a fetch.
THEOREM CallsTyped == Spec => []TypeOK
<1>1. FollowUpsInv => TypeOK
    BY DEF FollowUpsInv, SqliteTyped, StackInv, CallInv, TypeOK
<1>2. QED
    BY <1>1, FollowUpsInvariant, PTL

\* No statement of a select with multi links binds more values than SQLite takes,
\* and none asks for the children of nobody, for any plan and any rows.
THEOREM BatchesFit == Spec => []WithinBindLimit
<1>1. FollowUpsInv => WithinBindLimit
    BY DEF FollowUpsInv, StackInv, CallInv, BatchFits, WithinBindLimit
<1>2. QED
    BY <1>1, FollowUpsInvariant, PTL

-----------------------------------------------------------------------------
\* The levels of nested lists

LastDepth == Cardinality(Fetches)

LEMMA DepthsAreNumbers ==
    LastDepth \in Nat /\ Depths = 0..LastDepth /\ LastDepth \in Depths
BY TreeAssumption, FS_CardinalityType DEF Depths, LastDepth

\* What holds at depth 0 and one deeper than wherever it holds, holds at all depths.
LEMMA DepthsByStep ==
    ASSUME NEW T, 0 \in T, \A n \in Depths : n \in T /\ n + 1 \in Depths => n + 1 \in T
    PROVE  Depths \subseteq T
<1> DEFINE U == {n \in Nat : n \in Depths => n \in T}
<1>1. 0 \in U
    OBVIOUS
<1>2. ASSUME NEW n \in Nat, n \in U PROVE n + 1 \in U
    BY <1>2, DepthsAreNumbers
<1>3. Nat \subseteq U
  <2> HIDE DEF U
  <2>1. QED
    BY <1>1, <1>2, NaturalsByStep
<1>4. QED
    BY <1>3, DepthsAreNumbers

NestedOn(f, n) == Seq([id : Ids, lists : Seq(IF n = 0 THEN {} ELSE f[n - 1])])

LEMMA NestedListsAt ==
    \A n \in Depths : NestedLists[n] = NestedOn(NestedLists, n)
<1> DEFINE T == {m \in Depths : \E f : f = [n \in 0..m |-> NestedOn(f, n)]}
<1>1. 0 \in T
  <2>1. PICK f : f = [n \in 0..0 |-> Seq([id : Ids, lists : Seq({})])]
    OBVIOUS
  <2>2. \A n \in 0..0 : NestedOn(f, n) = Seq([id : Ids, lists : Seq({})])
    BY DEF NestedOn
  <2>3. f = [n \in 0..0 |-> NestedOn(f, n)]
    BY <2>1, <2>2
  <2>4. QED
    BY <2>3, DepthsAreNumbers
<1>2. ASSUME NEW m \in Depths, m \in T, m + 1 \in Depths PROVE m + 1 \in T
  <2>1. PICK f : f = [n \in 0..m |-> NestedOn(f, n)]
    BY <1>2
  <2>2. m \in Nat
    BY DepthsAreNumbers
  <2>3. PICK g : g = [n \in 0..(m + 1) |-> IF n <= m THEN f[n] ELSE NestedOn(f, n)]
    OBVIOUS
  <2>4. ASSUME NEW n \in 0..(m + 1) PROVE g[n] = NestedOn(g, n)
    <3>1. g[n] = NestedOn(f, n)
      <4>1. CASE n <= m
        <5>1. n \in 0..m
          BY <2>2, <4>1
        <5>2. f[n] = NestedOn(f, n)
          BY ONLY <2>1, <5>1, Zenon
        <5>3. QED
          BY <2>3, <4>1, <5>2
      <4>2. CASE ~(n <= m)
        BY <2>3, <4>2
      <4>3. QED
        BY <4>1, <4>2
    <3>2. n # 0 => g[n - 1] = f[n - 1]
      BY <2>2, <2>3
    <3>3. QED
      BY <3>1, <3>2 DEF NestedOn
  <2>5. g = [n \in 0..(m + 1) |-> NestedOn(g, n)]
    BY <2>3, <2>4
  <2>6. QED
    BY <1>2, <2>5
<1>3. LastDepth \in T
  <2> HIDE DEF T
  <2>1. QED
    BY <1>1, <1>2, DepthsByStep, DepthsAreNumbers
<1>4. PICK f : f = [n \in Depths |-> NestedOn(f, n)]
    BY <1>3, DepthsAreNumbers
<1>5. NestedLists = [n \in Depths |-> NestedOn(NestedLists, n)]
    BY <1>4, Zenon DEF NestedLists, NestedOn
<1>6. QED
    BY <1>5, Zenon

\* The local function of TrueLists, from what it is one depth less.
TrueFrom(contents, before, n) ==
    [fetch \in Fetches |-> [owner \in Ids \cup {NoId} |->
        {list \in NestedLists[n] :
            \E d \in contents :
                /\ ListOf(list, d, fetch, owner)
                /\ \A k \in DOMAIN list : \A j \in DOMAIN SubFetches[fetch] :
                      LET deeper == SubFetches[fetch][j]
                      IN  n # 0 /\ list[k].lists[j] \in before[deeper][d.owner[deeper][list[k].id]]}]]

TrueOn(contents, f, n) == TrueFrom(contents, f[n - 1], n)

LEMMA TrueOnSame ==
    ASSUME NEW contents, NEW n, NEW f, NEW g, n # 0 => f[n - 1] = g[n - 1]
    PROVE  TrueOn(contents, f, n) = TrueOn(contents, g, n)
<1>1. CASE n = 0
  <2>1. \A before : TrueFrom(contents, before, 0) = TrueFrom(contents, {}, 0)
    BY DEF TrueFrom
  <2>2. QED
    BY <1>1, <2>1 DEF TrueOn
<1>2. CASE n # 0
    BY <1>2, Zenon DEF TrueOn
<1>3. QED
    BY <1>1, <1>2

LEMMA TrueListsAt ==
    ASSUME NEW contents
    PROVE  \A n \in Depths : TrueLists(contents)[n] = TrueOn(contents, TrueLists(contents), n)
<1> DEFINE T == {m \in Depths : \E f : f = [n \in 0..m |-> TrueOn(contents, f, n)]}
<1>1. 0 \in T
  <2>1. PICK any : any = [n \in {} |-> n]
    OBVIOUS
  <2>2. PICK f : f = [n \in 0..0 |-> TrueOn(contents, any, n)]
    OBVIOUS
  <2>3. ASSUME NEW n \in 0..0 PROVE f[n] = TrueOn(contents, f, n)
    <3>1. n = 0
      OBVIOUS
    <3>2. TrueOn(contents, any, n) = TrueOn(contents, f, n)
      BY <3>1, TrueOnSame
    <3>3. QED
      BY <2>2, <3>2
  <2>4. f = [n \in 0..0 |-> TrueOn(contents, f, n)]
    BY <2>2, <2>3
  <2>5. QED
    BY <2>4, DepthsAreNumbers
<1>2. ASSUME NEW m \in Depths, m \in T, m + 1 \in Depths PROVE m + 1 \in T
  <2>1. PICK f : f = [n \in 0..m |-> TrueOn(contents, f, n)]
    BY <1>2
  <2>2. m \in Nat
    BY DepthsAreNumbers
  <2>3. PICK g : g = [n \in 0..(m + 1) |-> IF n <= m THEN f[n] ELSE TrueOn(contents, f, n)]
    OBVIOUS
  <2>4. ASSUME NEW n \in 0..(m + 1) PROVE g[n] = TrueOn(contents, g, n)
    <3>1. g[n] = TrueOn(contents, f, n)
      <4>1. CASE n <= m
        <5>1. n \in 0..m
          BY <2>2, <4>1
        <5>2. f[n] = TrueOn(contents, f, n)
          BY ONLY <2>1, <5>1, Zenon
        <5>3. QED
          BY <2>3, <4>1, <5>2
      <4>2. CASE ~(n <= m)
        BY <2>3, <4>2
      <4>3. QED
        BY <4>1, <4>2
    <3>2. n # 0 => f[n - 1] = g[n - 1]
      BY <2>2, <2>3
    <3>3. QED
      BY <3>1, <3>2, TrueOnSame
  <2>5. g = [n \in 0..(m + 1) |-> TrueOn(contents, g, n)]
    BY <2>3, <2>4
  <2>6. QED
    BY <1>2, <2>5
<1>3. LastDepth \in T
  <2> HIDE DEF T
  <2>1. QED
    BY <1>1, <1>2, DepthsByStep, DepthsAreNumbers
<1>4. PICK f : f = [n \in Depths |-> TrueOn(contents, f, n)]
    BY <1>3, DepthsAreNumbers
<1>5. TrueLists(contents) = [n \in Depths |-> TrueOn(contents, TrueLists(contents), n)]
    BY <1>4, Zenon DEF TrueLists, TrueOn, TrueFrom
<1>6. QED
    BY <1>5, Zenon

\* The objects of a list that was read in content d have true lists.
SublistsTrue(contents, n, d, fetch, list) ==
    \A k \in DOMAIN list : \A j \in DOMAIN SubFetches[fetch] :
        n # 0 /\ list[k].lists[j] \in
            TrueLists(contents)[n - 1][SubFetches[fetch][j]][d.owner[SubFetches[fetch][j]][list[k].id]]

\* What the members of TrueLists are.
LEMMA TrueListIs ==
    ASSUME NEW contents, NEW n \in Depths, NEW fetch \in Fetches, NEW owner \in Ids \cup {NoId}, NEW list
    PROVE  list \in TrueLists(contents)[n][fetch][owner] <=>
               /\ list \in NestedLists[n]
               /\ \E d \in contents : ListOf(list, d, fetch, owner) /\ SublistsTrue(contents, n, d, fetch, list)
<1>1. PICK true : true = TrueLists(contents)
    OBVIOUS
<1>2. true[n] = TrueOn(contents, true, n)
    BY <1>1, TrueListsAt
<1>3. true[n][fetch][owner] = TrueOn(contents, true, n)[fetch][owner]
    BY <1>2
<1>4. list \in true[n][fetch][owner] <=>
               /\ list \in NestedLists[n]
               /\ \E d \in contents :
                     /\ ListOf(list, d, fetch, owner)
                     /\ \A k \in DOMAIN list : \A j \in DOMAIN SubFetches[fetch] :
                           n # 0 /\ list[k].lists[j] \in
                               true[n - 1][SubFetches[fetch][j]]
                                          [d.owner[SubFetches[fetch][j]][list[k].id]]
    BY ONLY <1>3 DEF TrueOn, TrueFrom
<1>5. QED
    BY <1>1, <1>4 DEF SublistsTrue

LEMMA NestedListItems ==
    ASSUME NEW n \in Depths, NEW list \in NestedLists[n]
    PROVE  /\ IsList(list)
           /\ \A k \in DOMAIN list : list[k].id \in Ids
<1>1. PICK lists : lists = Seq(IF n = 0 THEN {} ELSE NestedLists[n - 1])
    OBVIOUS
<1>2. PICK objects : objects = [id : Ids, lists : lists]
    OBVIOUS
<1>3. list \in Seq(objects)
    BY <1>1, <1>2, NestedListsAt DEF NestedOn
<1>4. \A k \in DOMAIN list : list[k] \in objects
    BY <1>3
<1>5. \A object \in objects : object.id \in Ids
    BY <1>2
<1>6. QED
    BY <1>3, <1>4, <1>5, ListOfSet

\* More contents make more lists true.
LEMMA TrueListsGrow ==
    ASSUME NEW contents, NEW more, contents \subseteq more, more \subseteq Databases
    PROVE  \A n \in Depths : \A fetch \in Fetches, owner \in Ids \cup {NoId} :
               \A list \in TrueLists(contents)[n][fetch][owner] : list \in TrueLists(more)[n][fetch][owner]
<1> DEFINE Grows(n) == \A fetch \in Fetches, owner \in Ids \cup {NoId} :
               \A list \in TrueLists(contents)[n][fetch][owner] : list \in TrueLists(more)[n][fetch][owner]
           T == {n \in Depths : Grows(n)}
<1>1. ASSUME NEW n \in Depths, n # 0 => Grows(n - 1)
      PROVE  Grows(n)
  <2> SUFFICES ASSUME NEW fetch \in Fetches, NEW owner \in Ids \cup {NoId},
                      NEW list \in TrueLists(contents)[n][fetch][owner]
               PROVE  list \in TrueLists(more)[n][fetch][owner]
      OBVIOUS
  <2>1. list \in NestedLists[n]
    BY TrueListIs
  <2>2. PICK d \in contents : ListOf(list, d, fetch, owner) /\ SublistsTrue(contents, n, d, fetch, list)
    BY TrueListIs
  <2>3. ASSUME NEW k \in DOMAIN list, NEW j \in DOMAIN SubFetches[fetch]
        PROVE  n # 0 /\ list[k].lists[j] \in
                    TrueLists(more)[n - 1][SubFetches[fetch][j]]
                                   [d.owner[SubFetches[fetch][j]][list[k].id]]
    <3>1. list[k].id \in Ids
      BY <2>1, NestedListItems
    <3>2. SubFetches[fetch][j] \in Fetches
      BY PlanAssumption
    <3>3. d.owner[SubFetches[fetch][j]][list[k].id] \in Ids \cup {NoId}
      BY <3>1, <3>2, DatabasesAssumption
    <3>4. QED
      BY <1>1, <2>2, <3>2, <3>3 DEF SublistsTrue
  <2>4. SublistsTrue(more, n, d, fetch, list)
    BY <2>3 DEF SublistsTrue
  <2>5. QED
    BY <2>1, <2>2, <2>4, TrueListIs
<1>2. 0 \in T
  <2>1. 0 \in Depths
    BY DepthsAreNumbers
  <2> HIDE DEF Grows
  <2>2. QED
    BY <1>1, <2>1
<1>3. ASSUME NEW n \in Depths, n \in T, n + 1 \in Depths PROVE n + 1 \in T
  <2>1. n \in Nat /\ (n + 1) - 1 = n
    BY DepthsAreNumbers
  <2> HIDE DEF Grows
  <2>2. Grows(n + 1)
    BY <1>1, <1>3, <2>1
  <2>3. QED
    BY <1>3, <2>2
<1>4. Depths \subseteq T
  <2> HIDE DEF T
  <2>1. QED
    BY <1>2, <1>3, DepthsByStep
<1>5. QED
  <2> HIDE DEF Grows
  <2>1. \A n \in Depths : Grows(n)
    BY <1>4
  <2>2. QED
    BY <2>1 DEF Grows

\* The children of no object are none.
LEMMA NothingIsTrue ==
    ASSUME NEW contents, contents # {}, contents \subseteq Databases, NEW n \in Depths, NEW fetch \in Fetches
    PROVE  <<>> \in TrueLists(contents)[n][fetch][NoId]
<1>1. PICK d \in contents : d \in Databases
    OBVIOUS
<1>2. {p \in d.links[fetch] : p[1] = NoId} = {}
    BY <1>1, DatabasesAssumption, IdsAssumption
<1>3. PICK list : list = <<>> /\ DOMAIN list = {}
    OBVIOUS
<1>4. ListOf(list, d, fetch, NoId)
    BY ONLY <1>2, <1>3 DEF ListOf
<1>5. list \in NestedLists[n]
  <2>1. PICK objects : objects = [id : Ids, lists : Seq(IF n = 0 THEN {} ELSE NestedLists[n - 1])]
    OBVIOUS
  <2>2. list \in Seq(objects)
    BY ONLY <1>3
  <2>3. QED
    BY <2>1, <2>2, NestedListsAt DEF NestedOn
<1>6. list \in TrueLists(contents)[n][fetch][NoId]
  <2>1. SublistsTrue(contents, n, d, fetch, list)
    BY <1>3 DEF SublistsTrue
  <2>2. QED
    BY <1>4, <1>5, <2>1, TrueListIs
<1>7. QED
    BY <1>3, <1>6

-----------------------------------------------------------------------------
\* Depths of fetches

IsLevel(level) ==
    /\ level \in [Fetches -> 1..LastDepth]
    /\ \A f \in Fetches : \A i \in DOMAIN SubFetches[f] : level[SubFetches[f][i]] < level[f]

Level == CHOOSE level \in [Fetches -> 1..LastDepth] : IsLevel(level)

\* The fetches have lists of at most n levels below.
Fit(fetches, n) == n \in Depths /\ \A i \in DOMAIN fetches : Level[fetches[i]] <= n

LEMMA LevelIsLevel == IsLevel(Level)
BY TreeAssumption DEF IsLevel, Level, LastDepth

LEMMA RootsFit == Fit(RootFetches, LastDepth)
BY LevelIsLevel, PlanAssumption, DepthsAreNumbers DEF IsLevel, Fit

LEMMA SubFetchesFit ==
    ASSUME NEW fetches \in Seq(Fetches), NEW n, Fit(fetches, n), NEW i \in DOMAIN fetches
    PROVE  n - 1 \in Depths /\ n # 0 /\ Fit(SubFetches[fetches[i]], n - 1)
<1>1. PICK fetch : fetch = fetches[i] /\ fetch \in Fetches
    OBVIOUS
<1>2. Level[fetch] \in 1..LastDepth /\ Level[fetch] <= n
    BY <1>1, LevelIsLevel DEF IsLevel, Fit
<1>3. n \in 1..LastDepth
    BY <1>2, DepthsAreNumbers DEF Fit
<1>4. n - 1 \in Depths /\ n # 0
    BY <1>3, DepthsAreNumbers
<1>5. ASSUME NEW j \in DOMAIN SubFetches[fetch]
      PROVE  Level[SubFetches[fetch][j]] <= n - 1
  <2>1. SubFetches[fetch][j] \in Fetches
    BY <1>1, PlanAssumption
  <2>2. Level[SubFetches[fetch][j]] < Level[fetch] /\ Level[SubFetches[fetch][j]] \in Nat
    BY <1>1, <2>1, LevelIsLevel DEF IsLevel
  <2>3. QED
    BY <1>2, <1>3, <2>2
<1>6. QED
    BY <1>1, <1>4, <1>5 DEF Fit

-----------------------------------------------------------------------------
\* Rows

\* A row that was read in content d: it has its lists of the fetches before index,
\* each with n levels, and none of the others.
RowTrue(contents, d, row, fetches, index, n) ==
    /\ row = [id |-> row.id, parent |-> row.parent, owners |-> row.owners, lists |-> row.lists]
    /\ row.id \in Ids
    /\ row.lists = [i \in 1..Len(fetches) |-> row.lists[i]]
    /\ \A i \in DOMAIN fetches :
          /\ row.owners[i] = d.owner[fetches[i]][row.id]
          /\ row.owners[i] \in Ids \cup {NoId}
          /\ IF i < index THEN row.lists[i] \in TrueLists(contents)[n][fetches[i]][row.owners[i]]
             ELSE row.lists[i] = <<>>

LEMMA NewRow ==
    ASSUME NEW contents, NEW d \in Databases, NEW fetches \in Seq(Fetches), NEW parent, NEW id \in Ids,
           NEW n, NEW row, row = Row(d, fetches, parent, id)
    PROVE  RowTrue(contents, d, row, fetches, 1, n) /\ row.id = id /\ row.parent = parent
<1>1. /\ row.id = id /\ row.parent = parent
      /\ row.owners = [i \in DOMAIN fetches |-> d.owner[fetches[i]][id]]
      /\ row.lists = [i \in DOMAIN fetches |-> <<>>]
      /\ row = [id |-> row.id, parent |-> row.parent, owners |-> row.owners, lists |-> row.lists]
    BY DEF Row
<1>2. DOMAIN fetches = 1..Len(fetches) /\ \A i \in DOMAIN fetches : ~(i < 1) /\ fetches[i] \in Fetches
    BY \A i \in 1..Len(fetches) : ~(i < 1)
<1>3. \A i \in DOMAIN fetches : d.owner[fetches[i]][id] \in Ids \cup {NoId}
    BY <1>2, DatabasesAssumption
<1>4. QED
    BY <1>1, <1>2, <1>3 DEF RowTrue

LEMMA RowGrows ==
    ASSUME NEW contents, NEW more, contents \subseteq more, more \subseteq Databases,
           NEW d, NEW row, NEW fetches \in Seq(Fetches), NEW index, NEW n \in Depths,
           RowTrue(contents, d, row, fetches, index, n)
    PROVE  RowTrue(more, d, row, fetches, index, n)
<1>1. ASSUME NEW i \in DOMAIN fetches, i < index
      PROVE  row.lists[i] \in TrueLists(more)[n][fetches[i]][row.owners[i]]
  <2>1. fetches[i] \in Fetches
    OBVIOUS
  <2>2. row.owners[i] \in Ids \cup {NoId}
    BY DEF RowTrue
  <2>3. row.lists[i] \in TrueLists(contents)[n][fetches[i]][row.owners[i]]
    BY <1>1 DEF RowTrue
  <2>4. QED
    BY <2>1, <2>2, <2>3, TrueListsGrow
<1>2. QED
    BY <1>1 DEF RowTrue

\* attach_follow_up
AttachedRow(row, index, children) ==
    IF row.owners[index] = NoId THEN row ELSE [row EXCEPT !.lists[index] = children[row.owners[index]]]

OwnChildrenTrue(contents, fetches, index, n, row, children) ==
    row.owners[index] # NoId =>
        children[row.owners[index]] \in TrueLists(contents)[n][fetches[index]][row.owners[index]]

LEMMA RowAttached ==
    ASSUME NEW contents, contents \subseteq Databases, NEW d \in contents,
           NEW fetches \in Seq(Fetches), NEW n \in Depths, NEW index \in DOMAIN fetches,
           NEW row, RowTrue(contents, d, row, fetches, index, n), NEW children,
           OwnChildrenTrue(contents, fetches, index, n, row, children),
           NEW new, new = AttachedRow(row, index, children)
    PROVE  RowTrue(contents, d, new, fetches, index + 1, n)
           /\ new.id = row.id /\ new.parent = row.parent /\ new.owners = row.owners
<1>1. PICK owner : owner = row.owners[index]
    OBVIOUS
<1>2. PICK list : list = IF owner = NoId THEN row.lists[index] ELSE children[owner]
    OBVIOUS
<1>3. /\ row = [id |-> row.id, parent |-> row.parent, owners |-> row.owners, lists |-> row.lists]
      /\ row.lists = [i \in 1..Len(fetches) |-> row.lists[i]]
    BY DEF RowTrue
<1>4. DOMAIN fetches = 1..Len(fetches) /\ index \in Nat /\ DOMAIN fetches \subseteq Nat
    OBVIOUS
<1>5. PICK lists : lists = [i \in 1..Len(fetches) |-> IF i = index THEN list ELSE row.lists[i]]
    OBVIOUS
<1>6. new = [id |-> row.id, parent |-> row.parent, owners |-> row.owners, lists |-> lists]
  <2>1. CASE owner = NoId
    <3>1. lists = row.lists
      BY <1>2, <1>3, <1>5, <2>1
    <3>2. QED
      BY <1>1, <1>3, <2>1, <3>1 DEF AttachedRow
  <2>2. CASE owner # NoId
    <3>1. PICK id, parent, owners, old :
            row = [id |-> id, parent |-> parent, owners |-> owners, lists |-> old]
      BY <1>3
    <3>2. lists = [old EXCEPT ![index] = list]
      BY <1>3, <1>4, <1>5, <3>1
    <3>3. new = [row EXCEPT !.lists[index] = list]
      BY <1>1, <1>2, <2>2 DEF AttachedRow
    <3>4. QED
      BY <3>1, <3>2, <3>3
  <2>3. QED
    BY <2>1, <2>2
<1>7. list \in TrueLists(contents)[n][fetches[index]][owner]
  <2>1. CASE owner = NoId
    <3>1. list = <<>>
      BY <1>1, <1>2, <1>4, <2>1 DEF RowTrue
    <3>2. fetches[index] \in Fetches /\ contents # {}
      OBVIOUS
    <3>3. QED
      BY <2>1, <3>1, <3>2, NothingIsTrue
  <2>2. CASE owner # NoId
    BY <1>1, <1>2, <2>2 DEF OwnChildrenTrue
  <2>3. QED
    BY <2>1, <2>2
<1>8. /\ new.id = row.id /\ new.parent = row.parent /\ new.owners = row.owners /\ new.lists = lists
      /\ new = [id |-> new.id, parent |-> new.parent, owners |-> new.owners, lists |-> new.lists]
    BY <1>6
<1>9. lists = [i \in 1..Len(fetches) |-> lists[i]]
    BY <1>5
<1>10. ASSUME NEW i \in DOMAIN fetches
       PROVE  IF i < index + 1 THEN lists[i] \in TrueLists(contents)[n][fetches[i]][row.owners[i]]
              ELSE lists[i] = <<>>
  <2>1. CASE i = index
    BY <1>1, <1>4, <1>5, <1>7, <2>1
  <2>2. CASE i # index
    <3>1. lists[i] = row.lists[i] /\ (i < index + 1 <=> i < index)
      BY <1>4, <1>5, <2>2
    <3>2. QED
      BY <3>1 DEF RowTrue
  <2>3. QED
    BY <2>1, <2>2
<1>11. QED
    BY <1>8, <1>9, <1>10 DEF RowTrue

\* A row with all its lists is an object one level up.
LEMMA FinishedRow ==
    ASSUME NEW contents, contents \subseteq Databases, NEW d \in contents, NEW fetches \in Seq(Fetches),
           NEW n, n - 1 \in Depths, n \in Depths, n # 0, NEW index, index > Len(fetches), index \in Nat,
           NEW row, RowTrue(contents, d, row, fetches, index, n - 1),
           NEW object, object = [id |-> row.id, lists |-> row.lists]
    PROVE  /\ object \in [id : Ids, lists : Seq(NestedLists[n - 1])]
           /\ \A i \in DOMAIN fetches :
                 object.lists[i] \in TrueLists(contents)[n - 1][fetches[i]][d.owner[fetches[i]][row.id]]
<1>1. Len(fetches) \in Nat /\ DOMAIN fetches = 1..Len(fetches)
    OBVIOUS
<1>2. \A i \in DOMAIN fetches : i < index /\ fetches[i] \in Fetches
    BY <1>1
<1>3. ASSUME NEW i \in DOMAIN fetches
      PROVE  /\ row.lists[i] \in TrueLists(contents)[n - 1][fetches[i]][d.owner[fetches[i]][row.id]]
             /\ row.lists[i] \in NestedLists[n - 1]
  <2>1. /\ row.lists[i] \in TrueLists(contents)[n - 1][fetches[i]][row.owners[i]]
        /\ row.owners[i] = d.owner[fetches[i]][row.id] /\ row.owners[i] \in Ids \cup {NoId}
    BY <1>2 DEF RowTrue
  <2>2. QED
    BY <1>2, <2>1, TrueListIs
<1>4. row.lists \in Seq(NestedLists[n - 1])
  <2>1. PICK lists : lists = row.lists
    OBVIOUS
  <2>2. lists = [i \in 1..Len(fetches) |-> lists[i]] /\ \A i \in 1..Len(fetches) : lists[i] \in NestedLists[n - 1]
    BY <1>1, <1>3, <2>1 DEF RowTrue
  <2>3. lists \in [1..Len(fetches) -> NestedLists[n - 1]]
    BY <2>2
  <2>4. QED
    BY <1>1, <2>1, <2>3
<1>5. row.id \in Ids
    BY DEF RowTrue
<1>6. QED
    BY <1>3, <1>4, <1>5

-----------------------------------------------------------------------------
\* Batches

LEMMA SetToSeqItems ==
    ASSUME NEW S, IsFiniteSet(S), NEW list, list = SetToSeq(S)
    PROVE  /\ list \in Seq(S) /\ ToSet(list) = S
           /\ \A i, j \in DOMAIN list : list[i] = list[j] => i = j
<1> DEFINE n == Cardinality(S)
<1>1. n \in Nat /\ ExistsBijection(1..n, S)
    BY FS_CardinalityType
<1>2. \E f \in [1..n -> S] : IsInjective(f)
    BY <1>1 DEF ExistsBijection, Bijection, Injection
<1>3. list \in [1..n -> S] /\ IsInjective(list)
    BY <1>2 DEF SetToSeq
<1> HIDE DEF n
<1>4. IsFiniteSet(1..n) /\ Cardinality(1..n) = Cardinality(S)
    BY <1>1, FS_Interval DEF n
<1>5. list \in Surjection(1..n, S)
    BY <1>3, <1>4, FS_Injection DEF Injection
<1>6. list \in Seq(S) /\ DOMAIN list = 1..n
    BY <1>1, <1>3
<1>7. ToSet(list) = S
    BY <1>5, <1>6 DEF Surjection, ToSet
<1>8. QED
    BY <1>3, <1>6, <1>7 DEF IsInjective

\* Each item is in one chunk and in no other.
LEMMA ChunksItems ==
    ASSUME NEW S, NEW ids \in Seq(S), \A i, j \in DOMAIN ids : ids[i] = ids[j] => i = j,
           NEW size \in Nat \ {0}, NEW chunks, chunks = Chunks(ids, size)
    PROVE  /\ \A id : id \in ToSet(ids) <=> \E k \in DOMAIN chunks : id \in ToSet(chunks[k])
           /\ \A j, k \in DOMAIN chunks : j # k => ToSet(chunks[j]) \cap ToSet(chunks[k]) = {}
<1> DEFINE L == Len(ids)
           N == (L + size - 1) \div size
           Places(k) == {i \in 1..L : (k - 1) * size < i /\ i <= k * size}
<1>1. L \in Nat /\ N \in Nat /\ L + size - 1 < N * size + size /\ N * size <= L + size - 1
    OBVIOUS
<1>2. DOMAIN chunks = 1..N /\ DOMAIN ids = 1..L
    BY DEF Chunks
<1> HIDE DEF N
<1>3. ASSUME NEW k \in 1..N
      PROVE  ToSet(chunks[k]) = {ids[i] : i \in Places(k)}
  <2> DEFINE from == (k - 1) * size
             to == Smaller(k * size, L)
  <2>1. k * size <= N * size /\ k * size = from + size /\ from \in Nat
    BY <1>1
  <2>2. from < L
    BY <1>1, <2>1
  <2>3. to \in Nat /\ from < to /\ to <= L /\ \A i \in 1..L : i <= to <=> i <= k * size
    BY <1>1, <2>1, <2>2 DEF Smaller
  <2>4. chunks[k] = SubSeq(ids, from + 1, to)
    BY DEF Chunks, N
  <2> HIDE DEF from, to
  <2>5. /\ DOMAIN chunks[k] = 1..(to - from)
        /\ \A m \in 1..(to - from) : chunks[k][m] = ids[from + m]
    BY <2>1, <2>3, <2>4
  <2>6. \A m \in 1..(to - from) : from + m \in Places(k)
    BY <2>1, <2>3 DEF from
  <2>7. \A i \in Places(k) : i - from \in 1..(to - from) /\ from + (i - from) = i
    BY <2>1, <2>3 DEF from
  <2> HIDE DEF Places
  <2>8. QED
    BY <2>5, <2>6, <2>7 DEF ToSet
<1>4. \A i \in 1..L : \E k \in 1..N : i \in Places(k)
  <2> SUFFICES ASSUME NEW i \in 1..L PROVE \E k \in 1..N : i \in Places(k)
      OBVIOUS
  <2> DEFINE q == (i - 1) \div size
  <2>1. q \in Nat /\ q * size <= i - 1 /\ i - 1 < q * size + size
    OBVIOUS
  <2> HIDE DEF q
  <2>2. q < N
    <3>1. N * size + size <= q * size + size \/ q < N
      BY <1>1, <2>1
    <3>2. QED
      BY <1>1, <2>1, <3>1
  <2>3. q + 1 \in 1..N /\ (q + 1) * size = q * size + size /\ (q + 1) - 1 = q
    BY <1>1, <2>1, <2>2
  <2>4. i \in Places(q + 1)
    BY <2>1, <2>3
  <2>5. QED
    BY <2>3, <2>4
<1>5. ASSUME NEW j \in 1..N, NEW k \in 1..N, j < k
      PROVE  Places(j) \cap Places(k) = {}
  <2>1. j * size <= (k - 1) * size /\ j * size \in Nat /\ (k - 1) * size \in Nat
    BY <1>1, <1>5
  <2>2. QED
    BY <2>1
<1>6. \A k \in 1..N : Places(k) \subseteq 1..L
    OBVIOUS
<1> HIDE DEF Places
<1>7. ToSet(ids) = {ids[i] : i \in 1..L}
    BY <1>2 DEF ToSet
<1>8. \A j, k \in 1..N : j # k => Places(j) \cap Places(k) = {}
  <2> SUFFICES ASSUME NEW j \in 1..N, NEW k \in 1..N, j # k PROVE Places(j) \cap Places(k) = {}
      OBVIOUS
  <2>1. j < k \/ k < j
    BY <1>1
  <2>2. QED
    BY <1>5, <2>1
<1>9. ASSUME NEW j \in 1..N, NEW k \in 1..N, j # k
      PROVE  ToSet(chunks[j]) \cap ToSet(chunks[k]) = {}
  <2>1. Places(j) \cap Places(k) = {} /\ Places(j) \subseteq DOMAIN ids /\ Places(k) \subseteq DOMAIN ids
    BY <1>2, <1>6, <1>8, <1>9
  <2>2. ToSet(chunks[j]) = {ids[i] : i \in Places(j)} /\ ToSet(chunks[k]) = {ids[i] : i \in Places(k)}
    BY <1>3
  <2>3. QED
    BY <2>1, <2>2
<1>10. ASSUME NEW id
       PROVE  id \in ToSet(ids) <=> \E k \in 1..N : id \in ToSet(chunks[k])
  <2>1. ASSUME id \in ToSet(ids) PROVE \E k \in 1..N : id \in ToSet(chunks[k])
    <3>1. PICK i \in 1..L : id = ids[i]
      BY <1>7, <2>1
    <3>2. PICK k \in 1..N : i \in Places(k)
      BY <1>4
    <3>3. QED
      BY <1>3, <3>1, <3>2
  <2>2. ASSUME NEW k \in 1..N, id \in ToSet(chunks[k]) PROVE id \in ToSet(ids)
    <3>1. PICK i \in Places(k) : id = ids[i]
      BY <1>3, <2>2
    <3>2. QED
      BY <1>6, <1>7, <3>1
  <2>3. QED
    BY <2>1, <2>2
<1>11. QED
    BY <1>2, <1>9, <1>10

-----------------------------------------------------------------------------
\* The rows of a call, and the children of its fetch.

\* The identities the children of the fetch hang on.
Parents(call) == {call.rows[k].owners[call.index] : k \in DOMAIN call.rows} \ {NoId}

\* Those whose batch is still to be sent.
Waiting(call) == UNION {ToSet(call.batches[k]) : k \in DOMAIN call.batches}

\* The rows were read in content d, and have n levels of lists of the fetches done.
RowsTrue(contents, d, call, n) ==
    /\ IsList(call.rows)
    /\ Fit(call.fetches, n)
    /\ \A k \in DOMAIN call.rows : RowTrue(contents, d, call.rows[k], call.fetches, call.index, n)

\* The rows are those of the select.
RowsOfSelect(d, call) ==
    /\ call.fetches = RootFetches
    /\ {call.rows[k].id : k \in DOMAIN call.rows} = d.rows
    /\ \A j, k \in DOMAIN call.rows : call.rows[j].id = call.rows[k].id => j = k

\* The rows are the children of the parents of a batch.
RowsOfBatch(d, call, fetch, batch) ==
    /\ call.fetches = SubFetches[fetch]
    /\ {<<call.rows[k].parent, call.rows[k].id>> : k \in DOMAIN call.rows} =
           {p \in d.links[fetch] : p[1] \in batch}
    /\ \A j, k \in DOMAIN call.rows :
          call.rows[j].parent = call.rows[k].parent /\ call.rows[j].id = call.rows[k].id => j = k

\* Parents of a batch that was sent and is not finished, or waits, have no children
\* yet; the others have theirs.
ChildrenTrue(contents, call, batch, n) ==
    call.started =>
        /\ call.children = [id \in Ids |-> call.children[id]]
        /\ batch \cap Waiting(call) = {}
        /\ \A j, k \in DOMAIN call.batches :
              j # k => ToSet(call.batches[j]) \cap ToSet(call.batches[k]) = {}
        /\ \A id \in Parents(call) :
              IF id \in batch \cup Waiting(call) THEN call.children[id] = <<>>
              ELSE call.children[id] \in TrueLists(contents)[n][Fetch(call)][id]

LEMMA RowsGrow ==
    ASSUME NEW contents, NEW more, contents \subseteq more, more \subseteq Databases,
           NEW d, NEW call, CallInv(call), NEW n, RowsTrue(contents, d, call, n)
    PROVE  RowsTrue(more, d, call, n)
<1>1. call.fetches \in Seq(Fetches) /\ n \in Depths
    BY DEF CallInv, CallTypeOK, RowsTrue, Fit
<1>2. QED
    BY <1>1, RowGrows DEF RowsTrue

LEMMA ParentsAre ==
    ASSUME NEW call, CallInv(call), ~AtEnd(call)
    PROVE  /\ Parents(call) \subseteq Ids /\ ParentIds(call) \in Seq(Ids)
           /\ ToSet(ParentIds(call)) = Parents(call)
           /\ \A i, j \in DOMAIN ParentIds(call) : ParentIds(call)[i] = ParentIds(call)[j] => i = j
           /\ call.index \in DOMAIN call.fetches /\ Fetch(call) \in Fetches
<1>1. call.index \in DOMAIN call.fetches /\ Fetch(call) \in Fetches /\ ParentIds(call) \in Seq(Ids)
    BY ParentIdsTyped
<1>2. Parents(call) \subseteq Ids
    BY <1>1 DEF Parents, CallInv, RowsTyped
<1>3. IsFiniteSet(Parents(call))
    BY <1>2, IdsAssumption, FS_Subset
<1>4. ParentIds(call) = SetToSeq(Parents(call))
    BY DEF ParentIds, Parents
<1>5. QED
    BY <1>1, <1>2, <1>3, <1>4, SetToSeqItems

LEMMA StartedNotAtEnd ==
    ASSUME NEW call, CallInv(call), call.started
    PROVE  ~AtEnd(call)
BY DEF CallInv, CallTypeOK, AtEnd

LEMMA ChildrenGrow ==
    ASSUME NEW contents, NEW more, contents \subseteq more, more \subseteq Databases,
           NEW call, CallInv(call), NEW batch, NEW n \in Depths, ChildrenTrue(contents, call, batch, n)
    PROVE  ChildrenTrue(more, call, batch, n)
<1> SUFFICES ASSUME call.started PROVE ChildrenTrue(more, call, batch, n)
    BY DEF ChildrenTrue
<1>1. Parents(call) \subseteq Ids /\ Fetch(call) \in Fetches
    BY StartedNotAtEnd, ParentsAre
<1>2. \A id \in Parents(call) : \A list \in TrueLists(contents)[n][Fetch(call)][id] :
          list \in TrueLists(more)[n][Fetch(call)][id]
    BY <1>1, TrueListsGrow
<1>3. QED
    BY <1>2 DEF ChildrenTrue

-----------------------------------------------------------------------------
\* New calls

LEMMA CallFields ==
    ASSUME NEW fetches, NEW rows, NEW call, call = Call(fetches, rows)
    PROVE  call.fetches = fetches /\ call.rows = rows /\ call.index = 1 /\ ~call.started
BY DEF Call

LEMMA SelectRowsTrue ==
    ASSUME NEW contents, NEW d \in Databases, NEW call, call = Call(RootFetches, SelectRows(d))
    PROVE  RowsTrue(contents, d, call, LastDepth) /\ RowsOfSelect(d, call)
<1>1. PICK row : row = [id \in d.rows |-> Row(d, RootFetches, NoId, id)]
    OBVIOUS
<1>2. PICK found : found = {row[id] : id \in d.rows}
    OBVIOUS
<1>3. IsFiniteSet(d.rows) /\ d.rows \subseteq Ids
    BY IdsAssumption, DatabasesAssumption, FS_Subset
<1>4. IsFiniteSet(found)
  <2>1. row \in Surjection(d.rows, found)
    BY <1>1, <1>2 DEF Surjection
  <2>2. QED
    BY <1>3, <2>1, FS_Surjection
<1>5. SelectRows(d) = SetToSeq(found)
    BY <1>1, <1>2 DEF SelectRows
<1>6. /\ call.rows \in Seq(found) /\ ToSet(call.rows) = found
      /\ \A i, j \in DOMAIN call.rows : call.rows[i] = call.rows[j] => i = j
    BY <1>4, <1>5, SetToSeqItems, CallFields
<1>7. call.fetches = RootFetches /\ call.index = 1 /\ IsList(call.rows)
    BY <1>6, CallFields, ListOfSet
<1>8. ASSUME NEW id \in d.rows
      PROVE  RowTrue(contents, d, row[id], RootFetches, 1, LastDepth) /\ row[id].id = id
    BY <1>1, <1>3, PlanAssumption, NewRow
<1>9. \A k \in DOMAIN call.rows : \E id \in d.rows : call.rows[k] = row[id]
    BY <1>2, <1>6
<1>10. RowsTrue(contents, d, call, LastDepth)
    BY <1>7, <1>8, <1>9, RootsFit DEF RowsTrue
<1>11. {call.rows[k].id : k \in DOMAIN call.rows} = d.rows
  <2>1. \A k \in DOMAIN call.rows : call.rows[k].id \in d.rows
    BY <1>8, <1>9
  <2>2. found = {call.rows[k] : k \in DOMAIN call.rows}
    BY <1>6 DEF ToSet
  <2>3. \A id \in d.rows : \E k \in DOMAIN call.rows : call.rows[k] = row[id]
    BY ONLY <1>2, <2>2
  <2>4. QED
    BY <1>8, <2>1, <2>3
<1>12. \A j, k \in DOMAIN call.rows : call.rows[j].id = call.rows[k].id => j = k
    BY <1>6, <1>8, <1>9
<1>13. QED
    BY <1>7, <1>10, <1>11, <1>12 DEF RowsOfSelect

LEMMA BatchRowsTrue ==
    ASSUME NEW contents, NEW d \in Databases, NEW f \in Fetches, NEW batch, NEW n,
           Fit(SubFetches[f], n), NEW call, call = Call(SubFetches[f], BatchRows(d, f, batch))
    PROVE  RowsTrue(contents, d, call, n) /\ RowsOfBatch(d, call, f, ToSet(batch))
<1>1. PICK pairs : pairs = {p \in d.links[f] : p[1] \in ToSet(batch)}
    OBVIOUS
<1>2. PICK row : row = [pair \in pairs |-> Row(d, SubFetches[f], pair[1], pair[2])]
    OBVIOUS
<1>3. PICK found : found = {row[pair] : pair \in pairs}
    OBVIOUS
<1>4. IsFiniteSet(pairs) /\ pairs \subseteq Ids \X Ids
  <2>1. IsFiniteSet(Ids \X Ids)
    BY IdsAssumption, FS_Product
  <2>2. pairs \subseteq Ids \X Ids
    BY <1>1, DatabasesAssumption
  <2>3. QED
    BY <2>1, <2>2, FS_Subset
<1>5. IsFiniteSet(found)
  <2>1. row \in Surjection(pairs, found)
    BY <1>2, <1>3 DEF Surjection
  <2>2. QED
    BY <1>4, <2>1, FS_Surjection
<1>6. BatchRows(d, f, batch) = SetToSeq(found)
    BY <1>1, <1>2, <1>3 DEF BatchRows
<1>7. /\ call.rows \in Seq(found) /\ ToSet(call.rows) = found
      /\ \A i, j \in DOMAIN call.rows : call.rows[i] = call.rows[j] => i = j
    BY <1>5, <1>6, SetToSeqItems, CallFields
<1>8. call.fetches = SubFetches[f] /\ call.index = 1 /\ IsList(call.rows)
    BY <1>7, CallFields, ListOfSet
<1>9. ASSUME NEW pair \in pairs
      PROVE  /\ RowTrue(contents, d, row[pair], SubFetches[f], 1, n)
             /\ pair = <<row[pair].parent, row[pair].id>>
  <2>1. pair[2] \in Ids /\ pair = <<pair[1], pair[2]>> /\ SubFetches[f] \in Seq(Fetches)
    BY <1>4, PlanAssumption
  <2>2. row[pair] = Row(d, SubFetches[f], pair[1], pair[2])
    BY <1>2
  <2>3. /\ RowTrue(contents, d, row[pair], SubFetches[f], 1, n)
        /\ row[pair].parent = pair[1] /\ row[pair].id = pair[2]
    BY <2>1, <2>2, NewRow
  <2>4. QED
    BY <2>1, <2>3
<1>10. \A k \in DOMAIN call.rows : \E pair \in pairs : call.rows[k] = row[pair]
    BY <1>3, <1>7
<1>11. RowsTrue(contents, d, call, n)
    BY <1>8, <1>9, <1>10 DEF RowsTrue
<1>12. {<<call.rows[k].parent, call.rows[k].id>> : k \in DOMAIN call.rows} = pairs
  <2>1. \A k \in DOMAIN call.rows : <<call.rows[k].parent, call.rows[k].id>> \in pairs
    BY <1>9, <1>10
  <2>2. found = {call.rows[k] : k \in DOMAIN call.rows}
    BY <1>7 DEF ToSet
  <2>3. \A pair \in pairs : \E k \in DOMAIN call.rows : call.rows[k] = row[pair]
    BY ONLY <1>3, <2>2
  <2>4. \A pair \in pairs : \E k \in DOMAIN call.rows : pair = <<call.rows[k].parent, call.rows[k].id>>
    BY <1>9, <2>3
  <2>5. QED
    BY <2>1, <2>4
<1>13. \A j, k \in DOMAIN call.rows :
           call.rows[j].parent = call.rows[k].parent /\ call.rows[j].id = call.rows[k].id => j = k
  <2> SUFFICES ASSUME NEW j \in DOMAIN call.rows, NEW k \in DOMAIN call.rows,
                      call.rows[j].parent = call.rows[k].parent, call.rows[j].id = call.rows[k].id
               PROVE  j = k
      OBVIOUS
  <2>1. PICK one \in pairs, other \in pairs : call.rows[j] = row[one] /\ call.rows[k] = row[other]
    BY <1>10
  <2>2. one = <<call.rows[j].parent, call.rows[j].id>> /\ other = <<call.rows[k].parent, call.rows[k].id>>
    BY <1>9, <2>1
  <2>3. one = other
    BY <2>2
  <2>4. QED
    BY <1>7, <2>1, <2>3
<1>14. QED
    BY <1>1, <1>8, <1>11, <1>12, <1>13 DEF RowsOfBatch

-----------------------------------------------------------------------------
\* What the steps of a call do to its rows and children.

\* The rows are the same objects below the same parents.
SameRows(call, new) ==
    /\ new.fetches = call.fetches
    /\ DOMAIN new.rows = DOMAIN call.rows
    /\ \A k \in DOMAIN call.rows :
          new.rows[k].id = call.rows[k].id /\ new.rows[k].parent = call.rows[k].parent

LEMMA SameRowsKept ==
    ASSUME NEW call, NEW new, SameRows(call, new), NEW d
    PROVE  /\ RowsOfSelect(d, call) => RowsOfSelect(d, new)
           /\ \A fetch, batch : RowsOfBatch(d, call, fetch, batch) => RowsOfBatch(d, new, fetch, batch)
<1>1. {new.rows[k].id : k \in DOMAIN new.rows} = {call.rows[k].id : k \in DOMAIN call.rows}
    BY DEF SameRows
<1>2. {<<new.rows[k].parent, new.rows[k].id>> : k \in DOMAIN new.rows} =
          {<<call.rows[k].parent, call.rows[k].id>> : k \in DOMAIN call.rows}
    BY DEF SameRows
<1>3. RowsOfSelect(d, call) => RowsOfSelect(d, new)
    BY <1>1 DEF SameRows, RowsOfSelect
<1>4. ASSUME NEW fetch, NEW batch, RowsOfBatch(d, call, fetch, batch)
      PROVE  RowsOfBatch(d, new, fetch, batch)
    BY <1>2, <1>4 DEF SameRows, RowsOfBatch
<1>5. QED
    BY <1>3, <1>4

LEMMA NextFetchFields ==
    ASSUME NEW call, CallInv(call), NEW new, new = NextFetch(call)
    PROVE  /\ new.fetches = call.fetches /\ new.rows = call.rows
           /\ new.index = call.index + 1 /\ ~new.started
<1>1. PICK one : one = [call EXCEPT !.index = call.index + 1]
    OBVIOUS
<1>2. /\ one.fetches = call.fetches /\ one.rows = call.rows /\ one.index = call.index + 1
      /\ DOMAIN one = {"fetches", "rows", "index", "started", "batches", "children"}
    BY <1>1 DEF CallInv
<1>3. new = [one EXCEPT !.started = FALSE]
    BY <1>1 DEF NextFetch
<1>4. QED
    BY <1>2, <1>3

\* attach_follow_up for all rows
LEMMA AllAttached ==
    ASSUME NEW contents, contents \subseteq Databases, NEW d \in contents,
           NEW call, CallInv(call), ~AtEnd(call), NEW n, RowsTrue(contents, d, call, n),
           \A id \in Parents(call) : call.children[id] \in TrueLists(contents)[n][Fetch(call)][id],
           NEW new, new.fetches = call.fetches, new.rows = Attached(call), new.index = call.index + 1
    PROVE  RowsTrue(contents, d, new, n) /\ SameRows(call, new)
<1>1. /\ call.fetches \in Seq(Fetches) /\ call.index \in DOMAIN call.fetches
      /\ Fetch(call) = call.fetches[call.index] /\ n \in Depths
  <2>1. call.fetches \in Seq(Fetches) /\ n \in Depths
    BY DEF CallInv, CallTypeOK, RowsTrue, Fit
  <2>2. QED
    BY <2>1, ParentsAre DEF Fetch
<1>2. ASSUME NEW k \in DOMAIN call.rows
      PROVE  /\ RowTrue(contents, d, new.rows[k], call.fetches, call.index + 1, n)
             /\ new.rows[k].id = call.rows[k].id /\ new.rows[k].parent = call.rows[k].parent
  <2>1. PICK row : row = call.rows[k]
    OBVIOUS
  <2>2. PICK attached, fetches, index, children :
            /\ attached = new.rows[k]
            /\ fetches = call.fetches /\ index = call.index /\ children = call.children
    OBVIOUS
  <2>3. RowTrue(contents, d, row, fetches, index, n)
    BY <2>1, <2>2 DEF RowsTrue
  <2>4. attached = AttachedRow(row, index, children)
    BY <2>1, <2>2 DEF Attached, AttachedRow
  <2>5. OwnChildrenTrue(contents, fetches, index, n, row, children)
    BY <1>1, <2>1, <2>2 DEF Parents, OwnChildrenTrue
  <2>6. fetches \in Seq(Fetches) /\ index \in DOMAIN fetches /\ n \in Depths
    BY <1>1, <2>2
  <2>7. /\ RowTrue(contents, d, attached, fetches, index + 1, n)
        /\ attached.id = row.id /\ attached.parent = row.parent
    BY ONLY <2>3, <2>4, <2>5, <2>6, contents \subseteq Databases, d \in contents, RowAttached
  <2>8. QED
    BY <2>1, <2>2, <2>7
<1>3. DOMAIN new.rows = DOMAIN call.rows
    BY DEF Attached
<1>4. IsList(new.rows)
  <2>1. DOMAIN call.rows = 1..Len(call.rows) /\ Len(call.rows) \in Nat
    BY ListLength DEF RowsTrue
  <2>2. new.rows = [k \in 1..Len(call.rows) |-> new.rows[k]]
    BY <2>1 DEF Attached
  <2>3. QED
    BY <2>1, <2>2, ListFromFunction
<1>5. QED
    BY <1>2, <1>3, <1>4 DEF RowsTrue, SameRows

LEMMA Skipped ==
    ASSUME NEW contents, contents \subseteq Databases, NEW d \in contents,
           NEW call, CallInv(call), ~AtEnd(call), NEW n, RowsTrue(contents, d, call, n),
           ParentIds(call) = <<>>, NEW new, new = NextFetch(call)
    PROVE  RowsTrue(contents, d, new, n) /\ SameRows(call, new) /\ ~new.started
<1>1. /\ new.fetches = call.fetches /\ new.rows = call.rows
      /\ new.index = call.index + 1 /\ ~new.started
    BY NextFetchFields
<1>2. Parents(call) = {}
    BY ParentsAre DEF ToSet
<1>3. \A k \in DOMAIN call.rows : call.rows[k].owners[call.index] = NoId
    BY <1>2 DEF Parents
<1>4. Attached(call) = [k \in DOMAIN call.rows |-> call.rows[k]]
    BY <1>3 DEF Attached
<1>5. call.rows = [k \in DOMAIN call.rows |-> call.rows[k]]
    BY ListLength DEF RowsTrue
<1>6. QED
    BY <1>1, <1>2, <1>4, <1>5, AllAttached

LEMMA Finished ==
    ASSUME NEW contents, contents \subseteq Databases, NEW d \in contents,
           NEW call, CallInv(call), ~AtEnd(call), NEW n, RowsTrue(contents, d, call, n),
           call.started, call.batches = <<>>, ChildrenTrue(contents, call, {}, n),
           NEW attached, attached = [call EXCEPT !.rows = Attached(call)],
           NEW new, new = NextFetch(attached)
    PROVE  RowsTrue(contents, d, new, n) /\ SameRows(call, new) /\ ~new.started
<1>1. CallInv(attached)
    BY AttachedTyped
<1>2. /\ attached.fetches = call.fetches /\ attached.rows = Attached(call)
      /\ attached.index = call.index
    BY DEF CallInv
<1>3. /\ new.fetches = call.fetches /\ new.rows = Attached(call)
      /\ new.index = call.index + 1 /\ ~new.started
  <2>1. /\ new.fetches = attached.fetches /\ new.rows = attached.rows
        /\ new.index = attached.index + 1 /\ ~new.started
    BY ONLY <1>1, NextFetchFields, new = NextFetch(attached)
  <2>2. QED
    BY ONLY <1>2, <2>1
<1>4. Waiting(call) = {}
    BY DEF Waiting
<1>5. \A id \in Parents(call) : call.children[id] \in TrueLists(contents)[n][Fetch(call)][id]
    BY <1>4 DEF ChildrenTrue
<1>6. QED
    BY <1>3, <1>5, AllAttached

LEMMA Started ==
    ASSUME NEW contents, NEW call, CallInv(call), ~AtEnd(call), BatchSize(Fetch(call)) > 0, NEW n,
           NEW new, new = [call EXCEPT !.started = TRUE,
                                       !.batches = Chunks(ParentIds(call), BatchSize(Fetch(call))),
                                       !.children = [id \in Ids |-> <<>>]]
    PROVE  /\ SameRows(call, new) /\ new.rows = call.rows /\ new.index = call.index
           /\ ChildrenTrue(contents, new, {}, n)
<1>1. PICK chunks : chunks = Chunks(ParentIds(call), BatchSize(Fetch(call)))
    OBVIOUS
<1>2. /\ new.fetches = call.fetches /\ new.rows = call.rows /\ new.index = call.index
      /\ new.batches = chunks /\ new.children = [id \in Ids |-> <<>>]
    BY <1>1 DEF CallInv
<1>3. /\ ParentIds(call) \in Seq(Ids) /\ ToSet(ParentIds(call)) = Parents(call)
      /\ Parents(call) \subseteq Ids /\ Fetch(call) \in Fetches
      /\ \A i, j \in DOMAIN ParentIds(call) : ParentIds(call)[i] = ParentIds(call)[j] => i = j
    BY ParentsAre
<1>4. BatchSize(Fetch(call)) \in Nat \ {0}
    BY <1>3, PlanAssumption DEF BatchSize
<1>5. /\ \A id : id \in Parents(call) <=> \E k \in DOMAIN chunks : id \in ToSet(chunks[k])
      /\ \A j, k \in DOMAIN chunks : j # k => ToSet(chunks[j]) \cap ToSet(chunks[k]) = {}
  <2>1. PICK ids, size : ids = ParentIds(call) /\ size = BatchSize(Fetch(call))
    OBVIOUS
  <2>2. /\ \A id : id \in ToSet(ids) <=> \E k \in DOMAIN chunks : id \in ToSet(chunks[k])
        /\ \A j, k \in DOMAIN chunks : j # k => ToSet(chunks[j]) \cap ToSet(chunks[k]) = {}
    BY <1>1, <1>3, <1>4, <2>1, ChunksItems
  <2>3. QED
    BY <1>3, <2>1, <2>2
<1>6. Parents(new) = Parents(call)
    BY <1>2 DEF Parents
<1>7. \A id \in Parents(new) : id \in Waiting(new) /\ new.children[id] = <<>>
    BY <1>2, <1>3, <1>5, <1>6 DEF Waiting
<1>8. ChildrenTrue(contents, new, {}, n)
    BY <1>2, <1>5, <1>7 DEF ChildrenTrue
<1>9. QED
    BY <1>2, <1>8 DEF SameRows

LEMMA BatchTaken ==
    ASSUME NEW contents, NEW call, CallInv(call), call.started, call.batches # <<>>, NEW n,
           ChildrenTrue(contents, call, {}, n),
           NEW new, new = [call EXCEPT !.batches = Tail(@)]
    PROVE  /\ SameRows(call, new) /\ new.rows = call.rows /\ new.index = call.index
           /\ ChildrenTrue(contents, new, ToSet(Head(call.batches)), n)
<1>1. /\ new.fetches = call.fetches /\ new.rows = call.rows /\ new.index = call.index
      /\ new.started = call.started /\ new.batches = Tail(call.batches) /\ new.children = call.children
    BY DEF CallInv
<1>2. PICK batches : batches = call.batches /\ batches \in Seq(Seq(Ids)) /\ batches # <<>>
    BY DEF CallInv, CallTypeOK
<1>3. /\ Head(batches) = batches[1] /\ 1 \in DOMAIN batches
      /\ \A k \in DOMAIN Tail(batches) :
            k + 1 \in DOMAIN batches /\ k + 1 # 1 /\ batches[k + 1] = Tail(batches)[k]
      /\ \A j, k \in DOMAIN Tail(batches) : j # k => j + 1 # k + 1
      /\ \A k \in DOMAIN batches \ {1} : k - 1 \in DOMAIN Tail(batches) /\ Tail(batches)[k - 1] = batches[k]
    BY <1>2
<1>4. \A j, k \in DOMAIN batches : j # k => ToSet(batches[j]) \cap ToSet(batches[k]) = {}
    BY <1>2 DEF ChildrenTrue
<1>5. ToSet(Head(batches)) \cap Waiting(new) = {}
  <2>1. \A k \in DOMAIN Tail(batches) : ToSet(batches[1]) \cap ToSet(Tail(batches)[k]) = {}
    BY <1>3, <1>4
  <2>2. QED
    BY <1>1, <1>2, <1>3, <2>1 DEF Waiting
<1>6. \A j, k \in DOMAIN new.batches :
          j # k => ToSet(new.batches[j]) \cap ToSet(new.batches[k]) = {}
  <2> SUFFICES ASSUME NEW j \in DOMAIN Tail(batches), NEW k \in DOMAIN Tail(batches), j # k
               PROVE  ToSet(Tail(batches)[j]) \cap ToSet(Tail(batches)[k]) = {}
      BY <1>1, <1>2
  <2>1. j + 1 \in DOMAIN batches /\ k + 1 \in DOMAIN batches /\ j + 1 # k + 1
    BY <1>3
  <2>2. ToSet(batches[j + 1]) \cap ToSet(batches[k + 1]) = {}
    BY <1>4, <2>1
  <2>3. QED
    BY <1>3, <2>2
<1>7. Waiting(call) = ToSet(Head(batches)) \cup Waiting(new)
  <2>1. Waiting(call) = UNION {ToSet(batches[k]) : k \in DOMAIN batches}
    BY <1>2 DEF Waiting
  <2>2. Waiting(new) = UNION {ToSet(Tail(batches)[k]) : k \in DOMAIN Tail(batches)}
    BY <1>1, <1>2 DEF Waiting
  <2>3. \A k \in DOMAIN batches :
            k = 1 \/ (\E j \in DOMAIN Tail(batches) : Tail(batches)[j] = batches[k])
    BY <1>3
  <2>4. \A k \in DOMAIN Tail(batches) : \E j \in DOMAIN batches : Tail(batches)[k] = batches[j]
    BY <1>3
  <2>5. Head(batches) = batches[1] /\ 1 \in DOMAIN batches
    BY <1>3
  <2>6. QED
    BY ONLY <2>1, <2>2, <2>3, <2>4, <2>5
<1>8. Parents(new) = Parents(call) /\ Fetch(new) = Fetch(call)
    BY <1>1 DEF Parents, Fetch
<1>9. ChildrenTrue(contents, new, ToSet(Head(batches)), n)
    BY <1>1, <1>5, <1>6, <1>7, <1>8 DEF ChildrenTrue
<1>10. QED
    BY <1>1, <1>2, <1>9 DEF SameRows

-----------------------------------------------------------------------------
\* The rows of a batch become objects under their parents.

RowsBelow(rows, id) == Filter(rows, LAMBDA row : row.parent = id)
Objects(found) == [k \in DOMAIN found |-> [id |-> found[k].id, lists |-> found[k].lists]]

LEMMA RowsBelowItems ==
    ASSUME NEW rows, IsList(rows), \A i, j \in DOMAIN rows : rows[i] = rows[j] => i = j,
           NEW id, NEW found, found = RowsBelow(rows, id)
    PROVE  /\ IsList(found)
           /\ \A k \in DOMAIN found : \E i \in DOMAIN rows : found[k] = rows[i] /\ rows[i].parent = id
           /\ \A i \in DOMAIN rows : rows[i].parent = id => \E k \in DOMAIN found : found[k] = rows[i]
           /\ \A j, k \in DOMAIN found : found[j] = found[k] => j = k
<1>1. PICK kept : kept = {i \in DOMAIN rows : rows[i].parent = id}
    OBVIOUS
<1>2. PICK order : order = SortedByKey(kept, [i \in kept |-> i])
    OBVIOUS
<1>3. found = [n \in DOMAIN order |-> rows[order[n]]]
    BY <1>1, <1>2 DEF RowsBelow, Filter
<1>4. kept \in SUBSET DOMAIN rows
    BY <1>1
<1>5. IsList(found) /\ ToSet(found) = {rows[i] : i \in kept}
    BY <1>2, <1>3, <1>4, FilteredItems
<1>6. \A j, k \in DOMAIN found : found[j] = found[k] => j = k
    BY <1>2, <1>3, <1>4, FilteredApart
<1>7. {found[k] : k \in DOMAIN found} = {rows[i] : i \in kept}
    BY <1>5 DEF ToSet
<1>8. QED
    BY <1>1, <1>5, <1>6, <1>7

LEMMA BatchObjectsTrue ==
    ASSUME NEW contents, contents \subseteq Databases, NEW d \in contents, NEW call, CallInv(call), AtEnd(call),
           NEW n \in Depths, n # 0, n - 1 \in Depths, RowsTrue(contents, d, call, n - 1),
           NEW fetch \in Fetches, NEW batch, RowsOfBatch(d, call, fetch, batch),
           NEW id \in Ids, id \in batch, NEW list, list = Objects(RowsBelow(call.rows, id))
    PROVE  list \in TrueLists(contents)[n][fetch][id]
<1>1. PICK found : found = RowsBelow(call.rows, id)
    OBVIOUS
<1>2. PICK rows, fetches : rows = call.rows /\ fetches = call.fetches
    OBVIOUS
<1>3. /\ fetches \in Seq(Fetches) /\ fetches = SubFetches[fetch]
      /\ call.index \in Nat /\ call.index > Len(fetches)
    BY <1>2 DEF CallInv, CallTypeOK, AtEnd, RowsOfBatch
<1>4. /\ IsList(rows)
      /\ \A k \in DOMAIN rows : RowTrue(contents, d, rows[k], fetches, call.index, n - 1)
      /\ {<<rows[k].parent, rows[k].id>> : k \in DOMAIN rows} = {p \in d.links[fetch] : p[1] \in batch}
      /\ \A j, k \in DOMAIN rows : rows[j].parent = rows[k].parent /\ rows[j].id = rows[k].id => j = k
    BY <1>2 DEF RowsTrue, RowsOfBatch
<1>5. /\ IsList(found)
      /\ \A k \in DOMAIN found : \E i \in DOMAIN rows : found[k] = rows[i] /\ rows[i].parent = id
      /\ \A i \in DOMAIN rows : rows[i].parent = id => \E k \in DOMAIN found : found[k] = rows[i]
      /\ \A j, k \in DOMAIN found : found[j] = found[k] => j = k
    BY <1>1, <1>2, <1>4, RowsBelowItems
<1>6. /\ DOMAIN list = DOMAIN found
      /\ \A k \in DOMAIN list : list[k] = [id |-> found[k].id, lists |-> found[k].lists]
    BY <1>1 DEF Objects
<1>7. ASSUME NEW k \in DOMAIN list
      PROVE  /\ list[k] \in [id : Ids, lists : Seq(NestedLists[n - 1])]
             /\ list[k].id = found[k].id
             /\ \A i \in DOMAIN fetches :
                   list[k].lists[i] \in TrueLists(contents)[n - 1][fetches[i]][d.owner[fetches[i]][list[k].id]]
  <2>1. PICK i \in DOMAIN rows : found[k] = rows[i]
    BY <1>5, <1>6
  <2>2. PICK row, object : row = rows[i] /\ object = list[k]
    OBVIOUS
  <2>3. RowTrue(contents, d, row, fetches, call.index, n - 1) /\ object = [id |-> row.id, lists |-> row.lists]
    BY <1>4, <1>6, <2>1, <2>2
  <2>4. /\ object \in [id : Ids, lists : Seq(NestedLists[n - 1])]
        /\ \A j \in DOMAIN fetches :
              object.lists[j] \in TrueLists(contents)[n - 1][fetches[j]][d.owner[fetches[j]][row.id]]
    BY <1>3, <2>3, FinishedRow
  <2>5. object.id = row.id
    BY <2>3
  <2>6. QED
    BY <2>1, <2>2, <2>4, <2>5
<1>8. ListOf(list, d, fetch, id)
  <2>1. {list[k].id : k \in DOMAIN list} = {p[2] : p \in {p \in d.links[fetch] : p[1] = id}}
    <3>1. ASSUME NEW k \in DOMAIN list
          PROVE  \E p \in d.links[fetch] : p[1] = id /\ p[2] = list[k].id
      <4>1. PICK i \in DOMAIN rows : found[k] = rows[i] /\ rows[i].parent = id
        BY <1>5, <1>6
      <4>2. <<id, rows[i].id>> \in d.links[fetch]
        BY <1>4, <4>1
      <4>3. list[k].id = rows[i].id
        BY <1>7, <4>1
      <4>4. QED
        BY <4>2, <4>3
    <3>2. ASSUME NEW p \in d.links[fetch], p[1] = id
          PROVE  \E k \in DOMAIN list : list[k].id = p[2]
      <4>1. p \in {<<rows[i].parent, rows[i].id>> : i \in DOMAIN rows}
        BY <1>4, <3>2
      <4>2. PICK i \in DOMAIN rows : p = <<rows[i].parent, rows[i].id>>
        BY <4>1
      <4>3. rows[i].parent = id /\ rows[i].id = p[2]
        BY <3>2, <4>2
      <4>4. PICK k \in DOMAIN found : found[k] = rows[i]
        BY <1>5, <4>3
      <4>5. QED
        BY <1>6, <1>7, <4>3, <4>4
    <3>3. QED
      BY <3>1, <3>2
  <2>2. ASSUME NEW j \in DOMAIN list, NEW k \in DOMAIN list, list[j].id = list[k].id
        PROVE  j = k
    <3>1. PICK a \in DOMAIN rows, b \in DOMAIN rows :
              /\ found[j] = rows[a] /\ rows[a].parent = id
              /\ found[k] = rows[b] /\ rows[b].parent = id
      BY <1>5, <1>6
    <3>2. rows[a].id = rows[b].id
      BY <1>7, <2>2, <3>1
    <3>3. a = b
      BY <1>4, <3>1, <3>2
    <3>4. QED
      BY <1>5, <1>6, <3>1, <3>3
  <2>3. QED
    BY <2>1, <2>2 DEF ListOf
<1>9. list \in NestedLists[n]
  <2>1. PICK lists : lists = Seq(NestedLists[n - 1])
    OBVIOUS
  <2>2. PICK objects : objects = [id : Ids, lists : lists]
    OBVIOUS
  <2>3. Len(found) \in Nat /\ DOMAIN found = 1..Len(found)
    BY <1>5, ListLength
  <2>4. list = [k \in 1..Len(found) |-> list[k]] /\ \A k \in 1..Len(found) : list[k] \in objects
    BY <1>1, <1>6, <1>7, <2>1, <2>2, <2>3 DEF Objects
  <2>5. list \in [1..Len(found) -> objects]
    BY <2>4
  <2>6. list \in Seq(objects)
    BY <2>3, <2>5
  <2>7. NestedLists[n] = Seq(objects)
    BY <2>1, <2>2, NestedListsAt DEF NestedOn
  <2>8. QED
    BY <2>6, <2>7
<1>10. SublistsTrue(contents, n, d, fetch, list)
    BY <1>3, <1>7 DEF SublistsTrue
<1>11. QED
    BY <1>8, <1>9, <1>10, TrueListIs

LEMMA NothingBelow ==
    ASSUME NEW rows, IsList(rows), \A i, j \in DOMAIN rows : rows[i] = rows[j] => i = j,
           NEW id, \A k \in DOMAIN rows : rows[k].parent # id
    PROVE  Objects(RowsBelow(rows, id)) = <<>>
<1>1. PICK found : found = RowsBelow(rows, id)
    OBVIOUS
<1>2. IsList(found) /\ DOMAIN found = {}
  <2>1. IsList(found) /\ \A k \in DOMAIN found : \E i \in DOMAIN rows : found[k] = rows[i] /\ rows[i].parent = id
    BY <1>1, RowsBelowItems
  <2>2. QED
    BY <2>1
<1>3. Len(found) = 0
    BY <1>2, ListLength
<1>4. Objects(found) = [k \in 1..0 |-> [id |-> found[k].id, lists |-> found[k].lists]]
    BY <1>2 DEF Objects
<1>5. QED
    BY <1>1, <1>4

LEMMA GroupedTrue ==
    ASSUME NEW contents, contents \subseteq Databases, NEW d \in contents, NEW call, CallInv(call), AtEnd(call),
           NEW n \in Depths, n # 0, n - 1 \in Depths, RowsTrue(contents, d, call, n - 1),
           NEW caller, CallInv(caller), caller.started,
           NEW batch, RowsOfBatch(d, call, Fetch(caller), batch), ChildrenTrue(contents, caller, batch, n),
           NEW new, new = [caller EXCEPT !.children = Grouped(@, call.rows)]
    PROVE  /\ SameRows(caller, new) /\ new.rows = caller.rows /\ new.index = caller.index
           /\ ChildrenTrue(contents, new, {}, n)
<1>1. /\ new.fetches = caller.fetches /\ new.rows = caller.rows /\ new.index = caller.index
      /\ new.started = caller.started /\ new.batches = caller.batches
      /\ new.children = Grouped(caller.children, call.rows)
    BY DEF CallInv
<1>2. Parents(caller) \subseteq Ids /\ Fetch(caller) \in Fetches
    BY StartedNotAtEnd, ParentsAre
<1>3. /\ batch \cap Waiting(caller) = {}
      /\ \A j, k \in DOMAIN caller.batches :
            j # k => ToSet(caller.batches[j]) \cap ToSet(caller.batches[k]) = {}
      /\ \A id \in Parents(caller) :
            IF id \in batch \cup Waiting(caller) THEN caller.children[id] = <<>>
            ELSE caller.children[id] \in TrueLists(contents)[n][Fetch(caller)][id]
    BY DEF ChildrenTrue
<1>4. Parents(new) = Parents(caller) /\ Waiting(new) = Waiting(caller) /\ Fetch(new) = Fetch(caller)
    BY <1>1 DEF Parents, Waiting, Fetch
<1>5. new.children = [id \in Ids |-> caller.children[id] \o Objects(RowsBelow(call.rows, id))]
    BY <1>1 DEF Grouped, Objects, RowsBelow
<1>6. /\ \A id \in Ids : new.children[id] = caller.children[id] \o Objects(RowsBelow(call.rows, id))
      /\ new.children = [id \in Ids |-> new.children[id]]
    BY ONLY <1>5
<1>7. /\ IsList(call.rows) /\ \A i, j \in DOMAIN call.rows : call.rows[i] = call.rows[j] => i = j
      /\ \A k \in DOMAIN call.rows : call.rows[k].parent \in batch
  <2>1. IsList(call.rows) /\ \A i, j \in DOMAIN call.rows : call.rows[i] = call.rows[j] => i = j
    <3>1. IsList(call.rows)
      BY DEF RowsTrue
    <3>2. \A j, k \in DOMAIN call.rows :
              call.rows[j].parent = call.rows[k].parent /\ call.rows[j].id = call.rows[k].id => j = k
      BY ONLY RowsOfBatch(d, call, Fetch(caller), batch), Zenon DEF RowsOfBatch
    <3>3. QED
      BY <3>1, <3>2
  <2>2. ASSUME NEW k \in DOMAIN call.rows PROVE call.rows[k].parent \in batch
    <3>1. <<call.rows[k].parent, call.rows[k].id>> \in {p \in d.links[Fetch(caller)] : p[1] \in batch}
      BY DEF RowsOfBatch
    <3>2. QED
      BY <3>1
  <2>3. QED
    BY <2>1, <2>2
<1>8. ASSUME NEW id \in Parents(caller)
      PROVE  IF id \in Waiting(caller) THEN new.children[id] = <<>>
             ELSE new.children[id] \in TrueLists(contents)[n][Fetch(caller)][id]
  <2>1. PICK before, list : before = caller.children[id] /\ list = Objects(RowsBelow(call.rows, id))
    OBVIOUS
  <2>2. new.children[id] = before \o list /\ id \in Ids
    BY <1>2, <1>6, <2>1
  <2>3. CASE id \in batch
    <3>1. before = <<>> /\ id \notin Waiting(caller)
      BY <1>3, <2>1, <2>3
    <3>2. list \in TrueLists(contents)[n][Fetch(caller)][id]
      BY <1>2, <2>1, <2>2, <2>3, BatchObjectsTrue
    <3>3. IsList(list)
      BY <1>2, <2>2, <3>2, TrueListIs, NestedListItems
    <3>4. before \o list = list
      BY <3>1, <3>3 DEF IsList
    <3>5. QED
      BY <2>2, <3>1, <3>2, <3>4
  <2>4. CASE id \notin batch
    <3>1. list = <<>>
      BY <1>7, <2>1, <2>4, NothingBelow
    <3>2. CASE id \in Waiting(caller)
      <4>1. before = <<>>
        BY <1>3, <2>1, <3>2
      <4>2. QED
        BY <2>2, <3>1, <3>2, <4>1
    <3>3. CASE id \notin Waiting(caller)
      <4>1. before \in TrueLists(contents)[n][Fetch(caller)][id]
        BY <1>3, <2>1, <2>4, <3>3
      <4>2. IsList(before)
        BY <1>2, <2>2, <4>1, TrueListIs, NestedListItems
      <4>3. before \o list = before
        BY <3>1, <4>2 DEF IsList
      <4>4. QED
        BY <2>2, <3>3, <4>1, <4>3
    <3>4. QED
      BY <3>2, <3>3
  <2>5. QED
    BY <2>3, <2>4
<1>9. ChildrenTrue(contents, new, {}, n)
    BY <1>1, <1>3, <1>4, <1>6, <1>8 DEF ChildrenTrue
<1>10. QED
    BY <1>1, <1>9 DEF SameRows

-----------------------------------------------------------------------------
\* The open calls of a select.

RootCall(contents, call) ==
    \E d \in contents : RowsTrue(contents, d, call, LastDepth) /\ RowsOfSelect(d, call)

\* The call for a batch of the fetch its caller is at, one level down.
SubCall(contents, call, caller, n) ==
    \E d \in contents, batch \in SUBSET Ids :
        /\ RowsTrue(contents, d, call, n - 1)
        /\ RowsOfBatch(d, call, Fetch(caller), batch)
        /\ ChildrenTrue(contents, caller, batch, n)

\* The levels of lists below call i.
Below(s, i) == LastDepth + i - Len(s)

Frame(contents, s, i) ==
    IF i = Len(s) THEN RootCall(contents, s[i]) ELSE SubCall(contents, s[i], s[i + 1], Below(s, i + 1))

Frames(contents, s) == \A i \in DOMAIN s : Frame(contents, s, i)

StackTrue(contents, s) ==
    Frames(contents, s) /\ ChildrenTrue(contents, s[1], {}, Below(s, 1))

LEMMA CallRows ==
    ASSUME NEW contents, NEW s, IsSequence(s), Frames(contents, s), NEW i \in DOMAIN s
    PROVE  \E d \in contents : RowsTrue(contents, d, s[i], Below(s, i))
<1>1. Frame(contents, s, i)
    BY DEF Frames
<1>2. Len(s) \in Nat /\ DOMAIN s = 1..Len(s)
    BY DEF IsSequence
<1>3. CASE i = Len(s)
  <2>1. Below(s, i) = LastDepth
    BY <1>2, <1>3, DepthsAreNumbers DEF Below
  <2>2. QED
    BY <1>1, <1>3, <2>1 DEF Frame, RootCall
<1>4. CASE i # Len(s)
  <2>1. Below(s, i + 1) - 1 = Below(s, i)
    BY <1>2, DepthsAreNumbers DEF Below
  <2>2. QED
    BY <1>1, <1>4, <2>1 DEF Frame, SubCall
<1>5. QED
    BY <1>3, <1>4

LEMMA TopKept ==
    ASSUME NEW contents, NEW s, IsSequence(s), s # <<>>, Frames(contents, s),
           NEW new, SameRows(s[1], new),
           \A d \in contents : RowsTrue(contents, d, s[1], Below(s, 1)) => RowsTrue(contents, d, new, Below(s, 1)),
           NEW t, t = <<new>> \o Tail(s)
    PROVE  IsSequence(t) /\ t # <<>> /\ t[1] = new /\ Below(t, 1) = Below(s, 1) /\ Frames(contents, t)
<1>1. PICK S : s \in Seq(S) /\ new \in S
  <2>1. PICK S : S = {s[i] : i \in 1..Len(s)} \cup {new}
    OBVIOUS
  <2>2. s \in Seq(S)
    BY <2>1 DEF IsSequence
  <2>3. QED
    BY <2>1, <2>2
<1>2. /\ t \in Seq(S) /\ Len(t) = Len(s) /\ t[1] = new
      /\ \A i \in DOMAIN s : i # 1 => t[i] = s[i]
    BY <1>1
<1>3. /\ Len(s) \in Nat /\ DOMAIN s = 1..Len(s) /\ DOMAIN t = DOMAIN s /\ 1 \in DOMAIN s
    BY <1>1, <1>2
<1>4. \A i : Below(t, i) = Below(s, i)
    BY <1>2 DEF Below
<1>5. Frame(contents, t, 1)
  <2>1. Frame(contents, s, 1)
    BY <1>3 DEF Frames
  <2>2. CASE Len(s) = 1
    <3>1. PICK d \in contents : RowsTrue(contents, d, s[1], LastDepth) /\ RowsOfSelect(d, s[1])
      BY <2>1, <2>2 DEF Frame, RootCall
    <3>2. Below(s, 1) = LastDepth
      BY <2>2, DepthsAreNumbers DEF Below
    <3>3. RowsTrue(contents, d, new, LastDepth) /\ RowsOfSelect(d, new)
      BY <3>1, <3>2, SameRowsKept
    <3>4. QED
      BY <1>2, <2>2, <3>3 DEF Frame, RootCall
  <2>3. CASE Len(s) # 1
    <3>1. SubCall(contents, s[1], s[2], Below(s, 2))
      BY <2>1, <2>3 DEF Frame
    <3>2. PICK d \in contents, batch \in SUBSET Ids :
              /\ RowsTrue(contents, d, s[1], Below(s, 2) - 1)
              /\ RowsOfBatch(d, s[1], Fetch(s[2]), batch)
              /\ ChildrenTrue(contents, s[2], batch, Below(s, 2))
      BY <3>1 DEF SubCall
    <3>3. Below(s, 2) - 1 = Below(s, 1)
      BY <1>3, DepthsAreNumbers DEF Below
    <3>4. RowsTrue(contents, d, new, Below(s, 2) - 1) /\ RowsOfBatch(d, new, Fetch(s[2]), batch)
      BY <3>2, <3>3, SameRowsKept
    <3>5. SubCall(contents, new, s[2], Below(s, 2))
      BY <3>2, <3>4 DEF SubCall
    <3>6. t[2] = s[2]
      BY <1>2, <1>3, <2>3
    <3>7. QED
      BY <1>2, <1>4, <2>3, <3>5, <3>6 DEF Frame
  <2>4. QED
    BY <2>2, <2>3
<1>6. ASSUME NEW i \in DOMAIN t, i # 1
      PROVE  Frame(contents, t, i)
  <2>1. Frame(contents, s, i) /\ t[i] = s[i] /\ (i # Len(s) => t[i + 1] = s[i + 1])
    BY <1>2, <1>3, <1>6 DEF Frames
  <2>2. QED
    BY <1>2, <1>4, <2>1 DEF Frame
<1>7. IsSequence(t) /\ t # <<>>
    BY <1>2, <1>3 DEF IsSequence
<1>8. QED
    BY <1>2, <1>4, <1>5, <1>6, <1>7 DEF Frames

LEMMA CallPushed ==
    ASSUME NEW contents, NEW s, IsSequence(s), s # <<>>, Frames(contents, s),
           NEW call, SubCall(contents, call, s[1], Below(s, 1)), NEW t, t = <<call>> \o s
    PROVE  t[1] = call /\ Frames(contents, t)
<1>1. PICK S : s \in Seq(S) /\ call \in S
  <2>1. PICK S : S = {s[i] : i \in 1..Len(s)} \cup {call}
    OBVIOUS
  <2>2. s \in Seq(S)
    BY <2>1 DEF IsSequence
  <2>3. QED
    BY <2>1, <2>2
<1>2. /\ t \in Seq(S) /\ Len(t) = Len(s) + 1 /\ t[1] = call
      /\ \A i \in DOMAIN s : t[i + 1] = s[i]
    BY <1>1
<1>3. /\ Len(s) \in Nat /\ DOMAIN s = 1..Len(s) /\ DOMAIN t = 1..(Len(s) + 1) /\ 1 \in DOMAIN s
    BY <1>1, <1>2
<1>4. \A i \in Nat : Below(t, i + 1) = Below(s, i)
    BY <1>2, <1>3, DepthsAreNumbers DEF Below
<1>5. Frame(contents, t, 1)
  <2>1. t[2] = s[1] /\ Below(t, 2) = Below(s, 1) /\ Len(t) # 1 /\ 1 + 1 = 2
    <3>1. t[1 + 1] = s[1] /\ Below(t, 1 + 1) = Below(s, 1)
      BY <1>2, <1>3, <1>4
    <3>2. QED
      BY <1>2, <1>3, <3>1
  <2>2. QED
    BY <1>2, <2>1 DEF Frame
<1>6. ASSUME NEW i \in DOMAIN s
      PROVE  Frame(contents, t, i + 1)
  <2>1. /\ Frame(contents, s, i) /\ t[i + 1] = s[i] /\ (i # Len(s) => t[(i + 1) + 1] = s[i + 1])
        /\ (i + 1 = Len(t) <=> i = Len(s)) /\ i + 1 \in Nat
    BY <1>2, <1>3, <1>6 DEF Frames
  <2>2. QED
    BY <1>4, <2>1 DEF Frame
<1>7. \A i \in DOMAIN t : i = 1 \/ (i - 1 \in DOMAIN s /\ i = (i - 1) + 1)
    BY <1>3
<1>8. \A i \in DOMAIN t : Frame(contents, t, i)
    BY <1>5, <1>6, <1>7
<1>9. QED
    BY <1>2, <1>8 DEF Frames

LEMMA CallPopped ==
    ASSUME NEW contents, NEW s, IsSequence(s), Len(s) > 1, Frames(contents, s), NEW t, t = Tail(s)
    PROVE  /\ IsSequence(t) /\ t # <<>> /\ t[1] = s[2] /\ Below(t, 1) = Below(s, 2)
           /\ Tail(t) = SubSeq(s, 3, Len(s)) /\ Frames(contents, t)
<1>1. PICK S : s \in Seq(S)
    BY SequenceOf
<1>2. /\ t \in Seq(S) /\ Len(t) = Len(s) - 1
      /\ \A i \in DOMAIN t : t[i] = s[i + 1]
    BY <1>1
<1>3. /\ Len(s) \in Nat /\ DOMAIN s = 1..Len(s) /\ DOMAIN t = 1..(Len(s) - 1) /\ 1 \in DOMAIN t /\ 2 \in DOMAIN s
    BY <1>1, <1>2
<1>4. \A i \in Nat : Below(t, i) = Below(s, i + 1)
    BY <1>2, <1>3, DepthsAreNumbers DEF Below
<1>5. Tail(t) = SubSeq(s, 3, Len(s))
  <2>1. Tail(t) \in Seq(S) /\ Len(Tail(t)) = Len(s) - 2 /\ \A i \in 1..(Len(s) - 2) : Tail(t)[i] = s[i + 2]
    <3>1. Tail(t) \in Seq(S) /\ Len(Tail(t)) = Len(t) - 1 /\ \A i \in 1..(Len(t) - 1) : Tail(t)[i] = t[i + 1]
      <4>1. t \in Seq(S) /\ Len(t) # 0
        BY <1>2, <1>3
      <4>2. t # <<>>
        BY <4>1
      <4>3. QED
        BY ONLY <4>1, <4>2
    <3>2. \A i \in 1..(Len(s) - 2) : i + 1 \in DOMAIN t /\ (i + 1) + 1 = i + 2
      BY <1>3
    <3>3. QED
      BY <1>2, <1>3, <3>1, <3>2
  <2>2. /\ SubSeq(s, 3, Len(s)) \in Seq(S) /\ Len(SubSeq(s, 3, Len(s))) = Len(s) - 2
        /\ \A i \in 1..(Len(s) - 2) : SubSeq(s, 3, Len(s))[i] = s[i + 2]
    BY <1>1, <1>3
  <2>3. QED
    BY ONLY <2>1, <2>2, SeqEqual
<1>6. ASSUME NEW i \in DOMAIN t
      PROVE  Frame(contents, t, i)
  <2>1. /\ Frame(contents, s, i + 1) /\ t[i] = s[i + 1] /\ (i # Len(t) => t[i + 1] = s[(i + 1) + 1])
        /\ (i = Len(t) <=> i + 1 = Len(s)) /\ i + 1 \in Nat
    BY <1>2, <1>3, <1>6 DEF Frames
  <2>2. QED
    BY <1>4, <2>1 DEF Frame
<1>7. IsSequence(t) /\ t # <<>>
  <2>1. t \in Seq(S) /\ Len(t) # 0
    BY <1>2, <1>3
  <2>2. QED
    BY ONLY <2>1 DEF IsSequence
<1>8. t[1] = s[2] /\ Below(t, 1) = Below(s, 2)
  <2>1. t[1] = s[1 + 1] /\ Below(t, 1) = Below(s, 1 + 1) /\ 1 + 1 = 2
    BY <1>2, <1>3, <1>4
  <2>2. QED
    BY <2>1
<1>9. QED
    BY <1>5, <1>6, <1>7, <1>8 DEF Frames

\* What was true of the calls stays so when the file gets another content.
LEMMA StackGrows ==
    ASSUME NEW contents, NEW more, contents \subseteq more, more \subseteq Databases,
           NEW s, StackInv(s), s # <<>>, StackTrue(contents, s)
    PROVE  StackTrue(more, s)
<1>1. /\ IsSequence(s) /\ Len(s) \in Nat /\ DOMAIN s = 1..Len(s) /\ 1 \in DOMAIN s
      /\ \A i \in DOMAIN s : CallInv(s[i])
  <2>1. IsSequence(s) /\ \A i \in DOMAIN s : CallInv(s[i])
    BY DEF StackInv
  <2>2. s \in Seq({s[i] : i \in 1..Len(s)})
    BY <2>1, SequenceOf
  <2>3. QED
    BY <2>1, <2>2
<1>2. ASSUME NEW i \in DOMAIN s
      PROVE  Below(s, i) \in Depths
    BY <1>1, CallRows DEF StackTrue, RowsTrue, Fit
<1>3. ASSUME NEW i \in DOMAIN s
      PROVE  Frame(more, s, i)
  <2>1. Frame(contents, s, i) /\ CallInv(s[i])
    BY <1>1 DEF StackTrue, Frames
  <2>2. CASE i = Len(s)
    BY <2>1, <2>2, RowsGrow DEF Frame, RootCall
  <2>3. CASE i # Len(s)
    <3>1. i + 1 \in DOMAIN s
      BY <1>1, <2>3
    <3>2. PICK d \in contents, batch \in SUBSET Ids :
              /\ RowsTrue(contents, d, s[i], Below(s, i + 1) - 1)
              /\ RowsOfBatch(d, s[i], Fetch(s[i + 1]), batch)
              /\ ChildrenTrue(contents, s[i + 1], batch, Below(s, i + 1))
      BY <2>1, <2>3 DEF Frame, SubCall
    <3>3. RowsTrue(more, d, s[i], Below(s, i + 1) - 1)
      BY <2>1, <3>2, RowsGrow
    <3>4. ChildrenTrue(more, s[i + 1], batch, Below(s, i + 1))
      BY <1>1, <1>2, <3>1, <3>2, ChildrenGrow
    <3>5. QED
      BY <2>3, <3>2, <3>3, <3>4 DEF Frame, SubCall
  <2>4. QED
    BY <2>2, <2>3
<1>4. ChildrenTrue(more, s[1], {}, Below(s, 1))
    BY <1>1, <1>2, ChildrenGrow DEF StackTrue
<1>5. QED
    BY <1>3, <1>4 DEF StackTrue, Frames

-----------------------------------------------------------------------------
\* The invariant.

ReaderTrue(c) ==
    /\ seen[c] \subseteq Databases
    /\ lock[c] \in {"none", "shared"}
    /\ pc[c] = "running" =>
          /\ StackTrue(seen[c], stack[c])
          /\ disk \in seen[c]
          /\ txn[c] => lock[c] = "shared" /\ seen[c] = {disk}
    /\ pc[c] = "answered" =>
          /\ Answers(seen[c], result[c])
          /\ txn[c] => \E d \in Databases : seen[c] = {d}

NestedInv ==
    /\ FollowUpsInv
    /\ seen = [c \in Readers |-> seen[c]]
    /\ result = [c \in Readers |-> result[c]]
    /\ \A c \in Readers : ReaderTrue(c)

\* A step of reader c leaves the selects of the others alone.
ReaderFrame(c) ==
    /\ seen' = [d \in Readers |-> seen'[d]]
    /\ result' = [d \in Readers |-> result'[d]]
    /\ \A d \in Readers \ {c} :
          pc'[d] = pc[d] /\ stack'[d] = stack[d] /\ result'[d] = result[d] /\ seen'[d] = seen[d]

LEMMA OthersStayTrue ==
    ASSUME NestedInv, FollowUpsInv', NEW c \in Readers,
           SqliteFrame(c), disk' = disk, ReaderFrame(c), ReaderTrue(c)'
    PROVE  NestedInv'
<1>1. ASSUME NEW d \in Readers PROVE ReaderTrue(d)'
  <2>1. CASE d = c
    BY <2>1
  <2>2. CASE d # c
    <3>1. /\ txn'[d] = txn[d] /\ lock'[d] = lock[d]
          /\ pc'[d] = pc[d] /\ stack'[d] = stack[d] /\ result'[d] = result[d] /\ seen'[d] = seen[d]
      BY <2>2, ReadersAssumption DEF SqliteFrame, ReaderFrame
    <3>2. ReaderTrue(d)
      BY DEF NestedInv
    <3>3. QED
      BY <3>1, <3>2 DEF ReaderTrue
  <2>3. QED
    BY <2>1, <2>2
<1>2. QED
  BY <1>1 DEF NestedInv, ReaderFrame

LEMMA ReaderSees ==
    ASSUME NestedInv, NEW c \in Readers
    PROVE  View(c) = disk /\ disk \in Databases /\ c \in Connections
BY ReadersAssumption DEF NestedInv, ReaderTrue, View, WriteLocks, FollowUpsInv, SqliteTyped

LEMMA ReadNowKeeps ==
    ASSUME NestedInv, NEW c \in Readers, ReadNow(c)
    PROVE  /\ SqliteFrame(c) /\ UNCHANGED <<disk, txn>>
           /\ lock'[c] = IF txn[c] THEN "shared" ELSE lock[c]
<1>1. c \in Connections /\ SqliteTyped(Databases) /\ lock[c] \in {"none", "shared"}
    BY ReadersAssumption DEF NestedInv, ReaderTrue, FollowUpsInv
<1>2. SqliteFrame(c) /\ UNCHANGED <<disk, txn>>
    BY <1>1, ReadTyped DEF ReadNow
<1>3. lock'[c] = IF txn[c] THEN "shared" ELSE lock[c]
    BY <1>1 DEF ReadNow, Read, AutocommitRead, sqliteVars, SqliteTyped
<1>4. QED
    BY <1>2, <1>3

\* The innermost call of a running select.
LEMMA TopTrue ==
    ASSUME NestedInv, NEW c \in Readers, pc[c] = "running"
    PROVE  /\ StackInv(stack[c]) /\ IsSequence(stack[c]) /\ stack[c] # <<>>
           /\ Top(c) = stack[c][1] /\ 1 \in DOMAIN stack[c] /\ CallInv(Top(c))
           /\ seen[c] \subseteq Databases /\ disk \in seen[c]
           /\ Frames(seen[c], stack[c]) /\ ChildrenTrue(seen[c], Top(c), {}, Below(stack[c], 1))
           /\ \E d \in seen[c] : RowsTrue(seen[c], d, Top(c), Below(stack[c], 1))
           /\ Below(stack[c], 1) \in Depths
<1>1. StackInv(stack[c]) /\ IsSequence(stack[c]) /\ stack[c] # <<>> /\ CallInv(Top(c))
    BY TopTyped DEF NestedInv, StackInv
<1>2. Top(c) = stack[c][1] /\ 1 \in DOMAIN stack[c]
  <2>1. stack[c] \in Seq({stack[c][i] : i \in 1..Len(stack[c])})
    BY <1>1, SequenceOf
  <2>2. QED
    BY <1>1, <2>1 DEF Top
<1>3. seen[c] \subseteq Databases /\ disk \in seen[c] /\ StackTrue(seen[c], stack[c])
    BY DEF NestedInv, ReaderTrue
<1>4. \E d \in seen[c] : RowsTrue(seen[c], d, stack[c][1], Below(stack[c], 1))
    BY <1>1, <1>2, <1>3, CallRows DEF StackTrue
<1>5. Below(stack[c], 1) \in Depths
    BY <1>4 DEF RowsTrue, Fit
<1>6. QED
    BY <1>1, <1>2, <1>3, <1>4, <1>5 DEF StackTrue

\* A step that goes on with the select.
LEMMA GoesOn ==
    ASSUME NestedInv, FollowUpsInv', NEW c \in Readers, pc[c] = "running",
           UNCHANGED sqliteVars \/ ReadNow(c), UNCHANGED <<pc, result, seen>>,
           NEW t, stack' = [stack EXCEPT ![c] = t], StackTrue(seen[c], t)
    PROVE  NestedInv'
<1>1. SqliteFrame(c) /\ UNCHANGED <<disk, txn>> /\ lock'[c] \in {"none", "shared"}
      /\ (txn[c] => lock'[c] = "shared")
  <2>1. ReaderTrue(c)
    BY DEF NestedInv
  <2>2. CASE UNCHANGED sqliteVars
    BY <2>1, <2>2 DEF sqliteVars, SqliteFrame, ReaderTrue
  <2>3. CASE ReadNow(c)
    BY <2>1, <2>3, ReadNowKeeps DEF ReaderTrue
  <2>4. QED
    BY <2>2, <2>3
<1>2. stack = [d \in Readers |-> stack[d]]
    BY DEF NestedInv, FollowUpsInv
<1>3. stack'[c] = t /\ \A d \in Readers \ {c} : stack'[d] = stack[d]
    BY <1>2
<1>4. ReaderFrame(c)
    BY <1>3 DEF ReaderFrame, NestedInv
<1>5. ReaderTrue(c)'
    BY <1>1, <1>3 DEF NestedInv, ReaderTrue
<1>6. QED
    BY <1>1, <1>4, <1>5, OthersStayTrue

\* A step that replaces the innermost call.
LEMMA TopReplacedTrue ==
    ASSUME NestedInv, FollowUpsInv', NEW c \in Readers, pc[c] = "running",
           UNCHANGED <<sqliteVars, pc, result, seen>>,
           NEW new, ReplaceTop(c, new), SameRows(Top(c), new),
           \A d \in seen[c] : RowsTrue(seen[c], d, Top(c), Below(stack[c], 1)) =>
               RowsTrue(seen[c], d, new, Below(stack[c], 1)),
           ChildrenTrue(seen[c], new, {}, Below(stack[c], 1))
    PROVE  NestedInv'
<1>1. PICK t : t = <<new>> \o Tail(stack[c])
    OBVIOUS
<1>2. t[1] = new /\ Below(t, 1) = Below(stack[c], 1) /\ Frames(seen[c], t)
  <2>1. PICK s, contents : s = stack[c] /\ contents = seen[c]
    OBVIOUS
  <2>2. /\ IsSequence(s) /\ s # <<>> /\ Frames(contents, s) /\ SameRows(s[1], new)
        /\ \A d \in contents :
              RowsTrue(contents, d, s[1], Below(s, 1)) => RowsTrue(contents, d, new, Below(s, 1))
    BY <2>1, TopTrue
  <2>3. t = <<new>> \o Tail(s)
    BY <1>1, <2>1
  <2>4. t[1] = new /\ Below(t, 1) = Below(s, 1) /\ Frames(contents, t)
    BY ONLY <2>2, <2>3, TopKept
  <2>5. QED
    BY <2>1, <2>4
<1>3. StackTrue(seen[c], t)
    BY <1>2 DEF StackTrue
<1>4. stack' = [stack EXCEPT ![c] = t]
    BY <1>1 DEF ReplaceTop
<1>5. QED
    BY <1>3, <1>4, GoesOn

-----------------------------------------------------------------------------
\* The actions.

\* The same rows, at the same fetch, are as true as before.
LEMMA SameRowsTrue ==
    ASSUME NEW contents, NEW d, NEW n, NEW call, NEW new, RowsTrue(contents, d, call, n),
           new.fetches = call.fetches, new.rows = call.rows, new.index = call.index
    PROVE  RowsTrue(contents, d, new, n)
BY DEF RowsTrue

LEMMA SkipFetchTrue ==
    ASSUME NestedInv, FollowUpsInv', NEW c \in Readers, SkipFetch(c)
    PROVE  NestedInv'
<1>1. /\ pc[c] = "running" /\ ~AtEnd(Top(c)) /\ ParentIds(Top(c)) = <<>>
      /\ UNCHANGED <<sqliteVars, pc, result, seen>>
    BY DEF SkipFetch
<1>2. PICK call, new, contents, n :
          call = Top(c) /\ new = NextFetch(call) /\ contents = seen[c] /\ n = Below(stack[c], 1)
    OBVIOUS
<1>3. contents \subseteq Databases /\ CallInv(call) /\ \E d \in contents : RowsTrue(contents, d, call, n)
    BY <1>1, <1>2, TopTrue
<1>4. ASSUME NEW d \in contents, RowsTrue(contents, d, call, n)
      PROVE  RowsTrue(contents, d, new, n) /\ SameRows(call, new) /\ ~new.started
  <2>1. ~AtEnd(call) /\ ParentIds(call) = <<>> /\ new = NextFetch(call)
    BY <1>1, <1>2
  <2>2. QED
    BY ONLY <1>3, <1>4, <2>1, Skipped
<1>5. SameRows(call, new) /\ ChildrenTrue(contents, new, {}, n)
    BY <1>3, <1>4 DEF ChildrenTrue
<1>6. ReplaceTop(c, new)
    BY <1>2 DEF SkipFetch
<1>7. QED
    BY <1>1, <1>2, <1>4, <1>5, <1>6, TopReplacedTrue

LEMMA StartFetchTrue ==
    ASSUME NestedInv, FollowUpsInv', NEW c \in Readers, StartFetch(c)
    PROVE  NestedInv'
<1>1. /\ pc[c] = "running" /\ ~AtEnd(Top(c)) /\ BatchSize(Fetch(Top(c))) > 0
      /\ UNCHANGED <<sqliteVars, pc, result, seen>>
    BY DEF StartFetch
<1>2. PICK call, contents, n : call = Top(c) /\ contents = seen[c] /\ n = Below(stack[c], 1)
    OBVIOUS
<1>3. PICK new : new = [call EXCEPT !.started = TRUE,
                                    !.batches = Chunks(ParentIds(call), BatchSize(Fetch(call))),
                                    !.children = [id \in Ids |-> <<>>]]
    OBVIOUS
<1>4. CallInv(call)
    BY <1>1, <1>2, TopTrue
<1>5. /\ SameRows(call, new) /\ new.rows = call.rows /\ new.index = call.index
      /\ ChildrenTrue(contents, new, {}, n)
    BY <1>1, <1>2, <1>3, <1>4, Started
<1>6. \A d \in contents : RowsTrue(contents, d, call, n) => RowsTrue(contents, d, new, n)
    BY <1>5, SameRowsTrue DEF SameRows
<1>7. ReplaceTop(c, new)
    BY <1>2, <1>3 DEF StartFetch
<1>8. QED
    BY <1>1, <1>2, <1>5, <1>6, <1>7, TopReplacedTrue

LEMMA FinishFetchTrue ==
    ASSUME NestedInv, FollowUpsInv', NEW c \in Readers, FinishFetch(c)
    PROVE  NestedInv'
<1>1. /\ pc[c] = "running" /\ ~AtEnd(Top(c)) /\ Top(c).started /\ Top(c).batches = <<>>
      /\ UNCHANGED <<sqliteVars, pc, result, seen>>
    BY DEF FinishFetch
<1>2. PICK call, contents, n : call = Top(c) /\ contents = seen[c] /\ n = Below(stack[c], 1)
    OBVIOUS
<1>3. PICK attached : attached = [call EXCEPT !.rows = Attached(call)]
    OBVIOUS
<1>4. PICK new : new = NextFetch(attached)
    OBVIOUS
<1>5. /\ contents \subseteq Databases /\ CallInv(call) /\ ChildrenTrue(contents, call, {}, n)
      /\ \E d \in contents : RowsTrue(contents, d, call, n)
    BY <1>1, <1>2, TopTrue
<1>6. \A d \in contents : RowsTrue(contents, d, call, n) =>
          RowsTrue(contents, d, new, n) /\ SameRows(call, new) /\ ~new.started
    BY <1>1, <1>2, <1>3, <1>4, <1>5, Finished
<1>7. SameRows(call, new) /\ ChildrenTrue(contents, new, {}, n)
    BY <1>5, <1>6 DEF ChildrenTrue
<1>8. ReplaceTop(c, new)
    BY <1>2, <1>3, <1>4 DEF FinishFetch
<1>9. QED
    BY <1>1, <1>2, <1>6, <1>7, <1>8, TopReplacedTrue

\* One more call, for the children of the batch in the content the file has now.
LEMMA FetchBatchTrue ==
    ASSUME NestedInv, FollowUpsInv', NEW c \in Readers, FetchBatch(c)
    PROVE  NestedInv'
<1>1. /\ pc[c] = "running" /\ ~AtEnd(Top(c)) /\ Top(c).started /\ Top(c).batches # <<>>
      /\ ReadNow(c) /\ UNCHANGED <<pc, result, seen>>
    BY DEF FetchBatch
<1>2. PICK call, contents, n, s :
          call = Top(c) /\ contents = seen[c] /\ n = Below(stack[c], 1) /\ s = stack[c]
    OBVIOUS
<1>3. /\ contents \subseteq Databases /\ CallInv(call) /\ ChildrenTrue(contents, call, {}, n)
      /\ IsSequence(s) /\ s # <<>> /\ s[1] = call /\ Frames(contents, s) /\ disk \in contents
      /\ \E d \in contents : RowsTrue(contents, d, call, n)
    BY <1>1, <1>2, TopTrue
<1>4. PICK fetch, batch : fetch = Fetch(call) /\ batch = Head(call.batches)
    OBVIOUS
<1>5. PICK caller : caller = [call EXCEPT !.batches = Tail(@)]
    OBVIOUS
<1>6. PICK deeper : deeper = Call(SubFetches[fetch], BatchRows(disk, fetch, batch))
    OBVIOUS
<1>7. /\ SameRows(call, caller) /\ caller.rows = call.rows /\ caller.index = call.index
      /\ ChildrenTrue(contents, caller, ToSet(batch), n)
    BY <1>1, <1>2, <1>3, <1>4, <1>5, BatchTaken
<1>8. /\ fetch \in Fetches /\ Fetch(caller) = fetch /\ ToSet(batch) \in SUBSET Ids
      /\ Fit(SubFetches[fetch], n - 1)
  <2>1. call.index \in DOMAIN call.fetches /\ fetch \in Fetches /\ fetch = call.fetches[call.index]
    BY <1>1, <1>2, <1>3, <1>4, ParentsAre DEF Fetch
  <2>2. Fetch(caller) = fetch
    BY <1>4, <1>7 DEF Fetch, SameRows
  <2>3. call.batches \in Seq(Seq(Ids)) /\ call.batches # <<>>
    BY <1>1, <1>2, <1>3 DEF CallInv, CallTypeOK
  <2>4. batch \in Seq(Ids)
    BY <1>4, <2>3
  <2>5. ToSet(batch) \in SUBSET Ids
    BY <2>4 DEF ToSet
  <2>6. call.fetches \in Seq(Fetches) /\ Fit(call.fetches, n)
    BY <1>3 DEF CallInv, CallTypeOK, RowsTrue
  <2>7. PICK fetches, i : fetches = call.fetches /\ i = call.index
    OBVIOUS
  <2>8. Fit(SubFetches[fetches[i]], n - 1)
    BY <2>1, <2>6, <2>7, SubFetchesFit
  <2>9. QED
    BY <2>1, <2>2, <2>5, <2>7, <2>8
<1>9. RowsTrue(contents, disk, deeper, n - 1) /\ RowsOfBatch(disk, deeper, fetch, ToSet(batch))
    BY <1>3, <1>6, <1>8, BatchRowsTrue
<1>10. SubCall(contents, deeper, caller, n)
    BY <1>3, <1>7, <1>8, <1>9 DEF SubCall
<1>11. PICK u : u = <<caller>> \o Tail(s)
    OBVIOUS
<1>12. /\ IsSequence(u) /\ u # <<>> /\ u[1] = caller /\ Below(u, 1) = n /\ Frames(contents, u)
  <2>1. \A d \in contents : RowsTrue(contents, d, s[1], Below(s, 1)) => RowsTrue(contents, d, caller, Below(s, 1))
    BY <1>3, <1>7, SameRowsTrue DEF SameRows
  <2>2. SameRows(s[1], caller) /\ n = Below(s, 1)
    BY <1>2, <1>3, <1>7
  <2>3. QED
    BY <1>3, <1>11, <2>1, <2>2, TopKept
<1>13. PICK t : t = <<deeper>> \o u
    OBVIOUS
<1>14. t[1] = deeper /\ Frames(contents, t)
    BY <1>10, <1>12, <1>13, CallPushed
<1>15. StackTrue(contents, t)
  <2>1. ~deeper.started
    BY <1>6, CallFields
  <2>2. QED
    BY <1>14, <2>1 DEF StackTrue, ChildrenTrue
<1>16. stack' = [stack EXCEPT ![c] = t]
  <2>1. t = <<deeper, caller>> \o Tail(s)
    <3>1. PICK S : s \in Seq(S) /\ deeper \in S /\ caller \in S
      <4>1. PICK S : S = {s[i] : i \in 1..Len(s)} \cup {deeper, caller}
        OBVIOUS
      <4>2. s \in Seq(S)
        BY <1>3, <4>1 DEF IsSequence
      <4>3. QED
        BY <4>1, <4>2
    <3>2. Tail(s) \in Seq(S)
      BY <1>3, <3>1
    <3>3. QED
      BY <1>11, <1>13, <3>1, <3>2
  <2>2. View(c) = disk
    BY ReaderSees
  <2>3. QED
    BY <1>2, <1>4, <1>5, <1>6, <2>1, <2>2 DEF FetchBatch
<1>17. QED
    BY <1>1, <1>2, <1>15, <1>16, GoesOn

\* The children of a finished batch go to the caller.
LEMMA FinishBatchTrue ==
    ASSUME NestedInv, FollowUpsInv', NEW c \in Readers, FinishBatch(c)
    PROVE  NestedInv'
<1>1. /\ pc[c] = "running" /\ AtEnd(Top(c)) /\ Len(stack[c]) > 1
      /\ UNCHANGED <<sqliteVars, pc, result, seen>>
    BY DEF FinishBatch
<1>2. PICK call, contents, s : call = Top(c) /\ contents = seen[c] /\ s = stack[c]
    OBVIOUS
<1>3. /\ contents \subseteq Databases /\ CallInv(call) /\ StackInv(s)
      /\ IsSequence(s) /\ Len(s) > 1 /\ s[1] = call /\ Frames(contents, s)
    BY <1>1, <1>2, TopTrue
<1>4. 1 \in DOMAIN s /\ 2 \in DOMAIN s /\ Len(s) # 1
    BY <1>3 DEF IsSequence
<1>5. PICK caller, n : caller = s[2] /\ n = Below(s, 2)
    OBVIOUS
<1>6. CallInv(caller) /\ caller.started
    BY <1>3, <1>4, <1>5 DEF StackInv
<1>7. PICK new : new = [caller EXCEPT !.children = Grouped(@, call.rows)]
    OBVIOUS
<1>8. n \in Depths
    BY <1>3, <1>4, <1>5, CallRows DEF RowsTrue, Fit
<1>9. PICK d \in contents, batch \in SUBSET Ids :
          /\ RowsTrue(contents, d, call, n - 1)
          /\ RowsOfBatch(d, call, Fetch(caller), batch)
          /\ ChildrenTrue(contents, caller, batch, n)
  <2>1. Frame(contents, s, 1) /\ 1 # Len(s) /\ 1 + 1 = 2
    BY <1>3, <1>4 DEF Frames
  <2>2. SubCall(contents, call, caller, n)
    BY <1>3, <1>5, <2>1 DEF Frame
  <2>3. QED
    BY <2>2 DEF SubCall
<1>10. n - 1 \in Depths /\ n # 0
    BY <1>8, <1>9, DepthsAreNumbers DEF RowsTrue, Fit
<1>11. /\ SameRows(caller, new) /\ new.rows = caller.rows /\ new.index = caller.index
       /\ ChildrenTrue(contents, new, {}, n)
    BY <1>1, <1>2, <1>3, <1>6, <1>7, <1>8, <1>9, <1>10, GroupedTrue
<1>12. PICK u : u = Tail(s)
    OBVIOUS
<1>13. /\ IsSequence(u) /\ u # <<>> /\ u[1] = caller /\ Below(u, 1) = n
       /\ Tail(u) = SubSeq(s, 3, Len(s)) /\ Frames(contents, u)
    BY <1>3, <1>5, <1>12, CallPopped
<1>14. PICK t : t = <<new>> \o Tail(u)
    OBVIOUS
<1>15. t[1] = new /\ Below(t, 1) = n /\ Frames(contents, t)
  <2>1. \A b \in contents : RowsTrue(contents, b, u[1], Below(u, 1)) => RowsTrue(contents, b, new, Below(u, 1))
    BY <1>11, <1>13, SameRowsTrue DEF SameRows
  <2>2. SameRows(u[1], new)
    BY <1>11, <1>13
  <2>3. QED
    BY <1>13, <1>14, <2>1, <2>2, TopKept
<1>16. StackTrue(contents, t)
    BY <1>11, <1>15 DEF StackTrue
<1>17. stack' = [stack EXCEPT ![c] = t]
    BY <1>2, <1>5, <1>7, <1>13, <1>14 DEF FinishBatch
<1>18. QED
    BY <1>1, <1>2, <1>16, <1>17, GoesOn

\* A select begins with the rows the file has.
LEMMA SelectRootsTrue ==
    ASSUME NestedInv, FollowUpsInv', NEW c \in Readers, SelectRoots(c)
    PROVE  NestedInv'
<1>1. /\ ReadNow(c) /\ UNCHANGED result /\ pc' = [pc EXCEPT ![c] = "running"]
      /\ seen' = [seen EXCEPT ![c] = {disk}]
    BY ReaderSees DEF SelectRoots, Goto
<1>2. /\ SqliteFrame(c) /\ UNCHANGED <<disk, txn>> /\ disk \in Databases
      /\ lock'[c] \in {"none", "shared"} /\ (txn[c] => lock'[c] = "shared")
  <2>1. ReaderTrue(c)
    BY DEF NestedInv
  <2>2. QED
    BY <1>1, <2>1, ReadNowKeeps, ReaderSees DEF ReaderTrue
<1>3. PICK call : call = Call(RootFetches, SelectRows(disk))
    OBVIOUS
<1>4. stack' = [stack EXCEPT ![c] = <<call>>]
    BY <1>3, ReaderSees DEF SelectRoots
<1>5. StackTrue({disk}, <<call>>)
  <2>1. RowsTrue({disk}, disk, call, LastDepth) /\ RowsOfSelect(disk, call) /\ ~call.started
    BY <1>2, <1>3, SelectRowsTrue, CallFields
  <2>2. PICK t : t = <<call>> /\ Len(t) = 1 /\ t[1] = call /\ DOMAIN t = {1}
    <3>1. PICK t : t = <<call>>
      OBVIOUS
    <3>2. Len(t) = 1 /\ t[1] = call /\ DOMAIN t = {1}
      BY <3>1
    <3>3. QED
      BY <3>1, <3>2
  <2>3. Frame({disk}, t, 1)
    BY <2>1, <2>2 DEF Frame, RootCall
  <2>4. StackTrue({disk}, t)
    BY <2>1, <2>2, <2>3 DEF StackTrue, Frames, ChildrenTrue
  <2>5. QED
    BY <2>2, <2>4
<1>6. /\ pc'[c] = "running" /\ seen'[c] = {disk} /\ stack'[c] = <<call>>
      /\ seen' = [d \in Readers |-> seen'[d]]
      /\ \A d \in Readers \ {c} : pc'[d] = pc[d] /\ stack'[d] = stack[d] /\ seen'[d] = seen[d]
    BY <1>1, <1>4 DEF NestedInv, FollowUpsInv
<1>7. ReaderFrame(c)
    BY <1>1, <1>6 DEF ReaderFrame, NestedInv
<1>8. ReaderTrue(c)'
    BY <1>1, <1>2, <1>5, <1>6 DEF ReaderTrue
<1>9. QED
    BY <1>2, <1>7, <1>8, OthersStayTrue

LEMMA AnswerTrue ==
    ASSUME NestedInv, FollowUpsInv', NEW c \in Readers, Answer(c)
    PROVE  NestedInv'
<1>1. /\ pc[c] = "running" /\ AtEnd(Top(c)) /\ Len(stack[c]) = 1
      /\ UNCHANGED <<sqliteVars, seen>> /\ pc' = [pc EXCEPT ![c] = "answered"]
      /\ stack' = [stack EXCEPT ![c] = <<>>]
      /\ result' = [result EXCEPT ![c] = [k \in DOMAIN Top(c).rows |->
                        [id |-> Top(c).rows[k].id, lists |-> Top(c).rows[k].lists]]]
    BY DEF Answer, Goto
<1>2. PICK call, contents, s : call = Top(c) /\ contents = seen[c] /\ s = stack[c]
    OBVIOUS
<1>3. PICK objects : objects = [k \in DOMAIN call.rows |-> [id |-> call.rows[k].id, lists |-> call.rows[k].lists]]
    OBVIOUS
<1>4. CallInv(call) /\ s[1] = call /\ 1 \in DOMAIN s /\ Frames(contents, s)
    BY <1>1, <1>2, TopTrue
<1>5. PICK d \in contents : RowsTrue(contents, d, call, LastDepth) /\ RowsOfSelect(d, call)
  <2>1. Frame(contents, s, 1) /\ Len(s) = 1
    BY <1>1, <1>2, <1>4 DEF Frames
  <2>2. QED
    BY <1>4, <2>1 DEF Frame, RootCall
<1>6. /\ call.fetches = RootFetches
      /\ {call.rows[k].id : k \in DOMAIN call.rows} = d.rows
      /\ \A j, k \in DOMAIN call.rows : call.rows[j].id = call.rows[k].id => j = k
    BY <1>5 DEF RowsOfSelect
<1>7. /\ DOMAIN objects = DOMAIN call.rows
      /\ \A k \in DOMAIN objects : objects[k].id = call.rows[k].id /\ objects[k].lists = call.rows[k].lists
    BY <1>3
<1>8. \A i \in DOMAIN RootFetches : i < call.index
    BY <1>1, <1>2, <1>4, <1>6 DEF CallInv, CallTypeOK, AtEnd
<1>9. ASSUME NEW k \in DOMAIN objects, NEW i \in DOMAIN RootFetches
      PROVE  objects[k].lists[i] \in
                 TrueLists(contents)[LastDepth][RootFetches[i]][d.owner[RootFetches[i]][objects[k].id]]
  <2>1. RowTrue(contents, d, call.rows[k], RootFetches, call.index, LastDepth)
    BY <1>5, <1>6, <1>7 DEF RowsTrue
  <2>2. /\ call.rows[k].owners[i] = d.owner[RootFetches[i]][call.rows[k].id]
        /\ call.rows[k].lists[i] \in TrueLists(contents)[LastDepth][RootFetches[i]][call.rows[k].owners[i]]
    BY <1>8, <2>1 DEF RowTrue
  <2>3. QED
    BY <1>7, <2>2
<1>10. Answers(contents, objects)
  <2>1. {objects[k].id : k \in DOMAIN objects} = d.rows
    BY <1>6, <1>7
  <2>2. \A j, k \in DOMAIN objects : objects[j].id = objects[k].id => j = k
    BY <1>6, <1>7
  <2>3. QED
    BY <1>9, <2>1, <2>2 DEF Answers, LastDepth
<1>11. /\ pc'[c] = "answered" /\ result'[c] = objects
       /\ result' = [a \in Readers |-> result'[a]]
       /\ \A a \in Readers \ {c} : pc'[a] = pc[a] /\ stack'[a] = stack[a] /\ result'[a] = result[a]
    BY <1>1, <1>2, <1>3 DEF NestedInv, FollowUpsInv
<1>12. ReaderFrame(c)
    BY <1>1, <1>11 DEF ReaderFrame, NestedInv
<1>13. SqliteFrame(c) /\ disk' = disk
    BY <1>1 DEF sqliteVars, SqliteFrame
<1>14. ReaderTrue(c)'
  <2>1. ReaderTrue(c) /\ disk \in Databases
    BY ReaderSees DEF NestedInv
  <2>2. txn[c] => seen[c] = {disk}
    BY <1>1, <2>1 DEF ReaderTrue
  <2>3. QED
    BY <1>1, <1>2, <1>10, <1>11, <2>1, <2>2 DEF ReaderTrue, sqliteVars
<1>15. QED
    BY <1>12, <1>13, <1>14, OthersStayTrue

\* Steps after which reader c runs no select and has no answer.
LEMMA EndingTrue ==
    ASSUME NestedInv, FollowUpsInv', NEW c \in Readers,
           BeginBlock(c) \/ NoRoomForParents(c) \/ StatementFails(c) \/ Close(c)
    PROVE  NestedInv'
<1>1. c \in Connections /\ SqliteTyped(Databases) /\ ReaderTrue(c)
    BY ReadersAssumption DEF NestedInv, FollowUpsInv
<1>2. SqliteFrame(c) /\ disk' = disk /\ (lock'[c] = lock[c] \/ lock'[c] = "none")
  <2>1. UNCHANGED sqliteVars \/ Begin(c) \/ Release(c)
    BY DEF BeginBlock, NoRoomForParents, StatementFails, Close, StatementError
  <2>2. CASE UNCHANGED sqliteVars
    BY <2>2 DEF sqliteVars, SqliteFrame
  <2>3. CASE Begin(c)
    BY <1>1, <2>3, BeginTyped
  <2>4. CASE Release(c)
    BY <1>1, <2>4, ReleaseTyped
  <2>5. QED
    BY <2>1, <2>2, <2>3, <2>4
<1>3. \E label \in PcValues \ {"running", "answered"} : pc' = [pc EXCEPT ![c] = label]
    BY DEF BeginBlock, NoRoomForParents, StatementFails, Close, Goto, PcValues
<1>4. pc'[c] \notin {"running", "answered"} /\ \A d \in Readers \ {c} : pc'[d] = pc[d]
    BY <1>3 DEF NestedInv, FollowUpsInv
<1>5. \A d \in Readers \ {c} : stack'[d] = stack[d]
  <2>1. UNCHANGED stack \/ stack' = [stack EXCEPT ![c] = <<>>]
    BY DEF BeginBlock, NoRoomForParents, StatementFails, Close
  <2>2. QED
    BY <2>1 DEF NestedInv, FollowUpsInv
<1>6. /\ result' = [d \in Readers |-> result'[d]] /\ \A d \in Readers \ {c} : result'[d] = result[d]
      /\ seen' = [d \in Readers |-> seen'[d]] /\ \A d \in Readers \ {c} : seen'[d] = seen[d]
      /\ seen'[c] \in {seen[c], {}}
  <2>1. \/ UNCHANGED <<result, seen>>
        \/ result' = [result EXCEPT ![c] = <<>>] /\ seen' = [seen EXCEPT ![c] = {}]
    BY DEF BeginBlock, NoRoomForParents, StatementFails, Close
  <2>2. QED
    BY <2>1 DEF NestedInv
<1>7. ReaderFrame(c)
    BY <1>4, <1>5, <1>6 DEF ReaderFrame
<1>8. ReaderTrue(c)'
    BY <1>1, <1>2, <1>4, <1>6 DEF ReaderTrue
<1>9. QED
    BY <1>2, <1>7, <1>8, OthersStayTrue

\* A commit of another process: every select that runs has seen one content more,
\* and none that runs in a transaction block is there, for its lock is in the way.
LEMMA WriterTrue ==
    ASSUME NestedInv, FollowUpsInv', NEW w \in Connections \ Readers, NEW d \in Databases, WriterCommits(w, d)
    PROVE  NestedInv'
<1>1. /\ CanWriteBack(w) /\ disk' = d /\ UNCHANGED <<txn, lock, pc, stack, result>>
      /\ seen' = [c \in Readers |-> IF pc[c] = "running" THEN seen[c] \cup {d} ELSE seen[c]]
    BY DEF WriterCommits, AutocommitWrite
<1>2. ASSUME NEW c \in Readers PROVE ReaderTrue(c)'
  <2>1. ReaderTrue(c) /\ lock[c] = "none"
    BY <1>1, ReadersAssumption DEF NestedInv, CanWriteBack, Others
  <2>2. CASE pc[c] = "running"
    <3>1. /\ seen[c] \subseteq Databases /\ StackTrue(seen[c], stack[c]) /\ ~txn[c]
          /\ seen'[c] = seen[c] \cup {d}
      BY <1>1, <2>1, <2>2 DEF ReaderTrue
    <3>2. StackInv(stack[c]) /\ stack[c] # <<>>
      BY <2>2, TopTrue
    <3>3. PICK contents, more, s : contents = seen[c] /\ more = seen[c] \cup {d} /\ s = stack[c]
      OBVIOUS
    <3>4. contents \subseteq more /\ more \subseteq Databases
      BY <3>1, <3>3
    <3>5. StackTrue(more, s)
      BY <3>1, <3>2, <3>3, <3>4, StackGrows
    <3>6. QED
      BY <1>1, <2>1, <2>2, <3>1, <3>3, <3>4, <3>5 DEF ReaderTrue
  <2>3. CASE pc[c] # "running"
    <3>1. seen'[c] = seen[c]
      BY <1>1, <2>3
    <3>2. QED
      BY <1>1, <2>1, <2>3, <3>1 DEF ReaderTrue
  <2>4. QED
    BY <2>2, <2>3
<1>3. QED
    BY <1>1, <1>2 DEF NestedInv

-----------------------------------------------------------------------------
\* Before any select runs, nothing was read and nothing is answered.
THEOREM InitNested == Init => NestedInv
<1> SUFFICES ASSUME Init PROVE NestedInv
    OBVIOUS
<1>1. FollowUpsInv
    BY InitFollowUps
<1>2. \A c \in Readers : seen[c] = {} /\ pc[c] = "idle" /\ lock[c] = "none"
    BY ReadersAssumption DEF Init, SqliteInit
<1>3. \A c \in Readers : ReaderTrue(c)
    BY <1>2 DEF ReaderTrue
<1>4. QED
    BY <1>1, <1>3 DEF Init, NestedInv

\* Reading rows, batching parents, grouping and attaching children, answering, and
\* commits of others all keep every list true.
THEOREM StepNested == NestedInv /\ [Next]_vars => NestedInv'
<1> SUFFICES ASSUME NestedInv, [Next]_vars PROVE NestedInv'
    OBVIOUS
<1>1. FollowUpsInv'
    BY StepFollowUps DEF NestedInv
<1>2. ASSUME NEW c \in Readers, BeginBlock(c) \/ ReaderStep(c)
      PROVE  NestedInv'
    BY <1>1, <1>2, SelectRootsTrue, SkipFetchTrue, StartFetchTrue, FetchBatchTrue, FinishBatchTrue,
       FinishFetchTrue, AnswerTrue, EndingTrue DEF ReaderStep
<1>3. ASSUME NEW w \in Connections \ Readers, NEW d \in Databases, WriterCommits(w, d)
      PROVE  NestedInv'
    BY <1>1, <1>3, WriterTrue
<1>4. CASE UNCHANGED vars
    BY <1>1, <1>4 DEF vars, readerVars, sqliteVars, NestedInv, ReaderTrue
<1>5. QED
    BY <1>2, <1>3, <1>4 DEF Next

\* The invariant of the rows and children of open calls holds throughout.
THEOREM NestedInvariant == Spec => []NestedInv
BY InitNested, StepNested, PTL DEF Spec

\* Every list of a nested result is whole, without repetition and under the right
\* parent, as its owner had it while the select ran: batches, chunks, grouping and
\* attaching lose, repeat and misplace nothing, whatever others commit.
THEOREM NestedListsTrue == Spec => []ListsWereTrue
<1>1. NestedInv => ListsWereTrue
    BY DEF NestedInv, ReaderTrue, ListsWereTrue
<1>2. QED
    BY <1>1, NestedInvariant, PTL

\* Inside a transaction block the whole nested result is one state of the file,
\* however many statements it took: the SHARED lock keeps every writer out.
THEOREM BlockResultsAreStates == Spec => []BlockResultIsOneState
<1>1. NestedInv => BlockResultIsOneState
  <2> SUFFICES ASSUME NestedInv, NEW c \in Readers, pc[c] = "answered", txn[c]
               PROVE  \E d \in Databases : Answers({d}, result[c])
      BY DEF BlockResultIsOneState
  <2>1. PICK d \in Databases : seen[c] = {d}
    BY DEF NestedInv, ReaderTrue
  <2>2. Answers(seen[c], result[c])
    BY DEF NestedInv, ReaderTrue
  <2>3. QED
    BY <2>1, <2>2
<1>2. QED
    BY <1>1, NestedInvariant, PTL

=============================================================================
