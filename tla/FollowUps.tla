----------------------------- MODULE FollowUps -----------------------------
(***************************************************************************)
(* A select whose shape contains multi links, executed by gelite-commands  *)
(* (execute_query, execute_follow_ups, attach_follow_up) while other       *)
(* processes change the file.  The rows of the select come first; then,    *)
(* for every multi link of the shape, the children of those rows, in       *)
(* batches that stay within SQLite's bind values; then the children of     *)
(* each batch, and so on.  Every batch is a statement of its own.          *)
(*                                                                         *)
(* The fetch plans form a tree.  A row is known by its id and, for every   *)
(* fetch of its level, by the identity its children hang on: its own or    *)
(* that of a nested single link, NoId where the link is absent.  All other *)
(* columns are left out.  The children of a fetch are read WHERE parent    *)
(* IN (batch), and the plan and its shape come from one planner, so that a *)
(* child without parent and a field that is not in the shape do not occur. *)
(***************************************************************************)
EXTENDS Sqlite, Lists

CONSTANTS
    Readers,        \* the processes that select; the others write
    Ids,            \* identities of objects
    NoId,           \* no object
    Fetches,        \* the follow-up fetch plans
    RootFetches,    \* the sequence of those that belong to the select itself
    SubFetches,     \* SubFetches[f]: the sequence of those below fetch f
    FixedBinds,     \* FixedBinds[f]: the bind values of f apart from parent ids
    MaxBindValues,  \* SQLITE_MAX_BIND_VALUES
    Databases       \* the contents the file may have

ASSUME ReadersAssumption == Readers \subseteq Connections

ASSUME IdsAssumption == IsFiniteSet(Ids) /\ NoId \notin Ids

ASSUME PlanAssumption ==
    /\ RootFetches \in Seq(Fetches)
    /\ SubFetches \in [Fetches -> Seq(Fetches)]
    /\ FixedBinds \in [Fetches -> Nat]
    /\ MaxBindValues \in Nat

VARIABLES
    pc,     \* pc[c]: how far reader c is
    stack,  \* stack[c]: the nested calls of execute_follow_ups, innermost first
    result, \* result[c]: what the select of c returned
    seen    \* seen[c]: the contents the file had since the select of c began

readerVars == <<pc, stack, result, seen>>
vars == <<sqliteVars, readerVars>>

PcValues == {"idle", "block", "running", "answered", "failed", "closed"}

\* What the select finds in content d, and what a fetch finds below a parent.
\*   d.rows: the ids of the select, d.owner[f][id]: the identity the children
\*   of row id hang on, d.links[f]: the pairs of parent and child.
ASSUME DatabasesAssumption ==
    \A d \in Databases :
        /\ d.rows \subseteq Ids
        /\ \A f \in Fetches :
              /\ d.links[f] \subseteq Ids \X Ids
              /\ \A id \in Ids : d.owner[f][id] \in Ids \cup {NoId}

Row(d, fetches, parent, id) ==
    [id |-> id,
     parent |-> parent,
     owners |-> [i \in DOMAIN fetches |-> d.owner[fetches[i]][id]],
     lists |-> [i \in DOMAIN fetches |-> <<>>]]

SelectRows(d) == SetToSeq({Row(d, RootFetches, NoId, id) : id \in d.rows})

\* render_follow_up: the children of all parents of one batch.
BatchRows(d, fetch, batch) ==
    SetToSeq({Row(d, SubFetches[fetch], pair[1], pair[2]) :
                 pair \in {p \in d.links[fetch] : p[1] \in ToSet(batch)}})

Init ==
    /\ \E d \in Databases : SqliteInit(d)
    /\ pc = [c \in Readers |-> "idle"]
    /\ stack = [c \in Readers |-> <<>>]
    /\ result = [c \in Readers |-> <<>>]
    /\ seen = [c \in Readers |-> {}]

-----------------------------------------------------------------------------
\* One call of execute_follow_ups: the rows it completes, the fetch it is at,
\* the batches of that fetch still to be sent, the children found so far.

Call(fetches, rows) ==
    [fetches |-> fetches, rows |-> rows, index |-> 1, started |-> FALSE,
     batches |-> <<>>, children |-> [id \in Ids |-> <<>>]]

Top(c) == Head(stack[c])
AtEnd(call) == call.index > Len(call.fetches)
Fetch(call) == call.fetches[call.index]

NextFetch(call) == [call EXCEPT !.index = @ + 1, !.started = FALSE]

ReplaceTop(c, call) == stack' = [stack EXCEPT ![c] = <<call>> \o Tail(@)]

\* Mutant of ParentIds: a parent of two rows is there twice.
ParentIdsRepeated(call) ==
    SelectSeq([k \in DOMAIN call.rows |-> call.rows[k].owners[call.index]], LAMBDA id : id # NoId)

\* The identities of all rows, each once (sort_unstable, dedup).
ParentIds(call) ==
    SetToSeq({call.rows[k].owners[call.index] : k \in DOMAIN call.rows} \ {NoId})

\* Mutant of BatchSize: what the projection binds is forgotten.
BatchSizeUnfixed(fetch) == MaxBindValues

BatchSize(fetch) == MaxBindValues - FixedBinds[fetch]

Smaller(a, b) == IF a < b THEN a ELSE b

\* slice::chunks
Chunks(ids, size) ==
    [k \in 1..((Len(ids) + size - 1) \div size) |->
        SubSeq(ids, (k - 1) * size + 1, Smaller(k * size, Len(ids)))]

\* The children of a finished batch, as objects under their parents.
Grouped(children, rows) ==
    [id \in Ids |->
        LET found == Filter(rows, LAMBDA row : row.parent = id)
        IN  children[id] \o [k \in DOMAIN found |-> [id |-> found[k].id, lists |-> found[k].lists]]]

\* attach_follow_up for every row: its children, or none.
Attached(call) ==
    [k \in DOMAIN call.rows |->
        LET owner == call.rows[k].owners[call.index]
        IN  IF owner = NoId THEN call.rows[k]
            ELSE [call.rows[k] EXCEPT !.lists[call.index] = call.children[owner]]]

-----------------------------------------------------------------------------
\* The reader

Goto(c, label) == pc' = [pc EXCEPT ![c] = label]

\* Mutant of ReadNow: a batch is read outside the open transaction.
ReadNowOutside(c) == CanRead(c) /\ UNCHANGED sqliteVars

ReadNow(c) == IF txn[c] THEN Read(c) ELSE AutocommitRead(c)

\* start transaction
BeginBlock(c) ==
    /\ pc[c] = "idle"
    /\ Begin(c)
    /\ Goto(c, "block")
    /\ UNCHANGED <<stack, result, seen>>

SelectRoots(c) ==
    /\ pc[c] \in {"idle", "block"}
    /\ ReadNow(c)
    /\ stack' = [stack EXCEPT ![c] = <<Call(RootFetches, SelectRows(View(c)))>>]
    /\ seen' = [seen EXCEPT ![c] = {View(c)}]
    /\ Goto(c, "running")
    /\ UNCHANGED result

\* The next fetch of the innermost call: nothing to do without parents, an error
\* when its projection leaves no room for one.
SkipFetch(c) ==
    /\ pc[c] = "running"
    /\ ~AtEnd(Top(c)) /\ ~Top(c).started
    /\ ParentIds(Top(c)) = <<>>
    /\ ReplaceTop(c, NextFetch(Top(c)))
    /\ UNCHANGED <<sqliteVars, pc, result, seen>>

NoRoomForParents(c) ==
    /\ pc[c] = "running"
    /\ ~AtEnd(Top(c)) /\ ~Top(c).started
    /\ ParentIds(Top(c)) # <<>>
    /\ BatchSize(Fetch(Top(c))) <= 0
    /\ Goto(c, "failed")
    /\ stack' = [stack EXCEPT ![c] = <<>>]
    /\ UNCHANGED <<sqliteVars, result, seen>>

StartFetch(c) ==
    /\ pc[c] = "running"
    /\ ~AtEnd(Top(c)) /\ ~Top(c).started
    /\ ParentIds(Top(c)) # <<>>
    /\ BatchSize(Fetch(Top(c))) > 0
    /\ ReplaceTop(c, [Top(c) EXCEPT !.started = TRUE,
                                    !.batches = Chunks(ParentIds(Top(c)), BatchSize(Fetch(Top(c)))),
                                    !.children = [id \in Ids |-> <<>>]])
    /\ UNCHANGED <<sqliteVars, pc, result, seen>>

\* A batch is sent, and execute_follow_ups called for the rows it returns.
FetchBatch(c) ==
    /\ pc[c] = "running"
    /\ ~AtEnd(Top(c)) /\ Top(c).started
    /\ Top(c).batches # <<>>
    /\ ReadNow(c)
    /\ stack' = [stack EXCEPT ![c] =
                    <<Call(SubFetches[Fetch(Top(c))],
                           BatchRows(View(c), Fetch(Top(c)), Head(Top(c).batches))),
                      [Top(c) EXCEPT !.batches = Tail(@)]>> \o Tail(@)]
    /\ UNCHANGED <<pc, result, seen>>

FinishBatch(c) ==
    /\ pc[c] = "running"
    /\ AtEnd(Top(c)) /\ Len(stack[c]) > 1
    /\ LET caller == stack[c][2]
       IN  stack' = [stack EXCEPT ![c] =
                        <<[caller EXCEPT !.children = Grouped(@, Top(c).rows)]>> \o SubSeq(@, 3, Len(@))]
    /\ UNCHANGED <<sqliteVars, pc, result, seen>>

\* Mutant of FinishFetch: the loop does not go on to the next fetch.
FinishFetchAgain(c) ==
    /\ pc[c] = "running"
    /\ ~AtEnd(Top(c)) /\ Top(c).started
    /\ Top(c).batches = <<>>
    /\ ReplaceTop(c, [Top(c) EXCEPT !.rows = Attached(Top(c)), !.started = FALSE])
    /\ UNCHANGED <<sqliteVars, pc, result, seen>>

FinishFetch(c) ==
    /\ pc[c] = "running"
    /\ ~AtEnd(Top(c)) /\ Top(c).started
    /\ Top(c).batches = <<>>
    /\ ReplaceTop(c, NextFetch([Top(c) EXCEPT !.rows = Attached(Top(c))]))
    /\ UNCHANGED <<sqliteVars, pc, result, seen>>

Answer(c) ==
    /\ pc[c] = "running"
    /\ AtEnd(Top(c)) /\ Len(stack[c]) = 1
    /\ result' = [result EXCEPT ![c] =
                    [k \in DOMAIN Top(c).rows |-> [id |-> Top(c).rows[k].id, lists |-> Top(c).rows[k].lists]]]
    /\ stack' = [stack EXCEPT ![c] = <<>>]
    /\ Goto(c, "answered")
    /\ UNCHANGED <<sqliteVars, seen>>

\* A statement of the select fails: nothing is returned.
StatementFails(c) ==
    /\ pc[c] \in {"idle", "block", "running"}
    /\ StatementError(c)
    /\ Goto(c, "failed")
    /\ stack' = [stack EXCEPT ![c] = <<>>]
    /\ UNCHANGED <<result, seen>>

Close(c) ==
    /\ pc[c] \in {"answered", "failed"}
    /\ Release(c)
    /\ Goto(c, "closed")
    /\ result' = [result EXCEPT ![c] = <<>>]
    /\ seen' = [seen EXCEPT ![c] = {}]
    /\ UNCHANGED stack

ReaderStep(c) ==
    \/ SelectRoots(c)
    \/ SkipFetch(c) \/ NoRoomForParents(c) \/ StartFetch(c)
    \/ FetchBatch(c) \/ FinishBatch(c) \/ FinishFetch(c) \/ Answer(c)
    \/ StatementFails(c) \/ Close(c)

\* Another process commits.
WriterCommits(w, d) ==
    /\ AutocommitWrite(w, d)
    /\ seen' = [c \in Readers |-> IF pc[c] = "running" THEN seen[c] \cup {d} ELSE seen[c]]
    /\ UNCHANGED <<pc, stack, result>>

Next ==
    \/ \E c \in Readers : BeginBlock(c) \/ ReaderStep(c)
    \/ \E w \in Connections \ Readers, d \in Databases : WriterCommits(w, d)

Spec == Init /\ [][Next]_vars
FairSpec == Spec /\ \A c \in Readers : WF_vars(ReaderStep(c))

-----------------------------------------------------------------------------
CallTypeOK(call) ==
    /\ call.fetches \in Seq(Fetches)
    /\ call.index \in 1..(Len(call.fetches) + 1)
    /\ call.started \in BOOLEAN
    /\ call.batches \in Seq(Seq(Ids))
    /\ ~call.started => call.batches = <<>>
    /\ call.started => call.index <= Len(call.fetches)

\* Calls are open exactly while a select runs, and all but the innermost one are
\* in the middle of a fetch.
TypeOK ==
    /\ txn \in [Connections -> BOOLEAN]
    /\ lock \in [Connections -> LockStates]
    /\ pc \in [Readers -> PcValues]
    /\ \A c \in Readers :
          /\ stack[c] # <<>> <=> pc[c] = "running"
          /\ \A i \in DOMAIN stack[c] :
                CallTypeOK(stack[c][i]) /\ (i > 1 => stack[c][i].started)

\* Every statement that is still to be sent binds at most MaxBindValues values
\* and at least one parent.
WithinBindLimit ==
    \A c \in Readers : \A i \in DOMAIN stack[c] :
        LET call == stack[c][i]
        IN  \A k \in DOMAIN call.batches :
                /\ call.batches[k] # <<>>
                /\ FixedBinds[Fetch(call)] + Len(call.batches[k]) <= MaxBindValues

\* Selects end, however many fetches, batches and levels they have: each step of
\* the process itself is one statement or less, and a lock is an error.
SelectsEnd == \A c \in Readers : pc[c] = "running" ~> pc[c] \in {"answered", "failed"}

-----------------------------------------------------------------------------
\* What a select with multi links promises about its nested result, with no batches,
\* calls or statements in it.

\* The objects of a list are the children of owner in content d, each once.
ListOf(list, d, fetch, owner) ==
    /\ {list[k].id : k \in DOMAIN list} = {p[2] : p \in {p \in d.links[fetch] : p[1] = owner}}
    /\ \A j, k \in DOMAIN list : list[j].id = list[k].id => j = k

\* A fetch comes before those below it: the plans of a select form a tree.
ASSUME TreeAssumption ==
    /\ IsFiniteSet(Fetches)
    /\ \E level \in [Fetches -> 1..Cardinality(Fetches)] :
          \A f \in Fetches : \A i \in DOMAIN SubFetches[f] : level[SubFetches[f][i]] < level[f]

\* Lists of objects with lists of objects, n levels down.
Depths == 0..Cardinality(Fetches)
NestedLists[n \in Depths] ==
    Seq([id : Ids, lists : Seq(IF n = 0 THEN {} ELSE NestedLists[n - 1])])

\* TrueLists(contents)[n][fetch][owner]: the lists of n levels that are complete at
\* every one of them, each list as some content of contents had it.
TrueLists(contents) ==
    LET true[n \in Depths] ==
            [fetch \in Fetches |-> [owner \in Ids \cup {NoId} |->
                {list \in NestedLists[n] :
                    \E d \in contents :
                        /\ ListOf(list, d, fetch, owner)
                        /\ \A k \in DOMAIN list : \A j \in DOMAIN SubFetches[fetch] :
                              LET deeper == SubFetches[fetch][j]
                              IN  n # 0 /\ list[k].lists[j] \in true[n - 1][deeper][d.owner[deeper][list[k].id]]}]]
    IN  true

Answers(contents, objects) ==
    \E d \in contents :
        /\ {objects[k].id : k \in DOMAIN objects} = d.rows
        /\ \A j, k \in DOMAIN objects : objects[j].id = objects[k].id => j = k
        /\ \A k \in DOMAIN objects : \A i \in DOMAIN RootFetches :
              LET fetch == RootFetches[i]
              IN  objects[k].lists[i] \in
                      TrueLists(contents)[Cardinality(Fetches)][fetch][d.owner[fetch][objects[k].id]]

\* However the children were batched and whatever was committed meanwhile, every
\* list of a result is one its owner had during the select: whole, without
\* repetition, and under the right parent.
ListsWereTrue ==
    \A c \in Readers : pc[c] = "answered" => Answers(seen[c], result[c])

\* Inside a transaction block the whole nested result is one state of the file.
BlockResultIsOneState ==
    \A c \in Readers : pc[c] = "answered" /\ txn[c] =>
        \E d \in Databases : Answers({d}, result[c])

=============================================================================
