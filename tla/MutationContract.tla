-------------------------- MODULE MutationContract --------------------------
(***************************************************************************)
(* What insert, update and delete promise: a legal graph of objects        *)
(* changes to another legal graph, by the whole statement or not at all.   *)
(* Which objects a filter or a select means is given by constants.         *)
(***************************************************************************)
EXTENDS ObjectGraph

CONSTANTS
    Mutations,          \* a sequence of parsed inserts, updates and deletes
    Ids,                \* gives every type the ids its objects may be given
    Selected(_, _),     \* the objects of a graph that a filter selects
    Chosen(_, _)        \* those of them that a select takes

VARIABLE graph

\* The value assigned to a scalar or single link: of a select its only object.
OnlyMember(chosen) == IF chosen = {} THEN None ELSE CHOOSE x \in chosen : TRUE
Assigned(g, value) ==
    CASE value.tag = "literal" -> value.value
      [] value.tag = "null" -> None
      [] value.tag = "select" -> OnlyMember(Chosen(g, value))

AssignedFields(q) == {q.assignments[i].field : i \in DOMAIN q.assignments}
AssignedTo(g, q, name) ==
    LET i == CHOOSE i \in DOMAIN q.assignments : q.assignments[i].field = name
    IN  Assigned(g, q.assignments[i].value)

NewFields(g, q) ==
    [name \in {f.name : f \in StoredFields(q.type)} |->
        IF name \in AssignedFields(q) THEN AssignedTo(g, q, name)
        ELSE IF IsManyLink(FieldNamed(q.type, name)) THEN {} ELSE None]

Inserted(g, q, x) ==
    [y \in DOMAIN g \cup {x} |->
        IF y = x THEN [type |-> q.type, fields |-> NewFields(g, q)] ELSE g[y]]

\* An object with other values of its fields.
Refilled(object, ValueOf(_)) ==
    [type |-> object.type, fields |-> [name \in DOMAIN object.fields |-> ValueOf(name)]]

Updated(g, q) ==
    LET NewValue(x, name) ==
            IF name \in AssignedFields(q) THEN AssignedTo(g, q, name) ELSE g[x].fields[name]
    IN  [x \in DOMAIN g |->
            IF x \in Selected(g, q) THEN Refilled(g[x], LAMBDA name : NewValue(x, name)) ELSE g[x]]

\* += and -= relate every object of the filter to every object of the select.
Relinked(g, q) ==
    LET a == q.assignments[1]
        targets == Chosen(g, a.value)
        NewTargets(before) == IF a.op = "+=" THEN before \cup targets ELSE before \ targets
        NewValue(x, name) ==
            IF name = a.field THEN NewTargets(g[x].fields[name]) ELSE g[x].fields[name]
    IN  [x \in DOMAIN g |->
            IF x \in Selected(g, q) THEN Refilled(g[x], LAMBDA name : NewValue(x, name)) ELSE g[x]]

\* Deleting objects removes them from the multi links of the others.
Remaining(g, q) ==
    LET kept == DOMAIN g \ Selected(g, q)
        NewValue(x, name) ==
            IF IsManyLink(FieldNamed(g[x].type, name)) THEN g[x].fields[name] \cap kept
            ELSE g[x].fields[name]
    IN  [x \in kept |-> Refilled(g[x], LAMBDA name : NewValue(x, name))]

IsRelinking(q) == q.tag = "update" /\ q.assignments[1].op # ":="

Effects(g, q) ==
    CASE q.tag = "insert" -> {Inserted(g, q, x) : x \in Ids[q.type] \ DOMAIN g}
      [] q.tag = "update" -> {IF IsRelinking(q) THEN Relinked(g, q) ELSE Updated(g, q)}
      [] q.tag = "delete" -> {Remaining(g, q)}

\* A statement may be refused when an effect of it is not legal, a deletion also
\* when deleted objects refer to each other.
MayBeRefused(g, q) ==
    \/ \E h \in Effects(g, q) : ~Legal(h)
    \/ q.tag = "delete" /\ \E x, y \in Selected(g, q) :
          x # y /\ \E f \in StoredFields(q.type) : ~IsManyLink(f) /\ g[x].fields[f.name] = y

-----------------------------------------------------------------------------
Init == DOMAIN graph = {}

Do(q) == \E after \in Effects(graph, q) : graph' = after /\ Legal(after)

Next == \E i \in DOMAIN Mutations : Do(Mutations[i])

Spec == Init /\ [][Next]_graph
=============================================================================
