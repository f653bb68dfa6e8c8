--------------------------- MODULE SchemaHistory ---------------------------
(***************************************************************************)
(* What `schema apply` promises: the database carries one history of       *)
(* schema versions.  A version is added at the end or not at all, nothing  *)
(* already there changes, and every version keeps what the one before it   *)
(* declared, adding only fields existing rows have a value for.            *)
(***************************************************************************)
EXTENDS Sequences, SequencesExt

CONSTANT Snapshots      \* the canonical snapshots users may apply

VARIABLE history        \* the snapshots in version order

Addable(field) == field.cardinality # "required" /\ ~field.unique

\* Every object of `old` is in `new` with all its fields and only addable ones more.
Extends(old, new) ==
    \A before \in old :
        \E after \in new :
            /\ after.name = before.name
            /\ before.fields \subseteq after.fields
            /\ \A field \in after.fields \ before.fields : Addable(field)

Init == history = <<>>

AddVersion(snapshot) ==
    /\ history # <<>> => /\ snapshot # Last(history)
                         /\ Extends(Last(history), snapshot)
    /\ history' = Append(history, snapshot)

Next == \E snapshot \in Snapshots : AddVersion(snapshot)

Spec == Init /\ [][Next]_history
=============================================================================
