--------------------------- MODULE ScriptContract ---------------------------
(***************************************************************************)
(* What `query run` promises of the changes a script makes: they reach the *)
(* file in the order of the script, a transaction block as a whole or not  *)
(* at all, a rolled-back block never.  A script may stop anywhere.  There  *)
(* is no connection, lock or failure here; an effect is a process and the  *)
(* number of the statement that made it.                                   *)
(***************************************************************************)
EXTENDS Script

CONSTANTS
    Processes,
    Scripts

VARIABLES
    accepted,   \* accepted[c]: the script of process c, empty before it has one
    file        \* the effects that are in the file

contractVars == <<accepted, file>>

Effects(c, numbers) == {<<c, i>> : i \in numbers}

Init ==
    /\ accepted = [c \in Processes |-> <<>>]
    /\ file = {}

Accept(c, script) ==
    /\ accepted[c] = <<>>
    /\ Compiles(script)
    /\ accepted' = [accepted EXCEPT ![c] = script]
    /\ UNCHANGED file

\* The unit of write i, with everything committed before it already there.
Install(c, i) ==
    /\ accepted[c][i] = "write"
    /\ Committed(accepted[c], i)
    /\ Effects(c, Unit(accepted[c], i)) \cap file = {}
    /\ \A j \in DOMAIN accepted[c] :
          /\ accepted[c][j] = "write"
          /\ Committed(accepted[c], j)
          /\ \A k \in Unit(accepted[c], i) : j < k
          => <<c, j>> \in file
    /\ file' = file \cup Effects(c, Unit(accepted[c], i))
    /\ UNCHANGED accepted

Next ==
    \E c \in Processes :
        \/ \E script \in Scripts : Accept(c, script)
        \/ \E i \in DOMAIN accepted[c] : Install(c, i)

Spec == Init /\ [][Next]_contractVars

=============================================================================
