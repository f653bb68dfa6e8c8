--------------------------- MODULE SessionContract ---------------------------
(***************************************************************************)
(* What the messages of a REPL session mean for the database file: what is *)
(* said to be done outside a transaction is in the file, what is said to   *)
(* be done inside one reaches it together, with the commit that is said to *)
(* be done, and never otherwise.  Only an error leaves a user unsure of    *)
(* whether the transaction is still open.  There is no connection, lock or *)
(* queue of queries here.                                                  *)
(***************************************************************************)
CONSTANTS
    Processes,
    Changes     \* what single statements change

VARIABLES
    file,   \* the changes that are in the file
    known,  \* known[c]: whether the user of session c knows a transaction to be open
    block   \* block[c]: the changes made since that transaction was started

contractVars == <<file, known, block>>

Init ==
    /\ file = {}
    /\ known = [c \in Processes |-> "closed"]
    /\ block = [c \in Processes |-> {}]

Start(c) ==
    /\ known[c] # "open"
    /\ known' = [known EXCEPT ![c] = "open"]
    /\ block' = [block EXCEPT ![c] = {}]
    /\ UNCHANGED file

Change(c, change) ==
    /\ change \notin file
    /\ \A d \in Processes : change \notin block[d]
    /\ block' = [block EXCEPT ![c] = IF known[c] = "closed" THEN {} ELSE @ \cup {change}]
    /\ \/ known[c] # "open" /\ file' = file \cup {change}
       \/ known[c] # "closed" /\ UNCHANGED file
    /\ UNCHANGED known

Commit(c) ==
    /\ known[c] # "closed"
    /\ file' = file \cup block[c]
    /\ known' = [known EXCEPT ![c] = "closed"]
    /\ block' = [block EXCEPT ![c] = {}]

\* A rollback, or the end of the session.
Abandon(c) ==
    /\ known' = [known EXCEPT ![c] = "closed"]
    /\ block' = [block EXCEPT ![c] = {}]
    /\ UNCHANGED file

Fail(c) ==
    /\ known[c] = "open"
    /\ known' = [known EXCEPT ![c] = "unsure"]
    /\ UNCHANGED <<file, block>>

Next ==
    \E c \in Processes :
        \/ Start(c) \/ Commit(c) \/ Abandon(c) \/ Fail(c)
        \/ \E change \in Changes : Change(c, change)

Spec == Init /\ [][Next]_contractVars

=============================================================================
