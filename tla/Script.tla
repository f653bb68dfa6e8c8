------------------------------- MODULE Script -------------------------------
(***************************************************************************)
(* Query scripts: sequences of data statements and transaction commands,   *)
(* and what compile_script of gelite-commands accepts.  Of a data statement *)
(* only what it does to the database is kept: a "select" reads it, a       *)
(* "write" (insert, update, delete) changes it, an "invalid" one does not  *)
(* parse or resolve.                                                       *)
(***************************************************************************)
EXTENDS Naturals, Sequences

Ops == {"select", "write", "invalid", "start", "commit", "rollback"}

EndsBlock(op) == op \in {"commit", "rollback"}

\* transaction_start.is_some() before statement i; i may be one past the end.
InBlock(script, i) ==
    \E b \in 1..(i - 1) :
        /\ script[b] = "start"
        /\ \A k \in (b + 1)..(i - 1) : ~EndsBlock(script[k])

\* Mutant of Compiles: a nested START TRANSACTION is accepted.
CompilesNested(script) ==
    /\ script # <<>>
    /\ \A i \in DOMAIN script :
          /\ script[i] # "invalid"
          /\ EndsBlock(script[i]) => InBlock(script, i)
    /\ ~InBlock(script, Len(script) + 1)

\* parse_script wants a statement, compile_query a valid one, and transactions
\* neither nest, nor end before they start, nor stay open.
Compiles(script) ==
    /\ script # <<>>
    /\ \A i \in DOMAIN script :
          /\ script[i] # "invalid"
          /\ script[i] = "start" => ~InBlock(script, i)
          /\ EndsBlock(script[i]) => InBlock(script, i)
    /\ ~InBlock(script, Len(script) + 1)

-----------------------------------------------------------------------------
\* What the transaction commands of an accepted script mean for its statements.

\* No transaction ends from statement i on and before statement j.
NoEndBetween(script, i, j) == \A k \in i..(j - 1) : ~EndsBlock(script[k])

\* Statements i and j, in this order, belong to one transaction block.
SameBlock(script, i, j) == InBlock(script, i) /\ NoEndBetween(script, i, j)

\* The block of statement i ends with a commit, or i is a statement of its own.
Committed(script, i) ==
    InBlock(script, i) =>
        \E e \in DOMAIN script :
            e >= i /\ script[e] = "commit" /\ NoEndBetween(script, i, e)

\* The writes that take effect together with write i.
Unit(script, i) ==
    {j \in DOMAIN script :
        /\ script[j] = "write"
        /\ i = j \/ (i < j /\ SameBlock(script, i, j)) \/ (j < i /\ SameBlock(script, j, i))}

=============================================================================
