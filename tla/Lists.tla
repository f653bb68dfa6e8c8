------------------------------- MODULE Lists -------------------------------
(***************************************************************************)
(* Sorting, filtering, mapping and splitting of lists, as Vec::sort_by_key *)
(* and the iterator adaptors do it.  Each is given by what its result is   *)
(* or by a recursive function, so that it can be reasoned about.           *)
(***************************************************************************)
EXTENDS Naturals, Sequences, FiniteSets, SequencesExt

\* The members of a finite set in the order of their keys, which differ.
SortedByKey(items, key) ==
    CHOOSE list \in [1..Cardinality(items) -> items] :
        \A i, j \in 1..Cardinality(items) : i < j => key[list[i]] < key[list[j]]

\* The items of a sequence that pass a test, in their order.
Filter(seq, Test(_)) ==
    LET kept == {i \in DOMAIN seq : Test(seq[i])}
        order == SortedByKey(kept, [i \in kept |-> i])
    IN  [n \in DOMAIN order |-> seq[order[n]]]

\* Iterator::map and ::flat_map.
Map(F(_), seq) == [i \in DOMAIN seq |-> F(seq[i])]
FlatMap(F(_), seq) == FlattenSeq([i \in DOMAIN seq |-> F(seq[i])])

\* The pieces of a sequence between the separators: those that are ended, and the last.
Split(seq, separator) ==
    LET upTo[i \in 0..Len(seq)] ==
            IF i = 0 THEN [ended |-> <<>>, last |-> <<>>]
            ELSE LET before == upTo[i - 1]
                 IN  IF seq[i] = separator
                     THEN [ended |-> Append(before.ended, before.last), last |-> <<>>]
                     ELSE [ended |-> before.ended, last |-> Append(before.last, seq[i])]
    IN  upTo[Len(seq)]

Pieces(seq, separator) == Append(Split(seq, separator).ended, Split(seq, separator).last)

=============================================================================
