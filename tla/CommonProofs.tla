---------------------------- MODULE CommonProofs ----------------------------
(***************************************************************************)
(* Lemmas the proofs about several components share.                       *)
(*                                                                         *)
(* About lists: what the operators of Lists, and FlattenSeq of the         *)
(* community modules, return for every input.  FlattenSeq is recursive:    *)
(* its facts rest on a least counterexample, which the well-foundedness of *)
(* < on Nat provides.                                                      *)
(*                                                                         *)
(* About Sqlite: what its operations keep, whatever the content of the     *)
(* file is.                                                                *)
(***************************************************************************)
EXTENDS Lists, Sqlite, FiniteSetTheorems, SequenceTheorems, WellFoundedInduction, TLAPS

-----------------------------------------------------------------------------
\* Induction over data, in first-order form

\* A set of naturals that is not empty has a least member.
LEMMA LeastNatural ==
    ASSUME NEW T, T \subseteq Nat, T # {}
    PROVE  \E n \in T : \A m \in T : n <= m
<1> DEFINE Less == {pair \in Nat \X Nat : pair[1] < pair[2]}
<1>1. OpToRel(<, Nat) = Less
    BY DEF OpToRel
<1> HIDE DEF Less
<1>2. IsWellFoundedOn(Less, Nat)
    BY <1>1, NatLessThanWellFounded, Zenon
<1>3. \E n \in T : \A m \in T : <<m, n>> \notin Less
    BY <1>2, WFMin
<1>4. ASSUME NEW n \in Nat, NEW m \in Nat, m < n PROVE <<m, n>> \in Less
  <2> DEFINE pair == <<m, n>>
  <2>1. pair \in Nat \X Nat /\ pair[1] = m /\ pair[2] = n
    OBVIOUS
  <2> HIDE DEF pair
  <2>2. pair \in Less
    BY <1>4, <2>1 DEF Less
  <2>3. QED
    BY <2>2 DEF pair
<1>5. \A n, m \in Nat : n <= m \/ m < n
    OBVIOUS
<1>6. QED
    BY <1>3, <1>4, <1>5

\* What holds of zero and passes from each number to the next holds of all.
LEMMA NaturalsByStep ==
    ASSUME NEW T, 0 \in T, \A n \in Nat : n \in T => n + 1 \in T
    PROVE  Nat \subseteq T
<1> SUFFICES ASSUME Nat \ T # {} PROVE FALSE
    OBVIOUS
<1>1. PICK least \in Nat \ T : \A m \in Nat \ T : least <= m
    BY LeastNatural
<1>2. least # 0 /\ least - 1 \in Nat /\ (least - 1) + 1 = least
    OBVIOUS
<1>3. least - 1 \in T
    BY <1>1, <1>2
<1>4. QED
    BY <1>2, <1>3

-----------------------------------------------------------------------------
\* Sorting

\* A list of all the members of a set, once each and in the order of their keys.
OrderedByKey(list, items, key) ==
    /\ list \in [1..Cardinality(items) -> items]
    /\ \A i, j \in 1..Cardinality(items) : i < j => key[list[i]] < key[list[j]]

LEMMA SortedListExists ==
    ASSUME NEW items, IsFiniteSet(items), NEW key,
           \A x \in items : key[x] \in Nat,
           \A x, y \in items : key[x] = key[y] => x = y
    PROVE  \E list : OrderedByKey(list, items, key)
<1> DEFINE UpTo(x) == {y \in items : key[y] <= key[x]}
           n == Cardinality(items)
           rank == [x \in items |-> Cardinality(UpTo(x))]
<1>1. n \in Nat
    BY FS_CardinalityType
<1>2. ASSUME NEW x \in items
      PROVE  IsFiniteSet(UpTo(x)) /\ Cardinality(UpTo(x)) \in 1..n
  <2>1. IsFiniteSet(UpTo(x)) /\ Cardinality(UpTo(x)) <= n
    BY FS_Subset
  <2>2. Cardinality(UpTo(x)) \in Nat /\ Cardinality(UpTo(x)) # 0
    BY <2>1, FS_CardinalityType, FS_EmptySet
  <2>3. QED
    BY <1>1, <2>1, <2>2
<1>3. ASSUME NEW x \in items, NEW y \in items, key[x] < key[y]
      PROVE  rank[x] < rank[y]
  <2>1. UpTo(x) \in SUBSET UpTo(y) /\ y \in UpTo(y) /\ y \notin UpTo(x)
    BY <1>3
  <2>2. Cardinality(UpTo(x)) <= Cardinality(UpTo(y)) /\ Cardinality(UpTo(x)) # Cardinality(UpTo(y))
    BY <1>2, <2>1, FS_Subset
  <2>3. QED
    BY <1>2, <2>2
<1> HIDE DEF UpTo
<1>4. rank \in [items -> 1..n]
    BY <1>2
<1> HIDE DEF rank
<1>5. \A x, y \in items : rank[x] = rank[y] => x = y
  <2> SUFFICES ASSUME NEW x \in items, NEW y \in items, rank[x] = rank[y], x # y PROVE FALSE
      OBVIOUS
  <2>1. key[x] < key[y] \/ key[y] < key[x]
    OBVIOUS
  <2>2. rank[x] \in Nat /\ rank[y] \in Nat
    BY <1>1, <1>4
  <2>3. QED
    BY <1>3, <2>1, <2>2
<1>6. \A i \in 1..n : \E x \in items : rank[x] = i
  <2>1. IsFiniteSet(1..n) /\ Cardinality(1..n) = n
    BY <1>1, FS_Interval
  <2>2. rank \in Injection(items, 1..n)
    BY <1>4, <1>5 DEF Injection, IsInjective
  <2>3. rank \in Surjection(items, 1..n)
    BY <2>1, <2>2, FS_Injection DEF n
  <2>4. QED
    BY <2>3 DEF Surjection
<1> DEFINE list == [i \in 1..n |-> CHOOSE x \in items : rank[x] = i]
<1>7. \A i \in 1..n : list[i] \in items /\ rank[list[i]] = i
    BY <1>6
<1> HIDE DEF n
<1>8. list \in [1..n -> items]
    BY <1>7
<1> HIDE DEF list
<1>9. ASSUME NEW i \in 1..n, NEW j \in 1..n, i < j, ~(key[list[i]] < key[list[j]])
      PROVE  FALSE
  <2>1. key[list[j]] < key[list[i]] \/ list[i] = list[j]
    BY <1>7, <1>9
  <2>2. j < i \/ j = i
    BY <1>3, <1>7, <2>1
  <2>3. QED
    BY <1>9, <2>2
<1>10. QED
    BY <1>8, <1>9 DEF OrderedByKey, n

\* Every member is in a sorted list, and in one place.
LEMMA SortedListComplete ==
    ASSUME NEW items, IsFiniteSet(items), NEW key,
           \A x \in items : key[x] \in Nat,
           NEW list, OrderedByKey(list, items, key)
    PROVE  /\ \A x \in items : \E i \in 1..Cardinality(items) : list[i] = x
           /\ \A i, j \in 1..Cardinality(items) : list[i] = list[j] => i = j
<1> DEFINE n == Cardinality(items)
<1>1. n \in Nat
    BY FS_CardinalityType
<1>2. list \in [1..n -> items] /\ \A i, j \in 1..n : i < j => key[list[i]] < key[list[j]]
    BY DEF OrderedByKey
<1>3. IsFiniteSet(1..n) /\ Cardinality(1..n) = n
    BY <1>1, FS_Interval
<1>4. \A i, j \in 1..n : list[i] = list[j] => i = j
  <2> SUFFICES ASSUME NEW i \in 1..n, NEW j \in 1..n, list[i] = list[j], i # j PROVE FALSE
      OBVIOUS
  <2>1. i < j \/ j < i
    BY <1>1
  <2>2. key[list[i]] \in Nat
    BY <1>2
  <2>3. QED
    BY <1>2, <2>1, <2>2
<1>5. list \in Injection(1..n, items)
    BY <1>2, <1>4 DEF Injection, IsInjective
<1>6. list \in Surjection(1..n, items)
    BY <1>3, <1>5, FS_Injection
<1>7. QED
    BY <1>4, <1>6 DEF Surjection

\* SortedByKey lists every member of a finite set in the order of the keys.
LEMMA SortedByKeyIsOrdered ==
    ASSUME NEW items, IsFiniteSet(items), NEW key,
           \A x \in items : key[x] \in Nat,
           \A x, y \in items : key[x] = key[y] => x = y
    PROVE  OrderedByKey(SortedByKey(items, key), items, key)
<1>1. \E list \in [1..Cardinality(items) -> items] :
          \A i, j \in 1..Cardinality(items) : i < j => key[list[i]] < key[list[j]]
    BY SortedListExists DEF OrderedByKey
<1>2. QED
    BY <1>1 DEF SortedByKey, OrderedByKey

\* If the keys are the numbers from 1 on, the one with key i is in place i.
LEMMA SortedByPosition ==
    ASSUME NEW items, IsFiniteSet(items), NEW key,
           {key[x] : x \in items} = 1..Cardinality(items),
           NEW list, OrderedByKey(list, items, key)
    PROVE  \A i \in 1..Cardinality(items) : key[list[i]] = i
<1> DEFINE n == Cardinality(items)
<1>1. n \in Nat
    BY FS_CardinalityType
<1>2. list \in [1..n -> items] /\ \A i, j \in 1..n : i < j => key[list[i]] < key[list[j]]
    BY DEF OrderedByKey
<1>3. \A x \in items : key[x] \in 1..n
    OBVIOUS
<1>4. \A x \in items : \E i \in 1..n : list[i] = x
    BY <1>1, <1>3, SortedListComplete
<1> HIDE DEF n
<1> DEFINE misplaced == {i \in 1..n : key[list[i]] # i}
<1> SUFFICES ASSUME misplaced # {} PROVE FALSE
    BY DEF n
<1>5. PICK least \in misplaced : \A m \in misplaced : least <= m
  <2>1. misplaced \subseteq Nat
    BY <1>1
  <2> HIDE DEF misplaced
  <2>2. QED
    BY <2>1, LeastNatural
<1>6. \A m \in 1..(least - 1) : key[list[m]] = m
    BY <1>1, <1>5
<1>7. key[list[least]] \in 1..n /\ key[list[least]] # least
    BY <1>2, <1>3, <1>5
<1>8. CASE key[list[least]] < least
  <2>1. key[list[least]] \in 1..(least - 1)
    BY <1>5, <1>7, <1>8
  <2>2. key[list[key[list[least]]]] = key[list[least]]
    BY <1>6, <2>1
  <2>3. key[list[key[list[least]]]] < key[list[least]]
    BY <1>2, <1>7, <1>8
  <2>4. QED
    BY <1>7, <2>2, <2>3
<1>9. CASE least < key[list[least]]
  <2>1. PICK x \in items : key[x] = least
    BY <1>5 DEF n
  <2>2. PICK i \in 1..n : list[i] = x
    BY <1>4
  <2>3. i # least /\ key[list[i]] = least
    BY <1>9, <1>7, <2>1, <2>2
  <2>4. CASE i < least
    BY <1>6, <2>2, <2>3, <2>4
  <2>5. CASE least < i
    BY <1>2, <1>5, <1>7, <1>9, <2>3, <2>5
  <2>6. QED
    BY <1>1, <2>3, <2>4, <2>5
<1>10. QED
    BY <1>7, <1>8, <1>9

-----------------------------------------------------------------------------
\* Concatenation of a list of lists

\* FlattenSeq's local function, for lists of elements of S.
FirstLists(f, lists, i) == IF i = 1 THEN lists[i] ELSE f[i - 1] \o lists[i]
IsFlattening(f, lists, n) == f = [i \in 1..n |-> FirstLists(f, lists, i)]

LEMMA FlatteningAt ==
    ASSUME NEW lists, NEW n, NEW f, IsFlattening(f, lists, n), NEW i \in 1..n
    PROVE  f[i] = FirstLists(f, lists, i)
BY Zenon DEF IsFlattening

LEMMA FlatteningExists ==
    ASSUME NEW lists, NEW n \in Nat
    PROVE  \E f : IsFlattening(f, lists, n)
<1> DEFINE T == {m \in Nat : \E f : IsFlattening(f, lists, m)}
<1>1. 0 \in T
  <2>1. IsFlattening(<<>>, lists, 0)
    BY DEF IsFlattening
  <2>2. QED
    BY <2>1
<1>2. ASSUME NEW m \in Nat, m \in T PROVE m + 1 \in T
  <2>1. PICK f : IsFlattening(f, lists, m)
    BY <1>2
  <2> DEFINE g == [i \in 1..(m + 1) |-> IF i <= m THEN f[i] ELSE FirstLists(f, lists, i)]
  <2>2. ASSUME NEW i \in 1..(m + 1)
        PROVE  g[i] = FirstLists(g, lists, i)
    <3>1. g[i] = FirstLists(f, lists, i)
      <4>1. CASE i <= m
        BY <2>1, <4>1, FlatteningAt
      <4>2. CASE ~(i <= m)
        BY <4>2
      <4>3. QED
        BY <4>1, <4>2
    <3>2. i # 1 => g[i - 1] = f[i - 1]
      OBVIOUS
    <3> HIDE DEF g
    <3>3. FirstLists(f, lists, i) = FirstLists(g, lists, i)
      BY <3>2 DEF FirstLists
    <3>4. QED
      BY <3>1, <3>3
  <2>3. g = [i \in 1..(m + 1) |-> g[i]]
    OBVIOUS
  <2> HIDE DEF g
  <2>4. IsFlattening(g, lists, m + 1)
    BY <2>2, <2>3, Zenon DEF IsFlattening
  <2>5. QED
    BY <2>4
<1>3. Nat \subseteq T
  <2> HIDE DEF T
  <2>1. QED
    BY <1>1, <1>2, NaturalsByStep
<1>4. QED
    BY <1>3

\* Items of lists[1], lists[2], ... lists[n].
ItemsUpTo(lists, n) == UNION {ToSet(lists[i]) : i \in 1..n}

LEMMA ConcatItems ==
    ASSUME NEW S, NEW a \in Seq(S), NEW b \in Seq(S)
    PROVE  a \o b \in Seq(S) /\ ToSet(a \o b) = ToSet(a) \cup ToSet(b)
<1>1. Range(a \o b) = Range(a) \cup Range(b)
    BY RangeConcatenation
<1>2. a \o b \in Seq(S)
    OBVIOUS
<1>3. \A list : ToSet(list) = Range(list)
    BY DEF ToSet, Range
<1>4. QED
    BY <1>1, <1>2, <1>3

LEMMA FlatteningItems ==
    ASSUME NEW S, NEW n \in Nat, NEW lists, \A i \in 1..n : lists[i] \in Seq(S),
           NEW f, IsFlattening(f, lists, n)
    PROVE  \A i \in 1..n : f[i] \in Seq(S) /\ ToSet(f[i]) = ItemsUpTo(lists, i)
<1> DEFINE T == {m \in Nat : m \in 1..n => f[m] \in Seq(S) /\ ToSet(f[m]) = ItemsUpTo(lists, m)}
<1>1. 0 \in T
    OBVIOUS
<1>2. ASSUME NEW m \in Nat, m \in T PROVE m + 1 \in T
  <2> SUFFICES ASSUME m + 1 \in 1..n
               PROVE  f[m + 1] \in Seq(S) /\ ToSet(f[m + 1]) = ItemsUpTo(lists, m + 1)
      OBVIOUS
  <2>1. ItemsUpTo(lists, m + 1) = ItemsUpTo(lists, m) \cup ToSet(lists[m + 1])
    BY DEF ItemsUpTo
  <2>2. f[m + 1] = FirstLists(f, lists, m + 1)
    BY FlatteningAt
  <2>3. CASE m = 0
    <3>1. ItemsUpTo(lists, m) = {}
      BY <2>3 DEF ItemsUpTo
    <3>2. f[m + 1] = lists[m + 1]
      BY <2>2, <2>3 DEF FirstLists
    <3>3. QED
      BY <2>1, <3>1, <3>2
  <2>4. CASE m # 0
    <3>1. f[m] \in Seq(S) /\ ToSet(f[m]) = ItemsUpTo(lists, m) /\ lists[m + 1] \in Seq(S)
      BY <1>2, <2>4
    <3>2. f[m + 1] = f[m] \o lists[m + 1]
      <4>1. m + 1 # 1 /\ (m + 1) - 1 = m
        BY <2>4
      <4>2. QED
        BY <2>2, <4>1 DEF FirstLists
    <3> DEFINE a == f[m]
               b == lists[m + 1]
    <3>3. a \in Seq(S) /\ b \in Seq(S)
      BY <3>1
    <3> HIDE DEF a, b
    <3>4. a \o b \in Seq(S) /\ ToSet(a \o b) = ToSet(a) \cup ToSet(b)
      BY <3>3, ConcatItems
    <3>5. QED
      BY <2>1, <3>1, <3>2, <3>4 DEF a, b
  <2>5. QED
    BY <2>3, <2>4
<1>3. Nat \subseteq T
  <2> HIDE DEF T
  <2>1. QED
    BY <1>1, <1>2, NaturalsByStep
<1>4. QED
    BY <1>3

\* The items of a flattened list of lists are the items of the lists.
LEMMA FlattenItems ==
    ASSUME NEW S, NEW lists \in Seq(Seq(S))
    PROVE  /\ FlattenSeq(lists) \in Seq(S)
           /\ ToSet(FlattenSeq(lists)) = UNION {ToSet(lists[i]) : i \in DOMAIN lists}
<1> DEFINE n == Len(lists)
           F == CHOOSE f : IsFlattening(f, lists, n)
<1>1. n \in Nat /\ DOMAIN lists = 1..n
    OBVIOUS
<1>2. IsFlattening(F, lists, n)
    BY <1>1, FlatteningExists
<1>3. FlattenSeq(lists) = IF n = 0 THEN lists ELSE F[n]
    BY DEF FlattenSeq, IsFlattening, FirstLists
<1>4. \A i \in 1..n : lists[i] \in Seq(S)
    OBVIOUS
<1> HIDE DEF F
<1>5. CASE n = 0
  <2>1. FlattenSeq(lists) = <<>> /\ DOMAIN lists = {}
    BY <1>3, <1>5
  <2>2. QED
    BY <2>1 DEF ToSet
<1>6. CASE n # 0
  <2>1. n \in 1..n /\ F[n] \in Seq(S) /\ ToSet(F[n]) = ItemsUpTo(lists, n)
    BY <1>1, <1>2, <1>4, <1>6, FlatteningItems
  <2>2. QED
    BY <1>1, <1>3, <1>6, <2>1 DEF ItemsUpTo
<1>7. QED
    BY <1>5, <1>6

-----------------------------------------------------------------------------
(***************************************************************************)
(* The same for lists whose elements need no common set: a list is a       *)
(* sequence of its own items.                                              *)
(***************************************************************************)

IsList(list) == list \in Seq(ToSet(list))

LEMMA ListFromFunction ==
    ASSUME NEW n \in Nat, NEW list, list = [i \in 1..n |-> list[i]]
    PROVE  /\ IsList(list) /\ Len(list) = n /\ DOMAIN list = 1..n
           /\ ToSet(list) = {list[i] : i \in 1..n}
<1>1. DOMAIN list = 1..n
    OBVIOUS
<1>2. ToSet(list) = {list[i] : i \in 1..n}
    BY <1>1 DEF ToSet
<1>3. list \in [1..n -> ToSet(list)]
    BY <1>2
<1>4. list \in Seq(ToSet(list))
    BY <1>3
<1>5. QED
    BY <1>1, <1>2, <1>3, <1>4 DEF IsList

LEMMA ListOfSet ==
    ASSUME NEW S, NEW list \in Seq(S)
    PROVE  IsList(list)
<1>1. Len(list) \in Nat /\ list = [i \in 1..Len(list) |-> list[i]]
    OBVIOUS
<1>2. QED
    BY <1>1, ListFromFunction

LEMMA ListLength ==
    ASSUME NEW list, IsList(list)
    PROVE  /\ Len(list) \in Nat /\ DOMAIN list = 1..Len(list)
           /\ list = [i \in 1..Len(list) |-> list[i]]
           /\ \A i \in 1..Len(list) : list[i] \in ToSet(list)
<1>1. list \in Seq(ToSet(list))
    BY DEF IsList
<1>2. Len(list) \in Nat /\ DOMAIN list = 1..Len(list) /\ list = [i \in 1..Len(list) |-> list[i]]
    BY <1>1
<1>3. QED
    BY <1>2 DEF ToSet

\* The items of a list of a set are in the set, and the other way around.
LEMMA ItemsInSet ==
    ASSUME NEW S, NEW list \in Seq(S)
    PROVE  ToSet(list) \subseteq S
BY DEF ToSet

LEMMA ListOver ==
    ASSUME NEW S, NEW list, IsList(list), ToSet(list) \subseteq S
    PROVE  list \in Seq(S)
<1>1. /\ Len(list) \in Nat /\ list = [i \in 1..Len(list) |-> list[i]]
      /\ \A i \in 1..Len(list) : list[i] \in S
    BY ListLength
<1>2. PICK n \in Nat : n = Len(list)
    BY <1>1
<1>3. [i \in 1..n |-> list[i]] \in Seq(S)
    BY <1>1, <1>2
<1>4. QED
    BY <1>1, <1>2, <1>3

LEMMA ListFinite ==
    ASSUME NEW list, IsList(list)
    PROVE  IsFiniteSet(ToSet(list))
<1>1. Len(list) \in Nat /\ DOMAIN list = 1..Len(list) /\ list = [i \in 1..Len(list) |-> list[i]]
    BY ListLength
<1>2. list \in Surjection(1..Len(list), ToSet(list))
    BY <1>1 DEF Surjection, ToSet
<1>3. IsFiniteSet(1..Len(list))
  <2>1. 1 \in Int /\ Len(list) \in Int
    BY <1>1
  <2>2. QED
    BY <2>1, FS_Interval
<1>4. QED
    BY <1>2, <1>3, FS_Surjection

\* Concatenation puts the items together.
LEMMA ConcatLists ==
    ASSUME NEW a, NEW b, IsList(a), IsList(b)
    PROVE  IsList(a \o b) /\ ToSet(a \o b) = ToSet(a) \cup ToSet(b)
<1> DEFINE S == ToSet(a) \cup ToSet(b)
<1>1. a \in Seq(S) /\ b \in Seq(S)
  <2>1. a \in Seq(ToSet(a)) /\ b \in Seq(ToSet(b)) /\ ToSet(a) \subseteq S /\ ToSet(b) \subseteq S
    BY DEF IsList
  <2> HIDE DEF S
  <2>2. QED
    BY <2>1, SeqMonotonic
<1> HIDE DEF S
<1>2. a \o b \in Seq(S) /\ ToSet(a \o b) = ToSet(a) \cup ToSet(b)
    BY <1>1, ConcatItems
<1>3. QED
    BY <1>2, ListOfSet

\* The items of a list stand in another, from a place on.
HasPlaces(list, from, part) ==
    \A i \in DOMAIN part : from + i \in DOMAIN list /\ list[from + i] = part[i]

LEMMA ConcatPlaces ==
    ASSUME NEW a, NEW b, IsList(a), IsList(b)
    PROVE  /\ HasPlaces(a, 0, a) /\ HasPlaces(a \o b, Len(a), b)
           /\ \A from, part : HasPlaces(a, from, part) => HasPlaces(a \o b, from, part)
<1>1. PICK S : a \in Seq(S) /\ b \in Seq(S)
  <2>1. PICK S : S = ToSet(a) \cup ToSet(b)
    OBVIOUS
  <2>2. a \in Seq(ToSet(a)) /\ b \in Seq(ToSet(b)) /\ ToSet(a) \subseteq S /\ ToSet(b) \subseteq S
    BY <2>1 DEF IsList
  <2>3. QED
    BY <2>2, SeqMonotonic
<1>2. /\ \A i \in DOMAIN a : 0 + i = i
      /\ \A i \in DOMAIN a : i \in DOMAIN (a \o b) /\ (a \o b)[i] = a[i]
      /\ \A i \in DOMAIN b : Len(a) + i \in DOMAIN (a \o b) /\ (a \o b)[Len(a) + i] = b[i]
    BY <1>1
<1>3. QED
    BY <1>2 DEF HasPlaces

\* A list is empty exactly when it has no item.
LEMMA EmptyList ==
    ASSUME NEW list, IsList(list)
    PROVE  list = <<>> <=> ToSet(list) = {}
<1>1. list \in Seq(ToSet(list))
    BY DEF IsList
<1>2. DOMAIN list = 1..Len(list) /\ Len(list) \in Nat
    BY <1>1
<1>3. list = <<>> <=> Len(list) = 0
    BY <1>1
<1>4. Len(list) = 0 => DOMAIN list = {}
    BY <1>2
<1>5. DOMAIN list = {} => ToSet(list) = {}
    BY DEF ToSet
<1>6. Len(list) # 0 => list[1] \in ToSet(list)
    BY <1>2 DEF ToSet
<1>7. QED
    BY <1>3, <1>4, <1>5, <1>6

\* The items of a flattened list of lists are the items of its lists.
LEMMA FlattenLists ==
    ASSUME NEW lists, IsList(lists), \A i \in DOMAIN lists : IsList(lists[i])
    PROVE  /\ IsList(FlattenSeq(lists))
           /\ ToSet(FlattenSeq(lists)) = UNION {ToSet(lists[i]) : i \in DOMAIN lists}
<1> DEFINE S == UNION {ToSet(lists[i]) : i \in DOMAIN lists}
<1>1. Len(lists) \in Nat /\ DOMAIN lists = 1..Len(lists) /\ lists = [i \in 1..Len(lists) |-> lists[i]]
    BY ListLength
<1>2. ASSUME NEW i \in DOMAIN lists PROVE lists[i] \in Seq(S)
  <2>1. lists[i] \in Seq(ToSet(lists[i])) /\ ToSet(lists[i]) \subseteq S
    BY DEF IsList
  <2> HIDE DEF S
  <2>2. QED
    BY <2>1, SeqMonotonic
<1> HIDE DEF S
<1>3. lists \in Seq(Seq(S))
    BY <1>1, <1>2
<1>4. QED
    BY <1>3, FlattenItems, ListOfSet DEF S

\* Sorting lists every member of a finite set whose keys differ.
LEMMA SortedItems ==
    ASSUME NEW items, IsFiniteSet(items), NEW key,
           \A x \in items : key[x] \in Nat,
           \A x, y \in items : key[x] = key[y] => x = y
    PROVE  /\ IsList(SortedByKey(items, key))
           /\ ToSet(SortedByKey(items, key)) = items
           /\ Len(SortedByKey(items, key)) = Cardinality(items)
           /\ \A i, j \in DOMAIN SortedByKey(items, key) :
                  SortedByKey(items, key)[i] = SortedByKey(items, key)[j] => i = j
<1> DEFINE list == SortedByKey(items, key)
           n == Cardinality(items)
<1>1. OrderedByKey(list, items, key) /\ n \in Nat
    BY SortedByKeyIsOrdered, FS_CardinalityType
<1> HIDE DEF list
<1>2. /\ \A x \in items : \E i \in 1..n : list[i] = x
      /\ \A i, j \in 1..n : list[i] = list[j] => i = j
    BY <1>1, SortedListComplete
<1>3. list \in [1..n -> items]
    BY <1>1 DEF OrderedByKey
<1>4. list = [i \in 1..n |-> list[i]]
    BY <1>3
<1>5. /\ IsList(list) /\ Len(list) = n /\ DOMAIN list = 1..n
      /\ ToSet(list) = {list[i] : i \in 1..n}
    BY <1>1, <1>4, ListFromFunction
<1>6. QED
    BY <1>2, <1>3, <1>5 DEF list

\* Filtering keeps the items at the places kept, in their order.
LEMMA FilteredItems ==
    ASSUME NEW seq, IsList(seq), NEW kept \in SUBSET DOMAIN seq,
           NEW order, order = SortedByKey(kept, [i \in kept |-> i]),
           NEW list, list = [n \in DOMAIN order |-> seq[order[n]]]
    PROVE  /\ IsList(list)
           /\ ToSet(list) = {seq[i] : i \in kept}
<1>1. DOMAIN seq \subseteq Nat /\ IsFiniteSet(DOMAIN seq)
  <2>1. Len(seq) \in Nat /\ DOMAIN seq = 1..Len(seq)
    BY ListLength
  <2>2. QED
    BY <2>1, FS_Interval
<1>2. IsFiniteSet(kept)
    BY <1>1, FS_Subset
<1> DEFINE key == [i \in kept |-> i]
<1>3. (\A x \in kept : key[x] \in Nat) /\ (\A x, y \in kept : key[x] = key[y] => x = y)
    BY <1>1
<1> HIDE DEF key
<1>4. IsList(order) /\ ToSet(order) = kept
    BY <1>2, <1>3, SortedItems DEF key
<1>5. Len(order) \in Nat /\ DOMAIN order = 1..Len(order)
    BY <1>4, ListLength
<1>6. list = [n \in 1..Len(order) |-> list[n]] /\ \A n \in DOMAIN order : list[n] = seq[order[n]]
    BY <1>5
<1>7. IsList(list) /\ ToSet(list) = {list[n] : n \in DOMAIN order}
  <2>1. IsList(list) /\ ToSet(list) = {list[n] : n \in 1..Len(order)}
    BY ONLY <1>5, <1>6, ListFromFunction
  <2>2. QED
    BY <1>5, <2>1
<1>8. kept = {order[n] : n \in DOMAIN order}
    BY <1>4 DEF ToSet
<1>9. {seq[i] : i \in kept} = {seq[order[n]] : n \in DOMAIN order}
    BY ONLY <1>8
<1>10. {list[n] : n \in DOMAIN order} = {seq[order[n]] : n \in DOMAIN order}
    BY <1>6
<1>11. QED
    BY <1>7, <1>9, <1>10

\* A list without repetitions has none after filtering.
LEMMA FilteredApart ==
    ASSUME NEW seq, IsList(seq), \A i, j \in DOMAIN seq : seq[i] = seq[j] => i = j,
           NEW kept \in SUBSET DOMAIN seq,
           NEW order, order = SortedByKey(kept, [i \in kept |-> i]),
           NEW list, list = [n \in DOMAIN order |-> seq[order[n]]]
    PROVE  \A m, n \in DOMAIN list : list[m] = list[n] => m = n
<1>1. DOMAIN seq \subseteq Nat /\ IsFiniteSet(DOMAIN seq)
  <2>1. Len(seq) \in Nat /\ DOMAIN seq = 1..Len(seq)
    BY ListLength
  <2>2. QED
    BY <2>1, FS_Interval
<1>2. IsFiniteSet(kept)
    BY <1>1, FS_Subset
<1> DEFINE key == [i \in kept |-> i]
<1>3. (\A x \in kept : key[x] \in Nat) /\ (\A x, y \in kept : key[x] = key[y] => x = y)
    BY <1>1
<1> HIDE DEF key
<1>4. ToSet(order) = kept /\ \A i, j \in DOMAIN order : order[i] = order[j] => i = j
    BY <1>2, <1>3, SortedItems DEF key
<1>5. \A n \in DOMAIN order : order[n] \in DOMAIN seq
    BY <1>4 DEF ToSet
<1>6. QED
    BY <1>4, <1>5

-----------------------------------------------------------------------------
\* The laws of concatenation, for operators the provers take as they are

Joined(a, b) == a \o b
Extended(seq, x) == Append(seq, x)

Closed(S) ==
    /\ <<>> \in Seq(S)
    /\ \A a, b \in Seq(S) : Joined(a, b) \in Seq(S)
    /\ \A a \in Seq(S), x \in S : Extended(a, x) \in Seq(S)

EmptyIsUnit(S) == \A a \in Seq(S) : Joined(a, <<>>) = a /\ Joined(<<>>, a) = a
Associative(S) == \A a, b, c \in Seq(S) : Joined(Joined(a, b), c) = Joined(a, Joined(b, c))
ExtendsLast(S) == \A a, b \in Seq(S), x \in S : Extended(Joined(a, b), x) = Joined(a, Extended(b, x))
EmptyOrExtended(S) ==
    /\ \A a \in Seq(S), x \in S : Extended(a, x) # <<>>
    /\ \A a \in Seq(S) : a = <<>> \/ \E front \in Seq(S), x \in S : a = Extended(front, x)

SequenceLaws(S) == Closed(S) /\ EmptyIsUnit(S) /\ Associative(S) /\ ExtendsLast(S) /\ EmptyOrExtended(S)

\* Sequences of whatever they are sequences of have these laws.
LEMMA SequencesHaveLaws ==
    ASSUME NEW S
    PROVE  SequenceLaws(S)
<1>1. <<>> \in Seq(S)
    OBVIOUS
<1>2. \A a, b \in Seq(S) : a \o b \in Seq(S)
    OBVIOUS
<1>3. \A a \in Seq(S), x \in S : Append(a, x) \in Seq(S) /\ Append(a, x) # <<>>
    OBVIOUS
<1>4. \A a \in Seq(S) : a \o <<>> = a /\ <<>> \o a = a
    OBVIOUS
<1>5. \A a, b, c \in Seq(S) : (a \o b) \o c = a \o (b \o c)
    BY ConcatAssociative
<1>6. \A a, b \in Seq(S), x \in S : Append(a \o b, x) = a \o Append(b, x)
    OBVIOUS
<1>7. \A a \in Seq(S) : a = <<>> \/ \E front \in Seq(S), x \in S : a = Append(front, x)
    BY SequenceEmptyOrAppend
<1>8. QED
    BY <1>1, <1>2, <1>3, <1>4, <1>5, <1>6, <1>7, Zenon
    DEF SequenceLaws, Closed, EmptyIsUnit, Associative, ExtendsLast, EmptyOrExtended, Joined, Extended

\* What holds of the empty sequence and is kept by appending holds of all sequences.
LEMMA SequencesByAppend ==
    ASSUME NEW S, NEW T, <<>> \in T,
           \A seq \in Seq(S), x \in S : seq \in T => Extended(seq, x) \in T
    PROVE  Seq(S) \subseteq T
<1> DEFINE N == {n \in Nat : \A seq \in Seq(S) : Len(seq) = n => seq \in T}
<1>1. 0 \in N
    BY EmptySeq
<1>2. ASSUME NEW n \in Nat, n \in N PROVE n + 1 \in N
  <2> SUFFICES ASSUME NEW seq \in Seq(S), Len(seq) = n + 1 PROVE seq \in T
      OBVIOUS
  <2>1. PICK front \in Seq(S), x \in S : seq = Append(front, x)
    BY SequenceEmptyOrAppend
  <2>2. Len(front) = n
    BY <2>1
  <2>3. QED
    BY <1>2, <2>1, <2>2 DEF Extended
<1>3. Nat \subseteq N
  <2> HIDE DEF N
  <2>1. QED
    BY <1>1, <1>2, NaturalsByStep
<1>4. QED
    BY <1>3

-----------------------------------------------------------------------------
\* Recursion along a sequence

IsStep(step, X, Y) == step \in [X \X Y -> X]

\* The results after 0, 1, 2, ... items, where step[<<result, item>>] is the next one.
IsRecursion(f, step, base, items) ==
    f[0] = base /\ \A i \in 1..Len(items) : f[i] = step[<<f[i - 1], items[i]>>]

Recursion(X, step, base, items) ==
    CHOOSE f \in [0..Len(items) -> X] : IsRecursion(f, step, base, items)

Folded(X, step, base, items) == Recursion(X, step, base, items)[Len(items)]

\* There is a function of the results of each step,
LEMMA RecursionExists ==
    ASSUME NEW X, NEW Y, NEW step, IsStep(step, X, Y), NEW base \in X, NEW items \in Seq(Y)
    PROVE  \E f \in [0..Len(items) -> X] : IsRecursion(f, step, base, items)
<1> DEFINE T == {n \in Nat : n <= Len(items) =>
                    \E f \in [0..n -> X] :
                        f[0] = base /\ \A i \in 1..n : f[i] = step[<<f[i - 1], items[i]>>]}
<1>1. 0 \in T
  <2> DEFINE f == [i \in 0..0 |-> base]
  <2>1. f \in [0..0 -> X] /\ f[0] = base /\ \A i \in 1..0 : f[i] = step[<<f[i - 1], items[i]>>]
    OBVIOUS
  <2>2. QED
    BY <2>1
<1>2. ASSUME NEW n \in Nat, n \in T PROVE n + 1 \in T
  <2> SUFFICES ASSUME n + 1 <= Len(items)
               PROVE  \E f \in [0..(n + 1) -> X] :
                          f[0] = base /\ \A i \in 1..(n + 1) : f[i] = step[<<f[i - 1], items[i]>>]
      OBVIOUS
  <2>1. PICK f \in [0..n -> X] : f[0] = base /\ \A i \in 1..n : f[i] = step[<<f[i - 1], items[i]>>]
    BY <1>2
  <2> DEFINE next == step[<<f[n], items[n + 1]>>]
             g == [i \in 0..(n + 1) |-> IF i <= n THEN f[i] ELSE next]
  <2>2. next \in X
    <3>1. f[n] \in X /\ items[n + 1] \in Y
      OBVIOUS
    <3>2. QED
      BY <3>1 DEF IsStep
  <2>3. g \in [0..(n + 1) -> X] /\ g[0] = base
    <3> HIDE DEF next
    <3>1. QED
      BY <2>1, <2>2
  <2>4. ASSUME NEW i \in 1..(n + 1) PROVE g[i] = step[<<g[i - 1], items[i]>>]
    <3>1. g[i - 1] = f[i - 1]
      OBVIOUS
    <3>2. CASE i <= n
      BY <2>1, <3>1, <3>2
    <3>3. CASE ~(i <= n)
      <4>1. i = n + 1 /\ g[i] = next /\ i - 1 = n
        BY <3>3
      <4> HIDE DEF g
      <4>2. QED
        BY <3>1, <4>1
    <3>4. QED
      BY <3>2, <3>3
  <2>5. QED
    <3> HIDE DEF g
    <3>1. QED
      BY <2>3, <2>4
<1>3. Nat \subseteq T
  <2> HIDE DEF T
  <2>1. QED
    BY <1>1, <1>2, NaturalsByStep
<1>4. Len(items) \in Nat
    OBVIOUS
<1>5. Len(items) \in T
  <2> HIDE DEF T
  <2>1. QED
    BY <1>3, <1>4
<1>6. QED
    BY <1>5 DEF IsRecursion

\* which the choice of Recursion is,
LEMMA RecursionIs ==
    ASSUME NEW X, NEW Y, NEW step, IsStep(step, X, Y), NEW base \in X, NEW items \in Seq(Y)
    PROVE  /\ Recursion(X, step, base, items) \in [0..Len(items) -> X]
           /\ IsRecursion(Recursion(X, step, base, items), step, base, items)
<1>1. \E f \in [0..Len(items) -> X] : IsRecursion(f, step, base, items)
    BY RecursionExists
<1>2. QED
    BY <1>1 DEF Recursion

\* Two recursions over sequences that begin alike are alike as far as these are.
LEMMA RecursionUnique ==
    ASSUME NEW Y, NEW items \in Seq(Y), NEW longer \in Seq(Y), Len(items) <= Len(longer),
           \A i \in 1..Len(items) : longer[i] = items[i],
           NEW step, NEW base, NEW f, IsRecursion(f, step, base, items),
           NEW g, IsRecursion(g, step, base, longer)
    PROVE  g[Len(items)] = f[Len(items)]
<1> DEFINE T == {n \in Nat : n <= Len(items) => g[n] = f[n]}
<1>1. 0 \in T
    BY DEF IsRecursion
<1>2. ASSUME NEW n \in Nat, n \in T PROVE n + 1 \in T
  <2> SUFFICES ASSUME n + 1 <= Len(items) PROVE g[n + 1] = f[n + 1]
      OBVIOUS
  <2>1. n + 1 \in 1..Len(items) /\ n + 1 \in 1..Len(longer) /\ (n + 1) - 1 = n /\ g[n] = f[n]
    BY <1>2
  <2>2. f[n + 1] = step[<<f[n], items[n + 1]>>]
    BY <2>1 DEF IsRecursion
  <2>3. g[n + 1] = step[<<g[n], longer[n + 1]>>]
    BY <2>1 DEF IsRecursion
  <2>4. QED
    BY <2>1, <2>2, <2>3
<1>3. Nat \subseteq T
  <2> HIDE DEF T
  <2>1. QED
    BY <1>1, <1>2, NaturalsByStep
<1>4. Len(items) \in Nat
    OBVIOUS
<1>5. QED
    BY <1>3, <1>4

\* Whatever function has this beginning and these steps ends like it.
LEMMA FoldedIs ==
    ASSUME NEW X, NEW Y, NEW step, IsStep(step, X, Y), NEW base \in X, NEW items \in Seq(Y),
           NEW f, IsRecursion(f, step, base, items)
    PROVE  f[Len(items)] = Folded(X, step, base, items)
<1>1. PICK g : g = Recursion(X, step, base, items)
    OBVIOUS
<1>2. IsRecursion(g, step, base, items)
    BY <1>1, RecursionIs
<1>3. f[Len(items)] = g[Len(items)]
    BY <1>2, RecursionUnique
<1>4. QED
    BY <1>1, <1>3 DEF Folded

\* Without items the result is the base.
LEMMA FoldedEmpty ==
    ASSUME NEW X, NEW Y, NEW step, IsStep(step, X, Y), NEW base \in X
    PROVE  Folded(X, step, base, <<>>) = base
<1>1. <<>> \in Seq(Y) /\ Len(<<>>) = 0
    OBVIOUS
<1>2. IsRecursion(Recursion(X, step, base, <<>>), step, base, <<>>)
    BY <1>1, RecursionIs
<1>3. QED
    BY <1>1, <1>2 DEF IsRecursion, Folded

\* A further item is one more step.
LEMMA FoldedAppend ==
    ASSUME NEW X, NEW Y, NEW step, IsStep(step, X, Y), NEW base \in X, NEW items \in Seq(Y), NEW y \in Y
    PROVE  /\ Folded(X, step, base, items) \in X
           /\ Folded(X, step, base, Append(items, y)) = step[<<Folded(X, step, base, items), y>>]
<1>1. PICK longer : longer = Append(items, y)
    OBVIOUS
<1>2. PICK f : f = Recursion(X, step, base, items)
    OBVIOUS
<1>3. PICK g : g = Recursion(X, step, base, longer)
    OBVIOUS
<1>4. /\ longer \in Seq(Y) /\ Len(longer) = Len(items) + 1 /\ Len(items) \in Nat
      /\ longer[Len(items) + 1] = y /\ \A i \in 1..Len(items) : longer[i] = items[i]
    BY <1>1
<1>5. f \in [0..Len(items) -> X] /\ IsRecursion(f, step, base, items)
    BY <1>2, RecursionIs
<1>6. IsRecursion(g, step, base, longer)
    BY <1>3, <1>4, RecursionIs
<1>7. g[Len(items)] = f[Len(items)]
    BY <1>4, <1>5, <1>6, RecursionUnique
<1>8. g[Len(items) + 1] = step[<<g[Len(items)], y>>]
  <2>1. Len(items) + 1 \in 1..Len(longer) /\ (Len(items) + 1) - 1 = Len(items)
    BY <1>4
  <2>2. QED
    BY <1>4, <1>6, <2>1 DEF IsRecursion
<1>9. f[Len(items)] \in X
    BY <1>4, <1>5
<1>10. QED
    BY <1>1, <1>2, <1>3, <1>4, <1>7, <1>8, <1>9 DEF Folded

\* Both, for all items at once.
LEMMA FoldedByItems ==
    ASSUME NEW X, NEW Y, NEW step, IsStep(step, X, Y), NEW base \in X
    PROVE  /\ Folded(X, step, base, <<>>) = base
           /\ \A items \in Seq(Y) : Folded(X, step, base, items) \in X
           /\ \A items \in Seq(Y), y \in Y :
                  Folded(X, step, base, Extended(items, y)) = step[<<Folded(X, step, base, items), y>>]
<1>1. Folded(X, step, base, <<>>) = base
    BY FoldedEmpty
<1>2. ASSUME NEW items \in Seq(Y), NEW y \in Y
      PROVE  /\ Folded(X, step, base, items) \in X
             /\ Folded(X, step, base, Extended(items, y)) = step[<<Folded(X, step, base, items), y>>]
    BY FoldedAppend DEF Extended
<1>3. ASSUME NEW items \in Seq(Y) PROVE Folded(X, step, base, items) \in X
  <2>1. CASE items = <<>>
    BY <1>1, <2>1
  <2>2. CASE items # <<>>
    <3>1. items[1] \in Y
      BY <2>2, EmptySeq
    <3>2. QED
      BY <1>2, <3>1
  <2>3. QED
    BY <2>1, <2>2
<1>4. QED
    BY <1>1, <1>2, <1>3

-----------------------------------------------------------------------------
\* Flattening and splitting

\* No lists flatten to none,
LEMMA FlattenEmpty == FlattenSeq(<<>>) = <<>>
<1>1. Len(<<>>) = 0
    OBVIOUS
<1>2. QED
    BY <1>1 DEF FlattenSeq

\* others to what the recursion of FlattenSeq comes to,
LEMMA FlattenIs ==
    ASSUME NEW S, NEW lists \in Seq(Seq(S)), Len(lists) # 0
    PROVE  \E f : IsFlattening(f, lists, Len(lists)) /\ FlattenSeq(lists) = f[Len(lists)]
<1> DEFINE n == Len(lists)
           F == CHOOSE f : IsFlattening(f, lists, n)
<1>1. n \in Nat
    OBVIOUS
<1>2. IsFlattening(F, lists, n)
  <2>1. \E f : IsFlattening(f, lists, n)
    BY <1>1, FlatteningExists
  <2> HIDE DEF n
  <2>2. QED
    BY <2>1
<1>3. FlattenSeq(lists) = F[n]
    BY DEF FlattenSeq, IsFlattening, FirstLists
<1>4. QED
  <2> HIDE DEF F
  <2>1. QED
    BY <1>2, <1>3

\* A list of lists with one more.
LEMMA FlattenAppend ==
    ASSUME NEW S, NEW lists \in Seq(Seq(S)), NEW list \in Seq(S)
    PROVE  FlattenSeq(Extended(lists, list)) = Joined(FlattenSeq(lists), list)
<1>1. PICK longer : longer = Append(lists, list)
    OBVIOUS
<1>2. PICK n : n = Len(lists)
    OBVIOUS
<1>3. /\ n \in Nat /\ longer \in Seq(Seq(S)) /\ Len(longer) = n + 1 /\ longer[n + 1] = list
      /\ \A i \in 1..n : longer[i] = lists[i]
    BY <1>1, <1>2
<1>4. PICK g : IsFlattening(g, longer, n + 1) /\ FlattenSeq(longer) = g[n + 1]
  <2>1. Len(longer) # 0
    BY <1>3
  <2>2. QED
    BY <1>3, <2>1, FlattenIs
<1>5. g[n + 1] = FirstLists(g, longer, n + 1)
    BY <1>3, <1>4, FlatteningAt
<1>6. CASE n = 0
  <2>1. lists = <<>>
    BY <1>2, <1>6, EmptySeq
  <2>2. g[n + 1] = list
    BY <1>3, <1>5, <1>6 DEF FirstLists
  <2>3. <<>> \o list = list
    OBVIOUS
  <2>4. QED
    BY <1>1, <1>4, <2>1, <2>2, <2>3, FlattenEmpty DEF Extended, Joined
<1>7. CASE n # 0
  <2>1. PICK f : IsFlattening(f, lists, n) /\ FlattenSeq(lists) = f[n]
    BY <1>2, <1>7, FlattenIs
  <2> DEFINE T == {m \in Nat : m \in 1..n => g[m] = f[m]}
  <2>2. 0 \in T
    OBVIOUS
  <2>3. ASSUME NEW m \in Nat, m \in T PROVE m + 1 \in T
    <3> SUFFICES ASSUME m + 1 \in 1..n PROVE g[m + 1] = f[m + 1]
        OBVIOUS
    <3>1. f[m + 1] = FirstLists(f, lists, m + 1)
      BY <2>1, FlatteningAt
    <3>2. m + 1 \in 1..(n + 1)
      BY <1>3
    <3>3. g[m + 1] = FirstLists(g, longer, m + 1)
      BY <1>4, <3>2, FlatteningAt
    <3>4. longer[m + 1] = lists[m + 1] /\ (m + 1) - 1 = m /\ (m # 0 => g[m] = f[m])
      BY <1>3, <2>3
    <3>5. m + 1 = 1 <=> m = 0
      OBVIOUS
    <3>6. QED
      BY <3>1, <3>3, <3>4, <3>5 DEF FirstLists
  <2>4. Nat \subseteq T
    <3> HIDE DEF T
    <3>1. QED
      BY <2>2, <2>3, NaturalsByStep
  <2>5. g[n] = f[n]
    BY <1>3, <1>7, <2>4
  <2>6. g[n + 1] = g[n] \o longer[n + 1]
    <3>1. n + 1 # 1 /\ (n + 1) - 1 = n
      BY <1>3, <1>7
    <3>2. QED
      BY <1>5, <3>1 DEF FirstLists
  <2>7. QED
    BY <1>1, <1>3, <1>4, <2>1, <2>5, <2>6 DEF Extended, Joined
<1>8. QED
    BY <1>6, <1>7

\* Lists and lists flatten to what each flattens to, one behind the other.
LEMMA FlattenConcat ==
    ASSUME NEW S, NEW a \in Seq(Seq(S))
    PROVE  \A b \in Seq(Seq(S)) : FlattenSeq(Joined(a, b)) = Joined(FlattenSeq(a), FlattenSeq(b))
<1> DEFINE T == {b \in Seq(Seq(S)) : FlattenSeq(Joined(a, b)) = Joined(FlattenSeq(a), FlattenSeq(b))}
<1>1. SequenceLaws(S) /\ SequenceLaws(Seq(S))
    BY SequencesHaveLaws
<1>2. \A lists \in Seq(Seq(S)) : FlattenSeq(lists) \in Seq(S)
    BY FlattenItems
<1>3. <<>> \in T
    BY <1>1, <1>2, FlattenEmpty DEF SequenceLaws, Closed, EmptyIsUnit
<1>4. ASSUME NEW b \in Seq(Seq(S)), NEW list \in Seq(S), b \in T PROVE Extended(b, list) \in T
  <2>1. Joined(a, b) \in Seq(Seq(S)) /\ Extended(b, list) \in Seq(Seq(S))
    BY <1>1 DEF SequenceLaws, Closed
  <2>2. Joined(a, Extended(b, list)) = Extended(Joined(a, b), list)
    BY <1>1 DEF SequenceLaws, ExtendsLast
  <2>3. FlattenSeq(Extended(Joined(a, b), list)) = Joined(FlattenSeq(Joined(a, b)), list)
    BY <2>1, FlattenAppend
  <2>4. FlattenSeq(Extended(b, list)) = Joined(FlattenSeq(b), list)
    BY FlattenAppend
  <2>5. FlattenSeq(Joined(a, b)) = Joined(FlattenSeq(a), FlattenSeq(b))
    BY <1>4
  <2>6. Joined(Joined(FlattenSeq(a), FlattenSeq(b)), list) = Joined(FlattenSeq(a), Joined(FlattenSeq(b), list))
    BY <1>1, <1>2 DEF SequenceLaws, Associative
  <2>7. QED
    BY <2>1, <2>2, <2>3, <2>4, <2>5, <2>6
<1>5. Seq(Seq(S)) \subseteq T
  <2> HIDE DEF T
  <2>1. QED
    BY <1>3, <1>4, SequencesByAppend
<1>6. QED
    BY <1>5

-----------------------------------------------------------------------------
\* Split

Splitting(S) == [ended : Seq(Seq(S)), last : Seq(S)]
NoPieces == [ended |-> <<>>, last |-> <<>>]
SplitNext(split, item, separator) ==
    IF item = separator THEN [ended |-> Extended(split.ended, split.last), last |-> <<>>]
    ELSE [ended |-> split.ended, last |-> Extended(split.last, item)]
SplitStep(S, separator) ==
    [pair \in Splitting(S) \X S |-> SplitNext(pair[1], pair[2], separator)]

\* A step of Split gives pieces.
LEMMA SplitNextTyped ==
    ASSUME NEW S, NEW separator, NEW split \in Splitting(S), NEW x \in S
    PROVE  SplitNext(split, x, separator) \in Splitting(S)
<1>1. /\ split.ended \in Seq(Seq(S)) /\ split.last \in Seq(S)
      /\ split = [ended |-> split.ended, last |-> split.last]
    BY DEF Splitting
<1>2. PICK ended : ended = Extended(split.ended, split.last)
    OBVIOUS
<1>3. PICK last : last = Extended(split.last, x)
    OBVIOUS
<1>4. ended \in Seq(Seq(S)) /\ last \in Seq(S)
    BY <1>1, <1>2, <1>3 DEF Extended
<1>5. SplitNext(split, x, separator)
          = IF x = separator THEN [ended |-> ended, last |-> <<>>] ELSE [ended |-> split.ended, last |-> last]
    BY <1>1, <1>2, <1>3 DEF SplitNext
<1>6. QED
    BY <1>1, <1>4, <1>5 DEF Splitting

\* So that Split is a recursion along the sequence.
LEMMA SplitStepIs ==
    ASSUME NEW S, NEW separator
    PROVE  /\ NoPieces \in Splitting(S)
           /\ IsStep(SplitStep(S, separator), Splitting(S), S)
           /\ \A split \in Splitting(S), x \in S :
                  SplitStep(S, separator)[<<split, x>>] = SplitNext(split, x, separator)
<1>1. \A split \in Splitting(S), x \in S : SplitNext(split, x, separator) \in Splitting(S)
    BY SplitNextTyped
<1>2. \A pair \in Splitting(S) \X S : pair[1] \in Splitting(S) /\ pair[2] \in S
    OBVIOUS
<1>3. \A split \in Splitting(S), x \in S : <<split, x>> \in Splitting(S) \X S
    OBVIOUS
<1>4. NoPieces \in Splitting(S)
    BY DEF NoPieces, Splitting
<1>5. \A split \in Splitting(S), x \in S : <<split, x>>[1] = split /\ <<split, x>>[2] = x
    OBVIOUS
<1>6. SplitStep(S, separator) \in [Splitting(S) \X S -> Splitting(S)]
    BY <1>1, <1>2, Zenon DEF SplitStep
<1>7. \A split \in Splitting(S), x \in S :
          SplitStep(S, separator)[<<split, x>>] = SplitNext(split, x, separator)
    BY <1>3, <1>5, Zenon DEF SplitStep
<1>8. QED
    BY <1>4, <1>6, <1>7 DEF IsStep

\* The recursive function in Split is this recursion.
LEMMA SplitIsFolded ==
    ASSUME NEW S, NEW separator, NEW seq \in Seq(S)
    PROVE  Split(seq, separator) = Folded(Splitting(S), SplitStep(S, separator), NoPieces, seq)
<1> DEFINE n == Len(seq)
           E(f, i) == IF i = 0 THEN NoPieces ELSE SplitNext(f[i - 1], seq[i], separator)
           step == SplitStep(S, separator)
<1>1. PICK f \in [0..n -> Splitting(S)] : IsRecursion(f, step, NoPieces, seq)
  <2>1. QED
    BY SplitStepIs, RecursionExists
<1>2. \A i \in 0..n : f[i] = E(f, i)
  <2> SUFFICES ASSUME NEW i \in 0..n PROVE f[i] = E(f, i)
      OBVIOUS
  <2>1. CASE i = 0
    BY <1>1, <2>1 DEF IsRecursion
  <2>2. CASE i # 0
    <3>1. i \in 1..n /\ i - 1 \in 0..n /\ seq[i] \in S /\ f[i - 1] \in Splitting(S)
      BY <2>2
    <3>2. f[i] = step[<<f[i - 1], seq[i]>>]
      BY <1>1, <3>1 DEF IsRecursion
    <3>3. QED
      BY <2>2, <3>1, <3>2, SplitStepIs
  <2>3. QED
    BY <2>1, <2>2
<1>3. f = [i \in 0..n |-> E(f, i)]
  <2>1. f = [i \in 0..n |-> f[i]]
    OBVIOUS
  <2>2. QED
    BY <1>2, <2>1
<1> DEFINE u == CHOOSE g : g = [i \in 0..n |-> E(g, i)]
<1>4. u = [i \in 0..n |-> E(u, i)]
    BY <1>3
<1>5. Split(seq, separator) = u[n]
    BY DEF Split, NoPieces, SplitNext, Extended
<1> HIDE DEF u
<1>6. ASSUME NEW i \in Nat, i <= n PROVE u[i] \in Splitting(S)
  <2> DEFINE T == {m \in Nat : m <= n => u[m] \in Splitting(S)}
  <2>1. 0 \in T
    BY <1>4, SplitStepIs
  <2>2. ASSUME NEW m \in Nat, m \in T PROVE m + 1 \in T
    <3> SUFFICES ASSUME m + 1 <= n PROVE u[m + 1] \in Splitting(S)
        OBVIOUS
    <3>1. m + 1 \in 0..n /\ m + 1 # 0 /\ (m + 1) - 1 = m /\ u[m] \in Splitting(S) /\ seq[m + 1] \in S
      BY <2>2
    <3>2. u[m + 1] = SplitNext(u[m], seq[m + 1], separator)
      BY <1>4, <3>1
    <3>3. QED
      BY <3>1, <3>2, SplitNextTyped
  <2>3. Nat \subseteq T
    <3> HIDE DEF T
    <3>1. QED
      BY <2>1, <2>2, NaturalsByStep
  <2>4. QED
    BY <1>6, <2>3
<1>7. IsRecursion(u, step, NoPieces, seq)
  <2>1. u[0] = NoPieces
    BY <1>4
  <2>2. ASSUME NEW i \in 1..n PROVE u[i] = step[<<u[i - 1], seq[i]>>]
    <3>1. i \in 0..n /\ i # 0 /\ i - 1 \in Nat /\ i - 1 <= n /\ seq[i] \in S
      OBVIOUS
    <3>2. u[i] = SplitNext(u[i - 1], seq[i], separator)
      BY <1>4, <3>1
    <3>3. u[i - 1] \in Splitting(S)
      BY <1>6, <3>1
    <3>4. QED
      BY <3>1, <3>2, <3>3, SplitStepIs
  <2>3. QED
    BY <2>1, <2>2 DEF IsRecursion
<1>8. QED
    BY <1>5, <1>7, SplitStepIs, FoldedIs

\* What Split makes of no items and of one item more.
LEMMA SplitAppend ==
    ASSUME NEW S, NEW separator
    PROVE  /\ Split(<<>>, separator) = NoPieces
           /\ \A seq \in Seq(S) : Split(seq, separator) \in Splitting(S)
           /\ \A seq \in Seq(S), x \in S :
                  Split(Extended(seq, x), separator) = SplitNext(Split(seq, separator), x, separator)
<1>1. PICK X : X = Splitting(S)
    OBVIOUS
<1>2. PICK step : step = SplitStep(S, separator)
    OBVIOUS
<1>3. PICK base : base = NoPieces
    OBVIOUS
<1>4. /\ IsStep(step, X, S) /\ base \in X
      /\ \A split \in X, x \in S : step[<<split, x>>] = SplitNext(split, x, separator)
    BY <1>1, <1>2, <1>3, SplitStepIs
<1>5. \A seq \in Seq(S) : Split(seq, separator) = Folded(X, step, base, seq)
    BY <1>1, <1>2, <1>3, SplitIsFolded
<1>6. /\ Folded(X, step, base, <<>>) = base
      /\ \A seq \in Seq(S) : Folded(X, step, base, seq) \in X
      /\ \A seq \in Seq(S), x \in S :
             Folded(X, step, base, Extended(seq, x)) = step[<<Folded(X, step, base, seq), x>>]
    BY ONLY <1>4, FoldedByItems
<1>7. SequenceLaws(S)
    BY SequencesHaveLaws
<1>8. Split(<<>>, separator) = NoPieces
    BY <1>3, <1>5, <1>6, <1>7 DEF SequenceLaws, Closed
<1>9. ASSUME NEW seq \in Seq(S), NEW x \in S
      PROVE  Split(Extended(seq, x), separator) = SplitNext(Split(seq, separator), x, separator)
  <2>1. Extended(seq, x) \in Seq(S)
    BY <1>7 DEF SequenceLaws, Closed
  <2>2. Split(Extended(seq, x), separator) = step[<<Split(seq, separator), x>>]
    BY <1>5, <1>6, <2>1
  <2>3. Split(seq, separator) \in X
    BY <1>5, <1>6
  <2>4. QED
    BY <1>4, <2>2, <2>3
<1>10. QED
    BY <1>1, <1>5, <1>6, <1>8, <1>9

\* The fields of a splitting.
LEMMA SplitFields ==
    ASSUME NEW S, NEW separator, NEW seq \in Seq(S), NEW split, split = Split(seq, separator)
    PROVE  /\ split.ended \in Seq(Seq(S)) /\ split.last \in Seq(S)
           /\ split = [ended |-> split.ended, last |-> split.last]
           /\ Pieces(seq, separator) = Extended(split.ended, split.last)
<1>1. split \in Splitting(S)
    BY SplitAppend
<1>2. QED
    BY <1>1 DEF Splitting, Pieces, Extended

\* What follows the last separator goes to the last piece.
LEMMA SplitLast ==
    ASSUME NEW S, NEW separator, NEW Plain, Plain \subseteq S, separator \notin Plain, NEW seq \in Seq(S)
    PROVE  \A rest \in Seq(Plain) :
               Split(Joined(seq, rest), separator)
                   = [ended |-> Split(seq, separator).ended, last |-> Joined(Split(seq, separator).last, rest)]
<1> DEFINE T == {rest \in Seq(Plain) :
                    Split(Joined(seq, rest), separator)
                        = [ended |-> Split(seq, separator).ended,
                           last |-> Joined(Split(seq, separator).last, rest)]}
<1>1. PICK split : split = Split(seq, separator)
    OBVIOUS
<1>2. split.last \in Seq(S) /\ split = [ended |-> split.ended, last |-> split.last]
    BY <1>1, SplitFields
<1>3. SequenceLaws(S) /\ SequenceLaws(Plain) /\ Seq(Plain) \subseteq Seq(S)
    BY SequencesHaveLaws, SeqMonotonic
<1>4. <<>> \in T
    BY <1>1, <1>2, <1>3 DEF SequenceLaws, Closed, EmptyIsUnit
<1>5. ASSUME NEW rest \in Seq(Plain), NEW x \in Plain, rest \in T
      PROVE  Extended(rest, x) \in T
  <2>1. rest \in Seq(S) /\ x \in S /\ x # separator
    BY <1>3
  <2>2. PICK text : text = Joined(seq, rest)
    OBVIOUS
  <2>3. text \in Seq(S) /\ Joined(seq, Extended(rest, x)) = Extended(text, x) /\ Extended(rest, x) \in Seq(Plain)
    BY <1>3, <2>1, <2>2 DEF SequenceLaws, Closed, ExtendsLast
  <2>4. Split(Extended(text, x), separator) = SplitNext(Split(text, separator), x, separator)
    BY <2>1, <2>3, SplitAppend
  <2>5. Split(text, separator) = [ended |-> split.ended, last |-> Joined(split.last, rest)]
    BY <1>1, <1>5, <2>2
  <2>6. Extended(Joined(split.last, rest), x) = Joined(split.last, Extended(rest, x))
    BY <1>2, <1>3, <2>1 DEF SequenceLaws, ExtendsLast
  <2>7. SplitNext(Split(text, separator), x, separator)
            = [ended |-> split.ended, last |-> Extended(Joined(split.last, rest), x)]
    BY <2>1, <2>5 DEF SplitNext
  <2>8. QED
    BY <1>1, <2>3, <2>4, <2>6, <2>7
<1>6. Seq(Plain) \subseteq T
  <2> HIDE DEF T
  <2>1. QED
    BY <1>4, <1>5, SequencesByAppend
<1>7. QED
    BY <1>6

\* No piece contains a separator.
LEMMA SplitTyped ==
    ASSUME NEW S, NEW separator, NEW Plain, Plain = S \ {separator}
    PROVE  \A seq \in Seq(S) : Split(seq, separator) \in Splitting(Plain)
<1> DEFINE T == {seq \in Seq(S) : Split(seq, separator) \in Splitting(Plain)}
<1>1. SequenceLaws(S) /\ SequenceLaws(Plain) /\ SequenceLaws(Seq(Plain))
    BY SequencesHaveLaws
<1>2. <<>> \in T
  <2>1. NoPieces \in Splitting(Plain)
    BY SplitStepIs
  <2>2. QED
    BY <1>1, <2>1, SplitAppend DEF SequenceLaws, Closed
<1>3. ASSUME NEW seq \in Seq(S), NEW x \in S, seq \in T PROVE Extended(seq, x) \in T
  <2>1. PICK split : split = Split(seq, separator)
    OBVIOUS
  <2>2. split \in Splitting(Plain)
    BY <1>3, <2>1
  <2>3. SplitNext(split, x, separator) \in Splitting(Plain)
    <3>1. CASE x = separator
      <4>1. split.ended \in Seq(Seq(Plain)) /\ split.last \in Seq(Plain)
        BY <2>2 DEF Splitting
      <4>2. Extended(split.ended, split.last) \in Seq(Seq(Plain)) /\ <<>> \in Seq(Plain)
        BY <1>1, <4>1 DEF SequenceLaws, Closed
      <4>3. QED
        BY <3>1, <4>2 DEF SplitNext, Splitting
    <3>2. CASE x # separator
      <4>1. x \in Plain
        BY <3>2
      <4>2. QED
        BY <2>2, <4>1, SplitNextTyped
    <3>3. QED
      BY <3>1, <3>2
  <2>4. Split(Extended(seq, x), separator) = SplitNext(split, x, separator)
    BY <2>1, SplitAppend
  <2>5. Extended(seq, x) \in Seq(S)
    BY <1>1 DEF SequenceLaws, Closed
  <2>6. QED
    BY <2>3, <2>4, <2>5
<1>4. Seq(S) \subseteq T
  <2> HIDE DEF T
  <2>1. QED
    BY <1>2, <1>3, SequencesByAppend
<1>5. QED
    BY <1>4

\* A separator and a piece behind a sequence add this piece.
LEMMA PiecesBehind ==
    ASSUME NEW S, NEW separator \in S, NEW Plain, Plain \subseteq S, separator \notin Plain,
           NEW seq \in Seq(S), NEW rest \in Seq(Plain),
           NEW text, text = Joined(Extended(seq, separator), rest)
    PROVE  /\ Split(text, separator) = [ended |-> Pieces(seq, separator), last |-> rest]
           /\ Pieces(text, separator) = Extended(Pieces(seq, separator), rest)
<1>1. SequenceLaws(S) /\ SequenceLaws(Plain)
    BY SequencesHaveLaws
<1>2. PICK begin : begin = Extended(seq, separator)
    OBVIOUS
<1>3. begin \in Seq(S) /\ <<>> \in Seq(Plain)
    BY <1>1, <1>2 DEF SequenceLaws, Closed
<1>4. Split(begin, separator) = [ended |-> Pieces(seq, separator), last |-> <<>>]
  <2>1. PICK split : split = Split(seq, separator)
    OBVIOUS
  <2>2. Pieces(seq, separator) = Extended(split.ended, split.last)
    BY <2>1, SplitFields
  <2>3. Split(begin, separator) = SplitNext(split, separator, separator)
    BY <1>2, <2>1, SplitAppend
  <2>4. QED
    BY <2>2, <2>3 DEF SplitNext
<1>5. Split(text, separator) = [ended |-> Pieces(seq, separator), last |-> rest]
  <2>1. Split(text, separator)
            = [ended |-> Split(begin, separator).ended, last |-> Joined(Split(begin, separator).last, rest)]
    BY <1>2, <1>3, SplitLast
  <2>2. Joined(<<>>, rest) = rest
    BY <1>1 DEF SequenceLaws, EmptyIsUnit
  <2>3. QED
    BY <1>4, <2>1, <2>2
<1>6. PICK whole : whole = Split(text, separator)
    OBVIOUS
<1>7. Pieces(text, separator) = Extended(whole.ended, whole.last)
    BY <1>6 DEF Pieces, Extended
<1>8. QED
    BY <1>5, <1>6, <1>7

\* A sequence without separators is its only piece.
LEMMA OnlyPiece ==
    ASSUME NEW S, NEW separator, NEW Plain, Plain \subseteq S, separator \notin Plain, NEW seq \in Seq(Plain)
    PROVE  /\ Split(seq, separator) = [ended |-> <<>>, last |-> seq]
           /\ Pieces(seq, separator) = Extended(<<>>, seq)
<1>1. SequenceLaws(S) /\ SequenceLaws(Plain)
    BY SequencesHaveLaws
<1>2. Split(<<>>, separator) = [ended |-> <<>>, last |-> <<>>]
    BY SplitAppend DEF NoPieces
<1>3. PICK empty : empty = <<>>
    OBVIOUS
<1>4. empty \in Seq(S)
    BY <1>1, <1>3 DEF SequenceLaws, Closed
<1>5. Split(Joined(empty, seq), separator)
          = [ended |-> Split(empty, separator).ended, last |-> Joined(Split(empty, separator).last, seq)]
    BY <1>4, SplitLast
<1>6. Joined(<<>>, seq) = seq
    BY <1>1 DEF SequenceLaws, EmptyIsUnit
<1>7. Split(seq, separator) = [ended |-> <<>>, last |-> seq]
    BY <1>2, <1>3, <1>5, <1>6
<1>8. PICK split : split = Split(seq, separator)
    OBVIOUS
<1>9. Pieces(seq, separator) = Extended(split.ended, split.last)
    BY <1>8 DEF Pieces, Extended
<1>10. QED
    BY <1>7, <1>8, <1>9

-----------------------------------------------------------------------------
\* The operations of Sqlite

\* A connection has a private copy exactly while it holds a write lock, and locks
\* only in a transaction.
SqliteTyped(Contents) ==
    /\ disk \in Contents
    /\ txn \in [Connections -> BOOLEAN]
    /\ lock \in [Connections -> LockStates]
    /\ work = [c \in Connections |-> work[c]]
    /\ \A c \in Connections :
          /\ IF lock[c] \in WriteLocks THEN work[c] \in Contents ELSE work[c] = NoWork
          /\ lock[c] # "none" => txn[c]

\* What a step of process c leaves alone.
SqliteFrame(c) ==
    \A d \in Connections \ {c} :
        txn'[d] = txn[d] /\ lock'[d] = lock[d] /\ work'[d] = work[d]

LEMMA InitTypedSqlite ==
    ASSUME NEW Contents, NEW content \in Contents, SqliteInit(content)
    PROVE  SqliteTyped(Contents)
BY DEF SqliteInit, SqliteTyped, LockStates, WriteLocks

LEMMA ViewTyped ==
    ASSUME NEW Contents, SqliteTyped(Contents), NEW c \in Connections
    PROVE  View(c) \in Contents
BY DEF SqliteTyped, View

LEMMA SqliteUnchangedTyped ==
    ASSUME NEW Contents, SqliteTyped(Contents), UNCHANGED sqliteVars
    PROVE  SqliteTyped(Contents)'
BY DEF SqliteTyped, sqliteVars

LEMMA BeginTyped ==
    ASSUME NEW Contents, SqliteTyped(Contents), NEW c \in Connections, Begin(c)
    PROVE  SqliteTyped(Contents)' /\ SqliteFrame(c) /\ ~txn[c] /\ txn'[c] /\ UNCHANGED <<disk, lock, work>>
BY DEF SqliteTyped, SqliteFrame, Begin

\* A read changes no lock a commit of another connection waits for.
LEMMA ReadTyped ==
    ASSUME NEW Contents, SqliteTyped(Contents), NEW c \in Connections,
           IF txn[c] THEN Read(c) ELSE AutocommitRead(c)
    PROVE  /\ SqliteTyped(Contents)' /\ SqliteFrame(c) /\ UNCHANGED <<disk, txn, work>>
           /\ lock'[c] \in WriteLocks <=> lock[c] \in WriteLocks
<1>1. CASE txn[c]
    BY <1>1 DEF SqliteTyped, SqliteFrame, Read, LockStates, WriteLocks
<1>2. CASE ~txn[c]
    BY <1>2, SqliteUnchangedTyped DEF AutocommitRead, sqliteVars, SqliteFrame
<1>3. QED
    BY <1>1, <1>2

\* A write in a transaction goes to the private copy, one outside to the file.
LEMMA WriteTyped ==
    ASSUME NEW Contents, SqliteTyped(Contents), NEW c \in Connections, NEW content \in Contents,
           IF txn[c] THEN Write(c, content) ELSE AutocommitWrite(c, content)
    PROVE  /\ SqliteTyped(Contents)' /\ SqliteFrame(c) /\ txn' = txn
           /\ txn[c] => disk' = disk /\ lock'[c] \in WriteLocks /\ work'[c] = content
           /\ ~txn[c] => CanWriteBack(c) /\ disk' = content /\ UNCHANGED <<lock, work>>
<1>1. CASE txn[c]
    BY <1>1 DEF SqliteTyped, SqliteFrame, Write, LockStates, WriteLocks
<1>2. CASE ~txn[c]
    BY <1>2 DEF SqliteTyped, SqliteFrame, AutocommitWrite
<1>3. QED
    BY <1>1, <1>2

\* A transaction that is over without a commit.
LEMMA ReleaseTyped ==
    ASSUME NEW Contents, SqliteTyped(Contents), NEW c \in Connections, Release(c)
    PROVE  /\ SqliteTyped(Contents)' /\ SqliteFrame(c)
           /\ disk' = disk /\ ~txn'[c] /\ lock'[c] = "none" /\ work'[c] = NoWork
BY DEF SqliteTyped, SqliteFrame, Release, LockStates, WriteLocks

LEMMA CommitTyped ==
    ASSUME NEW Contents, SqliteTyped(Contents), NEW c \in Connections, Commit(c)
    PROVE  /\ SqliteTyped(Contents)' /\ SqliteFrame(c)
           /\ txn[c] /\ ~txn'[c] /\ lock'[c] = "none"
           /\ IF lock[c] \in WriteLocks THEN CanWriteBack(c) /\ disk' = work[c] ELSE disk' = disk
<1>1. CASE CommitRead(c)
    BY <1>1, ReleaseTyped DEF CommitRead
<1>2. CASE CommitWrite(c)
    BY <1>2 DEF SqliteTyped, SqliteFrame, CommitWrite, LockStates, WriteLocks
<1>3. QED
    BY <1>1, <1>2 DEF Commit

LEMMA CommitBusyTyped ==
    ASSUME NEW Contents, SqliteTyped(Contents), NEW c \in Connections, CommitBusy(c)
    PROVE  /\ SqliteTyped(Contents)' /\ SqliteFrame(c) /\ UNCHANGED <<disk, txn, work>>
           /\ lock[c] \in WriteLocks /\ lock'[c] \in WriteLocks
BY DEF SqliteTyped, SqliteFrame, CommitBusy, LockStates, WriteLocks

\* A failed statement leaves everything as it was or the transaction rolled back.
LEMMA StatementErrorTyped ==
    ASSUME NEW Contents, SqliteTyped(Contents), NEW c \in Connections, StatementError(c)
    PROVE  /\ SqliteTyped(Contents)' /\ SqliteFrame(c) /\ disk' = disk
           /\ \/ UNCHANGED sqliteVars
              \/ ~txn'[c] /\ lock'[c] = "none" /\ work'[c] = NoWork
<1>1. CASE UNCHANGED sqliteVars
    BY <1>1, SqliteUnchangedTyped DEF sqliteVars, SqliteFrame
<1>2. CASE Release(c)
    BY <1>2, ReleaseTyped
<1>3. QED
    BY <1>1, <1>2 DEF StatementError


=============================================================================
