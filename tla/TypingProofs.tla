---------------------------- MODULE TypingProofs ----------------------------
(***************************************************************************)
(* Proofs about Typing: whatever is typed at the REPL's prompt, however it *)
(* is divided into inputs, is in a query or still pending.                 *)
(*                                                                         *)
(* The heart is that taking a text again from its beginning gives what it  *)
(* gave before: a text that is pending was never complete in front of a    *)
(* line that could begin a statement, so that none of its lines ends it    *)
(* when it is recalled.                                                    *)
(***************************************************************************)
EXTENDS Typing, CommonProofs

-----------------------------------------------------------------------------
\* Without: the text without a symbol

KeptNext(kept, item, symbol) == IF item = symbol THEN kept ELSE Extended(kept, item)
KeptStep(S, symbol) == [pair \in Seq(S) \X S |-> KeptNext(pair[1], pair[2], symbol)]

\* Without is a recursion along the text:
LEMMA KeptStepIs ==
    ASSUME NEW S, NEW symbol
    PROVE  /\ IsStep(KeptStep(S, symbol), Seq(S), S)
           /\ \A kept \in Seq(S), x \in S : KeptStep(S, symbol)[<<kept, x>>] = KeptNext(kept, x, symbol)
<1>1. \A kept \in Seq(S), x \in S : KeptNext(kept, x, symbol) \in Seq(S)
    BY SequencesHaveLaws DEF KeptNext, SequenceLaws, Closed
<1>2. \A pair \in Seq(S) \X S : pair[1] \in Seq(S) /\ pair[2] \in S
    OBVIOUS
<1>3. \A kept \in Seq(S), x \in S :
          <<kept, x>> \in Seq(S) \X S /\ <<kept, x>>[1] = kept /\ <<kept, x>>[2] = x
    OBVIOUS
<1>4. IsStep(KeptStep(S, symbol), Seq(S), S)
    BY <1>1, <1>2, Zenon DEF KeptStep, IsStep
<1>5. \A kept \in Seq(S), x \in S : KeptStep(S, symbol)[<<kept, x>>] = KeptNext(kept, x, symbol)
    BY <1>3, Zenon DEF KeptStep
<1>6. QED
    BY <1>4, <1>5

\* the recursive function in it has these steps.
LEMMA WithoutIsFolded ==
    ASSUME NEW S, NEW symbol, NEW text \in Seq(S)
    PROVE  Without(text, symbol) = Folded(Seq(S), KeptStep(S, symbol), <<>>, text)
<1> DEFINE n == Len(text)
           E(f, i) == IF i = 0 THEN <<>> ELSE KeptNext(f[i - 1], text[i], symbol)
           step == KeptStep(S, symbol)
<1>0. <<>> \in Seq(S)
    OBVIOUS
<1>1. PICK f \in [0..n -> Seq(S)] : IsRecursion(f, step, <<>>, text)
    BY <1>0, KeptStepIs, RecursionExists
<1>2. \A i \in 0..n : f[i] = E(f, i)
  <2> SUFFICES ASSUME NEW i \in 0..n PROVE f[i] = E(f, i)
      OBVIOUS
  <2>1. CASE i = 0
    BY <1>1, <2>1 DEF IsRecursion
  <2>2. CASE i # 0
    <3>1. i \in 1..n /\ i - 1 \in 0..n /\ text[i] \in S /\ f[i - 1] \in Seq(S)
      BY <2>2
    <3>2. f[i] = step[<<f[i - 1], text[i]>>]
      BY <1>1, <3>1 DEF IsRecursion
    <3>3. QED
      BY <2>2, <3>1, <3>2, KeptStepIs
  <2>3. QED
    BY <2>1, <2>2
<1>3. f = [i \in 0..n |-> E(f, i)]
  <2>1. f = [i \in 0..n |-> f[i]]
    OBVIOUS
  <2>2. QED
    BY <1>2, <2>1
<1> DEFINE u == CHOOSE g : g = [i \in 0..n |-> E(g, i)]
<1>4. u = [i \in 0..n |-> E(u, i)]
    BY <1>3
<1>5. Without(text, symbol) = u[n]
    BY DEF Without, KeptNext, Extended
<1> HIDE DEF u
<1>6. ASSUME NEW i \in Nat, i <= n PROVE u[i] \in Seq(S)
  <2> DEFINE T == {m \in Nat : m <= n => u[m] \in Seq(S)}
  <2>1. 0 \in T
    BY <1>0, <1>4
  <2>2. ASSUME NEW m \in Nat, m \in T PROVE m + 1 \in T
    <3> SUFFICES ASSUME m + 1 <= n PROVE u[m + 1] \in Seq(S)
        OBVIOUS
    <3>1. m + 1 \in 0..n /\ m + 1 # 0 /\ (m + 1) - 1 = m /\ u[m] \in Seq(S) /\ text[m + 1] \in S
      BY <2>2
    <3>2. u[m + 1] = KeptNext(u[m], text[m + 1], symbol)
      BY <1>4, <3>1
    <3>3. QED
      BY <3>1, <3>2, SequencesHaveLaws DEF KeptNext, SequenceLaws, Closed
  <2>3. Nat \subseteq T
    <3> HIDE DEF T
    <3>1. QED
      BY <2>1, <2>2, NaturalsByStep
  <2>4. QED
    BY <1>6, <2>3
<1>7. IsRecursion(u, step, <<>>, text)
  <2>1. u[0] = <<>>
    BY <1>4
  <2>2. ASSUME NEW i \in 1..n PROVE u[i] = step[<<u[i - 1], text[i]>>]
    <3>1. i \in 0..n /\ i # 0 /\ i - 1 \in Nat /\ i - 1 <= n /\ text[i] \in S
      OBVIOUS
    <3>2. u[i] = KeptNext(u[i - 1], text[i], symbol)
      BY <1>4, <3>1
    <3>3. u[i - 1] \in Seq(S)
      BY <1>6, <3>1
    <3>4. QED
      BY <3>1, <3>2, <3>3, KeptStepIs
  <2>3. QED
    BY <2>1, <2>2 DEF IsRecursion
<1>8. QED
    BY <1>0, <1>5, <1>7, KeptStepIs, FoldedIs

\* What Without makes of no symbols and of one symbol more.
LEMMA WithoutAppend ==
    ASSUME NEW S, NEW symbol
    PROVE  /\ Without(<<>>, symbol) = <<>>
           /\ \A text \in Seq(S) : Without(text, symbol) \in Seq(S)
           /\ \A text \in Seq(S), x \in S :
                  Without(Extended(text, x), symbol) = KeptNext(Without(text, symbol), x, symbol)
<1>1. PICK X : X = Seq(S)
    OBVIOUS
<1>2. PICK step : step = KeptStep(S, symbol)
    OBVIOUS
<1>3. PICK base : base = <<>>
    OBVIOUS
<1>4. SequenceLaws(S)
    BY SequencesHaveLaws
<1>5. base \in X /\ base \in Seq(S)
    BY <1>1, <1>3, <1>4 DEF SequenceLaws, Closed
<1>6. IsStep(step, X, S) /\ \A kept \in X, x \in S : step[<<kept, x>>] = KeptNext(kept, x, symbol)
    BY <1>1, <1>2, KeptStepIs
<1>7. \A text \in Seq(S) : Without(text, symbol) = Folded(X, step, base, text)
    BY <1>1, <1>2, <1>3, WithoutIsFolded
<1>8. /\ Folded(X, step, base, <<>>) = base
      /\ \A text \in Seq(S) : Folded(X, step, base, text) \in X
      /\ \A text \in Seq(S), x \in S :
             Folded(X, step, base, Extended(text, x)) = step[<<Folded(X, step, base, text), x>>]
    BY ONLY <1>5, <1>6, FoldedByItems
<1>9. Without(<<>>, symbol) = <<>>
    BY <1>3, <1>5, <1>7, <1>8
<1>10. ASSUME NEW text \in Seq(S), NEW x \in S
       PROVE  Without(Extended(text, x), symbol) = KeptNext(Without(text, symbol), x, symbol)
  <2>1. Extended(text, x) \in Seq(S)
    BY <1>4 DEF SequenceLaws, Closed
  <2>2. Without(Extended(text, x), symbol) = step[<<Without(text, symbol), x>>] /\ Without(text, symbol) \in X
    BY <1>7, <1>8, <2>1
  <2>3. QED
    BY <1>6, <2>2
<1>11. QED
    BY <1>1, <1>7, <1>8, <1>9, <1>10

\* It leaves symbols out of each of two texts.
LEMMA WithoutConcat ==
    ASSUME NEW S, NEW symbol, NEW a \in Seq(S)
    PROVE  \A b \in Seq(S) : Without(Joined(a, b), symbol) = Joined(Without(a, symbol), Without(b, symbol))
<1> DEFINE T == {b \in Seq(S) : Without(Joined(a, b), symbol) = Joined(Without(a, symbol), Without(b, symbol))}
<1>1. SequenceLaws(S)
    BY SequencesHaveLaws
<1>2. \A text \in Seq(S) : Without(text, symbol) \in Seq(S)
    BY WithoutAppend
<1>3. <<>> \in T
  <2>1. Without(<<>>, symbol) = <<>>
    BY WithoutAppend
  <2>2. QED
    BY <1>1, <1>2, <2>1 DEF SequenceLaws, Closed, EmptyIsUnit
<1>4. ASSUME NEW b \in Seq(S), NEW x \in S, b \in T PROVE Extended(b, x) \in T
  <2>1. Joined(a, b) \in Seq(S) /\ Extended(b, x) \in Seq(S) /\ Joined(a, Extended(b, x)) = Extended(Joined(a, b), x)
    BY <1>1 DEF SequenceLaws, Closed, ExtendsLast
  <2>2. PICK wa : wa = Without(a, symbol)
    OBVIOUS
  <2>3. PICK wb : wb = Without(b, symbol)
    OBVIOUS
  <2>4. wa \in Seq(S) /\ wb \in Seq(S)
    BY <1>2, <2>2, <2>3
  <2>5. Without(Extended(Joined(a, b), x), symbol) = KeptNext(Joined(wa, wb), x, symbol)
    BY <1>4, <2>1, <2>2, <2>3, WithoutAppend
  <2>6. Without(Extended(b, x), symbol) = KeptNext(wb, x, symbol)
    BY <2>3, WithoutAppend
  <2>7. KeptNext(Joined(wa, wb), x, symbol) = Joined(wa, KeptNext(wb, x, symbol))
    BY <1>1, <2>4 DEF KeptNext, SequenceLaws, ExtendsLast
  <2>8. QED
    BY <2>1, <2>2, <2>5, <2>6, <2>7
<1>5. Seq(S) \subseteq T
  <2> HIDE DEF T
  <2>1. QED
    BY <1>3, <1>4, SequencesByAppend
<1>6. QED
    BY <1>5

\* The pieces of a text, one after the other, are the text without the separators.
LEMMA PiecesTogether ==
    ASSUME NEW S, NEW separator
    PROVE  \A text \in Seq(S) : FlattenSeq(Pieces(text, separator)) = Without(text, separator)
<1> DEFINE T == {text \in Seq(S) : FlattenSeq(Pieces(text, separator)) = Without(text, separator)}
<1>1. SequenceLaws(S) /\ SequenceLaws(Seq(S))
    BY SequencesHaveLaws
<1>2. \A lists \in Seq(Seq(S)), list \in Seq(S) : FlattenSeq(Extended(lists, list)) = Joined(FlattenSeq(lists), list)
    BY FlattenAppend
<1>3. \A lists \in Seq(Seq(S)) : FlattenSeq(lists) \in Seq(S)
    BY FlattenItems
<1>4. <<>> \in T
  <2>1. PICK empty : empty = <<>>
    OBVIOUS
  <2>2. empty \in Seq(S) /\ empty \in Seq(Seq(S)) /\ Joined(empty, empty) = empty
    BY <1>1, <2>1 DEF SequenceLaws, Closed, EmptyIsUnit
  <2>3. PICK split : split = Split(empty, separator)
    OBVIOUS
  <2>4. Pieces(empty, separator) = Extended(split.ended, split.last)
    BY <2>2, <2>3, SplitFields
  <2>5. split.ended = empty /\ split.last = empty
    BY <2>1, <2>3, SplitAppend DEF NoPieces
  <2>6. FlattenSeq(Pieces(empty, separator)) = empty
    BY <1>2, <2>1, <2>2, <2>4, <2>5, FlattenEmpty
  <2>7. Without(empty, separator) = empty
    BY <2>1, WithoutAppend
  <2>8. QED
    BY <2>1, <2>2, <2>6, <2>7
<1>5. ASSUME NEW text \in Seq(S), NEW x \in S, text \in T PROVE Extended(text, x) \in T
  <2>1. PICK split : split = Split(text, separator)
    OBVIOUS
  <2>2. PICK next : next = Split(Extended(text, x), separator)
    OBVIOUS
  <2>3. PICK flat : flat = FlattenSeq(split.ended)
    OBVIOUS
  <2>4. /\ split.ended \in Seq(Seq(S)) /\ split.last \in Seq(S)
        /\ Pieces(text, separator) = Extended(split.ended, split.last)
    BY <2>1, SplitFields
  <2>5. Extended(text, x) \in Seq(S)
    BY <1>1 DEF SequenceLaws, Closed
  <2>6. Pieces(Extended(text, x), separator) = Extended(next.ended, next.last)
    BY <2>2, <2>5, SplitFields
  <2>7. next = SplitNext(split, x, separator)
    BY <2>1, <2>2, SplitAppend
  <2>8. flat \in Seq(S)
    BY <1>3, <2>3, <2>4
  <2>9. Without(text, separator) = Joined(flat, split.last)
    BY <1>2, <1>5, <2>3, <2>4
  <2>10. Without(Extended(text, x), separator) = KeptNext(Joined(flat, split.last), x, separator)
    BY <2>9, WithoutAppend
  <2>11. CASE x = separator
    <3>1. next.ended = Extended(split.ended, split.last) /\ next.last = <<>>
      BY <2>7, <2>11 DEF SplitNext
    <3>2. next.ended \in Seq(Seq(S)) /\ next.last \in Seq(S)
      BY <1>1, <2>4, <3>1 DEF SequenceLaws, Closed
    <3>3. FlattenSeq(next.ended) = Joined(flat, split.last)
      BY <1>2, <2>3, <2>4, <3>1
    <3>4. FlattenSeq(Extended(next.ended, next.last)) = Joined(Joined(flat, split.last), next.last)
      BY <1>2, <3>2, <3>3
    <3>5. Joined(Joined(flat, split.last), next.last) = Joined(flat, split.last)
      <4>1. PICK whole : whole = Joined(flat, split.last)
        OBVIOUS
      <4>2. whole \in Seq(S)
        BY <1>1, <2>4, <2>8, <4>1 DEF SequenceLaws, Closed
      <4>3. Joined(whole, <<>>) = whole
        BY <1>1, <4>2 DEF SequenceLaws, EmptyIsUnit
      <4>4. QED
        BY <3>1, <4>1, <4>3
    <3>6. QED
      BY <2>5, <2>6, <2>10, <2>11, <3>4, <3>5 DEF KeptNext
  <2>12. CASE x # separator
    <3>1. next.ended = split.ended /\ next.last = Extended(split.last, x)
      BY <2>7, <2>12 DEF SplitNext
    <3>2. next.last \in Seq(S)
      BY <1>1, <2>4, <3>1 DEF SequenceLaws, Closed
    <3>3. FlattenSeq(Extended(next.ended, next.last)) = Joined(flat, next.last)
      BY <1>2, <2>3, <2>4, <3>1, <3>2
    <3>4. Joined(flat, next.last) = Extended(Joined(flat, split.last), x)
      BY <1>1, <2>4, <2>8, <3>1 DEF SequenceLaws, ExtendsLast
    <3>5. QED
      BY <2>5, <2>6, <2>10, <2>12, <3>3, <3>4 DEF KeptNext
  <2>13. QED
    BY <2>11, <2>12
<1>6. Seq(S) \subseteq T
  <2> HIDE DEF T
  <2>1. QED
    BY <1>4, <1>5, SequencesByAppend
<1>7. QED
    BY <1>6

-----------------------------------------------------------------------------
\* Trimming and completeness

\* Begins and ends with something other than a line break.
IsTrimmed(text) == text # <<>> /\ text[1] # NewLine /\ text[Len(text)] # NewLine

\* Places have a first and a last one.
LEMMA FirstAndLast ==
    ASSUME NEW n \in Nat, NEW places, places \subseteq 1..n, places # {}
    PROVE  /\ (CHOOSE i \in places : \A j \in places : i <= j) \in 1..n
           /\ (CHOOSE i \in places : \A j \in places : i >= j) \in 1..n
<1>1. \E i \in places : \A j \in places : i <= j
  <2>1. places \subseteq Nat
    OBVIOUS
  <2>2. QED
    BY <2>1, LeastNatural
<1>2. \E i \in places : \A j \in places : i >= j
  <2> DEFINE turned == {n - i : i \in places}
  <2>1. turned \subseteq Nat /\ turned # {}
    <3>1. \A i \in places : n - i \in Nat
      OBVIOUS
    <3>2. QED
      BY <3>1
  <2>2. PICK k \in turned : \A m \in turned : k <= m
    <3> HIDE DEF turned
    <3>1. QED
      BY <2>1, LeastNatural
  <2>3. PICK i \in places : k = n - i
    BY <2>2
  <2>4. \A j \in places : n - i <= n - j
    BY <2>2, <2>3
  <2>5. \A j \in places : i >= j
    BY <2>3, <2>4
  <2>6. QED
    BY <2>3, <2>5
<1>3. QED
    BY <1>1, <1>2

\* Trimming a text gives a text.
LEMMA TrimmedTyped ==
    ASSUME NEW S, NEW text \in Seq(S)
    PROVE  Trimmed(text) \in Seq(S)
<1> DEFINE kept == {i \in DOMAIN text : text[i] # NewLine}
           first == CHOOSE i \in kept : \A j \in kept : i <= j
           last == CHOOSE i \in kept : \A j \in kept : i >= j
<1>1. kept \subseteq 1..Len(text) /\ Len(text) \in Nat
    OBVIOUS
<1>2. CASE kept = {}
    BY <1>2 DEF Trimmed
<1>3. CASE kept # {}
  <2>1. first \in 1..Len(text) /\ last \in 1..Len(text)
    <3> HIDE DEF kept
    <3>1. QED
      BY <1>1, <1>3, FirstAndLast
  <2> HIDE DEF first, last
  <2>2. SubSeq(text, first, last) \in Seq(S)
    BY <2>1
  <2>3. Trimmed(text) = SubSeq(text, first, last)
    BY <1>3 DEF Trimmed, first, last
  <2>4. QED
    BY <2>2, <2>3
<1>4. QED
    BY <1>2, <1>3

\* A text is trimmed already if it begins and ends with something.
LEMMA TrimmedWhole ==
    ASSUME NEW S, NEW text \in Seq(S), IsTrimmed(text)
    PROVE  Trimmed(text) = text
<1> DEFINE kept == {i \in DOMAIN text : text[i] # NewLine}
           first == CHOOSE i \in kept : \A j \in kept : i <= j
           last == CHOOSE i \in kept : \A j \in kept : i >= j
           n == Len(text)
<1>1. n \in Nat /\ n >= 1 /\ kept \subseteq 1..n
    BY EmptySeq DEF IsTrimmed
<1>2. 1 \in kept /\ n \in kept
    BY <1>1 DEF IsTrimmed
<1>3. first = 1
  <2>1. \A j \in kept : 1 <= j
    BY <1>1
  <2>2. first \in kept /\ \A j \in kept : first <= j
    BY <1>2, <2>1
  <2> HIDE DEF first
  <2>3. QED
    BY <1>1, <1>2, <2>1, <2>2
<1>4. last = n
  <2>1. \A j \in kept : n >= j
    BY <1>1
  <2>2. last \in kept /\ \A j \in kept : last >= j
    BY <1>2, <2>1
  <2> HIDE DEF last
  <2>3. QED
    BY <1>1, <1>2, <2>1, <2>2
<1>5. Trimmed(text) = SubSeq(text, first, last)
    BY <1>2 DEF Trimmed
<1>6. SubSeq(text, 1, n) = text
    OBVIOUS
<1>7. QED
    BY <1>3, <1>4, <1>5, <1>6

\* A line break at the end is trimmed away.
LEMMA TrimmedBreak ==
    ASSUME NEW S, NEW text \in Seq(S), NEW longer, longer = Extended(text, NewLine)
    PROVE  Trimmed(longer) = Trimmed(text)
<1> DEFINE kept == {i \in DOMAIN text : text[i] # NewLine}
           n == Len(text)
<1>1. n \in Nat /\ DOMAIN text = 1..n /\ Len(longer) = n + 1 /\ DOMAIN longer = 1..(n + 1)
      /\ longer[n + 1] = NewLine /\ \A i \in 1..n : longer[i] = text[i]
    BY DEF Extended
<1>2. {i \in DOMAIN longer : longer[i] # NewLine} = kept
    BY <1>1
<1>3. CASE kept = {}
    BY <1>2, <1>3 DEF Trimmed
<1>4. CASE kept # {}
  <2> DEFINE first == CHOOSE i \in kept : \A j \in kept : i <= j
             last == CHOOSE i \in kept : \A j \in kept : i >= j
  <2>1. Trimmed(longer) = SubSeq(longer, first, last) /\ Trimmed(text) = SubSeq(text, first, last)
    BY <1>2, <1>4, Zenon DEF Trimmed
  <2>2. first \in 1..n /\ last \in 1..n
    <3>1. kept \subseteq 1..n
      BY <1>1
    <3> HIDE DEF kept
    <3>2. QED
      BY <1>1, <1>4, <3>1, FirstAndLast
  <2> HIDE DEF first, last
  <2>3. SubSeq(longer, first, last) = SubSeq(text, first, last)
    BY <1>1, <2>2
  <2>4. QED
    BY <2>1, <2>3
<1>5. QED
    BY <1>3, <1>4

\* What the provers need of arithmetic below.
LEMMA NoneIsEven == 0 % 2 # 1 /\ ~(0 > 0)
OBVIOUS

\* Without quotation marks and braces nothing is missing.
LEMMA NeedsMorePlain ==
    ASSUME NEW text, NEW n \in Nat, DOMAIN text = 1..n, Len(text) = n,
           \A i \in 1..n : text[i] # Quote /\ text[i] # "{" /\ text[i] # "}"
    PROVE  ~NeedsMoreInput(text)
<1>1. Outside(text, "{") = {} /\ Outside(text, "}") = {} /\ {j \in 1..n : text[j] = Quote} = {}
    BY DEF Outside
<1>2. Cardinality({}) = 0
    BY FS_EmptySet
<1>3. ~InString(text, n)
    BY <1>1, <1>2, NoneIsEven DEF InString
<1>4. QED
    BY <1>1, <1>2, <1>3, NoneIsEven DEF NeedsMoreInput

\* An empty text is complete.
LEMMA NeedsMoreEmpty == ~NeedsMoreInput(<<>>)
<1>1. DOMAIN <<>> = 1..0 /\ Len(<<>>) = 0 /\ \A i \in 1..0 : <<>>[i] # Quote /\ <<>>[i] # "{" /\ <<>>[i] # "}"
    OBVIOUS
<1>2. QED
    BY <1>1, NeedsMorePlain

\* A line break completes nothing and begins nothing.
LEMMA NeedsMoreBreak ==
    ASSUME NEW S, NEW text \in Seq(S), NEW longer, longer = Extended(text, NewLine)
    PROVE  NeedsMoreInput(longer) <=> NeedsMoreInput(text)
<1> DEFINE n == Len(text)
<1>1. n \in Nat /\ DOMAIN text = 1..n /\ Len(longer) = n + 1 /\ DOMAIN longer = 1..(n + 1)
      /\ longer[n + 1] = NewLine /\ \A i \in 1..n : longer[i] = text[i]
    BY DEF Extended
<1>2. \A i \in 0..n : {j \in 1..i : longer[j] = Quote} = {j \in 1..i : text[j] = Quote}
    BY <1>1
<1>3. \A i \in 0..n : InString(longer, i) = InString(text, i)
    BY <1>2 DEF InString
<1>4. {j \in 1..(n + 1) : longer[j] = Quote} = {j \in 1..n : text[j] = Quote}
  <2>1. \A j \in 1..(n + 1) : j \in 1..n \/ j = n + 1
    BY <1>1
  <2>2. longer[n + 1] # Quote
    BY <1>1 DEF NewLine, Quote
  <2>3. QED
    BY <1>1, <2>1, <2>2
<1>5. InString(longer, n + 1) = InString(text, n)
    BY <1>4 DEF InString
<1>6. ASSUME NEW symbol, symbol # NewLine PROVE Outside(longer, symbol) = Outside(text, symbol)
    BY <1>1, <1>3, <1>6 DEF Outside
<1>7. Outside(longer, "{") = Outside(text, "{") /\ Outside(longer, "}") = Outside(text, "}")
    BY <1>6 DEF NewLine
<1>8. QED
    BY <1>1, <1>5, <1>7 DEF NeedsMoreInput

\* A transaction command is complete.
LEMMA NeedsMoreCommand ==
    ASSUME NEW line \in CommandLines
    PROVE  ~NeedsMoreInput(line) /\ line # <<>>
<1>1. CASE line = <<"start", "transaction">>
  <2>1. DOMAIN line = 1..2 /\ Len(line) = 2 /\ line[1] = "start" /\ line[2] = "transaction"
    BY <1>1
  <2>2. \A i \in 1..2 : line[i] # Quote /\ line[i] # "{" /\ line[i] # "}"
    <3>1. \A i \in 1..2 : line[i] = "start" \/ line[i] = "transaction"
      BY <2>1
    <3>2. QED
      BY <3>1 DEF Quote
  <2>3. ~NeedsMoreInput(line)
    BY <2>1, <2>2, NeedsMorePlain
  <2>4. QED
    BY <1>1, <2>3
<1>2. CASE line = <<"commit">> \/ line = <<"rollback">>
  <2>1. DOMAIN line = 1..1 /\ Len(line) = 1 /\ line[1] \in {"commit", "rollback"}
    BY <1>2
  <2>2. \A i \in 1..1 : line[i] # Quote /\ line[i] # "{" /\ line[i] # "}"
    <3>1. \A i \in 1..1 : line[i] = "commit" \/ line[i] = "rollback"
      BY <2>1
    <3>2. QED
      BY <3>1 DEF Quote
  <2>3. ~NeedsMoreInput(line)
    BY <2>1, <2>2, NeedsMorePlain
  <2>4. QED
    BY <1>2, <2>3
<1>3. QED
    BY <1>1, <1>2 DEF CommandLines

-----------------------------------------------------------------------------
\* Taking a line

Takings(S) == [pending : Seq(S), queries : Seq(Seq(S))]

\* The fields of a state of the loop.
LEMMA TakingFields ==
    ASSUME NEW text, NEW queries
    PROVE  Taking(text, queries).pending = text /\ Taking(text, queries).queries = queries
BY DEF Taking

\* The same, with the texts they hold.
LEMMA TakingTyped ==
    ASSUME NEW S
    PROVE  /\ \A text \in Seq(S), queries \in Seq(Seq(S)) : Taking(text, queries) \in Takings(S)
           /\ \A s \in Takings(S) :
                  /\ s.pending \in Seq(S) /\ s.queries \in Seq(Seq(S))
                  /\ s = Taking(s.pending, s.queries)
BY DEF Taking, Takings

\* A line goes behind what is pending and a line break.
LEMMA AppendPendingIs ==
    ASSUME NEW S, NewLine \in S, NEW text \in Seq(S), NEW line \in Seq(S)
    PROVE  /\ text = <<>> => AppendPending(text, line) = line
           /\ text # <<>> => AppendPending(text, line) = Joined(Extended(text, NewLine), line)
           /\ AppendPending(text, line) \in Seq(S)
<1>1. PICK newLine : newLine = NewLine
    OBVIOUS
<1>2. newLine \in S
    BY <1>1
<1>3. Append(text, newLine) = text \o <<newLine>>
    BY <1>2, AppendIsConcat
<1>4. text # <<>> => AppendPending(text, line) = Joined(Extended(text, NewLine), line)
    BY <1>1, <1>3 DEF AppendPending, Joined, Extended
<1>5. Joined(Extended(text, NewLine), line) \in Seq(S)
    BY SequencesHaveLaws DEF SequenceLaws, Closed
<1>6. text = <<>> => AppendPending(text, line) = line
    BY DEF AppendPending
<1>7. QED
    BY <1>4, <1>5, <1>6

\* A query goes behind the others if there is any.
LEMMA QueuedTyped ==
    ASSUME NEW S, NEW queries \in Seq(Seq(S)), NEW query \in Seq(S)
    PROVE  /\ Queued(queries, query) \in Seq(Seq(S))
           /\ query = <<>> => Queued(queries, query) = queries
           /\ query # <<>> => Queued(queries, query) = Extended(queries, query)
<1>1. Extended(queries, query) \in Seq(Seq(S))
    BY SequencesHaveLaws DEF SequenceLaws, Closed
<1>2. QED
    BY <1>1 DEF Queued, Extended

\* What is complete is taken off the text that is text.
LEMMA TakeCompleteIs ==
    ASSUME NEW text, NEW queries, NEW s, s = Taking(text, queries)
    PROVE  /\ NeedsMoreInput(text) => TakeComplete(s) = s
           /\ ~NeedsMoreInput(text) => TakeComplete(s) = Taking(<<>>, Queued(queries, Trimmed(text)))
BY TakingFields DEF TakeComplete

\* A line is a command, begins a statement or continues what is text.
LEMMA TakeLineIs ==
    ASSUME NEW text, NEW queries, NEW s, s = Taking(text, queries), NEW line,
           NEW done, done = Queued(queries, Trimmed(text))
    PROVE  /\ ~NeedsMoreInput(text) /\ IsTransactionCommandLine(line) =>
                  TakeLine(s, line) = Taking(<<>>, Extended(done, line))
           /\ ~NeedsMoreInput(text) /\ ~IsTransactionCommandLine(line) /\ StartsDataStatement(line) =>
                  TakeLine(s, line) = Taking(AppendPending(<<>>, line), done)
           /\ ~(/\ ~NeedsMoreInput(text)
                /\ IsTransactionCommandLine(line) \/ StartsDataStatement(line)) =>
                  TakeLine(s, line) = Taking(AppendPending(text, line), queries)
<1>1. s.pending = text /\ s.queries = queries
    BY TakingFields
<1>2. CASE ~NeedsMoreInput(text) /\ (IsTransactionCommandLine(line) \/ StartsDataStatement(line))
  <2>1. PICK before : before = TakeComplete(s)
    OBVIOUS
  <2>2. before = Taking(<<>>, done)
    BY <1>2, <2>1, TakeCompleteIs
  <2>3. before.pending = <<>> /\ before.queries = done
    BY <2>2, TakingFields
  <2>4. TakeLine(s, line) = IF IsTransactionCommandLine(line)
                            THEN Taking(before.pending, Append(before.queries, line))
                            ELSE Taking(AppendPending(before.pending, line), before.queries)
    BY <1>1, <1>2, <2>1, Zenon DEF TakeLine
  <2>5. QED
    BY <1>2, <2>3, <2>4 DEF Extended
<1>3. CASE ~(~NeedsMoreInput(text) /\ (IsTransactionCommandLine(line) \/ StartsDataStatement(line)))
  <2>1. TakeLine(s, line) = Taking(AppendPending(s.pending, line), s.queries)
    BY <1>1, <1>3, Zenon DEF TakeLine
  <2>2. QED
    BY <1>1, <1>3, <2>1
<1>4. QED
    BY <1>2, <1>3

\* A line taken gives a state of the loop again.
LEMMA TakeLineTyped ==
    ASSUME NEW S, NewLine \in S, NEW s \in Takings(S), NEW line \in Seq(S)
    PROVE  TakeLine(s, line) \in Takings(S)
<1>1. PICK text \in Seq(S) : text = s.pending
    BY TakingTyped
<1>2. PICK queries \in Seq(Seq(S)) : queries = s.queries
    BY TakingTyped
<1>3. s = Taking(text, queries)
    BY <1>1, <1>2, TakingTyped
<1>4. PICK done : done = Queued(queries, Trimmed(text))
    OBVIOUS
<1>5. done \in Seq(Seq(S))
    BY <1>4, TrimmedTyped, QueuedTyped
<1>6. Extended(done, line) \in Seq(Seq(S)) /\ <<>> \in Seq(S)
  <2>1. SequenceLaws(S) /\ SequenceLaws(Seq(S))
    BY SequencesHaveLaws
  <2>2. QED
    BY <1>5, <2>1 DEF SequenceLaws, Closed
<1>7. AppendPending(<<>>, line) \in Seq(S) /\ AppendPending(text, line) \in Seq(S)
    BY <1>6, AppendPendingIs
<1>8. \/ TakeLine(s, line) = Taking(<<>>, Extended(done, line))
      \/ TakeLine(s, line) = Taking(AppendPending(<<>>, line), done)
      \/ TakeLine(s, line) = Taking(AppendPending(text, line), queries)
  <2>1. PICK result : result = TakeLine(s, line)
    OBVIOUS
  <2>2. QED
    BY <1>3, <1>4, TakeLineIs
<1>9. \A t \in Seq(S), list \in Seq(Seq(S)) : Taking(t, list) \in Takings(S)
    BY TakingTyped
<1>10. /\ Taking(<<>>, Extended(done, line)) \in Takings(S)
       /\ Taking(AppendPending(<<>>, line), done) \in Takings(S)
       /\ Taking(AppendPending(text, line), queries) \in Takings(S)
  <2>1. Taking(<<>>, Extended(done, line)) \in Takings(S)
    BY ONLY <1>6, <1>9
  <2>2. Taking(AppendPending(<<>>, line), done) \in Takings(S)
    BY ONLY <1>5, <1>7, <1>9
  <2>3. Taking(AppendPending(text, line), queries) \in Takings(S)
    BY ONLY <1>7, <1>9
  <2>4. QED
    BY <2>1, <2>2, <2>3
<1>11. QED
    BY ONLY <1>8, <1>10

-----------------------------------------------------------------------------
\* Taking lines

LineStep(S) == [pair \in Takings(S) \X Seq(S) |-> TakeLine(pair[1], pair[2])]

\* Taking lines is a recursion along them:
LEMMA LineStepIs ==
    ASSUME NEW S, NewLine \in S
    PROVE  /\ IsStep(LineStep(S), Takings(S), Seq(S))
           /\ \A s \in Takings(S), line \in Seq(S) : LineStep(S)[<<s, line>>] = TakeLine(s, line)
<1>1. \A s \in Takings(S), line \in Seq(S) : TakeLine(s, line) \in Takings(S)
    BY TakeLineTyped
<1>2. \A pair \in Takings(S) \X Seq(S) : pair[1] \in Takings(S) /\ pair[2] \in Seq(S)
    OBVIOUS
<1>3. \A s \in Takings(S), line \in Seq(S) :
          <<s, line>> \in Takings(S) \X Seq(S) /\ <<s, line>>[1] = s /\ <<s, line>>[2] = line
    OBVIOUS
<1>4. IsStep(LineStep(S), Takings(S), Seq(S))
    BY <1>1, <1>2, Zenon DEF LineStep, IsStep
<1>5. \A s \in Takings(S), line \in Seq(S) : LineStep(S)[<<s, line>>] = TakeLine(s, line)
    BY <1>3, Zenon DEF LineStep
<1>6. QED
    BY <1>4, <1>5

\* the recursive function in TakeLines has these steps.
LEMMA TakeLinesIsFolded ==
    ASSUME NEW S, NewLine \in S, NEW s \in Takings(S), NEW lines \in Seq(Seq(S))
    PROVE  TakeLines(s, lines) = Folded(Takings(S), LineStep(S), s, lines)
<1> DEFINE n == Len(lines)
           E(f, i) == IF i = 0 THEN s ELSE TakeLine(f[i - 1], lines[i])
           step == LineStep(S)
<1>1. PICK f \in [0..n -> Takings(S)] : IsRecursion(f, step, s, lines)
    BY LineStepIs, RecursionExists
<1>2. \A i \in 0..n : f[i] = E(f, i)
  <2> SUFFICES ASSUME NEW i \in 0..n PROVE f[i] = E(f, i)
      OBVIOUS
  <2>1. CASE i = 0
    BY <1>1, <2>1 DEF IsRecursion
  <2>2. CASE i # 0
    <3>1. i \in 1..n /\ i - 1 \in 0..n /\ lines[i] \in Seq(S) /\ f[i - 1] \in Takings(S)
      <4>1. n \in Nat
        OBVIOUS
      <4>2. i \in 1..n /\ i - 1 \in 0..n
        BY <2>2, <4>1
      <4>3. lines[i] \in Seq(S)
        BY <4>2
      <4>4. f[i - 1] \in Takings(S)
        BY <1>1, <4>2
      <4>5. QED
        BY <4>2, <4>3, <4>4
    <3>2. f[i] = step[<<f[i - 1], lines[i]>>]
      BY <1>1, <3>1 DEF IsRecursion
    <3>3. QED
      BY <2>2, <3>1, <3>2, LineStepIs
  <2>3. QED
    BY <2>1, <2>2
<1>3. f = [i \in 0..n |-> E(f, i)]
  <2>1. f = [i \in 0..n |-> f[i]]
    OBVIOUS
  <2>2. QED
    BY <1>2, <2>1
<1> DEFINE u == CHOOSE g : g = [i \in 0..n |-> E(g, i)]
<1>4. u = [i \in 0..n |-> E(u, i)]
    BY <1>3
<1>5. TakeLines(s, lines) = u[n]
    BY DEF TakeLines
<1> HIDE DEF u
<1>6. ASSUME NEW i \in Nat, i <= n PROVE u[i] \in Takings(S)
  <2> DEFINE T == {m \in Nat : m <= n => u[m] \in Takings(S)}
  <2>1. 0 \in T
    BY <1>4
  <2>2. ASSUME NEW m \in Nat, m \in T PROVE m + 1 \in T
    <3> SUFFICES ASSUME m + 1 <= n PROVE u[m + 1] \in Takings(S)
        OBVIOUS
    <3>1. m + 1 \in 0..n /\ m + 1 # 0 /\ (m + 1) - 1 = m /\ u[m] \in Takings(S) /\ lines[m + 1] \in Seq(S)
      BY <2>2
    <3>2. u[m + 1] = TakeLine(u[m], lines[m + 1])
      BY <1>4, <3>1
    <3>3. QED
      BY <3>1, <3>2, TakeLineTyped
  <2>3. Nat \subseteq T
    <3> HIDE DEF T
    <3>1. QED
      BY <2>1, <2>2, NaturalsByStep
  <2>4. QED
    BY <1>6, <2>3
<1>7. IsRecursion(u, step, s, lines)
  <2>1. u[0] = s
    BY <1>4
  <2>2. ASSUME NEW i \in 1..n PROVE u[i] = step[<<u[i - 1], lines[i]>>]
    <3>1. i \in 0..n /\ i # 0 /\ i - 1 \in Nat /\ i - 1 <= n /\ lines[i] \in Seq(S)
      OBVIOUS
    <3>2. u[i] = TakeLine(u[i - 1], lines[i])
      BY <1>4, <3>1
    <3>3. u[i - 1] \in Takings(S)
      BY <1>6, <3>1
    <3>4. QED
      BY <3>1, <3>2, <3>3, LineStepIs
  <2>3. QED
    BY <2>1, <2>2 DEF IsRecursion
<1>8. QED
    BY <1>5, <1>7, LineStepIs, FoldedIs

\* What TakeLines makes of no lines and of one line more.
LEMMA TakeLinesAppend ==
    ASSUME NEW S, NewLine \in S, NEW s \in Takings(S)
    PROVE  /\ TakeLines(s, <<>>) = s
           /\ \A lines \in Seq(Seq(S)) : TakeLines(s, lines) \in Takings(S)
           /\ \A lines \in Seq(Seq(S)), line \in Seq(S) :
                  TakeLines(s, Extended(lines, line)) = TakeLine(TakeLines(s, lines), line)
<1>1. PICK X : X = Takings(S)
    OBVIOUS
<1>2. PICK Y : Y = Seq(S)
    OBVIOUS
<1>3. PICK step : step = LineStep(S)
    OBVIOUS
<1>4. IsStep(step, X, Y) /\ s \in X /\ \A t \in X, line \in Y : step[<<t, line>>] = TakeLine(t, line)
    BY <1>1, <1>2, <1>3, LineStepIs
<1>5. \A lines \in Seq(Y) : TakeLines(s, lines) = Folded(X, step, s, lines)
    BY <1>1, <1>2, <1>3, TakeLinesIsFolded
<1>6. /\ Folded(X, step, s, <<>>) = s
      /\ \A lines \in Seq(Y) : Folded(X, step, s, lines) \in X
      /\ \A lines \in Seq(Y), line \in Y :
             Folded(X, step, s, Extended(lines, line)) = step[<<Folded(X, step, s, lines), line>>]
    BY ONLY <1>4, FoldedByItems
<1>7. SequenceLaws(Y)
    BY SequencesHaveLaws
<1>8. TakeLines(s, <<>>) = s
    BY <1>5, <1>6, <1>7 DEF SequenceLaws, Closed
<1>9. ASSUME NEW lines \in Seq(Y), NEW line \in Y
      PROVE  TakeLines(s, Extended(lines, line)) = TakeLine(TakeLines(s, lines), line)
  <2>1. Extended(lines, line) \in Seq(Y)
    BY <1>7 DEF SequenceLaws, Closed
  <2>2. TakeLines(s, Extended(lines, line)) = step[<<TakeLines(s, lines), line>>]
    BY <1>5, <1>6, <2>1
  <2>3. TakeLines(s, lines) \in X
    BY <1>5, <1>6
  <2>4. QED
    BY <1>4, <2>2, <2>3
<1>10. QED
    BY <1>1, <1>2, <1>5, <1>6, <1>8, <1>9

-----------------------------------------------------------------------------
\* Taking a text again from its beginning

Plain(S) == S \ {NewLine}

Replay(text) == TakeLines(Taking(<<>>, <<>>), Pieces(text, NewLine))

\* Trimmed, and taken again as one text that is pending.
Whole(text) == IsTrimmed(text) /\ Replay(text) = Taking(text, <<>>)

SameText(a, b) == (NeedsMoreInput(a) <=> NeedsMoreInput(b)) /\ Without(a, NewLine) = Without(b, NewLine)

\* A text that can be pending.
Waits(text) ==
    \/ text = <<>>
    \/ /\ text # <<>> /\ text[1] # NewLine
       /\ Replay(text) = Taking(text, <<>>)
       /\ Whole(Trimmed(text)) /\ SameText(Trimmed(text), text)

\* A query that can be taken.
Recalled(query) ==
    query # <<>> /\ ~NeedsMoreInput(query) /\ CompleteInputs(<<>>, query) = Taking(<<>>, <<query>>)

\* A line is a text without line breaks.
LEMMA PlainIs ==
    ASSUME NEW S
    PROVE  /\ Plain(S) \subseteq S /\ NewLine \notin Plain(S) /\ Seq(Plain(S)) \subseteq Seq(S)
           /\ Plain(S) = S \ {NewLine}
<1>1. Plain(S) \subseteq S /\ NewLine \notin Plain(S)
    BY DEF Plain
<1>2. QED
    BY <1>1, SeqMonotonic DEF Plain

\* The loop begins in a state of the loop.
LEMMA NothingTaken ==
    ASSUME NEW S
    PROVE  Taking(<<>>, <<>>) \in Takings(S)
<1>1. <<>> \in Seq(S) /\ <<>> \in Seq(Seq(S))
    BY SequencesHaveLaws DEF SequenceLaws, Closed
<1>2. QED
    BY <1>1, TakingTyped

\* A single line is taken again as a line.
LEMMA ReplayLine ==
    ASSUME NEW S, NewLine \in S, NEW line \in Seq(Plain(S))
    PROVE  Replay(line) = TakeLine(Taking(<<>>, <<>>), line)
<1>1. PICK s \in Takings(S) : s = Taking(<<>>, <<>>)
    BY NothingTaken
<1>2. line \in Seq(S)
    BY PlainIs
<1>3. Pieces(line, NewLine) = Extended(<<>>, line)
    BY PlainIs, OnlyPiece
<1>4. PICK none : none = <<>>
    OBVIOUS
<1>5. none \in Seq(Seq(S))
    BY <1>4, SequencesHaveLaws DEF SequenceLaws, Closed
<1>6. TakeLines(s, Extended(none, line)) = TakeLine(TakeLines(s, none), line) /\ TakeLines(s, none) = s
  <2>1. /\ TakeLines(s, <<>>) = s
        /\ \A lines \in Seq(Seq(S)), next \in Seq(S) :
               TakeLines(s, Extended(lines, next)) = TakeLine(TakeLines(s, lines), next)
    BY TakeLinesAppend
  <2>2. QED
    BY <1>2, <1>4, <1>5, <2>1, Zenon
<1>7. QED
    BY <1>1, <1>3, <1>4, <1>6 DEF Replay

\* A line behind a text is taken in the state the text leaves.
LEMMA ReplayNext ==
    ASSUME NEW S, NewLine \in S, NEW text \in Seq(S), NEW line \in Seq(Plain(S)),
           NEW longer, longer = Joined(Extended(text, NewLine), line)
    PROVE  Replay(longer) = TakeLine(Replay(text), line)
<1>1. PICK s \in Takings(S) : s = Taking(<<>>, <<>>)
    BY NothingTaken
<1>2. line \in Seq(S)
    BY PlainIs
<1>3. PICK pieces : pieces = Pieces(text, NewLine)
    OBVIOUS
<1>4. pieces \in Seq(Seq(S))
  <2>1. PICK split : split = Split(text, NewLine)
    OBVIOUS
  <2>2. split.ended \in Seq(Seq(S)) /\ split.last \in Seq(S) /\ pieces = Extended(split.ended, split.last)
    BY <1>3, <2>1, SplitFields
  <2>3. QED
    BY <2>2, SequencesHaveLaws DEF SequenceLaws, Closed
<1>5. Pieces(longer, NewLine) = Extended(pieces, line)
    BY <1>3, PlainIs, PiecesBehind
<1>6. TakeLines(s, Extended(pieces, line)) = TakeLine(TakeLines(s, pieces), line)
    BY <1>2, <1>4, TakeLinesAppend
<1>7. QED
    BY <1>1, <1>3, <1>5, <1>6 DEF Replay

-----------------------------------------------------------------------------
\* What can be pending

\* Nothing is trimmed to nothing.
LEMMA TrimmedEmpty == Trimmed(<<>>) = <<>>
<1>1. {i \in DOMAIN <<>> : <<>>[i] # NewLine} = {}
    OBVIOUS
<1>2. QED
    BY <1>1 DEF Trimmed

\* A line that is not empty is trimmed.
LEMMA PlainIsTrimmed ==
    ASSUME NEW S, NEW line \in Seq(Plain(S)), line # <<>>
    PROVE  IsTrimmed(line) /\ line[1] # NewLine /\ Trimmed(line) = line
<1>1. Len(line) \in Nat /\ Len(line) # 0
    BY EmptySeq
<1>2. line[1] \in Plain(S) /\ line[Len(line)] \in Plain(S)
    BY <1>1
<1>3. IsTrimmed(line) /\ line[1] # NewLine
    BY <1>2, PlainIs DEF IsTrimmed
<1>4. QED
    BY <1>3, TrimmedWhole

\* A line that is no command begins a text.
LEMMA WaitsBegin ==
    ASSUME NEW S, NewLine \in S, NEW line \in Seq(Plain(S)), line # <<>>, ~IsTransactionCommandLine(line)
    PROVE  Waits(line)
<1>1. IsTrimmed(line) /\ line[1] # NewLine /\ Trimmed(line) = line
    BY PlainIsTrimmed
<1>2. PICK empty : empty = <<>>
    OBVIOUS
<1>3. PICK s : s = Taking(empty, empty)
    OBVIOUS
<1>4. Queued(empty, Trimmed(empty)) = empty
    BY <1>2, TrimmedEmpty DEF Queued
<1>5. AppendPending(empty, line) = line
    BY <1>2 DEF AppendPending
<1>6. TakeLine(s, line) = Taking(line, empty)
    BY <1>2, <1>3, <1>4, <1>5, TakeLineIs
<1>7. Replay(line) = Taking(line, <<>>)
    BY <1>2, <1>3, <1>6, ReplayLine
<1>8. QED
    BY <1>1, <1>7 DEF Waits, Whole, SameText

\* A line that does not end what is pending continues it.
LEMMA WaitsContinue ==
    ASSUME NEW S, NewLine \in S, NEW text \in Seq(S), text # <<>>, Waits(text), NEW line \in Seq(Plain(S)),
           ~(~NeedsMoreInput(text) /\ (IsTransactionCommandLine(line) \/ StartsDataStatement(line)))
    PROVE  Waits(AppendPending(text, line))
<1>1. line \in Seq(S)
    BY PlainIs
<1>2. PICK longer : longer = Joined(Extended(text, NewLine), line)
    OBVIOUS
<1>3. AppendPending(text, line) = longer /\ longer \in Seq(S)
    BY <1>1, <1>2, AppendPendingIs
<1>4. PICK empty : empty = <<>>
    OBVIOUS
<1>5. Replay(longer) = Taking(longer, <<>>)
  <2>1. PICK s : s = Taking(text, empty)
    OBVIOUS
  <2>2. TakeLine(s, line) = Taking(longer, empty)
    BY <1>3, <2>1, TakeLineIs
  <2>3. Replay(text) = s
    BY <1>4, <2>1 DEF Waits
  <2>4. QED
    BY <1>2, <1>4, <2>2, <2>3, ReplayNext
<1>6. longer # <<>> /\ longer[1] = text[1] /\ Len(longer) = Len(text) + 1 + Len(line)
      /\ (line # <<>> => longer[Len(longer)] = line[Len(line)])
  <2>1. PICK newLine \in S : newLine = NewLine
    OBVIOUS
  <2>2. PICK begin : begin = Append(text, newLine)
    OBVIOUS
  <2>3. begin \in Seq(S) /\ Len(begin) = Len(text) + 1 /\ Len(text) \in Nat
    BY <2>2
  <2>4. longer = begin \o line
    BY <1>2, <2>1, <2>2 DEF Joined, Extended
  <2>5. /\ Len(line) \in Nat /\ Len(longer) = Len(begin) + Len(line)
        /\ \A i \in 1..(Len(begin) + Len(line)) :
               longer[i] = IF i <= Len(begin) THEN begin[i] ELSE line[i - Len(begin)]
    <3>1. Len(line) \in Nat
      BY <1>1
    <3>2. QED
      BY ONLY <1>1, <2>3, <2>4, <3>1, ConcatProperties
  <2>6. Len(text) # 0
    BY EmptySeq
  <2>7. begin[1] = text[1]
    BY <2>2, <2>3, <2>6
  <2>8. line # <<>> => Len(line) # 0
    BY <1>1, EmptySeq
  <2>9. longer # <<>>
    BY <1>3, <2>3, <2>5
  <2>10. longer[1] = text[1]
    BY <2>3, <2>5, <2>7
  <2>11. Len(longer) = Len(text) + 1 + Len(line)
    BY <2>3, <2>5
  <2>12. ASSUME line # <<>> PROVE longer[Len(longer)] = line[Len(line)]
    <3>1. Len(line) # 0 /\ Len(begin) \in Nat
      BY <2>3, <2>8, <2>12
    <3>2. Len(longer) \in 1..(Len(begin) + Len(line)) /\ ~(Len(longer) <= Len(begin))
          /\ Len(longer) - Len(begin) = Len(line)
      BY ONLY <2>5, <3>1
    <3>3. QED
      BY ONLY <2>5, <3>2
  <2>13. QED
    BY <2>9, <2>10, <2>11, <2>12
<1>7. text[1] # NewLine /\ Whole(Trimmed(text)) /\ SameText(Trimmed(text), text)
    BY DEF Waits
<1>8. CASE line = <<>>
  <2>1. PICK begin : begin = Extended(text, NewLine)
    OBVIOUS
  <2>2. begin \in Seq(S) /\ longer = begin
    BY <1>2, <1>8, <2>1, SequencesHaveLaws DEF SequenceLaws, Closed, EmptyIsUnit
  <2>3. Trimmed(longer) = Trimmed(text)
    BY <2>1, <2>2, TrimmedBreak
  <2>4. NeedsMoreInput(longer) <=> NeedsMoreInput(text)
    BY <2>1, <2>2, NeedsMoreBreak
  <2>5. Without(longer, NewLine) = Without(text, NewLine)
    BY <2>1, <2>2, WithoutAppend DEF KeptNext
  <2>6. QED
    BY <1>3, <1>5, <1>6, <1>7, <2>3, <2>4, <2>5 DEF Waits, SameText
<1>9. CASE line # <<>>
  <2>1. line[Len(line)] # NewLine
    BY <1>9, PlainIsTrimmed DEF IsTrimmed
  <2>2. IsTrimmed(longer)
    BY <1>6, <1>7, <1>9, <2>1 DEF IsTrimmed
  <2>3. Trimmed(longer) = longer
    BY <1>3, <2>2, TrimmedWhole
  <2>4. QED
    BY <1>3, <1>5, <1>6, <1>7, <2>2, <2>3 DEF Waits, Whole, SameText
<1>10. QED
    BY <1>8, <1>9

-----------------------------------------------------------------------------
\* What can be taken

\* A trimmed text ends in a line, so that str::lines drops nothing.
LEMMA LastPiece ==
    ASSUME NEW S, NEW text \in Seq(S), IsTrimmed(text)
    PROVE  Lines(text) = Pieces(text, NewLine)
<1>1. PICK split : split = Split(text, NewLine)
    OBVIOUS
<1>2. PICK front \in Seq(S), x \in S : text = Extended(front, x)
    BY SequencesHaveLaws DEF SequenceLaws, EmptyOrExtended, IsTrimmed
<1>3. x # NewLine
  <2>1. Len(text) = Len(front) + 1 /\ text[Len(front) + 1] = x
    BY <1>2 DEF Extended
  <2>2. QED
    BY <2>1 DEF IsTrimmed
<1>4. PICK before : before = Split(front, NewLine)
    OBVIOUS
<1>5. before.last \in Seq(S)
    BY <1>4, SplitFields
<1>6. split = SplitNext(before, x, NewLine)
    BY <1>1, <1>2, <1>4, SplitAppend
<1>7. split.last = Extended(before.last, x)
    BY <1>3, <1>6 DEF SplitNext
<1>8. split.last # <<>>
    BY <1>5, <1>7, SequencesHaveLaws DEF SequenceLaws, EmptyOrExtended
<1>9. QED
    BY <1>1, <1>8 DEF Lines, Pieces

\* A whole text that is complete is taken again as it is.
LEMMA WholeRecalled ==
    ASSUME NEW S, NEW query \in Seq(S), Whole(query), ~NeedsMoreInput(query)
    PROVE  Recalled(query)
<1>1. query # <<>> /\ Trimmed(query) = query /\ Lines(query) = Pieces(query, NewLine)
    BY TrimmedWhole, LastPiece DEF Whole, IsTrimmed
<1>2. PICK empty : empty = <<>>
    OBVIOUS
<1>3. PICK s : s = Taking(query, empty)
    OBVIOUS
<1>4. TakeLines(Taking(empty, empty), Lines(query)) = s
    BY <1>1, <1>2, <1>3 DEF Whole, Replay
<1>5. TakeComplete(s) = Taking(<<>>, Queued(empty, query))
    BY <1>1, <1>3, TakeCompleteIs
<1>6. Queued(empty, query) = <<query>>
    BY <1>1, <1>2 DEF Queued
<1>7. QED
    BY <1>1, <1>2, <1>4, <1>5, <1>6 DEF Recalled, CompleteInputs

\* So is a command.
LEMMA CommandRecalled ==
    ASSUME NEW S, NewLine \in S, NEW line \in Seq(Plain(S)), IsTransactionCommandLine(line)
    PROVE  Recalled(line)
<1>1. line # <<>> /\ ~NeedsMoreInput(line)
    BY NeedsMoreCommand DEF IsTransactionCommandLine
<1>2. IsTrimmed(line) /\ line \in Seq(S)
    BY <1>1, PlainIsTrimmed, PlainIs
<1>3. PICK empty : empty = <<>>
    OBVIOUS
<1>4. PICK s : s = Taking(empty, empty)
    OBVIOUS
<1>5. Queued(empty, Trimmed(empty)) = empty /\ ~NeedsMoreInput(empty)
    BY <1>3, TrimmedEmpty, NeedsMoreEmpty DEF Queued
<1>6. TakeLine(s, line) = Taking(<<>>, Extended(empty, line))
    BY <1>4, <1>5, TakeLineIs
<1>7. Replay(line) = TakeLine(s, line)
    BY <1>3, <1>4, ReplayLine
<1>8. CompleteInputs(empty, line) = TakeComplete(Replay(line))
    BY <1>2, <1>3, LastPiece DEF CompleteInputs, Replay
<1>9. PICK one : one = Extended(empty, line)
    OBVIOUS
<1>10. PICK t : t = Taking(empty, one)
    OBVIOUS
<1>11. TakeComplete(t) = Taking(<<>>, Queued(one, Trimmed(empty)))
    BY <1>5, <1>10, TakeCompleteIs
<1>12. Queued(one, Trimmed(empty)) = one
    BY <1>3, TrimmedEmpty DEF Queued
<1>13. one = <<line>>
    BY <1>3, <1>9 DEF Extended
<1>14. QED
    BY <1>1, <1>3, <1>6, <1>7, <1>8, <1>9, <1>10, <1>11, <1>12, <1>13 DEF Recalled

-----------------------------------------------------------------------------
\* What taking lines keeps

AllRecalled(queries) == \A k \in DOMAIN queries : Recalled(queries[k])

\* What is kept of everything that was entered.
Kept(queries, text) == Joined(Without(FlattenSeq(queries), NewLine), Without(text, NewLine))

Good(s) == Waits(s.pending) /\ AllRecalled(s.queries)

\* Queries that can be taken again, one after the other.
LEMMA RecalledTogether ==
    ASSUME NEW T
    PROVE  /\ AllRecalled(<<>>)
           /\ \A queries \in Seq(T), query \in T :
                  AllRecalled(queries) /\ Recalled(query) => AllRecalled(Extended(queries, query))
           /\ \A a, b \in Seq(T) : AllRecalled(a) /\ AllRecalled(b) => AllRecalled(Joined(a, b))
<1>1. AllRecalled(<<>>)
  <2>1. DOMAIN <<>> = {}
    OBVIOUS
  <2>2. QED
    BY <2>1 DEF AllRecalled
<1>2. ASSUME NEW queries \in Seq(T), NEW query \in T, AllRecalled(queries), Recalled(query)
      PROVE  AllRecalled(Extended(queries, query))
  <2>1. PICK longer : longer = Append(queries, query)
    OBVIOUS
  <2>2. PICK n : n = Len(queries)
    OBVIOUS
  <2>3. n \in Nat /\ DOMAIN queries = 1..n /\ DOMAIN longer = 1..(n + 1) /\ longer[n + 1] = query
        /\ \A k \in 1..n : longer[k] = queries[k]
    BY <2>1, <2>2
  <2>4. \A k \in 1..(n + 1) : k \in 1..n \/ k = n + 1
    BY <2>3
  <2>5. AllRecalled(longer)
    BY <1>2, <2>3, <2>4, Zenon DEF AllRecalled
  <2>6. QED
    BY <2>1, <2>5 DEF Extended
<1>3. ASSUME NEW a \in Seq(T), NEW b \in Seq(T), AllRecalled(a), AllRecalled(b)
      PROVE  AllRecalled(Joined(a, b))
  <2>1. PICK both : both = a \o b
    OBVIOUS
  <2>2. PICK m \in Nat : m = Len(a) /\ DOMAIN a = 1..m
    OBVIOUS
  <2>3. PICK n \in Nat : n = Len(b) /\ DOMAIN b = 1..n
    OBVIOUS
  <2>4. both \in Seq(T) /\ Len(both) = m + n
        /\ \A k \in 1..(m + n) : both[k] = IF k <= m THEN a[k] ELSE b[k - m]
    BY <2>1, <2>2, <2>3, ConcatProperties
  <2>5. DOMAIN both = 1..(m + n)
    BY <2>4
  <2>6. \A k \in 1..(m + n) : (k <= m /\ k \in 1..m) \/ (~(k <= m) /\ k - m \in 1..n)
    OBVIOUS
  <2>7. \A k \in 1..(m + n) : Recalled(both[k])
    <3> SUFFICES ASSUME NEW k \in 1..(m + n) PROVE Recalled(both[k])
        OBVIOUS
    <3>1. CASE k <= m
      <4>1. k \in 1..m /\ both[k] = a[k]
        BY <2>4, <2>6, <3>1
      <4>2. QED
        BY <1>3, <2>2, <4>1 DEF AllRecalled
    <3>2. CASE ~(k <= m)
      <4>1. k - m \in 1..n /\ both[k] = b[k - m]
        BY <2>4, <2>6, <3>2
      <4>2. QED
        BY <1>3, <2>3, <4>1 DEF AllRecalled
    <3>3. QED
      BY <3>1, <3>2
  <2>8. AllRecalled(both)
    BY <2>5, <2>7, Zenon DEF AllRecalled
  <2>9. QED
    BY <2>1, <2>8 DEF Joined
<1>4. QED
    BY <1>1, <1>2, <1>3

\* What is left of queries, one after the other.
LEMMA KeptOfQueries ==
    ASSUME NEW S
    PROVE  /\ \A queries \in Seq(Seq(S)) : Without(FlattenSeq(queries), NewLine) \in Seq(S)
           /\ \A queries \in Seq(Seq(S)), query \in Seq(S) :
                  Without(FlattenSeq(Extended(queries, query)), NewLine)
                      = Joined(Without(FlattenSeq(queries), NewLine), Without(query, NewLine))
<1>1. \A queries \in Seq(Seq(S)) : FlattenSeq(queries) \in Seq(S)
    BY FlattenItems
<1>2. \A text \in Seq(S) : Without(text, NewLine) \in Seq(S)
    BY WithoutAppend
<1>3. ASSUME NEW queries \in Seq(Seq(S)), NEW query \in Seq(S)
      PROVE  Without(FlattenSeq(Extended(queries, query)), NewLine)
                 = Joined(Without(FlattenSeq(queries), NewLine), Without(query, NewLine))
  <2>1. PICK flat : flat = FlattenSeq(queries)
    OBVIOUS
  <2>2. FlattenSeq(Extended(queries, query)) = Joined(flat, query)
    BY <2>1, FlattenAppend
  <2>3. flat \in Seq(S)
    BY <1>1, <2>1
  <2>4. QED
    BY <2>1, <2>2, <2>3, WithoutConcat
<1>4. QED
    BY <1>1, <1>2, <1>3

\* What is complete is queued whole.
LEMMA QueuedGood ==
    ASSUME NEW S, NEW text \in Seq(S), Waits(text), ~NeedsMoreInput(text),
           NEW queries \in Seq(Seq(S)), AllRecalled(queries),
           NEW done, done = Queued(queries, Trimmed(text))
    PROVE  /\ done \in Seq(Seq(S)) /\ AllRecalled(done)
           /\ Without(FlattenSeq(done), NewLine) = Kept(queries, text)
<1>1. PICK query : query = Trimmed(text)
    OBVIOUS
<1>2. query \in Seq(S)
    BY <1>1, TrimmedTyped
<1>3. done \in Seq(Seq(S))
    BY <1>1, <1>2, QueuedTyped
<1>4. Without(FlattenSeq(queries), NewLine) \in Seq(S)
    BY KeptOfQueries
<1>5. CASE text = <<>>
  <2>1. query = <<>>
    BY <1>1, <1>5, TrimmedEmpty
  <2>2. done = queries
    BY <1>1, <2>1 DEF Queued
  <2>3. Without(text, NewLine) = <<>>
    BY <1>5, WithoutAppend
  <2>4. Joined(Without(FlattenSeq(queries), NewLine), <<>>) = Without(FlattenSeq(queries), NewLine)
    BY <1>4, SequencesHaveLaws DEF SequenceLaws, EmptyIsUnit
  <2>5. QED
    BY <1>3, <2>2, <2>3, <2>4 DEF Kept
<1>6. CASE text # <<>>
  <2>1. Whole(query) /\ SameText(query, text)
    BY <1>1, <1>6 DEF Waits
  <2>2. query # <<>>
    BY <2>1 DEF Whole, IsTrimmed
  <2>3. done = Extended(queries, query)
    BY <1>1, <2>2 DEF Queued, Extended
  <2>4. Recalled(query)
    BY <1>2, <2>1, WholeRecalled DEF SameText
  <2>5. AllRecalled(done)
    BY <1>2, <2>3, <2>4, RecalledTogether
  <2>6. Without(FlattenSeq(done), NewLine) = Joined(Without(FlattenSeq(queries), NewLine), Without(query, NewLine))
    BY <1>2, <2>3, KeptOfQueries
  <2>7. QED
    BY <1>3, <2>1, <2>5, <2>6 DEF Kept, SameText
<1>7. QED
    BY <1>5, <1>6

\* A line is kept, in its place, and what can be pending or taken stays so.
LEMMA TakeLineGood ==
    ASSUME NEW S, NewLine \in S, NEW s \in Takings(S), Good(s), NEW line \in Seq(Plain(S)),
           NEW next, next = TakeLine(s, line)
    PROVE  /\ next \in Takings(S) /\ Good(next)
           /\ Kept(next.queries, next.pending) = Joined(Kept(s.queries, s.pending), Without(line, NewLine))
<1>1. PICK text \in Seq(S) : text = s.pending
    BY TakingTyped
<1>2. PICK queries \in Seq(Seq(S)) : queries = s.queries
    BY TakingTyped
<1>3. s = Taking(text, queries) /\ Waits(text) /\ AllRecalled(queries)
    BY <1>1, <1>2, TakingTyped DEF Good
<1>4. line \in Seq(S)
    BY PlainIs
<1>5. next \in Takings(S)
    BY <1>4, TakeLineTyped
<1>6. PICK done : done = Queued(queries, Trimmed(text))
    OBVIOUS
<1>7. SequenceLaws(S) /\ SequenceLaws(Seq(S))
    BY SequencesHaveLaws
<1>8. PICK flat \in Seq(S) : flat = Without(FlattenSeq(queries), NewLine)
    BY KeptOfQueries
<1>9. PICK wText \in Seq(S) : wText = Without(text, NewLine)
    BY WithoutAppend
<1>10. PICK wLine \in Seq(S) : wLine = Without(line, NewLine)
    BY <1>4, WithoutAppend
<1>11. Kept(queries, text) = Joined(flat, wText)
    BY <1>8, <1>9 DEF Kept
<1>12. PICK empty : empty = <<>>
    OBVIOUS
<1>13. empty \in Seq(S) /\ Without(empty, NewLine) = empty
    BY <1>7, <1>12, WithoutAppend DEF SequenceLaws, Closed
<1>14. CASE ~NeedsMoreInput(text) /\ IsTransactionCommandLine(line)
  <2>1. next = Taking(empty, Extended(done, line))
    BY <1>3, <1>6, <1>12, <1>14, TakeLineIs
  <2>2. done \in Seq(Seq(S)) /\ AllRecalled(done) /\ Without(FlattenSeq(done), NewLine) = Joined(flat, wText)
    BY <1>3, <1>6, <1>11, <1>14, QueuedGood
  <2>3. PICK longer : longer = Extended(done, line)
    OBVIOUS
  <2>4. Recalled(line)
    BY <1>14, CommandRecalled
  <2>5. AllRecalled(longer)
    BY <1>4, <2>2, <2>3, <2>4, RecalledTogether
  <2>6. next.pending = empty /\ next.queries = longer
    BY <2>1, <2>3, TakingFields
  <2>7. Good(next)
    BY <1>12, <2>5, <2>6 DEF Good, Waits
  <2>8. Without(FlattenSeq(longer), NewLine) = Joined(Joined(flat, wText), wLine)
    BY <1>4, <1>10, <2>2, <2>3, KeptOfQueries
  <2>9. PICK whole \in Seq(S) : whole = Joined(Joined(flat, wText), wLine)
    BY <1>7 DEF SequenceLaws, Closed
  <2>10. Joined(whole, empty) = whole
    BY <1>7, <1>12, <2>9 DEF SequenceLaws, EmptyIsUnit
  <2>11. Kept(longer, empty) = whole
    BY <1>13, <2>8, <2>9, <2>10 DEF Kept
  <2>12. QED
    BY <1>1, <1>2, <1>5, <1>10, <1>11, <2>6, <2>7, <2>9, <2>11
<1>15. CASE ~NeedsMoreInput(text) /\ ~IsTransactionCommandLine(line) /\ StartsDataStatement(line)
  <2>1. next = Taking(AppendPending(<<>>, line), done)
    BY <1>3, <1>6, <1>15, TakeLineIs
  <2>2. done \in Seq(Seq(S)) /\ AllRecalled(done) /\ Without(FlattenSeq(done), NewLine) = Joined(flat, wText)
    BY <1>3, <1>6, <1>11, <1>15, QueuedGood
  <2>3. line # <<>>
    BY <1>15 DEF StartsDataStatement
  <2>4. Waits(line)
    BY <1>15, <2>3, WaitsBegin
  <2>5. next.pending = line /\ next.queries = done
    BY <2>1, TakingFields DEF AppendPending
  <2>6. QED
    BY <1>1, <1>2, <1>5, <1>10, <1>11, <2>2, <2>4, <2>5 DEF Good, Kept
<1>16. CASE ~(~NeedsMoreInput(text) /\ (IsTransactionCommandLine(line) \/ StartsDataStatement(line)))
  <2>1. next = Taking(AppendPending(text, line), queries)
    BY <1>3, <1>6, <1>16, TakeLineIs
  <2>2. PICK longer : longer = AppendPending(text, line)
    OBVIOUS
  <2>3. next.pending = longer /\ next.queries = queries
    BY <2>1, <2>2, TakingFields
  <2>4. Waits(longer) /\ Without(longer, NewLine) = Joined(wText, wLine)
    <3>1. CASE text = <<>>
      <4>1. longer = line
        BY <2>2, <3>1 DEF AppendPending
      <4>2. Waits(line)
        <5>1. CASE line = <<>>
          BY <5>1 DEF Waits
        <5>2. CASE line # <<>>
          BY <1>16, <3>1, <5>2, NeedsMoreEmpty, WaitsBegin
        <5>3. QED
          BY <5>1, <5>2
      <4>3. wText = empty
        BY <1>9, <1>12, <1>13, <3>1
      <4>4. Joined(empty, wLine) = wLine
        BY <1>7, <1>12 DEF SequenceLaws, EmptyIsUnit
      <4>5. QED
        BY <1>10, <4>1, <4>2, <4>3, <4>4
    <3>2. CASE text # <<>>
      <4>1. Waits(longer)
        BY <1>3, <1>16, <2>2, <3>2, WaitsContinue
      <4>2. PICK begin : begin = Extended(text, NewLine)
        OBVIOUS
      <4>3. begin \in Seq(S)
        BY <1>7, <4>2 DEF SequenceLaws, Closed
      <4>4. longer = Joined(begin, line)
        BY <1>4, <2>2, <3>2, <4>2, AppendPendingIs
      <4>5. Without(begin, NewLine) = wText
        BY <1>9, <4>2, WithoutAppend DEF KeptNext
      <4>6. Without(longer, NewLine) = Joined(wText, wLine)
        BY <1>4, <1>10, <4>3, <4>4, <4>5, WithoutConcat
      <4>7. QED
        BY <4>1, <4>6
    <3>3. QED
      BY <3>1, <3>2
  <2>5. Good(next)
    BY <1>3, <2>3, <2>4 DEF Good
  <2>6. Kept(queries, longer) = Joined(flat, Joined(wText, wLine))
    BY <1>8, <2>4 DEF Kept
  <2>7. Joined(Joined(flat, wText), wLine) = Joined(flat, Joined(wText, wLine))
    BY <1>7 DEF SequenceLaws, Associative
  <2>8. QED
    BY <1>1, <1>2, <1>5, <1>10, <1>11, <2>3, <2>5, <2>6, <2>7
<1>17. QED
    BY <1>14, <1>15, <1>16

-----------------------------------------------------------------------------
\* What an input keeps

\* Lines are kept, in their order, and what can be pending or taken stays so.
LEMMA TakeLinesGood ==
    ASSUME NEW S, NewLine \in S, NEW s \in Takings(S), Good(s)
    PROVE  \A lines \in Seq(Seq(Plain(S))) :
               /\ TakeLines(s, lines) \in Takings(S) /\ Good(TakeLines(s, lines))
               /\ Kept(TakeLines(s, lines).queries, TakeLines(s, lines).pending)
                      = Joined(Kept(s.queries, s.pending), Without(FlattenSeq(lines), NewLine))
<1>1. PICK P : P = Seq(Plain(S))
    OBVIOUS
<1>2. P \subseteq Seq(S) /\ Seq(P) \subseteq Seq(Seq(S))
    BY <1>1, PlainIs, SeqMonotonic
<1>3. PICK kept : kept = Kept(s.queries, s.pending)
    OBVIOUS
<1>4. kept \in Seq(S)
  <2>1. s.queries \in Seq(Seq(S)) /\ s.pending \in Seq(S)
    BY TakingTyped
  <2>2. Without(FlattenSeq(s.queries), NewLine) \in Seq(S) /\ Without(s.pending, NewLine) \in Seq(S)
    BY <2>1, KeptOfQueries, WithoutAppend
  <2>3. QED
    BY <1>3, <2>2, SequencesHaveLaws DEF SequenceLaws, Closed, Kept
<1> DEFINE T == {lines \in Seq(P) :
                    /\ TakeLines(s, lines) \in Takings(S) /\ Good(TakeLines(s, lines))
                    /\ Kept(TakeLines(s, lines).queries, TakeLines(s, lines).pending)
                           = Joined(kept, Without(FlattenSeq(lines), NewLine))}
<1>5. SequenceLaws(S) /\ SequenceLaws(P)
    BY SequencesHaveLaws
<1>6. <<>> \in T
  <2>1. TakeLines(s, <<>>) = s
    BY TakeLinesAppend
  <2>2. Without(FlattenSeq(<<>>), NewLine) = <<>>
    BY FlattenEmpty, WithoutAppend
  <2>3. Joined(kept, <<>>) = kept /\ <<>> \in Seq(P)
    BY <1>4, <1>5 DEF SequenceLaws, Closed, EmptyIsUnit
  <2>4. QED
    BY <1>3, <2>1, <2>2, <2>3
<1>7. ASSUME NEW lines \in Seq(P), NEW line \in P, lines \in T PROVE Extended(lines, line) \in T
  <2>1. PICK before : before = TakeLines(s, lines)
    OBVIOUS
  <2>2. PICK after : after = TakeLine(before, line)
    OBVIOUS
  <2>3. PICK flat : flat = Without(FlattenSeq(lines), NewLine)
    OBVIOUS
  <2>4. before \in Takings(S) /\ Good(before) /\ Kept(before.queries, before.pending) = Joined(kept, flat)
    BY <1>7, <2>1, <2>3
  <2>5. lines \in Seq(Seq(S)) /\ line \in Seq(S) /\ line \in Seq(Plain(S)) /\ flat \in Seq(S)
    BY <1>1, <1>2, <2>3, KeptOfQueries
  <2>6. TakeLines(s, Extended(lines, line)) = after
    BY <2>1, <2>2, <2>5, TakeLinesAppend
  <2>7. PICK wLine \in Seq(S) : wLine = Without(line, NewLine)
    BY <2>5, WithoutAppend
  <2>8. after \in Takings(S) /\ Good(after) /\ Kept(after.queries, after.pending) = Joined(Joined(kept, flat), wLine)
    BY <2>2, <2>4, <2>5, <2>7, TakeLineGood
  <2>9. Without(FlattenSeq(Extended(lines, line)), NewLine) = Joined(flat, wLine)
    BY <2>3, <2>5, <2>7, KeptOfQueries
  <2>10. Joined(Joined(kept, flat), wLine) = Joined(kept, Joined(flat, wLine))
    BY <1>4, <1>5, <2>5 DEF SequenceLaws, Associative
  <2>11. Extended(lines, line) \in Seq(P)
    BY <1>5 DEF SequenceLaws, Closed
  <2>12. QED
    BY <2>6, <2>8, <2>9, <2>10, <2>11
<1>8. Seq(P) \subseteq T
  <2> HIDE DEF T
  <2>1. QED
    BY <1>6, <1>7, SequencesByAppend
<1>9. QED
  <2>1. ASSUME NEW lines \in Seq(P)
        PROVE  /\ TakeLines(s, lines) \in Takings(S) /\ Good(TakeLines(s, lines))
               /\ Kept(TakeLines(s, lines).queries, TakeLines(s, lines).pending)
                      = Joined(kept, Without(FlattenSeq(lines), NewLine))
    BY <1>8
  <2>2. QED
    BY <1>1, <1>3, <2>1

\* A text without a symbol is without it.
LEMMA WithoutTwice ==
    ASSUME NEW S, NEW symbol
    PROVE  \A text \in Seq(S) : Without(Without(text, symbol), symbol) = Without(text, symbol)
<1> DEFINE T == {text \in Seq(S) : Without(Without(text, symbol), symbol) = Without(text, symbol)}
<1>1. SequenceLaws(S)
    BY SequencesHaveLaws
<1>2. <<>> \in T
    BY <1>1, WithoutAppend DEF SequenceLaws, Closed
<1>3. ASSUME NEW text \in Seq(S), NEW x \in S, text \in T PROVE Extended(text, x) \in T
  <2>1. PICK rest \in Seq(S) : rest = Without(text, symbol)
    BY WithoutAppend
  <2>2. Without(Extended(text, x), symbol) = KeptNext(rest, x, symbol)
    BY <2>1, WithoutAppend
  <2>3. Without(rest, symbol) = rest
    BY <1>3, <2>1
  <2>4. Without(Extended(rest, x), symbol) = KeptNext(rest, x, symbol)
    BY <2>3, WithoutAppend
  <2>5. Without(KeptNext(rest, x, symbol), symbol) = KeptNext(rest, x, symbol)
    BY <2>3, <2>4 DEF KeptNext
  <2>6. Extended(text, x) \in Seq(S)
    BY <1>1 DEF SequenceLaws, Closed
  <2>7. QED
    BY <2>2, <2>5, <2>6
<1>4. Seq(S) \subseteq T
  <2> HIDE DEF T
  <2>1. QED
    BY <1>2, <1>3, SequencesByAppend
<1>5. QED
    BY <1>4

\* The lines of a text hold no line break, and all else of the text.
LEMMA LinesTogether ==
    ASSUME NEW S, NEW text \in Seq(S)
    PROVE  /\ Lines(text) \in Seq(Seq(Plain(S)))
           /\ FlattenSeq(Lines(text)) = Without(text, NewLine)
<1>1. PICK P : P = Plain(S)
    OBVIOUS
<1>2. P \subseteq S /\ P = S \ {NewLine} /\ Seq(P) \subseteq Seq(S) /\ Seq(Seq(P)) \subseteq Seq(Seq(S))
    BY <1>1, PlainIs, SeqMonotonic
<1>3. PICK split : split = Split(text, NewLine)
    OBVIOUS
<1>4. PICK ended : ended = split.ended
    OBVIOUS
<1>5. PICK last : last = split.last
    OBVIOUS
<1>6. ended \in Seq(Seq(P)) /\ last \in Seq(P)
  <2>1. split \in Splitting(P)
    BY <1>2, <1>3, SplitTyped
  <2>2. QED
    BY <1>4, <1>5, <2>1 DEF Splitting
<1>7. Lines(text) = IF last = <<>> THEN ended ELSE Extended(ended, last)
    BY <1>3, <1>4, <1>5, Zenon DEF Lines, Extended
<1>8. Extended(ended, last) \in Seq(Seq(P))
    BY <1>6, SequencesHaveLaws DEF SequenceLaws, Closed
<1>9. Pieces(text, NewLine) = Extended(ended, last)
    BY <1>3, <1>4, <1>5, SplitFields
<1>10. FlattenSeq(Extended(ended, last)) = Without(text, NewLine)
    BY <1>9, PiecesTogether
<1>11. ASSUME last = <<>> PROVE FlattenSeq(ended) = FlattenSeq(Extended(ended, last))
  <2>1. PICK flat \in Seq(P) : flat = FlattenSeq(ended)
    BY <1>6, FlattenItems
  <2>2. FlattenSeq(Extended(ended, last)) = Joined(flat, last)
    BY <1>6, <2>1, FlattenAppend
  <2>3. Joined(flat, <<>>) = flat
    BY <2>1, SequencesHaveLaws DEF SequenceLaws, EmptyIsUnit
  <2>4. QED
    BY <1>11, <2>1, <2>2, <2>3
<1>12. QED
    BY <1>1, <1>6, <1>7, <1>8, <1>10, <1>11

\* What is complete is taken, and nothing is lost by it.
LEMMA TakeCompleteGood ==
    ASSUME NEW S, NEW s \in Takings(S), Good(s), NEW next, next = TakeComplete(s)
    PROVE  /\ next \in Takings(S) /\ Good(next)
           /\ next.pending # <<>> => NeedsMoreInput(next.pending)
           /\ Kept(next.queries, next.pending) = Kept(s.queries, s.pending)
<1>1. PICK text \in Seq(S) : text = s.pending
    BY TakingTyped
<1>2. PICK queries \in Seq(Seq(S)) : queries = s.queries
    BY TakingTyped
<1>3. s = Taking(text, queries) /\ Waits(text) /\ AllRecalled(queries)
    BY <1>1, <1>2, TakingTyped DEF Good
<1>4. CASE NeedsMoreInput(text)
  <2>1. next = s
    BY <1>3, <1>4, TakeCompleteIs
  <2>2. QED
    BY <1>1, <1>4, <2>1
<1>5. CASE ~NeedsMoreInput(text)
  <2>1. PICK done : done = Queued(queries, Trimmed(text))
    OBVIOUS
  <2>2. done \in Seq(Seq(S)) /\ AllRecalled(done) /\ Without(FlattenSeq(done), NewLine) = Kept(queries, text)
    BY <1>3, <1>5, <2>1, QueuedGood
  <2>3. PICK empty : empty = <<>>
    OBVIOUS
  <2>4. next = Taking(empty, done)
    BY <1>3, <1>5, <2>1, <2>3, TakeCompleteIs
  <2>5. next.pending = empty /\ next.queries = done
    BY <2>4, TakingFields
  <2>6. empty \in Seq(S) /\ Without(empty, NewLine) = empty
    BY <2>3, SequencesHaveLaws, WithoutAppend DEF SequenceLaws, Closed
  <2>7. next \in Takings(S)
    BY <2>2, <2>4, <2>6, TakingTyped
  <2>8. PICK whole : whole = Without(FlattenSeq(done), NewLine)
    OBVIOUS
  <2>9. whole \in Seq(S)
    BY <2>2, <2>8, KeptOfQueries
  <2>10. Joined(whole, empty) = whole
    BY <2>3, <2>9, SequencesHaveLaws DEF SequenceLaws, EmptyIsUnit
  <2>11. Kept(done, empty) = whole
    BY <2>6, <2>8, <2>10 DEF Kept
  <2>12. Good(next)
    BY <2>2, <2>3, <2>5 DEF Good, Waits
  <2>13. QED
    BY <1>1, <1>2, <2>2, <2>3, <2>5, <2>7, <2>8, <2>11, <2>12
<1>6. QED
    BY <1>4, <1>5

\* An input is kept behind what was pending.
LEMMA InputGood ==
    ASSUME NEW S, NewLine \in S, NEW text \in Seq(S), Waits(text), NEW input \in Seq(S),
           NEW result, result = CompleteInputs(text, input)
    PROVE  /\ result \in Takings(S) /\ Good(result)
           /\ result.pending # <<>> => NeedsMoreInput(result.pending)
           /\ Kept(result.queries, result.pending) = Joined(Without(text, NewLine), Without(input, NewLine))
<1>1. PICK empty : empty = <<>>
    OBVIOUS
<1>2. empty \in Seq(S) /\ empty \in Seq(Seq(S)) /\ AllRecalled(empty)
    BY <1>1, SequencesHaveLaws, RecalledTogether DEF SequenceLaws, Closed
<1>3. PICK s : s = Taking(text, empty)
    OBVIOUS
<1>4. s.pending = text /\ s.queries = empty
    BY <1>3, TakingFields
<1>5. s \in Takings(S)
    BY <1>2, <1>3, TakingTyped
<1>6. Good(s)
    BY <1>2, <1>4 DEF Good
<1>7. Kept(s.queries, s.pending) = Without(text, NewLine)
  <2>1. Without(FlattenSeq(empty), NewLine) = empty
    BY <1>1, FlattenEmpty, WithoutAppend
  <2>2. PICK wText \in Seq(S) : wText = Without(text, NewLine)
    BY WithoutAppend
  <2>3. Joined(empty, wText) = wText
    BY <1>1, SequencesHaveLaws DEF SequenceLaws, EmptyIsUnit
  <2>4. QED
    BY <1>4, <2>1, <2>2, <2>3 DEF Kept
<1>8. PICK lines : lines = Lines(input)
    OBVIOUS
<1>9. lines \in Seq(Seq(Plain(S))) /\ FlattenSeq(lines) = Without(input, NewLine)
    BY <1>8, LinesTogether
<1>10. PICK before : before = TakeLines(s, lines)
    OBVIOUS
<1>11. /\ before \in Takings(S) /\ Good(before)
       /\ Kept(before.queries, before.pending)
              = Joined(Kept(s.queries, s.pending), Without(FlattenSeq(lines), NewLine))
    BY <1>5, <1>6, <1>9, <1>10, TakeLinesGood
<1>12. result = TakeComplete(before)
    BY <1>1, <1>3, <1>8, <1>10 DEF CompleteInputs
<1>13. Without(FlattenSeq(lines), NewLine) = Without(input, NewLine)
    BY <1>9, WithoutTwice
<1>14. QED
    BY <1>7, <1>11, <1>12, <1>13, TakeCompleteGood

-----------------------------------------------------------------------------
\* Whatever is typed

\* The symbols that can be typed.
Symbols ==
    (UNION {k.alphabet : k \in Keyboards}) \cup (UNION {ToSet(k.beginning) : k \in Keyboards}) \cup {NewLine}

TextsTyped ==
    /\ keyboard \in Keyboards \cup {NoKeyboard}
    /\ editing \in Seq(Symbols) /\ pending \in Seq(Symbols) /\ entered \in Seq(Symbols)
    /\ taken \in Seq(Seq(Symbols))

\* Pending text can be taken again from its beginning, and everything entered is kept.
PromptInv ==
    /\ TextsTyped
    /\ Waits(pending) /\ (pending # <<>> => NeedsMoreInput(pending))
    /\ AllRecalled(taken)
    /\ Kept(taken, pending) = Without(entered, NewLine)

\* What a text begins with, and every key, is of these symbols.
LEMMA SymbolsTyped ==
    /\ NewLine \in Symbols
    /\ \A k \in Keyboards \cup {NoKeyboard} : k.beginning \in Seq(Symbols) /\ k.alphabet \subseteq Symbols
<1>1. NewLine \in Symbols
    BY DEF Symbols
<1>2. ASSUME NEW k \in Keyboards PROVE k.beginning \in Seq(Symbols) /\ k.alphabet \subseteq Symbols
  <2>1. k.beginning \in Seq(ToSet(k.beginning))
    BY KeyboardsAssumption
  <2>2. ToSet(k.beginning) \subseteq Symbols
    <3>1. ToSet(k.beginning) \in {ToSet(j.beginning) : j \in Keyboards}
      OBVIOUS
    <3>2. QED
      BY ONLY <3>1 DEF Symbols
  <2>3. k.alphabet \subseteq Symbols
    <3>1. k.alphabet \in {j.alphabet : j \in Keyboards}
      OBVIOUS
    <3>2. QED
      BY ONLY <3>1 DEF Symbols
  <2>4. QED
    BY <2>1, <2>2, <2>3, SeqMonotonic
<1>3. NoKeyboard.beginning \in Seq(Symbols) /\ NoKeyboard.alphabet \subseteq Symbols
  <2>1. NoKeyboard.beginning = <<>> /\ NoKeyboard.alphabet = {}
    BY DEF NoKeyboard
  <2>2. QED
    BY <2>1, SequencesHaveLaws DEF SequenceLaws, Closed
<1>4. QED
    BY <1>1, <1>2, <1>3

\* It holds before anything is typed,
LEMMA PromptInit == TypingInit(Keyboards \cup {NoKeyboard}) => PromptInv
<1> SUFFICES ASSUME TypingInit(Keyboards \cup {NoKeyboard}) PROVE PromptInv
    OBVIOUS
<1>1. /\ keyboard \in Keyboards \cup {NoKeyboard} /\ editing = keyboard.beginning
      /\ pending = <<>> /\ taken = <<>> /\ entered = <<>>
    BY DEF TypingInit
<1>2. PICK empty : empty = <<>>
    OBVIOUS
<1>3. empty \in Seq(Symbols) /\ empty \in Seq(Seq(Symbols))
    BY <1>2, SequencesHaveLaws DEF SequenceLaws, Closed
<1>4. TextsTyped
    BY <1>1, <1>2, <1>3, SymbolsTyped DEF TextsTyped
<1>5. Waits(empty) /\ AllRecalled(empty)
    BY <1>2, RecalledTogether DEF Waits
<1>6. Without(FlattenSeq(empty), NewLine) = empty /\ Without(empty, NewLine) = empty
    BY <1>2, FlattenEmpty, WithoutAppend
<1>7. Joined(empty, empty) = empty
    BY <1>2, <1>3, SequencesHaveLaws DEF SequenceLaws, EmptyIsUnit
<1>8. Kept(empty, empty) = empty
    BY <1>6, <1>7 DEF Kept
<1>9. QED
    BY <1>1, <1>2, <1>4, <1>5, <1>6, <1>8 DEF PromptInv

\* a key changes only the text being typed,
LEMMA PromptType ==
    ASSUME PromptInv, NEW symbol \in keyboard.alphabet, Type(symbol)
    PROVE  PromptInv'
<1>1. UNCHANGED <<keyboard, pending, taken, entered>> /\ editing' = Extended(editing, symbol)
    BY DEF Type, Extended
<1>2. symbol \in Symbols
    BY SymbolsTyped DEF PromptInv, TextsTyped
<1>3. Extended(editing, symbol) \in Seq(Symbols)
    BY <1>2, SequencesHaveLaws DEF SequenceLaws, Closed, PromptInv, TextsTyped
<1>4. TextsTyped'
    BY <1>1, <1>3 DEF PromptInv, TextsTyped
<1>5. QED
    BY <1>1, <1>4 DEF PromptInv

\* and Enter takes what is complete and keeps the rest.
LEMMA PromptEnter ==
    ASSUME PromptInv, Enter
    PROVE  PromptInv'
<1>1. PICK S : S = Symbols
    OBVIOUS
<1>2. SequenceLaws(S) /\ SequenceLaws(Seq(S)) /\ NewLine \in S
    BY <1>1, SequencesHaveLaws, SymbolsTyped
<1>3. PICK text \in Seq(S) : text = pending
    BY <1>1 DEF PromptInv, TextsTyped
<1>4. PICK line \in Seq(S) : line = editing
    BY <1>1 DEF PromptInv, TextsTyped
<1>5. PICK old \in Seq(S) : old = entered
    BY <1>1 DEF PromptInv, TextsTyped
<1>6. PICK queries \in Seq(Seq(S)) : queries = taken
    BY <1>1 DEF PromptInv, TextsTyped
<1>7. Waits(text) /\ AllRecalled(queries) /\ Kept(queries, text) = Without(old, NewLine)
    BY <1>3, <1>5, <1>6 DEF PromptInv
<1>8. PICK result : result = CompleteInputs(text, line)
    OBVIOUS
<1>9. /\ result \in Takings(S) /\ Good(result)
      /\ result.pending # <<>> => NeedsMoreInput(result.pending)
      /\ Kept(result.queries, result.pending) = Joined(Without(text, NewLine), Without(line, NewLine))
    BY <1>2, <1>7, <1>8, InputGood
<1>10. PICK rest \in Seq(S) : rest = result.pending
    BY <1>9, TakingTyped
<1>11. PICK more \in Seq(Seq(S)) : more = result.queries
    BY <1>9, TakingTyped
<1>12. PICK all : all = Joined(queries, more)
    OBVIOUS
<1>13. PICK whole : whole = Joined(old, line)
    OBVIOUS
<1>14. PICK longer : longer = Extended(whole, NewLine)
    OBVIOUS
<1>15. all \in Seq(Seq(S)) /\ whole \in Seq(S) /\ longer \in Seq(S)
    BY <1>2, <1>12, <1>13, <1>14 DEF SequenceLaws, Closed
<1>16. /\ UNCHANGED keyboard /\ editing' = <<>> /\ pending' = rest /\ taken' = all
       /\ entered' = whole \o <<NewLine>>
    BY <1>3, <1>4, <1>5, <1>6, <1>8, <1>10, <1>11, <1>12, <1>13 DEF Enter, Joined
<1>17. entered' = longer
  <2>1. PICK newLine \in S : newLine = NewLine
    BY <1>2
  <2>2. Append(whole, newLine) = whole \o <<newLine>>
    BY <1>15, <2>1, AppendIsConcat
  <2>3. QED
    BY <1>14, <1>16, <2>1, <2>2 DEF Extended
<1>18. TextsTyped'
  <2>1. editing' \in Seq(S)
    BY <1>2, <1>16 DEF SequenceLaws, Closed
  <2>2. QED
    BY <1>1, <1>15, <1>16, <1>17, <2>1 DEF PromptInv, TextsTyped
<1>19. Waits(rest) /\ AllRecalled(more) /\ (rest # <<>> => NeedsMoreInput(rest))
    BY <1>9, <1>10, <1>11 DEF Good
<1>20. AllRecalled(all)
    BY <1>7, <1>12, <1>19, RecalledTogether
<1>21. Kept(all, rest) = Without(longer, NewLine)
  <2>1. PICK a \in Seq(S) : a = Without(FlattenSeq(queries), NewLine)
    BY KeptOfQueries
  <2>2. PICK b \in Seq(S) : b = Without(FlattenSeq(more), NewLine)
    BY KeptOfQueries
  <2>3. PICK c \in Seq(S) : c = Without(rest, NewLine)
    BY WithoutAppend
  <2>4. PICK wText \in Seq(S) : wText = Without(text, NewLine)
    BY WithoutAppend
  <2>5. PICK wLine \in Seq(S) : wLine = Without(line, NewLine)
    BY WithoutAppend
  <2>6. PICK wOld \in Seq(S) : wOld = Without(old, NewLine)
    BY WithoutAppend
  <2>7. Without(FlattenSeq(all), NewLine) = Joined(a, b)
    <3>1. PICK x \in Seq(S) : x = FlattenSeq(queries)
      BY FlattenItems
    <3>2. PICK y \in Seq(S) : y = FlattenSeq(more)
      BY FlattenItems
    <3>3. FlattenSeq(all) = Joined(x, y)
      BY <1>12, <3>1, <3>2, FlattenConcat
    <3>4. QED
      BY <2>1, <2>2, <3>1, <3>2, <3>3, WithoutConcat
  <2>8. Kept(all, rest) = Joined(Joined(a, b), c)
    BY <2>3, <2>7 DEF Kept
  <2>9. Joined(b, c) = Joined(wText, wLine)
    BY <1>9, <1>10, <1>11, <2>2, <2>3, <2>4, <2>5 DEF Kept
  <2>10. Joined(a, wText) = wOld
    BY <1>7, <2>1, <2>4, <2>6 DEF Kept
  <2>11. Joined(Joined(a, b), c) = Joined(a, Joined(b, c))
         /\ Joined(Joined(a, wText), wLine) = Joined(a, Joined(wText, wLine))
    BY <1>2 DEF SequenceLaws, Associative
  <2>12. Without(whole, NewLine) = Joined(wOld, wLine)
    BY <1>13, <2>5, <2>6, WithoutConcat
  <2>13. Without(longer, NewLine) = Without(whole, NewLine)
    BY <1>2, <1>14, <1>15, WithoutAppend DEF KeptNext
  <2>14. QED
    BY <2>8, <2>9, <2>10, <2>11, <2>12, <2>13
<1>22. QED
    BY <1>16, <1>17, <1>18, <1>19, <1>20, <1>21 DEF PromptInv

\* What the invariant says of recalling queries is what the property says.
LEMMA PromptInvIsEnough ==
    ASSUME PromptInv
    PROVE  PromptKeepsText
<1>1. PICK S : S = Symbols
    OBVIOUS
<1>2. pending \in Seq(S) /\ taken \in Seq(Seq(S))
    BY <1>1 DEF PromptInv, TextsTyped
<1>3. OnlyPendingIsIncomplete /\ HistoryRepeats
    BY DEF PromptInv, AllRecalled, Recalled, OnlyPendingIsIncomplete, HistoryRepeats
<1>4. PICK flat \in Seq(S) : flat = FlattenSeq(taken)
    BY <1>2, FlattenItems
<1>5. Without(Joined(flat, pending), NewLine) = Kept(taken, pending)
    BY <1>2, <1>4, WithoutConcat DEF Kept
<1>6. NothingIsLost
    BY <1>4, <1>5 DEF PromptInv, NothingIsLost, Joined
<1>7. QED
    BY <1>3, <1>6 DEF PromptKeepsText

\* However a text is typed, divided into inputs and recalled, the prompt takes the same
\* queries out of it, once each and whole (complete_repl_inputs).
THEOREM PromptKeepsEverything == TypingSpec => []PromptKeepsText
<1>1. TypingInit(Keyboards \cup {NoKeyboard}) => PromptInv
    BY PromptInit
<1>2. PromptInv /\ [TypeOrEnter]_typingVars => PromptInv'
  <2> SUFFICES ASSUME PromptInv, [TypeOrEnter]_typingVars PROVE PromptInv'
      OBVIOUS
  <2>1. ASSUME NEW symbol \in keyboard.alphabet, Type(symbol) PROVE PromptInv'
    BY <2>1, PromptType
  <2>2. CASE Enter
    BY <2>2, PromptEnter
  <2>3. CASE UNCHANGED typingVars
    BY <2>3 DEF typingVars, PromptInv, TextsTyped
  <2>4. QED
    BY <2>1, <2>2, <2>3 DEF TypeOrEnter
<1>3. PromptInv => PromptKeepsText
    BY PromptInvIsEnough
<1>4. QED
    BY <1>1, <1>2, <1>3, PTL DEF TypingSpec

=============================================================================
