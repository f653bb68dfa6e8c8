------------------------------ MODULE NullLogic ------------------------------
(***************************************************************************)
(* Null, here None, and three-valued truth: the same in SQLite and in the  *)
(* query language, whose specification delegates them to SQLite.           *)
(***************************************************************************)
EXTENDS SchemaCatalog, Integers

Truth(b) == IF b THEN "true" ELSE "false"

Not3(t) == CASE t = "true" -> "false" [] t = "false" -> "true" [] OTHER -> "unknown"

And3(s, t) ==
    IF s = "false" \/ t = "false" THEN "false"
    ELSE IF s = "true" /\ t = "true" THEN "true" ELSE "unknown"

Or3(s, t) == Not3(And3(Not3(s), Not3(t)))

\* Strings and ids are compared with = and != only.
Compare3(left, op, right) ==
    IF left = None \/ right = None THEN "unknown"
    ELSE CASE op = "="  -> Truth(left = right)
           [] op = "!=" -> Truth(left # right)
           [] op = "<"  -> Truth(left < right)
           [] op = "<=" -> Truth(left <= right)
           [] op = ">"  -> Truth(left > right)
           [] op = ">=" -> Truth(left >= right)

\* Nothing is a member of the empty collection, not even null.
Member3(value, items) ==
    IF items = {} THEN "false"
    ELSE IF value = None THEN "unknown"
    ELSE IF value \in items THEN "true"
    ELSE IF None \in items THEN "unknown" ELSE "false"

\* Integer division truncates toward zero.
Magnitude(n) == IF n < 0 THEN -n ELSE n
Quotient(a, b) ==
    LET q == Magnitude(a) \div Magnitude(b) IN IF (a < 0) = (b < 0) THEN q ELSE -q

Arithmetic(op, a, b) ==
    IF a = None \/ b = None THEN None
    ELSE CASE op = "+" -> a + b
           [] op = "-" -> a - b
           [] op = "*" -> a * b
           [] op = "/" -> IF b = 0 THEN None ELSE Quotient(a, b)
           [] op = "%" -> IF b = 0 THEN None ELSE a - b * Quotient(a, b)

Negated(a) == IF a = None THEN None ELSE -a

\* i64, f64 and str of the values of an instance, integers and strings apart,
\* keep them; concat joins strings.
Applied(name, args) ==
    IF \E i \in DOMAIN args : args[i] = None THEN None
    ELSE IF name = "concat" THEN FoldLeft(LAMBDA a, b : a \o b, "", args) ELSE args[1]

\* Null sorts before every value.
Less(a, b) == IF a = None THEN b # None ELSE b # None /\ a < b

\* Keys are sequences of values; desc says of each position that it is reversed.
Precedes(left, right, desc) ==
    \E i \in DOMAIN desc :
        /\ IF desc[i] THEN Less(right[i], left[i]) ELSE Less(left[i], right[i])
        /\ \A j \in 1 .. i - 1 : left[j] = right[j]

=============================================================================
