---------------------------- MODULE SqlSemantics ----------------------------
(***************************************************************************)
(* What SQL says, as a reference for modules Expressions and Executors:    *)
(* expressions in three-valued logic over mathematical integers, and       *)
(* queries by what their answers contain, not by how they are found.       *)
(* Regular says of an expression and a row that the evaluator means to     *)
(* implement it; the cases it leaves out are where the code differs.       *)
(***************************************************************************)
EXTENDS Executors

True == Boolean(TRUE)
False == Boolean(FALSE)
TruthValues == {True, False, Null}

Rank(t) == IF t = True THEN 2 ELSE IF t = False THEN 0 ELSE 1
Least(ts) == CHOOSE t \in ts : \A u \in ts : Rank(t) <= Rank(u)
Greatest(ts) == CHOOSE t \in ts : \A u \in ts : Rank(t) >= Rank(u)
Opposite(t) == IF t = True THEN False ELSE IF t = False THEN True ELSE Null

\* The order of each type: texts by their first difference, FALSE before TRUE.
Before(s, t) ==
  \E n \in 0 .. Len(s) : /\ n < Len(t) /\ SubSeq(s, 1, n) = SubSeq(t, 1, n)
                         /\ n = Len(s) \/ s[n + 1] < t[n + 1]
Precedes(v, w) ==
  CASE Type(v) = "VARCHAR" -> Before(Val(v), Val(w))
    [] Type(v) = "BOOLEAN" -> ~Val(v) /\ Val(w)
    [] OTHER -> LET p == IF Type(v) = "INTEGER" THEN <<Val(v), 1>> ELSE Val(v)
                    q == IF Type(w) = "INTEGER" THEN <<Val(w), 1>> ELSE Val(w)
                IN p[1] * q[2] < q[1] * p[2]

SqlCompared(op, v, w) ==
  IF Null \in {v, w} THEN Null
  ELSE Boolean(CASE op = "<" -> Precedes(v, w)
                 [] op = ">" -> Precedes(w, v)
                 [] op = "<=" -> ~Precedes(w, v)
                 [] op = ">=" -> ~Precedes(v, w)
                 [] op = "=" -> ~Precedes(v, w) /\ ~Precedes(w, v)
                 [] op = "<>" -> Precedes(v, w) \/ Precedes(w, v))

Arithmetic == {"+", "-", "*", "/"}
SqlArithmetic(op, v, w) ==
  IF Null \in {v, w} THEN Null
  ELSE CASE op = "+" -> Integer(Val(v) + Val(w))
         [] op = "-" -> Integer(Val(v) - Val(w))
         [] op = "*" -> Integer(Val(v) * Val(w))
         [] op = "/" -> IF Val(w) = 0 THEN Error(DB_INVALID_ARGUMENT)
                        ELSE Integer(CHOOSE n \in MinInt .. MaxInt :
                               LET rest == Val(v) - n * Val(w)
                               IN Abs(rest) < Abs(Val(w)) /\ (rest = 0 \/ Sign(rest) = Sign(Val(v))))

Underscore == 95

\* "%" stands for any text, "_" for any one character.
SqlLike(s, pat) ==
  LET match[i \in 1 .. Len(s) + 1, j \in 1 .. Len(pat) + 1] ==
        IF j > Len(pat) THEN i > Len(s)
        ELSE IF pat[j] = Percent THEN \E k \in i .. Len(s) + 1 : match[k, j + 1]
        ELSE i <= Len(s) /\ pat[j] \in {Underscore, s[i]} /\ match[i + 1, j + 1]
  IN match[1, 1]

\* The value of an expression for a row.
RECURSIVE SqlValue(_, _, _)
SqlValue(e, row, schema) ==
  LET value(x) == SqlValue(x, row, schema)
      polarity(t) == IF e.is_not THEN Opposite(t) ELSE t
  IN CASE e.kind = "LITERAL" -> e.value
       [] e.kind = "COLUMN_REF" -> row[CHOOSE i \in DOMAIN schema : schema[i].name = e.column]
       [] e.kind = "BINARY" ->
            LET v == value(e.left)
                w == value(e.right)
            IN IF Fails(v) THEN v ELSE IF Fails(w) THEN w
               ELSE CASE e.op = "AND" -> Least({v, w})
                      [] e.op = "OR" -> Greatest({v, w})
                      [] e.op \in Arithmetic -> SqlArithmetic(e.op, v, w)
                      [] OTHER -> SqlCompared(e.op, v, w)
       [] e.kind = "UNARY" ->
            LET v == value(e.operand)
            IN IF Fails(v) THEN v ELSE IF e.op = "NOT" THEN Opposite(v) ELSE SqlArithmetic("-", Integer(0), v)
       [] e.kind = "IS_NULL" -> polarity(Boolean(value(e.operand) = Null))
       [] e.kind = "IN" ->
            polarity(Greatest({False} \cup
              {SqlCompared("=", value(e.left), value(e.list[i])) : i \in DOMAIN e.list}))
       [] e.kind = "BETWEEN" ->
            polarity(Least({SqlCompared("<=", value(e.low), value(e.expr)),
                            SqlCompared("<=", value(e.expr), value(e.high))}))
       [] e.kind = "LIKE" ->
            IF value(e.expr) = Null THEN Null
            ELSE polarity(Boolean(SqlLike(Val(value(e.expr)), e.pattern)))

-----------------------------------------------------------------------------
(* Where the evaluator is meant to agree *)

\* value_compare of two texts that differ by more than one, the first being
\* the lower, is taken for an error by the comparison operators.
Misread(v, w) == Type(v) = "VARCHAR" /\ Type(w) = "VARCHAR" /\ strcmp(Val(v), Val(w)) < -1

\* An integer beside a float is compared as the double nearest to it.
Rounds(v, w) == {Type(v), Type(w)} = {"INTEGER", "FLOAT"}
                /\ \E x \in {v, w} : Type(x) = "INTEGER" /\ ~Exact(Val(x))

\* "_" is no wildcard to the code, nor is "%" but at both ends.
RegularPattern(pat) ==
  LET wild == {i \in DOMAIN pat : pat[i] = Percent}
  IN /\ Underscore \notin ToSet(pat)
     /\ wild = {} \/ (wild = {1, Len(pat)} /\ Len(pat) > 1)

RECURSIVE Regular(_, _, _)
Regular(e, row, schema) ==
  LET value(x) == SqlValue(x, row, schema)
      fine(x) == Regular(x, row, schema)
      comparable(x, y) == /\ Comparable(value(x), value(y)) /\ ~Rounds(value(x), value(y))
                          /\ ~Fails(value(x)) /\ ~Fails(value(y))
  IN CASE e.kind = "LITERAL" -> TRUE
       [] e.kind = "COLUMN_REF" -> \E i \in DOMAIN schema : schema[i].name = e.column
       [] e.kind = "BINARY" ->
            /\ fine(e.left) /\ fine(e.right)
            /\ CASE e.op \in {"AND", "OR"} -> {value(e.left), value(e.right)} \subseteq TruthValues
                 [] e.op \in Arithmetic ->
                      /\ \A x \in {value(e.left), value(e.right)} :
                           x = Null \/ (Type(x) = "INTEGER" /\ Exact(Val(x)))
                      /\ LET r == SqlArithmetic(e.op, value(e.left), value(e.right))
                         IN Type(r) = "INTEGER" => Val(r) \in MinInt .. MaxInt
                 [] OTHER -> comparable(e.left, e.right) /\ ~Misread(value(e.left), value(e.right))
       [] e.kind = "UNARY" ->
            /\ fine(e.operand)
            /\ IF e.op = "NOT" THEN value(e.operand) \in TruthValues
               ELSE value(e.operand) = Null \/ (Type(value(e.operand)) = "INTEGER" /\ Val(value(e.operand)) # MinInt)
       [] e.kind = "IS_NULL" -> fine(e.operand) /\ ~Fails(value(e.operand))
       [] e.kind = "IN" ->
            /\ fine(e.left)
            /\ \A i \in DOMAIN e.list : /\ fine(e.list[i]) /\ comparable(e.left, e.list[i])
                                        /\ value(e.list[i]) # Null
            /\ e.list # <<>>
       [] e.kind = "BETWEEN" ->
            /\ fine(e.expr) /\ fine(e.low) /\ fine(e.high)
            /\ comparable(e.expr, e.low) /\ comparable(e.expr, e.high)
            /\ Null \in {value(e.expr), value(e.low), value(e.high)} =>
                 value(e.expr) = Null \/ (value(e.low) = Null /\ value(e.high) = Null)
       [] e.kind = "LIKE" ->
            /\ fine(e.expr) /\ Type(value(e.expr)) \in {"NULL", "VARCHAR"}
            /\ RegularPattern(e.pattern)
       [] OTHER -> FALSE
=============================================================================
