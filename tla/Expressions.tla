---------------------------- MODULE Expressions ----------------------------
(***************************************************************************)
(* expr_evaluate of src/executor/expr_evaluator.c over the values of       *)
(* module Values.  An expression is a record whose kind says which other   *)
(* fields it has; a schema is a sequence of columns [name, type], a tuple  *)
(* a sequence of values.  The empty sequence stands for the null pointer   *)
(* (a tuple has at least one value).                                       *)
(***************************************************************************)
EXTENDS Values, Schema, Syntax

is_truthy(v) ==
  CASE Type(v) = "INTEGER" -> Val(v) # 0
    [] Type(v) = "FLOAT" -> Val(v)[1] # 0
    [] Type(v) = "BOOLEAN" -> Val(v)
    [] Type(v) = "VARCHAR" -> Val(v) # <<>>
    [] OTHER -> FALSE

\* A qualifier ("t.a") plays no part: the column is found by its name alone.
ColumnValue(name, tuple, schema) ==
  LET i == schema_find_column(schema, name)
  IN IF tuple = NoTuple \/ schema = NoSchema THEN Error(DB_INVALID_ARGUMENT)
     ELSE IF i = 0 \/ i > Len(tuple) THEN Error(DB_UNKNOWN_COLUMN)
     ELSE tuple[i]

-----------------------------------------------------------------------------
(* Binary operators on the values of both operands *)

\* Mutant of the next definition: NULL decides.
WithNull_Propagates(op, l, r) == Null

\* One operand at least is NULL: only a Boolean decides AND and OR.
WithNull(op, l, r) ==
  IF op = "AND" /\ Boolean(FALSE) \in {l, r} THEN Boolean(FALSE)
  ELSE IF op = "OR" /\ Boolean(TRUE) \in {l, r} THEN Boolean(TRUE)
  ELSE Null

\* A result below -1 is taken for an error code; the error codes are positive
\* and strcmp answers such a result.
Verdict(op, cmp) ==
  IF cmp < -1 THEN Null
  ELSE Boolean(CASE op = "<" -> cmp < 0
                 [] op = "<=" -> cmp <= 0
                 [] op = ">" -> cmp > 0
                 [] op = ">=" -> cmp >= 0
                 [] op = "=" -> cmp = 0
                 [] op = "<>" -> cmp # 0)

Applied(op, l, r) ==
  IF "NULL" \in {Type(l), Type(r)} THEN WithNull(op, l, r)
  ELSE CASE op = "+" -> value_add(l, r)
         [] op = "-" -> value_sub(l, r)
         [] op = "*" -> value_mul(l, r)
         [] op = "/" -> value_div(l, r)
         [] op = "AND" -> Boolean(is_truthy(l) /\ is_truthy(r))
         [] op = "OR" -> Boolean(is_truthy(l) \/ is_truthy(r))
         [] OTHER -> Verdict(op, value_compare(l, r))

-----------------------------------------------------------------------------
(* The other operators *)

Negated(v) ==
  CASE Type(v) = "INTEGER" -> Integer(Wrapped(-Val(v)))
    [] Type(v) = "FLOAT" -> Float(-Val(v)[1], Val(v)[2])
    [] OTHER -> Null

Not(v) == IF Type(v) = "NULL" THEN Null ELSE Boolean(~is_truthy(v))

Xor(p, q) == p # q

\* Items are evaluated up to the first that is equal; a NULL item is passed over.
FirstMatch(items, stops, negated) ==
  LET stop == CHOOSE i \in stops : \A j \in stops : i <= j
  IN IF stops # {} /\ Fails(items[stop]) THEN items[stop] ELSE Boolean(Xor(stops # {}, negated))
InList(v, items, negated) ==
  IF Type(v) = "NULL" THEN Null
  ELSE FirstMatch(items, {i \in DOMAIN items : \/ Fails(items[i])
                                               \/ Type(items[i]) # "NULL" /\ value_compare(v, items[i]) = 0},
                  negated)

InRange(v, lo, hi, negated) ==
  IF "NULL" \in {Type(v), Type(lo), Type(hi)} THEN Null
  ELSE Boolean(Xor(value_compare(v, lo) >= 0 /\ value_compare(v, hi) <= 0, negated))

Percent == 37
strstr(s, t) == \E i \in 0 .. Len(s) - Len(t) : SubSeq(s, i + 1, i + Len(t)) = t

\* Either "%text%" or no pattern at all.  The pattern "%" is its own first and
\* last character; its inner part has length -1, and copying it kills the process.
Matches(v, pat, negated) ==
  LET str == IF Type(v) = "VARCHAR" THEN Val(v) ELSE <<>>
      infix == pat # <<>> /\ pat[1] = Percent /\ pat[Len(pat)] = Percent
  IN IF Type(v) = "NULL" THEN Null
     ELSE IF pat = <<Percent>> THEN Dies
     ELSE Boolean(Xor(IF infix THEN strstr(str, SubSeq(pat, 2, Len(pat) - 1)) ELSE str = pat, negated))

-----------------------------------------------------------------------------

\* The first of these values that fails, or else the result.
Unless(values, result) ==
  LET failed == {i \in DOMAIN values : Fails(values[i])}
  IN IF failed = {} THEN result ELSE values[CHOOSE i \in failed : \A j \in failed : i <= j]

\* Aggregates and subqueries have no value here.
RECURSIVE expr_evaluate(_, _, _)
expr_evaluate(expr, tuple, schema) ==
  LET eval(e) == expr_evaluate(e, tuple, schema)
  IN CASE expr.kind = "LITERAL" -> expr.value
       [] expr.kind = "COLUMN_REF" -> ColumnValue(expr.column, tuple, schema)
       [] expr.kind = "BINARY" ->
            LET l == eval(expr.left)
                r == eval(expr.right)
            IN Unless(<<l, r>>, Applied(expr.op, l, r))
       [] expr.kind = "UNARY" ->
            LET v == eval(expr.operand)
            IN Unless(<<v>>, IF expr.op = "-" THEN Negated(v) ELSE Not(v))
       [] expr.kind = "IS_NULL" ->
            LET v == eval(expr.operand)
            IN Unless(<<v>>, Boolean(Xor(Type(v) = "NULL", expr.is_not)))
       [] expr.kind = "IN" ->
            LET v == eval(expr.left)
            IN Unless(<<v>>, InList(v, [i \in DOMAIN expr.list |-> eval(expr.list[i])], expr.is_not))
       [] expr.kind = "BETWEEN" ->
            LET v == eval(expr.expr)
                lo == eval(expr.low)
                hi == eval(expr.high)
            IN Unless(<<v, lo, hi>>, InRange(v, lo, hi, expr.is_not))
       [] expr.kind = "LIKE" ->
            LET v == eval(expr.expr)
            IN Unless(<<v>>, Matches(v, expr.pattern, expr.is_not))
       [] OTHER -> Null
=============================================================================
