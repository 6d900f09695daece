------------------------------- MODULE Syntax -------------------------------
(***************************************************************************)
(* Expressions as the parser makes them (src/parser/ast.h) and the nodes   *)
(* of a plan (src/planner/logical_plan.h), records that other modules      *)
(* evaluate, translate and run.  A kind or op says which other fields      *)
(* there are.                                                              *)
(***************************************************************************)
EXTENDS Integers

Literal(v) == [kind |-> "LITERAL", value |-> v]
Column(name) == [kind |-> "COLUMN_REF", column |-> name]
Binary(op, l, r) == [kind |-> "BINARY", op |-> op, left |-> l, right |-> r]
Unary(op, e) == [kind |-> "UNARY", op |-> op, operand |-> e]
IsNull(e, negated) == [kind |-> "IS_NULL", operand |-> e, is_not |-> negated]
In(e, items, negated) == [kind |-> "IN", left |-> e, list |-> items, is_not |-> negated]
Between(e, lo, hi, negated) ==
  [kind |-> "BETWEEN", expr |-> e, low |-> lo, high |-> hi, is_not |-> negated]
Like(e, pat, negated) == [kind |-> "LIKE", expr |-> e, pattern |-> pat, is_not |-> negated]
Call(function, args) == [kind |-> "FUNCTION_CALL", name |-> function, args |-> args]
Subquery == [kind |-> "SUBQUERY"]

\* The null pointers: no tuple to evaluate over, no condition, no plan.
NoTuple == <<>>
NoExpr == [kind |-> "NONE"]
NoPlan == [op |-> "NONE"]

Node(op, arg, children) == [op |-> op, arg |-> arg, children |-> children]
=============================================================================
