----------------------------- MODULE ValueCalls -----------------------------
(***************************************************************************)
(* A caller hands values to the functions of src/storage/value.c, as sort, *)
(* MIN and MAX, the B+ tree, the arithmetic operators and INSERT do.       *)
(***************************************************************************)
EXTENDS Values

CONSTANT Samples     \* the values compared, added and cast

ASSUME SamplesAssumption == Samples \subseteq AllValues

VARIABLE values      \* three values handed over, or none

Hand == values = <<>> /\ values' \in Samples \X Samples \X Samples

ValuesInit == values = <<>>
ValuesSpec == ValuesInit /\ [][Hand]_values

-----------------------------------------------------------------------------
(* Properties *)

\* Values whose order the functions of value.c are meant to know: of types
\* that go together, and integers that are met by floats are exact doubles.
Ordered(u, v) ==
  /\ Comparable(u, v)
  /\ Numeric(u) /\ Numeric(v) /\ Type(u) # Type(v) => \A x \in {u, v} : Type(x) = "INTEGER" => Exact(Val(x))

\* Sorting, MIN and MAX and the B+ tree keys rely on value_compare being an
\* order: antisymmetric and transitive on values of one type and on NULL; on
\* integers and floats together as long as the integers are exact doubles.
ComparesInOrder ==
  values # <<>> =>
    LET u == values[1]
        v == values[2]
        w == values[3]
        cmp(x, y) == Sign(value_compare(x, y))
    IN Ordered(u, v) /\ Ordered(v, w) /\ Ordered(u, w) =>
         /\ cmp(u, v) = -cmp(v, u)
         /\ cmp(u, v) <= 0 /\ cmp(v, w) <= 0 => cmp(u, w) <= 0
         /\ cmp(u, v) = 0 /\ cmp(v, w) <= 0 => cmp(u, w) = cmp(v, w)

\* Integer arithmetic goes through doubles and still is exact, modulo the
\* width of the integers, while the operands are exact as doubles.
IntegersAddExactly ==
  values # <<>> =>
    LET u == values[1]
        v == values[2]
    IN Type(u) = "INTEGER" /\ Type(v) = "INTEGER" /\ Exact(Val(u)) /\ Exact(Val(v)) =>
         /\ value_add(u, v) = Integer(Wrapped(Val(u) + Val(v)))
         /\ value_sub(u, v) = Integer(Wrapped(Val(u) - Val(v)))
         /\ value_mul(u, v) = Integer(Wrapped(Val(u) * Val(v)))

\* A value that INSERT casts and a later cast takes back is unchanged: every
\* integer as a text, and an exact one as a float; a Boolean as an integer.
CastsBack ==
  values # <<>> =>
    LET v == values[1]
        through(type) == value_cast_to(value_cast_to(v, type), Type(v))
    IN /\ Type(v) = "INTEGER" => through("VARCHAR") = v
       /\ Type(v) = "INTEGER" /\ Exact(Val(v)) => through("FLOAT") = v
       /\ Type(v) = "BOOLEAN" => through("INTEGER") = v

\* Both of it: what value.c computes with numbers, it computes exactly.
ValuesExact == IntegersAddExactly /\ CastsBack
=============================================================================
