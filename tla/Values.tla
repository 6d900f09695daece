------------------------------- MODULE Values -------------------------------
(***************************************************************************)
(* The typed values of src/storage/value.c: comparison, arithmetic and     *)
(* casts.  A value is a pair of its type and its content: an integer, a    *)
(* fraction <<n, d>> with d > 0, a sequence of character codes, a Boolean. *)
(* A function that answers with an error code yields a value of type       *)
(* ERROR, one that ends the process a value of type DIES.                  *)
(*                                                                         *)
(* Integers have IntBits bits (64 in the code) and doubles a significand   *)
(* of Mantissa bits (53).  Fractions are exact: of the rounding of doubles *)
(* only what it does to integers is modelled.                              *)
(***************************************************************************)
EXTENDS Integers, Sequences

CONSTANTS IntBits, Mantissa

ASSUME ValuesAssumption ==
  /\ IntBits \in Nat /\ Mantissa \in Nat
  /\ 1 < Mantissa /\ Mantissa < IntBits

Integer(n) == <<"INTEGER", n>>
Float(n, d) == <<"FLOAT", <<n, d>>>>
Varchar(s) == <<"VARCHAR", s>>
Boolean(b) == <<"BOOLEAN", b>>
Null == <<"NULL", 0>>
Error(rc) == <<"ERROR", rc>>
Dies == <<"DIES", 0>>

Type(x) == x[1]
Val(x) == x[2]
Fails(x) == Type(x) \in {"ERROR", "DIES"}

DB_TYPE_MISMATCH == 3006
DB_INVALID_ARGUMENT == 3007
DB_UNKNOWN_COLUMN == 3003

-----------------------------------------------------------------------------
(* Machine numbers *)

Power2[k \in Nat] == IF k = 0 THEN 1 ELSE 2 * Power2[k - 1]

MaxInt == Power2[IntBits - 1] - 1
MinInt == -Power2[IntBits - 1]
Wrapped(n) == ((n - MinInt) % Power2[IntBits]) + MinInt

Abs(n) == IF n < 0 THEN -n ELSE n
Sign(n) == IF n < 0 THEN -1 ELSE IF n > 0 THEN 1 ELSE 0

\* The conversion of a double to an integer it does not fit, as x86 does it.
Converted(n) == IF n \in MinInt .. MaxInt THEN n ELSE MinInt

\* Division of C: towards zero.
Quot(a, b) == Sign(a) * Sign(b) * (Abs(a) \div Abs(b))

\* An integer as a double: the nearest multiple of the gap between doubles of
\* its size, an even one when two are near.
Gap(n) == CHOOSE g \in {Power2[k] : k \in 0 .. IntBits - Mantissa} :
             /\ Abs(n) <= g * Power2[Mantissa]
             /\ g = 1 \/ Abs(n) > (g \div 2) * Power2[Mantissa]
NearestMultiple(n, g) ==
  g * ((n \div g) + (IF 2 * (n % g) > g \/ (2 * (n % g) = g /\ (n \div g) % 2 = 1) THEN 1 ELSE 0))
ToDouble(n) == NearestMultiple(n, Gap(n))

\* The integers that are doubles as they are, without gaps.
Exact(n) == Abs(n) <= Power2[Mantissa]

\* The values there are.
AllValues ==
  ({"INTEGER"} \X (MinInt .. MaxInt)) \cup ({"FLOAT"} \X (Int \X (Nat \ {0})))
  \cup ({"VARCHAR"} \X Seq(1 .. 255)) \cup ({"BOOLEAN"} \X BOOLEAN) \cup {Null}

-----------------------------------------------------------------------------
(* value_compare *)

\* strcmp of the C library: the difference of the first characters that
\* differ, the end of a string being character 0.
strcmp(s, t) ==
  LET at(u, i) == IF i <= Len(u) THEN u[i] ELSE 0
      differ == {i \in 1 .. Len(s) + 1 : at(s, i) # at(t, i)}
  IN IF differ = {} THEN 0
     ELSE LET i == CHOOSE k \in differ : \A j \in differ : k <= j IN at(s, i) - at(t, i)

Numeric(x) == Type(x) \in {"INTEGER", "FLOAT"}

\* Types that go together.
Comparable(a, b) ==
  \/ Null \in {a, b} \/ Type(a) = Type(b)
  \/ Numeric(a) /\ Numeric(b)

\* The number as a double, a fraction.
AsDouble(x) == IF Type(x) = "INTEGER" THEN <<ToDouble(Val(x)), 1>> ELSE Val(x)
CompareDoubles(p, q) == Sign(p[1] * q[2] - q[1] * p[2])

\* Mutant of the next definition: integers are compared by their difference.
value_compare_Difference(a, b) ==
  CASE Type(a) = "NULL" /\ Type(b) = "NULL" -> 0
    [] Type(a) = "NULL" /\ Type(b) # "NULL" -> -1
    [] Type(a) # "NULL" /\ Type(b) = "NULL" -> 1
    [] Type(a) = "INTEGER" /\ Type(b) = "INTEGER" -> Sign(Wrapped(Val(a) - Val(b)))
    [] OTHER -> 0

\* NULL is least; two types that do not go together answer a positive code,
\* which callers take for "greater".
value_compare(a, b) ==
  CASE Type(a) = "NULL" /\ Type(b) = "NULL" -> 0
    [] Type(a) = "NULL" /\ Type(b) # "NULL" -> -1
    [] Type(a) # "NULL" /\ Type(b) = "NULL" -> 1
    [] Type(a) = "INTEGER" /\ Type(b) = "INTEGER" -> Sign(Val(a) - Val(b))
    [] Type(a) = "VARCHAR" /\ Type(b) = "VARCHAR" -> strcmp(Val(a), Val(b))
    [] Type(a) = "BOOLEAN" /\ Type(b) = "BOOLEAN" ->
         IF Val(a) = Val(b) THEN 0 ELSE IF Val(a) THEN 1 ELSE -1
    [] Numeric(a) /\ Numeric(b) /\ "FLOAT" \in {Type(a), Type(b)} ->
         CompareDoubles(AsDouble(a), AsDouble(b))
    [] OTHER -> DB_TYPE_MISMATCH

-----------------------------------------------------------------------------
(* Arithmetic *)

Coercible(a, b) == Numeric(a) /\ Numeric(b)
Integers(a, b) == Type(a) = "INTEGER" /\ Type(b) = "INTEGER"

\* An integer that has been through a double and back.
Rounded(x) == Converted(ToDouble(Val(x)))

\* Mutant of the next definition: the sum of two integers is formed as a
\* double and then converted.
value_add_InDouble(a, b) ==
  IF ~Coercible(a, b) THEN Error(DB_TYPE_MISMATCH)
  ELSE IF Integers(a, b) THEN Integer(Converted(ToDouble(ToDouble(Val(a)) + ToDouble(Val(b)))))
  ELSE Null

\* coerce_arithmetic takes both operands to doubles first, integers too.
value_add(a, b) ==
  LET sum(p, q) == Float(p[1] * q[2] + q[1] * p[2], p[2] * q[2])
  IN IF ~Coercible(a, b) THEN Error(DB_TYPE_MISMATCH)
     ELSE IF Integers(a, b) THEN Integer(Wrapped(Rounded(a) + Rounded(b)))
     ELSE sum(AsDouble(a), AsDouble(b))

value_sub(a, b) ==
  LET difference(p, q) == Float(p[1] * q[2] - q[1] * p[2], p[2] * q[2])
  IN IF ~Coercible(a, b) THEN Error(DB_TYPE_MISMATCH)
     ELSE IF Integers(a, b) THEN Integer(Wrapped(Rounded(a) - Rounded(b)))
     ELSE difference(AsDouble(a), AsDouble(b))

value_mul(a, b) ==
  LET product(p, q) == Float(p[1] * q[1], p[2] * q[2])
  IN IF ~Coercible(a, b) THEN Error(DB_TYPE_MISMATCH)
     ELSE IF Integers(a, b) THEN Integer(Wrapped(Rounded(a) * Rounded(b)))
     ELSE product(AsDouble(a), AsDouble(b))

\* The one quotient that does not fit traps.
value_div(a, b) ==
  LET whole(m, n) == IF n = 0 THEN Error(DB_INVALID_ARGUMENT)
                     ELSE IF m = MinInt /\ n = -1 THEN Dies
                     ELSE Integer(Quot(m, n))
      ratio(p, q) == IF q[1] = 0 THEN Error(DB_INVALID_ARGUMENT)
                     ELSE Float(Sign(q[1]) * p[1] * q[2], p[2] * Abs(q[1]))
  IN IF ~Coercible(a, b) THEN Error(DB_TYPE_MISMATCH)
     ELSE IF Integers(a, b) THEN whole(Rounded(a), Rounded(b))
     ELSE ratio(AsDouble(a), AsDouble(b))

-----------------------------------------------------------------------------
(* value_cast_to *)

Minus == 45
Dot == 46
Digits == 48 .. 57

\* The decimal digits of n >= 0.
DigitsOf[n \in Nat] == IF n < 10 THEN <<48 + n>> ELSE Append(DigitsOf[n \div 10], 48 + (n % 10))
Signed(n, s) == IF n < 0 THEN <<Minus>> \o s ELSE s
DecimalText(n) == Signed(n, DigitsOf[Abs(n)])

\* "%g" of a multiple of one half.
FloatText(n, d) ==
  Signed(n, DigitsOf[Abs(n) \div d] \o IF Abs(n) % d = 0 THEN <<>> ELSE <<Dot, 53>>)

\* The characters strtoll and strtod read: a sign, digits and, for strtod, a
\* fraction; empty when there is no digit.
Read(s, fraction) ==
  LET start == IF s # <<>> /\ s[1] = Minus THEN 2 ELSE 1
      isNumber(n) == /\ \E i \in start .. n : s[i] \in Digits
                     /\ \A i \in start .. n : s[i] \in Digits \/ (fraction /\ s[i] = Dot)
                     /\ \A i, j \in start .. n : s[i] = Dot /\ s[j] = Dot => i = j
      ends == {n \in start .. Len(s) : isNumber(n)}
  IN IF ends = {} THEN <<>> ELSE SubSeq(s, 1, CHOOSE n \in ends : \A m \in ends : m <= n)

\* The number a text of this form stands for, as a fraction.
NumberOf(s) ==
  LET digit(i) == s[i] - 48
      part[n \in 0 .. Len(s)] ==
        IF n = 0 THEN <<0, 1, FALSE>>
        ELSE LET p == part[n - 1]
             IN IF s[n] = Minus THEN p
                ELSE IF s[n] = Dot THEN <<p[1], p[2], TRUE>>
                ELSE <<10 * p[1] + digit(n), IF p[3] THEN 10 * p[2] ELSE p[2], p[3]>>
      all == part[Len(s)]
  IN <<IF s # <<>> /\ s[1] = Minus THEN -all[1] ELSE all[1], all[2]>>

\* strtoll stops at LLONG_MAX and LLONG_MIN.
Saturated(n) == IF n > MaxInt THEN MaxInt ELSE IF n < MinInt THEN MinInt ELSE n

\* A text that has no digits at all passes for 0 when nothing, or a dot,
\* comes where the number ends.
TextToInteger(s) ==
  LET n == Len(Read(s, FALSE))
  IN IF n = Len(s) \/ s[n + 1] = Dot THEN Integer(Saturated(NumberOf(Read(s, FALSE))[1]))
     ELSE Error(DB_TYPE_MISMATCH)

TextToFloat(s) ==
  IF Read(s, TRUE) = s THEN Float(NumberOf(s)[1], NumberOf(s)[2]) ELSE Error(DB_TYPE_MISMATCH)

value_cast_to(x, type) ==
  CASE Type(x) \in {type, "NULL"} -> x
    [] type = "NULL" -> Null
    [] type = "INTEGER" /\ Type(x) = "FLOAT" -> Integer(Converted(Quot(Val(x)[1], Val(x)[2])))
    [] type = "INTEGER" /\ Type(x) = "BOOLEAN" -> Integer(IF Val(x) THEN 1 ELSE 0)
    [] type = "INTEGER" /\ Type(x) = "VARCHAR" -> TextToInteger(Val(x))
    [] type = "FLOAT" /\ Type(x) = "INTEGER" -> Float(ToDouble(Val(x)), 1)
    [] type = "FLOAT" /\ Type(x) = "BOOLEAN" -> Float(IF Val(x) THEN 1 ELSE 0, 1)
    [] type = "FLOAT" /\ Type(x) = "VARCHAR" -> TextToFloat(Val(x))
    [] type = "BOOLEAN" /\ Type(x) = "INTEGER" -> Boolean(Val(x) # 0)
    [] type = "BOOLEAN" /\ Type(x) = "FLOAT" -> Boolean(Val(x)[1] # 0)
    [] type = "VARCHAR" /\ Type(x) = "INTEGER" -> Varchar(DecimalText(Val(x)))
    [] type = "VARCHAR" /\ Type(x) = "FLOAT" -> Varchar(FloatText(Val(x)[1], Val(x)[2]))
    [] type = "VARCHAR" /\ Type(x) = "BOOLEAN" ->
         Varchar(IF Val(x) THEN <<116, 114, 117, 101>> ELSE <<102, 97, 108, 115, 101>>)
    [] OTHER -> Error(DB_TYPE_MISMATCH)
=============================================================================
