------------------------------- MODULE Tuples -------------------------------
(***************************************************************************)
(* The bytes a row is stored in: tuple_serialize and tuple_deserialize of  *)
(* src/storage/tuple.c.  A buffer is a sequence; an element stands for one *)
(* byte: of the bitmap, the set of its bits; of a field, the pair of the   *)
(* value and the byte's place in it, nothing when it is NULL; of a text,   *)
(* the character.                                                          *)
(***************************************************************************)
EXTENDS Schema, Values, SequencesExt

CONSTANT BitsAs(_, _)   \* the value of this fixed-length type that has the
                        \* first bytes of a value of another type

\* Missing values count as NULL.
is_column_null(tuple, i) == i > Len(tuple) \/ Type(tuple[i]) = "NULL"

BytesOf(x, size) == [k \in 1 .. size |-> <<x, k>>]
Unwritten(size) == [k \in 1 .. size |-> <<>>]

Bitmap(tuple, schema) ==
  [b \in 1 .. null_bitmap_size(schema) |->
     {i \in DOMAIN schema : (i - 1) \div BitsPerByte = b - 1 /\ is_column_null(tuple, i)}]

\* A value of another type than the column's is taken by its bytes, and as a
\* text for the empty one.
FixedField(tuple, i, type) ==
  IF is_column_null(tuple, i) THEN Unwritten(schema_column_fixed_size(type))
  ELSE BytesOf(IF Type(tuple[i]) = type THEN tuple[i] ELSE BitsAs(tuple[i], type),
               schema_column_fixed_size(type))
TextField(tuple, i) ==
  LET text == IF is_column_null(tuple, i) \/ Type(tuple[i]) # "VARCHAR" THEN <<>> ELSE Val(tuple[i])
  IN BytesOf(Len(text), LengthPrefix) \o text

tuple_serialize(tuple, schema) ==
  LET fixed == [i \in DOMAIN schema |-> FixedField(tuple, i, schema[i].type)]
      texts == [i \in DOMAIN schema |->
                  IF schema[i].type = "VARCHAR" THEN TextField(tuple, i) ELSE <<>>]
  IN Bitmap(tuple, schema) \o FlattenSeq(fixed) \o FlattenSeq(texts)

-----------------------------------------------------------------------------
(* tuple_deserialize *)

IsSetNull(buf, i) == i \in buf[(i - 1) \div BitsPerByte + 1]

\* Where the length of the i-th column's text is: a NULL text too has one.
TextAt(buf, schema, i) ==
  LET start[n \in 0 .. Len(schema)] ==
        IF n = 0 THEN null_bitmap_size(schema) + fixed_size(schema)
        ELSE IF schema[n].type # "VARCHAR" THEN start[n - 1]
        ELSE start[n - 1] + LengthPrefix + buf[start[n - 1] + 1][1]
  IN start[i - 1] + 1

ReadField(buf, schema, i) ==
  IF IsSetNull(buf, i) THEN Null
  ELSE IF schema[i].type # "VARCHAR"
  THEN buf[null_bitmap_size(schema) + fixed_offset(schema, i) + 1][1]
  ELSE LET at == TextAt(buf, schema, i)
       IN Varchar(SubSeq(buf, at + LengthPrefix, at + LengthPrefix + buf[at][1] - 1))

tuple_deserialize(buf, schema) == [i \in DOMAIN schema |-> ReadField(buf, schema, i)]
=============================================================================
