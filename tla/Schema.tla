------------------------------- MODULE Schema -------------------------------
(***************************************************************************)
(* Schemas of src/storage/schema.c: a sequence of columns                  *)
(* [name, type, max_length], and the layout of a row it stands for: the    *)
(* NULL bitmap, the fixed-length fields, then the texts, each behind its   *)
(* length.  The empty sequence stands for the null pointer.                *)
(***************************************************************************)
EXTENDS Integers, Sequences

NoSchema == <<>>

\* The types the parser knows for a column.
ColumnTypes == {"INTEGER", "FLOAT", "VARCHAR", "BOOLEAN"}

\* The first column of that name, 0 when there is none.
schema_find_column(schema, name) ==
  LET named == {i \in DOMAIN schema : schema[i].name = name}
  IN IF named = {} THEN 0 ELSE CHOOSE i \in named : \A j \in named : i <= j

-----------------------------------------------------------------------------
(* schema_build *)

LengthPrefix == 4
BitsPerByte == 8

schema_column_fixed_size(type) ==
  CASE type \in {"INTEGER", "FLOAT"} -> 8
    [] type = "BOOLEAN" -> 1
    [] OTHER -> 0

\* The bytes of the fixed area before column i; column Len(schema) + 1 is its end.
fixed_offset(schema, i) ==
  LET before[n \in 0 .. Len(schema)] ==
        IF n = 0 THEN 0 ELSE before[n - 1] + schema_column_fixed_size(schema[n].type)
  IN before[i - 1]
fixed_size(schema) == fixed_offset(schema, Len(schema) + 1)

null_bitmap_size(schema) == (Len(schema) + BitsPerByte - 1) \div BitsPerByte

\* The buffer INSERT and UPDATE serialize a row into.
schema_max_tuple_size(schema) ==
  LET texts[n \in 0 .. Len(schema)] ==
        IF n = 0 THEN 0
        ELSE texts[n - 1] + IF schema[n].type = "VARCHAR" THEN schema[n].max_length + LengthPrefix ELSE 0
  IN null_bitmap_size(schema) + fixed_size(schema) + texts[Len(schema)]
=============================================================================
