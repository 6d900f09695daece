---------------------------- MODULE SlottedPage ----------------------------
(***************************************************************************)
(* The layout of a heap page (src/storage/slotted_page.c): after the page  *)
(* header an array of slots grows upwards, one per row ever inserted; the  *)
(* bytes of the rows grow downwards from the end of the page.  A slot of   *)
(* size 0 is a deleted row.  Slots are numbered from 1 here and from 0 in  *)
(* the code.                                                               *)
(***************************************************************************)
EXTENDS Integers, Sequences

CONSTANTS
  PageIds,      \* bound: the pages there can be
  PAGE_SIZE, PAGE_HEADER_SIZE, SLOT_SIZE,
  Rows,         \* serialised rows
  tuple_size    \* row -> the number of its bytes

INVALID_PAGE_ID == -1

ASSUME PageAssumption ==
  /\ PAGE_SIZE \in Nat /\ PAGE_HEADER_SIZE \in Nat /\ SLOT_SIZE \in Nat \ {0}
  /\ PAGE_HEADER_SIZE <= PAGE_SIZE /\ INVALID_PAGE_ID \notin PageIds
  /\ tuple_size \in [Rows -> Nat \ {0}]

Blank == "blank"               \* what a byte holds before a row is put there
Bytes == 0 .. PAGE_SIZE - 1
Slot == [offset : Nat, size : Nat]
Page == [slots : Seq(Slot), bytes : [Bytes -> Rows \cup {Blank}], 
         next : PageIds \cup {INVALID_PAGE_ID}]

slotted_page_init ==
  [slots |-> <<>>, bytes |-> [b \in Bytes |-> Blank], next |-> INVALID_PAGE_ID]

\* The slots of p that hold a row.
Live(p) == {i \in DOMAIN p.slots : p.slots[i].size > 0}

-----------------------------------------------------------------------------
(* Free space *)

slot_array_end(p) == PAGE_HEADER_SIZE + Len(p.slots) * SLOT_SIZE

Offsets(p) == {PAGE_SIZE} \cup {p.slots[i].offset : i \in Live(p)}

\* Mutant of the next definition: only the last row is looked at.
free_space_upper_Last(p) ==
  LET n == Len(p.slots) IN IF n \in Live(p) THEN p.slots[n].offset ELSE PAGE_SIZE

\* The bytes of deleted rows below every live row become free again.
free_space_upper(p) == CHOOSE u \in Offsets(p) : \A o \in Offsets(p) : u <= o

slotted_page_free_space(p) ==
  IF free_space_upper(p) > slot_array_end(p)
  THEN free_space_upper(p) - slot_array_end(p) ELSE 0

\* There is room for n bytes above the slot array with newSlots more slots.
Fits(p, n, newSlots) ==
  slot_array_end(p) + newSlots * SLOT_SIZE + n <= free_space_upper(p)

-----------------------------------------------------------------------------
(* The operations *)

\* The bytes slotted_page_get answers with.
Extent(p, i) == p.slots[i].offset .. p.slots[i].offset + p.slots[i].size - 1

slotted_page_get(p, i) ==
  [k \in 0 .. p.slots[i].size - 1 |-> p.bytes[p.slots[i].offset + k]]

\* Bytes outside the live rows are never read: they count as Blank.
Swept(p) ==
  [p EXCEPT !.bytes =
     [b \in Bytes |-> IF \E i \in Live(p) : b \in Extent(p, i) THEN p.bytes[b] ELSE Blank]]

Written(p, offset, row) ==
  [b \in Bytes |-> IF b \in offset .. offset + tuple_size[row] - 1 THEN row
                   ELSE p.bytes[b]]

PlaceFor(p, row) == free_space_upper(p) - tuple_size[row]

SlotAt(p, row) == [offset |-> PlaceFor(p, row), size |-> tuple_size[row]]

\* Mutant of the next definition: the slot of a deleted row is used again.
slotted_page_insert_Reuses(p, row) ==
  LET dead == DOMAIN p.slots \ Live(p)
      i == CHOOSE j \in dead : TRUE
  IN  [p EXCEPT !.slots = IF dead = {} THEN Append(@, SlotAt(p, row))
                          ELSE [@ EXCEPT ![i] = SlotAt(p, row)],
                !.bytes = Written(p, PlaceFor(p, row), row)]

\* Where Fits(p, tuple_size[row], 1); the new slot is the last.
slotted_page_insert(p, row) ==
  [slots |-> Append(p.slots, SlotAt(p, row)),
   bytes |-> Written(p, PlaceFor(p, row), row),
   next |-> p.next]

\* slot_set_offset and slot_set_size on slot i of a page with these bytes.
WithSlot(p, i, slot, bytes) ==
  [slots |-> [p.slots EXCEPT ![i] = slot], bytes |-> bytes, next |-> p.next]

Resized(p, i, size) == [offset |-> p.slots[i].offset, size |-> size]

\* Where i is in Live(p): the slot is never used again.
slotted_page_delete(p, i) == Swept(WithSlot(p, i, Resized(p, i, 0), p.bytes))

InPlace(p, i, row) == tuple_size[row] <= p.slots[i].size

CanUpdate(p, i, row) == InPlace(p, i, row) \/ Fits(p, tuple_size[row], 0)

\* Where i is in Live(p) and CanUpdate(p, i, row): a row that grows moves to the
\* free space and keeps its slot.
slotted_page_update(p, i, row) ==
  Swept(IF InPlace(p, i, row)
        THEN WithSlot(p, i, Resized(p, i, tuple_size[row]), Written(p, p.slots[i].offset, row))
        ELSE WithSlot(p, i, SlotAt(p, row), Written(p, PlaceFor(p, row), row)))

\* What slotted_page_get answers for a row that is as it was put there.
Image(row) == [k \in 0 .. tuple_size[row] - 1 |-> row]
=============================================================================
