----------------------------- MODULE HeapProofs -----------------------------
(***************************************************************************)
(* Proofs about heaps of slotted pages, for pages, rows and page numbers   *)
(* of any size and number: the rows of a page never overlap, no row is on  *)
(* a page that is off the chain, and the heap implements the table of rows *)
(* it promises.                                                            *)
(***************************************************************************)
EXTENDS Heap, Induction, FiniteSetTheorems

-----------------------------------------------------------------------------
(* One page *)

Overlap(a, b) == a.offset < b.offset + b.size /\ b.offset < a.offset + a.size

\* Slot i of p holds one of the rows, whole, within the page.
HoldsRow(p, i) ==
  \E row \in Rows :
     /\ p.slots[i].size = tuple_size[row]
     /\ p.slots[i].offset + tuple_size[row] <= PAGE_SIZE
     /\ \A b \in Extent(p, i) : p.bytes[b] = row

\* What the operations on a page keep.
PageInv(p) ==
  /\ p \in Page
  /\ slot_array_end(p) <= free_space_upper(p)
  /\ \A i \in Live(p) : HoldsRow(p, i)
  /\ \A i, j \in Live(p) : i # j => ~Overlap(p.slots[i], p.slots[j])

\* The fields of a page and of its slots.
LEMMA PageFields ==
  ASSUME NEW p \in Page
  PROVE  /\ p.slots \in Seq(Slot) /\ Len(p.slots) \in Nat
         /\ DOMAIN p.slots = 1 .. Len(p.slots)
         /\ p.bytes \in [Bytes -> Rows \cup {Blank}]
         /\ p.next \in PageIds \cup {INVALID_PAGE_ID}
         /\ \A i \in DOMAIN p.slots : /\ p.slots[i] \in Slot
                                      /\ p.slots[i].offset \in Nat /\ p.slots[i].size \in Nat
         /\ Live(p) \subseteq DOMAIN p.slots
         /\ \A i \in Live(p) : p.slots[i].size > 0
         /\ slot_array_end(p) \in Nat
<1>1. /\ p.slots \in Seq(Slot) /\ p.bytes \in [Bytes -> Rows \cup {Blank}]
      /\ p.next \in PageIds \cup {INVALID_PAGE_ID}
  BY DEF Page
<1>2. Len(p.slots) \in Nat /\ DOMAIN p.slots = 1 .. Len(p.slots)
  BY <1>1
<1>3. \A i \in DOMAIN p.slots : /\ p.slots[i] \in Slot
                                /\ p.slots[i].offset \in Nat /\ p.slots[i].size \in Nat
  <2>1. \A i \in DOMAIN p.slots : p.slots[i] \in Slot
    BY <1>1, <1>2
  <2>2. \A s \in Slot : s.offset \in Nat /\ s.size \in Nat
    BY DEF Slot
  <2> QED
    BY <2>1, <2>2
<1>4. slot_array_end(p) \in Nat
  BY <1>2, PageAssumption DEF slot_array_end
<1> QED
  BY <1>1, <1>2, <1>3, <1>4 DEF Live

\* The bytes of two slots are apart, seen as intervals and as sets.
LEMMA OverlapMeaning ==
  ASSUME NEW p \in Page, NEW i \in Live(p), NEW j \in Live(p)
  PROVE  Extent(p, i) \cap Extent(p, j) = {} <=> ~Overlap(p.slots[i], p.slots[j])
<1> DEFINE a == p.slots[i].offset
           m == p.slots[i].size
           b == p.slots[j].offset
           n == p.slots[j].size
<1>1. a \in Nat /\ m \in Nat /\ b \in Nat /\ n \in Nat /\ m > 0 /\ n > 0
  BY PageFields
<1>2. Extent(p, i) = a .. a + m - 1 /\ Extent(p, j) = b .. b + n - 1
  BY DEF Extent
<1>3. Overlap(p.slots[i], p.slots[j]) <=> a < b + n /\ b < a + m
  BY DEF Overlap
<1> HIDE DEF a, b, m, n
<1>4. ASSUME a < b + n, b < a + m
      PROVE  \E x : x \in (a .. a + m - 1) \cap (b .. b + n - 1)
  <2>1. CASE a <= b
    <3>1. b \in (a .. a + m - 1) \cap (b .. b + n - 1)
      BY <1>1, <1>4, <2>1
    <3> QED
      BY <3>1
  <2>2. CASE b < a
    <3>1. a \in (a .. a + m - 1) \cap (b .. b + n - 1)
      BY <1>1, <1>4, <2>2
    <3> QED
      BY <3>1
  <2> QED
    BY <1>1, <2>1, <2>2
<1>5. ASSUME NEW x, x \in (a .. a + m - 1) \cap (b .. b + n - 1)
      PROVE  a < b + n /\ b < a + m
  BY <1>1, <1>5
<1> QED
  BY <1>2, <1>3, <1>4, <1>5

\* free_space_upper is the least offset in use.
LEMMA UpperIsLeast ==
  ASSUME NEW p \in Page
  PROVE  /\ free_space_upper(p) \in Offsets(p) /\ free_space_upper(p) \in Nat
         /\ free_space_upper(p) <= PAGE_SIZE
         /\ \A i \in Live(p) : free_space_upper(p) <= p.slots[i].offset
<1>1. Offsets(p) \subseteq Nat /\ PAGE_SIZE \in Offsets(p)
  BY PageFields, PageAssumption DEF Offsets
<1>2. \E u \in Offsets(p) : \A o \in Offsets(p) : u <= o
  BY <1>1, LeastNatural
<1>3. /\ free_space_upper(p) \in Offsets(p)
      /\ \A o \in Offsets(p) : free_space_upper(p) <= o
  BY <1>2 DEF free_space_upper
<1> QED
  BY <1>1, <1>3 DEF Offsets

\* A page holds no more slots than bytes.
LEMMA SlotsFit ==
  ASSUME NEW p, PageInv(p)
  PROVE  Len(p.slots) <= PAGE_SIZE
<1>1. /\ Len(p.slots) \in Nat /\ free_space_upper(p) <= PAGE_SIZE
      /\ slot_array_end(p) <= free_space_upper(p)
      /\ slot_array_end(p) \in Nat /\ free_space_upper(p) \in Nat
  BY PageFields, UpperIsLeast DEF PageInv
<1>2. \A n \in Nat, k \in Nat \ {0} : n <= n * k
  OBVIOUS
<1>3. Len(p.slots) <= Len(p.slots) * SLOT_SIZE /\ Len(p.slots) * SLOT_SIZE \in Nat
  BY <1>1, <1>2, PageAssumption
<1> QED
  BY <1>1, <1>3, PageAssumption DEF slot_array_end

\* The answer under a slot depends on the slot and on its bytes.
LEMMA SameAnswer ==
  ASSUME NEW p \in Page, NEW q, NEW j \in Live(p), q.slots[j] = p.slots[j],
         \A b \in Extent(p, j) : q.bytes[b] = p.bytes[b]
  PROVE  slotted_page_get(q, j) = slotted_page_get(p, j)
<1>1. p.slots[j].offset \in Nat /\ p.slots[j].size \in Nat
  BY PageFields
<1>2. \A k \in 0 .. p.slots[j].size - 1 : p.slots[j].offset + k \in Extent(p, j)
  BY <1>1 DEF Extent
<1> QED
  BY <1>2 DEF slotted_page_get

\* A row put into slot i, which is free or held an older row, clear of the
\* other rows and of the slot array: the page stays sound, the slot answers
\* with the row and the others with what they held.
LEMMA RowPlaced ==
  ASSUME NEW p, PageInv(p), NEW q \in Page, NEW row \in Rows, NEW i \in DOMAIN q.slots,
         i \in DOMAIN p.slots => i \in Live(p),
         DOMAIN q.slots = DOMAIN p.slots \cup {i},
         q.slots[i].size = tuple_size[row],
         q.slots[i].offset + tuple_size[row] <= PAGE_SIZE,
         slot_array_end(q) <= q.slots[i].offset,
         slot_array_end(q) <= free_space_upper(p),
         \A j \in DOMAIN p.slots : j # i => q.slots[j] = p.slots[j],
         \A j \in Live(p) : j # i => ~Overlap(q.slots[i], p.slots[j]),
         \A b \in Extent(q, i) : q.bytes[b] = row,
         \A j \in Live(p) : j # i => \A b \in Extent(p, j) : q.bytes[b] = p.bytes[b]
  PROVE  /\ PageInv(q) /\ Live(q) = Live(p) \cup {i}
         /\ slotted_page_get(q, i) = Image(row)
         /\ \A j \in Live(p) : j # i => slotted_page_get(q, j) = slotted_page_get(p, j)
<1>1. tuple_size[row] \in Nat /\ tuple_size[row] > 0 /\ PAGE_SIZE \in Nat
  BY PageAssumption
<1>2. p \in Page
  BY DEF PageInv
<1>3. Live(q) = Live(p) \cup {i}
  <2>1. i \in Live(q)
    BY <1>1 DEF Live
  <2>2. \A j \in DOMAIN p.slots : j # i => (j \in Live(q) <=> j \in Live(p))
    BY DEF Live
  <2>3. Live(q) \subseteq DOMAIN q.slots /\ Live(p) \subseteq DOMAIN p.slots
    BY DEF Live
  <2> QED
    BY <2>1, <2>2, <2>3
<1>4. \A j \in Live(p) : j # i => q.slots[j] = p.slots[j] /\ Extent(q, j) = Extent(p, j)
  BY DEF Live, Extent
<1>5. HoldsRow(q, i)
  BY DEF HoldsRow
<1>6. ASSUME NEW j \in Live(p), j # i PROVE HoldsRow(q, j)
  BY <1>4, <1>6 DEF PageInv, HoldsRow
<1>7. ASSUME NEW j \in Live(q), NEW k \in Live(q), j # k
      PROVE  ~Overlap(q.slots[j], q.slots[k])
  <2>1. CASE j # i /\ k # i
    BY <1>3, <1>4, <1>7, <2>1 DEF PageInv
  <2>2. CASE j = i
    BY <1>3, <1>4, <1>7, <2>2
  <2>3. CASE k = i
    <3>1. ~Overlap(q.slots[k], q.slots[j])
      BY <1>3, <1>4, <1>7, <2>3
    <3> QED
      BY <3>1 DEF Overlap
  <2> QED
    BY <2>1, <2>2, <2>3
<1>8. slot_array_end(q) <= free_space_upper(q)
  <2>1. free_space_upper(q) = PAGE_SIZE
        \/ \E j \in Live(q) : free_space_upper(q) = q.slots[j].offset
    BY UpperIsLeast DEF Offsets
  <2>2. /\ free_space_upper(p) \in Nat /\ free_space_upper(p) <= PAGE_SIZE
        /\ slot_array_end(q) \in Nat
        /\ \A j \in Live(p) : free_space_upper(p) <= p.slots[j].offset
    BY <1>2, UpperIsLeast, PageFields
  <2>3. \A j \in Live(p) : p.slots[j].offset \in Nat
    BY <1>2, PageFields
  <2>4. ASSUME NEW j \in Live(q) PROVE slot_array_end(q) <= q.slots[j].offset
    BY <1>3, <1>4, <2>2, <2>3
  <2> QED
    BY <1>1, <2>1, <2>2, <2>4
<1>9. slotted_page_get(q, i) = Image(row)
  <2>1. q.slots[i].offset \in Nat
    BY PageFields
  <2>2. \A k \in 0 .. tuple_size[row] - 1 : q.bytes[q.slots[i].offset + k] = row
    BY <1>1, <2>1 DEF Extent
  <2> QED
    BY <2>2 DEF slotted_page_get, Image
<1>10. ASSUME NEW j \in Live(p), j # i
       PROVE  slotted_page_get(q, j) = slotted_page_get(p, j)
  <2>1. q.slots[j] = p.slots[j] /\ \A b \in Extent(p, j) : q.bytes[b] = p.bytes[b]
    BY <1>4, <1>10
  <2> QED
    BY <1>2, <2>1, SameAnswer
<1>11. PageInv(q)
  BY <1>3, <1>5, <1>6, <1>7, <1>8 DEF PageInv
<1> QED
  BY <1>3, <1>9, <1>10, <1>11

\* The same for a slot whose row is deleted.
LEMMA RowTaken ==
  ASSUME NEW p, PageInv(p), NEW q \in Page, NEW i \in Live(p),
         Len(q.slots) = Len(p.slots), q.slots[i].size = 0,
         \A j \in DOMAIN p.slots : j # i => q.slots[j] = p.slots[j],
         \A j \in Live(p) : j # i => \A b \in Extent(p, j) : q.bytes[b] = p.bytes[b]
  PROVE  /\ PageInv(q) /\ Live(q) = Live(p) \ {i}
         /\ \A j \in Live(q) : slotted_page_get(q, j) = slotted_page_get(p, j)
<1>1. p \in Page
  BY DEF PageInv
<1>2. Live(q) = Live(p) \ {i}
  <2>1. DOMAIN q.slots = DOMAIN p.slots
    BY <1>1, PageFields
  <2> QED
    BY <2>1 DEF Live
<1>3. \A j \in Live(q) : q.slots[j] = p.slots[j] /\ Extent(q, j) = Extent(p, j)
  BY <1>2 DEF Live, Extent
<1>4. \A j \in Live(q) : HoldsRow(q, j)
  BY <1>2, <1>3 DEF PageInv, HoldsRow
<1>5. \A j, k \in Live(q) : j # k => ~Overlap(q.slots[j], q.slots[k])
  BY <1>2, <1>3 DEF PageInv
<1>6. slot_array_end(q) = slot_array_end(p)
  BY DEF slot_array_end
<1>7. slot_array_end(q) <= free_space_upper(q)
  <2>1. free_space_upper(q) = PAGE_SIZE
        \/ \E j \in Live(q) : free_space_upper(q) = q.slots[j].offset
    BY UpperIsLeast DEF Offsets
  <2>2. /\ free_space_upper(p) \in Nat /\ free_space_upper(p) <= PAGE_SIZE
        /\ slot_array_end(p) \in Nat /\ slot_array_end(p) <= free_space_upper(p)
        /\ \A j \in Live(p) : free_space_upper(p) <= p.slots[j].offset
    BY <1>1, UpperIsLeast, PageFields DEF PageInv
  <2>3. \A j \in Live(q) : q.slots[j].offset \in Nat
    BY PageFields
  <2> QED
    BY <1>2, <1>3, <1>6, <2>1, <2>2, <2>3, PageAssumption
<1>8. ASSUME NEW j \in Live(q) PROVE slotted_page_get(q, j) = slotted_page_get(p, j)
  <2>1. /\ q.slots[j] = p.slots[j] /\ j \in Live(p)
        /\ \A b \in Extent(p, j) : q.bytes[b] = p.bytes[b]
    BY <1>2, <1>3
  <2> QED
    BY <1>1, <2>1, SameAnswer
<1> QED
  BY <1>2, <1>4, <1>5, <1>7, <1>8 DEF PageInv

\* Bytes that hold no row count as blank; nothing else of a page changes.
LEMMA SweptFields ==
  ASSUME NEW q, q.slots \in Seq(Slot), q.bytes \in [Bytes -> Rows \cup {Blank}],
         q.next \in PageIds \cup {INVALID_PAGE_ID},
         q = [slots |-> q.slots, bytes |-> q.bytes, next |-> q.next]
  PROVE  /\ Swept(q) \in Page
         /\ Swept(q).slots = q.slots /\ Swept(q).next = q.next
         /\ \A i \in Live(q) : \A b \in Extent(q, i) :
              b \in Bytes => Swept(q).bytes[b] = q.bytes[b]
<1> DEFINE bytes == [b \in Bytes |-> IF \E i \in Live(q) : b \in Extent(q, i)
                                     THEN q.bytes[b] ELSE Blank]
<1>1. bytes \in [Bytes -> Rows \cup {Blank}]
  OBVIOUS
<1>2. \A i \in Live(q) : \A b \in Extent(q, i) : b \in Bytes => bytes[b] = q.bytes[b]
  OBVIOUS
<1>3. Swept(q) = [q EXCEPT !.bytes = bytes]
  BY DEF Swept
<1> HIDE DEF bytes
<1>4. /\ Swept(q) = [slots |-> q.slots, bytes |-> bytes, next |-> q.next]
  BY <1>3
<1> QED
  BY <1>1, <1>2, <1>4 DEF Page

\* slotted_page_insert puts the row into a new slot.
LEMMA InsertOnPage ==
  ASSUME NEW p, PageInv(p), NEW row \in Rows, Fits(p, tuple_size[row], 1)
  PROVE  LET q == slotted_page_insert(p, row)
             i == Len(p.slots) + 1
         IN  /\ PageInv(q) /\ Live(q) = Live(p) \cup {i} /\ q.next = p.next
             /\ DOMAIN q.slots = DOMAIN p.slots \cup {i} /\ i \notin DOMAIN p.slots
             /\ i \in Nat /\ q.slots # <<>>
             /\ slotted_page_get(q, i) = Image(row)
             /\ \A j \in Live(p) : slotted_page_get(q, j) = slotted_page_get(p, j)
<1> DEFINE q == slotted_page_insert(p, row)
           i == Len(p.slots) + 1
           u == free_space_upper(p)
           m == tuple_size[row]
<1>1. /\ p \in Page /\ m \in Nat /\ m > 0 /\ u \in Nat /\ u <= PAGE_SIZE
      /\ Len(p.slots) \in Nat /\ PAGE_SIZE \in Nat /\ SLOT_SIZE \in Nat /\ PAGE_HEADER_SIZE \in Nat
      /\ \A j \in Live(p) : u <= p.slots[j].offset /\ p.slots[j].offset \in Nat
  BY PageFields, UpperIsLeast, PageAssumption DEF PageInv
<1>2. /\ p.slots \in Seq(Slot) /\ DOMAIN p.slots = 1 .. Len(p.slots)
      /\ p.bytes \in [Bytes -> Rows \cup {Blank}]
      /\ p.next \in PageIds \cup {INVALID_PAGE_ID} /\ Live(p) \subseteq DOMAIN p.slots
      /\ \A j \in Live(p) : p.slots[j].size \in Nat /\ p.slots[j].size > 0
  BY <1>1, PageFields
<1>3. slot_array_end(p) + SLOT_SIZE + m <= u /\ slot_array_end(p) \in Nat
  BY <1>1, PageFields DEF Fits
<1> DEFINE slot == SlotAt(p, row)
<1>4. slot.offset = u - m /\ slot.size = m /\ slot \in Slot /\ u - m \in Nat
  <2>1. u - m \in Nat
    BY <1>1, <1>3
  <2> QED
    BY <1>1, <2>1 DEF SlotAt, PlaceFor, Slot
<1>5. /\ q.slots = Append(p.slots, slot) /\ q.next = p.next
      /\ q.bytes = Written(p, u - m, row)
      /\ q = [slots |-> Append(p.slots, slot), bytes |-> Written(p, u - m, row), next |-> p.next]
  BY DEF slotted_page_insert, PlaceFor
<1> HIDE DEF slot, q, u, m
<1>6. /\ q.slots \in Seq(Slot) /\ DOMAIN q.slots = 1 .. i /\ Len(q.slots) = i
      /\ q.slots[i] = slot /\ i \in DOMAIN q.slots /\ i \notin DOMAIN p.slots /\ i \in Nat
      /\ \A j \in DOMAIN p.slots : q.slots[j] = p.slots[j]
      /\ DOMAIN q.slots = DOMAIN p.slots \cup {i}
  <2>1. q.slots \in Seq(Slot) /\ Len(q.slots) = i /\ q.slots[i] = slot
    BY <1>2, <1>4, <1>5
  <2>2. \A j \in DOMAIN p.slots : q.slots[j] = p.slots[j]
    BY <1>2, <1>5
  <2> QED
    BY <1>1, <1>2, <2>1, <2>2
<1>7. /\ q.bytes \in [Bytes -> Rows \cup {Blank}]
      /\ \A b \in Bytes : q.bytes[b] = IF b \in u - m .. u - m + m - 1 THEN row ELSE p.bytes[b]
  BY <1>2, <1>5 DEF Written, m
<1>8. q \in Page
  BY <1>2, <1>5, <1>6, <1>7 DEF Page
<1>9. slot_array_end(q) = slot_array_end(p) + SLOT_SIZE
  <2>1. (Len(p.slots) + 1) * SLOT_SIZE = Len(p.slots) * SLOT_SIZE + SLOT_SIZE
        /\ Len(p.slots) * SLOT_SIZE \in Nat
    BY <1>1
  <2> QED
    BY <1>1, <1>6, <2>1 DEF slot_array_end
<1>10. \A j \in Live(p) : ~Overlap(q.slots[i], p.slots[j])
  BY <1>1, <1>2, <1>4, <1>6 DEF Overlap
<1>11. \A b \in Extent(q, i) : q.bytes[b] = row
  BY <1>1, <1>3, <1>4, <1>6, <1>7 DEF Extent, Bytes
<1>12. ASSUME NEW j \in Live(p), NEW b \in Extent(p, j) PROVE q.bytes[b] = p.bytes[b]
  <2>1. HoldsRow(p, j)
    BY DEF PageInv
  <2>2. b \in Bytes /\ b >= u
    BY <1>1, <1>2, <2>1, PageAssumption DEF HoldsRow, Extent, Bytes
  <2> QED
    BY <1>1, <1>4, <1>7, <2>2
<1>13. /\ PageInv(q) /\ Live(q) = Live(p) \cup {i}
       /\ slotted_page_get(q, i) = Image(row)
       /\ \A j \in Live(p) : j # i => slotted_page_get(q, j) = slotted_page_get(p, j)
  <2>1. q.slots[i].size = tuple_size[row] /\ q.slots[i].offset + tuple_size[row] <= PAGE_SIZE
        /\ slot_array_end(q) <= q.slots[i].offset /\ slot_array_end(q) <= free_space_upper(p)
    BY <1>1, <1>3, <1>4, <1>6, <1>9 DEF m, u
  <2> HIDE DEF i
  <2> QED
    BY <1>6, <1>8, <1>10, <1>11, <1>12, <2>1, RowPlaced
<1>14. q.slots # <<>>
  BY <1>6
<1> QED
  BY <1>2, <1>5, <1>6, <1>13, <1>14 DEF q

\* slotted_page_delete.
LEMMA DeleteOnPage ==
  ASSUME NEW p, PageInv(p), NEW i \in Live(p)
  PROVE  LET q == slotted_page_delete(p, i)
         IN  /\ PageInv(q) /\ Live(q) = Live(p) \ {i} /\ q.next = p.next
             /\ DOMAIN q.slots = DOMAIN p.slots /\ q.slots # <<>>
             /\ \A j \in Live(q) : slotted_page_get(q, j) = slotted_page_get(p, j)
<1> DEFINE dead == Resized(p, i, 0)
           w == WithSlot(p, i, dead, p.bytes)
           q == Swept(w)
<1>1. /\ p \in Page /\ p.slots \in Seq(Slot) /\ DOMAIN p.slots = 1 .. Len(p.slots)
      /\ p.bytes \in [Bytes -> Rows \cup {Blank}] /\ Len(p.slots) \in Nat
      /\ p.next \in PageIds \cup {INVALID_PAGE_ID} /\ Live(p) \subseteq DOMAIN p.slots
      /\ p.slots[i].offset \in Nat
  BY PageFields DEF PageInv
<1>2. dead \in Slot /\ dead.size = 0
  BY <1>1 DEF Resized, Slot
<1> HIDE DEF dead
<1>3. /\ w = [slots |-> w.slots, bytes |-> w.bytes, next |-> w.next]
      /\ w.slots = [p.slots EXCEPT ![i] = dead] /\ w.bytes = p.bytes /\ w.next = p.next
  BY DEF WithSlot
<1> HIDE DEF w
<1>4. /\ w.slots \in Seq(Slot) /\ Len(w.slots) = Len(p.slots) /\ w.slots[i] = dead
      /\ \A j \in DOMAIN p.slots : j # i => w.slots[j] = p.slots[j]
      /\ DOMAIN w.slots = DOMAIN p.slots
  BY <1>1, <1>2, <1>3
<1>5. /\ q \in Page /\ q.slots = w.slots /\ q.next = p.next
      /\ \A j \in Live(w) : \A b \in Extent(w, j) : b \in Bytes => q.bytes[b] = p.bytes[b]
  BY <1>1, <1>3, <1>4, SweptFields
<1> HIDE DEF q
<1>6. ASSUME NEW j \in Live(p), j # i, NEW b \in Extent(p, j)
      PROVE  q.bytes[b] = p.bytes[b]
  <2>1. w.slots[j] = p.slots[j] /\ j \in Live(w) /\ b \in Extent(w, j)
    BY <1>1, <1>4, <1>6 DEF Live, Extent
  <2>2. HoldsRow(p, j)
    BY DEF PageInv
  <2>3. p.slots[j].offset \in Nat /\ p.slots[j].size \in Nat
    BY <1>1, PageFields
  <2>4. b \in Bytes
    BY <2>2, <2>3, PageAssumption DEF HoldsRow, Extent, Bytes
  <2> QED
    BY <1>5, <2>1, <2>4
<1>7. /\ PageInv(q) /\ Live(q) = Live(p) \ {i}
      /\ \A j \in Live(q) : slotted_page_get(q, j) = slotted_page_get(p, j)
  BY <1>2, <1>4, <1>5, <1>6, RowTaken
<1>8. DOMAIN q.slots = DOMAIN p.slots /\ q.slots # <<>>
  <2>1. i \in DOMAIN q.slots
    BY <1>1, <1>4, <1>5
  <2> QED
    BY <1>4, <1>5, <2>1
<1> QED
  BY <1>5, <1>7, <1>8 DEF q, w, dead, slotted_page_delete

\* The two ways a row is rewritten, in place and below the other rows.
LEMMA UpdateOnPage ==
  ASSUME NEW p, PageInv(p), NEW i \in Live(p), NEW row \in Rows, CanUpdate(p, i, row)
  PROVE  LET q == slotted_page_update(p, i, row)
         IN  /\ PageInv(q) /\ Live(q) = Live(p) /\ q.next = p.next
             /\ DOMAIN q.slots = DOMAIN p.slots /\ q.slots # <<>>
             /\ slotted_page_get(q, i) = Image(row)
             /\ \A j \in Live(p) : j # i => slotted_page_get(q, j) = slotted_page_get(p, j)
<1> DEFINE m == tuple_size[row]
           u == free_space_upper(p)
           at == IF InPlace(p, i, row) THEN p.slots[i].offset ELSE u - m
           slot == IF InPlace(p, i, row) THEN Resized(p, i, m) ELSE SlotAt(p, row)
           bytes == Written(p, at, row)
           w == WithSlot(p, i, slot, bytes)
           q == Swept(w)
<1>0. slotted_page_update(p, i, row) = q
  BY DEF slotted_page_update, PlaceFor
<1>1. /\ p \in Page /\ p.slots \in Seq(Slot) /\ DOMAIN p.slots = 1 .. Len(p.slots)
      /\ p.bytes \in [Bytes -> Rows \cup {Blank}] /\ Len(p.slots) \in Nat
      /\ p.next \in PageIds \cup {INVALID_PAGE_ID} /\ Live(p) \subseteq DOMAIN p.slots
      /\ \A j \in Live(p) : /\ p.slots[j].offset \in Nat /\ p.slots[j].size \in Nat
                            /\ p.slots[j].size > 0 /\ u <= p.slots[j].offset
      /\ u \in Nat /\ u <= PAGE_SIZE /\ slot_array_end(p) <= u /\ slot_array_end(p) \in Nat
      /\ m \in Nat /\ m > 0 /\ PAGE_SIZE \in Nat
  BY PageFields, UpperIsLeast, PageAssumption DEF PageInv
<1>2. \A j \in Live(p) : p.slots[j].offset + p.slots[j].size <= PAGE_SIZE
  BY DEF PageInv, HoldsRow
<1>3. slot.offset = at /\ slot.size = m
  BY DEF Resized, SlotAt, PlaceFor
<1>4. /\ at \in Nat /\ at + m <= PAGE_SIZE /\ slot_array_end(p) <= at
      /\ \/ at + m <= p.slots[i].offset + p.slots[i].size /\ p.slots[i].offset <= at
         \/ at + m = u
  <2>1. CASE InPlace(p, i, row)
    <3>1. at = p.slots[i].offset /\ m <= p.slots[i].size
      BY <2>1 DEF InPlace
    <3> DEFINE o == p.slots[i].offset
               k == p.slots[i].size
    <3>2. /\ o \in Nat /\ k \in Nat /\ u <= o /\ o + k <= PAGE_SIZE
          /\ m \in Nat /\ u \in Nat /\ slot_array_end(p) \in Nat /\ slot_array_end(p) <= u
          /\ PAGE_SIZE \in Nat /\ at = o /\ m <= k
      BY <1>1, <1>2, <3>1
    <3> HIDE DEF at, m, u, o, k
    <3>3. at \in Nat /\ at + m <= PAGE_SIZE /\ slot_array_end(p) <= at /\ at + m <= o + k /\ o <= at
      BY <3>2
    <3> QED
      BY <3>3 DEF o, k
  <2>2. CASE ~InPlace(p, i, row)
    <3>1. slot_array_end(p) + m <= u
      <4>1. slot_array_end(p) + 0 * SLOT_SIZE + m <= u
        BY <2>2 DEF CanUpdate, Fits
      <4> HIDE DEF m, u
      <4> QED
        BY <1>1, <4>1, PageAssumption
    <3>2. at = u - m
      BY <2>2
    <3> HIDE DEF at, m, u
    <3> QED
      BY <1>1, <3>1, <3>2
  <2> QED
    BY <2>1, <2>2
<1>5. slot \in Slot
  <2>1. slot = [offset |-> at, size |-> m]
    BY DEF Resized, SlotAt, PlaceFor
  <2> HIDE DEF slot, at, m
  <2> QED
    BY <1>1, <1>4, <2>1 DEF Slot
<1>6. /\ bytes \in [Bytes -> Rows \cup {Blank}]
      /\ \A b \in Bytes : bytes[b] = IF b \in at .. at + m - 1 THEN row ELSE p.bytes[b]
  <2> HIDE DEF at
  <2> QED
    BY <1>1 DEF Written
<1> HIDE DEF slot, bytes, at, m, u
<1>7. /\ w = [slots |-> w.slots, bytes |-> w.bytes, next |-> w.next]
      /\ w.slots = [p.slots EXCEPT ![i] = slot] /\ w.bytes = bytes /\ w.next = p.next
  BY DEF WithSlot
<1> HIDE DEF w
<1>8. /\ w.slots \in Seq(Slot) /\ Len(w.slots) = Len(p.slots) /\ w.slots[i] = slot
      /\ \A j \in DOMAIN p.slots : j # i => w.slots[j] = p.slots[j]
      /\ DOMAIN w.slots = DOMAIN p.slots /\ i \in DOMAIN p.slots
  BY <1>1, <1>5, <1>7
<1>9. /\ q \in Page /\ q.slots = w.slots /\ q.next = p.next
      /\ \A j \in Live(w) : \A b \in Extent(w, j) : b \in Bytes => q.bytes[b] = bytes[b]
  <2>1. /\ w.slots \in Seq(Slot) /\ w.bytes \in [Bytes -> Rows \cup {Blank}]
        /\ w.next \in PageIds \cup {INVALID_PAGE_ID}
        /\ w = [slots |-> w.slots, bytes |-> w.bytes, next |-> w.next]
    BY <1>1, <1>6, <1>7, <1>8
  <2> HIDE DEF q
  <2>2. /\ Swept(w) \in Page
        /\ Swept(w).slots = w.slots /\ Swept(w).next = w.next
        /\ \A j \in Live(w) : \A b \in Extent(w, j) :
             b \in Bytes => Swept(w).bytes[b] = w.bytes[b]
    BY <2>1, SweptFields
  <2> QED
    BY <1>7, <2>2 DEF q
<1> HIDE DEF q
<1>10. \A j \in Live(p) : j # i => ~Overlap(q.slots[i], p.slots[j])
  <2>1. ASSUME NEW j \in Live(p), j # i PROVE ~Overlap(q.slots[i], p.slots[j])
    <3>1. ~Overlap(p.slots[i], p.slots[j])
      BY <2>1 DEF PageInv
    <3>2. q.slots[i].offset = at /\ q.slots[i].size = m
      BY <1>3, <1>8, <1>9
    <3> DEFINE o == p.slots[i].offset
               k == p.slots[i].size
               o2 == p.slots[j].offset
               k2 == p.slots[j].size
    <3>3. /\ o \in Nat /\ k \in Nat /\ o2 \in Nat /\ k2 \in Nat /\ u <= o2 /\ u \in Nat
          /\ m \in Nat /\ m > 0 /\ at \in Nat /\ k > 0
          /\ (at + m <= o + k /\ o <= at) \/ at + m = u
      BY <1>1, <1>4
    <3>4. ~(o < o2 + k2 /\ o2 < o + k)
      BY <3>1 DEF Overlap
    <3> HIDE DEF o, k, o2, k2
    <3>5. ~(at < o2 + k2 /\ o2 < at + m)
      BY <3>3, <3>4
    <3> QED
      BY <3>2, <3>5 DEF Overlap, o2, k2
  <2> QED
    BY <2>1
<1>11. ASSUME NEW b \in Extent(q, i) PROVE q.bytes[b] = row
  <2>1. b \in at .. at + m - 1
    BY <1>3, <1>8, <1>9 DEF Extent
  <2>2. b \in Bytes
    BY <1>1, <1>4, <2>1 DEF Bytes
  <2>3. i \in Live(w) /\ b \in Extent(w, i)
    BY <1>1, <1>3, <1>8, <1>9 DEF Live, Extent
  <2> QED
    BY <1>6, <1>9, <2>1, <2>2, <2>3
<1>12. ASSUME NEW j \in Live(p), j # i, NEW b \in Extent(p, j)
       PROVE  q.bytes[b] = p.bytes[b]
  <2>1. w.slots[j] = p.slots[j] /\ j \in Live(w) /\ b \in Extent(w, j)
    BY <1>1, <1>8, <1>12 DEF Live, Extent
  <2> DEFINE o2 == p.slots[j].offset
             k2 == p.slots[j].size
  <2>2. o2 \in Nat /\ k2 \in Nat /\ o2 + k2 <= PAGE_SIZE /\ b \in o2 .. o2 + k2 - 1
    BY <1>1, <1>2 DEF Extent
  <2>4. ~(at < o2 + k2 /\ o2 < at + m)
    BY <1>3, <1>8, <1>9, <1>10, <1>12 DEF Overlap
  <2>6. PAGE_SIZE \in Nat /\ at \in Nat /\ m \in Nat
    BY <1>1, <1>4
  <2> HIDE DEF o2, k2
  <2>3. b \in Bytes
    BY <2>2, <2>6 DEF Bytes
  <2>5. b \notin at .. at + m - 1
    BY <2>2, <2>4, <2>6
  <2> QED
    BY <1>6, <1>9, <2>1, <2>3, <2>5
<1>13. /\ PageInv(q) /\ Live(q) = Live(p) \cup {i}
       /\ slotted_page_get(q, i) = Image(row)
       /\ \A j \in Live(p) : j # i => slotted_page_get(q, j) = slotted_page_get(p, j)
  <2>1. slot_array_end(q) = slot_array_end(p)
    BY <1>8, <1>9 DEF slot_array_end
  <2>2. /\ q.slots[i].size = tuple_size[row] /\ q.slots[i].offset + tuple_size[row] <= PAGE_SIZE
        /\ slot_array_end(q) <= q.slots[i].offset /\ slot_array_end(q) <= free_space_upper(p)
    BY <1>1, <1>3, <1>4, <1>8, <1>9, <2>1 DEF m, u
  <2> QED
    BY <1>8, <1>9, <1>10, <1>11, <1>12, <2>2, RowPlaced
<1>14. DOMAIN q.slots = DOMAIN p.slots /\ q.slots # <<>>
  BY <1>8, <1>9
<1> QED
  BY <1>0, <1>9, <1>13, <1>14

\* slotted_page_init makes a sound page without rows or a next page.
LEMMA EmptyPage ==
  /\ PageInv(slotted_page_init) /\ Live(slotted_page_init) = {}
  /\ slotted_page_init.slots = <<>> /\ slotted_page_init.next = INVALID_PAGE_ID
<1> DEFINE q == slotted_page_init
<1>1. q.slots = <<>> /\ q.next = INVALID_PAGE_ID /\ q \in Page
  BY DEF slotted_page_init, Page
<1>2. Live(q) = {}
  BY <1>1 DEF Live
<1> HIDE DEF q
<1>3. free_space_upper(q) = PAGE_SIZE
  BY <1>1, <1>2, UpperIsLeast DEF Offsets
<1>4. slot_array_end(q) <= PAGE_SIZE
  BY <1>1, PageAssumption DEF slot_array_end
<1> QED
  BY <1>1, <1>2, <1>3, <1>4 DEF PageInv, q

-----------------------------------------------------------------------------
(* The chain *)

\* The k-th page of s, INVALID_PAGE_ID past its end.
At(s, k) == IF k \in DOMAIN s THEN s[k] ELSE INVALID_PAGE_ID

\* s lists the pages of the chain that starts at first.
IsPath(ps, first, s) ==
  /\ s \in Seq(DOMAIN ps)
  /\ first = At(s, 1)
  /\ \A k \in DOMAIN s : ps[s[k]].next = At(s, k + 1)
  /\ \A k, l \in DOMAIN s : s[k] = s[l] => k = l

\* Sound pages, those with rows on the chain s.
HeapOn(ps, first, s) ==
  /\ DOMAIN ps \subseteq PageIds
  /\ \A p \in DOMAIN ps : PageInv(ps[p])
  /\ IsPath(ps, first, s)
  /\ \A p \in DOMAIN ps : ps[p].slots # <<>> => \E k \in DOMAIN s : s[k] = p

\* What the walk along the next pages of the code meets.
LEMMA PathIsChain ==
  ASSUME NEW ps, NEW first, NEW s, HeapOn(ps, first, s)
  PROVE  /\ Cardinality(PageIds) \in Nat /\ Len(s) \in 0 .. Cardinality(PageIds)
         /\ DOMAIN Chain(ps, first) = 0 .. Cardinality(PageIds)
         /\ \A k \in 0 .. Cardinality(PageIds) : Chain(ps, first)[k] = At(s, k + 1)
         /\ OnChain(ps, first) = {s[k] : k \in DOMAIN s}
<1> DEFINE N == Cardinality(PageIds)
           Body(f) == [n \in 0 .. N |->
                         IF n = 0 THEN first
                         ELSE IF f[n - 1] = INVALID_PAGE_ID THEN INVALID_PAGE_ID
                         ELSE ps[f[n - 1]].next]
           walk == CHOOSE f : f = Body(f)
           c == [k \in 0 .. N |-> At(s, k + 1)]
<1>1. IsFiniteSet(PageIds) /\ N \in Nat
  BY HeapAssumption, FS_CardinalityType
<1>2. /\ s \in Seq(DOMAIN ps) /\ Len(s) \in Nat /\ DOMAIN s = 1 .. Len(s)
      /\ \A k \in DOMAIN s : s[k] \in DOMAIN ps /\ s[k] \in PageIds
      /\ first = At(s, 1)
      /\ \A k \in DOMAIN s : ps[s[k]].next = At(s, k + 1)
      /\ \A k, l \in DOMAIN s : s[k] = s[l] => k = l
  <2>1. s \in Seq(DOMAIN ps) /\ DOMAIN ps \subseteq PageIds
    BY DEF HeapOn, IsPath
  <2>2. Len(s) \in Nat /\ DOMAIN s = 1 .. Len(s) /\ \A k \in DOMAIN s : s[k] \in DOMAIN ps
    BY <2>1
  <2> QED
    BY <2>1, <2>2 DEF HeapOn, IsPath
<1>3. INVALID_PAGE_ID \notin PageIds
  BY PageAssumption
<1> HIDE DEF N
<1>4. Len(s) <= N
  <2>1. IsFiniteSet(1 .. Len(s)) /\ Cardinality(1 .. Len(s)) = Len(s)
    BY <1>2, FS_Interval
  <2>2. s \in [1 .. Len(s) -> PageIds]
    BY <1>2
  <2>3. CASE N < Len(s)
    <3>1. \E k, l \in 1 .. Len(s) : k # l /\ s[k] = s[l]
      BY <1>1, <2>1, <2>2, <2>3, FS_PigeonHole DEF N
    <3> QED
      BY <1>2, <3>1
  <2> QED
    BY <1>1, <1>2, <2>3
<1>5. c = Body(c)
  <2>1. ASSUME NEW n \in 0 .. N
        PROVE  c[n] = IF n = 0 THEN first
                      ELSE IF c[n - 1] = INVALID_PAGE_ID THEN INVALID_PAGE_ID
                      ELSE ps[c[n - 1]].next
    <3>1. CASE n = 0
      BY <1>1, <1>2, <3>1
    <3>2. CASE n # 0
      <4>1. n - 1 \in 0 .. N /\ c[n - 1] = At(s, n) /\ c[n] = At(s, n + 1) /\ n \in Nat
        BY <1>1, <3>2
      <4>2. CASE n \in DOMAIN s
        BY <1>2, <1>3, <3>2, <4>1, <4>2 DEF At
      <4>3. CASE n \notin DOMAIN s
        <5>1. n + 1 \notin DOMAIN s
          BY <1>2, <3>2, <4>1, <4>3
        <5> QED
          BY <3>2, <4>1, <4>3, <5>1 DEF At
      <4> QED
        BY <4>2, <4>3
    <3> QED
      BY <3>1, <3>2
  <2> HIDE DEF c
  <2>2. c = [k \in 0 .. N |-> c[k]]
    BY DEF c
  <2> QED
    BY <2>1, <2>2
<1>6. walk = Body(walk)
  <2>1. \E f : f = Body(f)
    <3> HIDE DEF c, Body
    <3> QED
      BY <1>5
  <2> HIDE DEF Body
  <2> QED
    BY <2>1
<1>7. Chain(ps, first) = walk
  BY DEF Chain, N
<1> HIDE DEF walk
<1>8. /\ DOMAIN walk = 0 .. N
      /\ \A n \in 0 .. N : walk[n] = IF n = 0 THEN first
                                     ELSE IF walk[n - 1] = INVALID_PAGE_ID THEN INVALID_PAGE_ID
                                     ELSE ps[walk[n - 1]].next
  BY <1>6
<1> DEFINE Same == {n \in Nat : n <= N => walk[n] = c[n]}
<1>9. Nat \subseteq Same
  <2>1. 0 \in Same
    <3>1. 0 \in 0 .. N
      BY <1>1
    <3>2. walk[0] = first /\ c[0] = first
      BY <1>2, <1>8, <3>1
    <3> HIDE DEF c
    <3> QED
      BY <3>2
  <2>2. ASSUME NEW n \in Nat, n \in Same PROVE n + 1 \in Same
    <3> SUFFICES ASSUME n + 1 <= N PROVE walk[n + 1] = c[n + 1]
      OBVIOUS
    <3>1. n + 1 \in 0 .. N /\ n + 1 # 0 /\ (n + 1) - 1 = n /\ n \in 0 .. N /\ walk[n] = c[n]
      BY <1>1, <2>2
    <3>2. c[n + 1] = IF c[n] = INVALID_PAGE_ID THEN INVALID_PAGE_ID ELSE ps[c[n]].next
      BY <1>5, <3>1
    <3> HIDE DEF c
    <3> QED
      BY <1>8, <3>1, <3>2
  <2> HIDE DEF Same
  <2> QED
    BY <2>1, <2>2, NatsBelong
<1>10. \A k \in 0 .. N : walk[k] = At(s, k + 1)
  <2>1. ASSUME NEW k \in 0 .. N PROVE walk[k] = At(s, k + 1)
    <3>1. k \in Nat /\ k <= N
      BY <1>1
    <3>2. k \in Same
      <4> HIDE DEF Same
      <4> QED
        BY <1>9, <3>1
    <3> QED
      BY <3>1, <3>2
  <2> QED
    BY <2>1
<1>11. OnChain(ps, first) = {s[k] : k \in DOMAIN s}
  <2>1. ASSUME NEW p \in PageIds, NEW n \in 0 .. N, walk[n] = p
        PROVE  p \in {s[k] : k \in DOMAIN s}
    BY <1>3, <1>10, <2>1 DEF At
  <2>2. ASSUME NEW k \in DOMAIN s
        PROVE  s[k] \in PageIds /\ k - 1 \in 0 .. N /\ walk[k - 1] = s[k]
    <3>1. k - 1 \in 0 .. N /\ (k - 1) + 1 = k
      BY <1>1, <1>2, <1>4
    <3> QED
      BY <1>2, <1>10, <3>1 DEF At
  <2>3. OnChain(ps, first) = {p \in PageIds : \E n \in 0 .. N : walk[n] = p}
    BY <1>7 DEF OnChain, N
  <2> QED
    BY <2>1, <2>2, <2>3
<1> QED
  BY <1>1, <1>2, <1>4, <1>7, <1>8, <1>10, <1>11 DEF N

\* A page of the chain, or one with no slots, takes the content q.
LEMMA PageChanged ==
  ASSUME NEW ps, NEW first, NEW s, HeapOn(ps, first, s), NEW p \in DOMAIN ps,
         NEW q, PageInv(q), q.next = ps[p].next,
         q.slots # <<>> => \E k \in DOMAIN s : s[k] = p
  PROVE  HeapOn([ps EXCEPT ![p] = q], first, s)
<1> DEFINE qs == [ps EXCEPT ![p] = q]
<1>1. /\ DOMAIN qs = DOMAIN ps /\ qs[p] = q
      /\ \A r \in DOMAIN ps : r # p => qs[r] = ps[r]
  OBVIOUS
<1> HIDE DEF qs
<1>2. s \in Seq(DOMAIN qs) /\ \A k \in DOMAIN s : s[k] \in DOMAIN ps
  BY <1>1 DEF HeapOn, IsPath
<1>3. \A r \in DOMAIN ps : qs[r].next = ps[r].next
  BY <1>1
<1>4. IsPath(qs, first, s)
  BY <1>2, <1>3 DEF HeapOn, IsPath
<1>5. \A r \in DOMAIN qs : PageInv(qs[r])
  BY <1>1 DEF HeapOn
<1>6. \A r \in DOMAIN qs : qs[r].slots # <<>> => \E k \in DOMAIN s : s[k] = r
  BY <1>1 DEF HeapOn
<1> QED
  BY <1>1, <1>4, <1>5, <1>6 DEF HeapOn, qs

\* A new page off the chain.
LEMMA PageAdded ==
  ASSUME NEW ps, NEW first, NEW s, HeapOn(ps, first, s), NEW p \in Fresh(ps)
  PROVE  /\ HeapOn(WithPage(ps, p, slotted_page_init), first, s)
         /\ DOMAIN WithPage(ps, p, slotted_page_init) = DOMAIN ps \cup {p}
         /\ WithPage(ps, p, slotted_page_init)[p] = slotted_page_init
         /\ \A r \in DOMAIN ps : WithPage(ps, p, slotted_page_init)[r] = ps[r]
<1> DEFINE qs == WithPage(ps, p, slotted_page_init)
<1>1. /\ DOMAIN qs = DOMAIN ps \cup {p} /\ qs[p] = slotted_page_init
      /\ p \in PageIds /\ p \notin DOMAIN ps
      /\ \A r \in DOMAIN ps : qs[r] = ps[r]
  BY DEF WithPage, Fresh
<1> HIDE DEF qs
<1>2. /\ s \in Seq(DOMAIN ps) /\ \A k \in DOMAIN s : s[k] \in DOMAIN ps
  BY DEF HeapOn, IsPath
<1>3. s \in Seq(DOMAIN qs)
  BY <1>1, <1>2
<1>4. IsPath(qs, first, s)
  BY <1>1, <1>2, <1>3 DEF HeapOn, IsPath
<1>5. \A r \in DOMAIN qs : PageInv(qs[r])
  BY <1>1, EmptyPage DEF HeapOn
<1>6. \A r \in DOMAIN qs : qs[r].slots # <<>> => \E k \in DOMAIN s : s[k] = r
  BY <1>1, EmptyPage DEF HeapOn
<1>7. DOMAIN qs \subseteq PageIds
  BY <1>1 DEF HeapOn
<1>8. HeapOn(qs, first, s)
  BY <1>4, <1>5, <1>6, <1>7 DEF HeapOn
<1> QED
  BY <1>1, <1>8 DEF qs

\* A page keeps what it holds when its next page changes.
LEMMA NextChanged ==
  ASSUME NEW p, PageInv(p), NEW n \in PageIds
  PROVE  LET q == [p EXCEPT !.next = n]
         IN  PageInv(q) /\ q.next = n /\ q.slots = p.slots /\ q.bytes = p.bytes
<1> DEFINE q == [p EXCEPT !.next = n]
<1>1. /\ q.next = n /\ q.slots = p.slots /\ q.bytes = p.bytes /\ q \in Page
  BY DEF PageInv, Page
<1> HIDE DEF q
<1>2. Live(q) = Live(p) /\ slot_array_end(q) = slot_array_end(p)
  BY <1>1 DEF Live, slot_array_end
<1>3. free_space_upper(q) = free_space_upper(p)
  BY <1>1, <1>2 DEF free_space_upper, Offsets
<1>4. \A i \in Live(q) : HoldsRow(q, i)
  BY <1>1, <1>2 DEF PageInv, HoldsRow, Extent
<1>5. PageInv(q)
  BY <1>1, <1>2, <1>3, <1>4 DEF PageInv
<1> QED
  BY <1>1, <1>5 DEF q

\* Linked makes the new page the last of the chain.
LEMMA PageLinked ==
  ASSUME NEW h, NEW s, HeapOn(h.pages, h.first, s), h.first # INVALID_PAGE_ID,
         NEW p \in Fresh(h.pages)
  PROVE  /\ HeapOn(Linked(h, p), h.first, Append(s, p))
         /\ DOMAIN Linked(h, p) = DOMAIN h.pages \cup {p}
         /\ Linked(h, p)[p] = slotted_page_init
         /\ \A r \in DOMAIN h.pages : /\ Linked(h, p)[r].slots = h.pages[r].slots
                                      /\ Linked(h, p)[r].bytes = h.pages[r].bytes
<1> DEFINE ps == h.pages
           last == CHOOSE q \in OnChain(ps, h.first) : ps[q].next = INVALID_PAGE_ID
           lp == [ps[last] EXCEPT !.next = p]
           qs == [ps EXCEPT ![last] = lp]
           z == Linked(h, p)
           t == Append(s, p)
           n == Len(s)
<1>1. /\ s \in Seq(DOMAIN ps) /\ n \in Nat /\ DOMAIN s = 1 .. n
      /\ \A k \in DOMAIN s : s[k] \in DOMAIN ps
      /\ DOMAIN ps \subseteq PageIds /\ p \in PageIds /\ p \notin DOMAIN ps
  BY DEF HeapOn, IsPath, Fresh
<1>2. n > 0
  BY <1>1 DEF HeapOn, IsPath, At
<1>3. INVALID_PAGE_ID \notin PageIds
  BY PageAssumption
<1>4. /\ n \in DOMAIN s /\ ps[s[n]].next = INVALID_PAGE_ID
      /\ \A k \in DOMAIN s : ps[s[k]].next = INVALID_PAGE_ID => k = n
  <2>1. ps[s[n]].next = INVALID_PAGE_ID /\ n \in DOMAIN s
    BY <1>1, <1>2 DEF HeapOn, IsPath, At
  <2>2. ASSUME NEW k \in DOMAIN s, k # n PROVE ps[s[k]].next # INVALID_PAGE_ID
    <3>1. k + 1 \in DOMAIN s
      BY <1>1, <2>2
    <3>2. ps[s[k]].next = s[k + 1]
      BY <3>1 DEF HeapOn, IsPath, At
    <3> QED
      BY <1>1, <1>3, <3>1, <3>2
  <2> QED
    BY <2>1, <2>2
<1>5. last = s[n]
  <2>1. OnChain(ps, h.first) = {s[k] : k \in DOMAIN s}
    BY PathIsChain
  <2> QED
    BY <1>4, <2>1
<1>6. z = WithPage(qs, p, slotted_page_init)
  BY DEF Linked
<1> HIDE DEF last
<1>7. last \in DOMAIN ps /\ PageInv(ps[last])
  BY <1>1, <1>4, <1>5 DEF HeapOn
<1>8. PageInv(lp) /\ lp.next = p /\ lp.slots = ps[last].slots /\ lp.bytes = ps[last].bytes
  BY <1>1, <1>7, NextChanged
<1> HIDE DEF lp
<1>9. /\ DOMAIN qs = DOMAIN ps /\ qs[last] = lp
      /\ \A r \in DOMAIN ps : r # last => qs[r] = ps[r]
  BY <1>7
<1> HIDE DEF qs
<1>10. /\ DOMAIN z = DOMAIN ps \cup {p} /\ z[p] = slotted_page_init
       /\ z[last] = lp
       /\ \A r \in DOMAIN ps : r # last => z[r] = ps[r]
  BY <1>1, <1>6, <1>7, <1>9 DEF WithPage
<1> HIDE DEF z
<1>11. \A r \in DOMAIN ps : z[r].slots = ps[r].slots /\ z[r].bytes = ps[r].bytes
  BY <1>8, <1>10
<1>12. /\ t \in Seq(DOMAIN z) /\ Len(t) = n + 1 /\ DOMAIN t = 1 .. n + 1
       /\ t[n + 1] = p /\ \A k \in DOMAIN s : t[k] = s[k]
  <2>1. s \in Seq(DOMAIN z) /\ p \in DOMAIN z
    BY <1>1, <1>10
  <2> QED
    BY <1>1, <2>1
<1> HIDE DEF t
<1>13. ASSUME NEW k \in DOMAIN t PROVE z[t[k]].next = At(t, k + 1)
  <2>1. CASE k = n + 1
    <3>1. z[t[k]].next = INVALID_PAGE_ID
      BY <1>10, <1>12, <2>1, EmptyPage
    <3> QED
      BY <1>1, <1>12, <2>1, <3>1 DEF At
  <2>2. CASE k = n
    BY <1>1, <1>4, <1>5, <1>8, <1>10, <1>12, <2>2 DEF At
  <2>3. CASE k < n
    <3>1. k \in DOMAIN s /\ k + 1 \in DOMAIN s /\ k + 1 \in DOMAIN t /\ k # n
      BY <1>1, <1>12, <2>3
    <3>2. s[k] # last
      BY <1>4, <1>5, <3>1
    <3>3. z[t[k]].next = ps[s[k]].next
      BY <1>1, <1>10, <1>12, <3>1, <3>2
    <3> QED
      BY <1>12, <3>1, <3>3 DEF HeapOn, IsPath, At
  <2> QED
    BY <1>1, <1>12, <2>1, <2>2, <2>3
<1>14. \A k, l \in DOMAIN t : t[k] = t[l] => k = l
  <2>1. \A k \in DOMAIN s : t[k] # p
    BY <1>1, <1>12
  <2>2. \A k \in DOMAIN t : k \in DOMAIN s \/ k = n + 1
    BY <1>1, <1>12
  <2> QED
    BY <1>12, <2>1, <2>2 DEF HeapOn, IsPath
<1>15. h.first = At(t, 1)
  BY <1>1, <1>2, <1>12 DEF HeapOn, IsPath, At
<1>16. \A r \in DOMAIN z : PageInv(z[r])
  BY <1>8, <1>10, EmptyPage DEF HeapOn
<1>17. ASSUME NEW r \in DOMAIN z, z[r].slots # <<>> PROVE \E k \in DOMAIN t : t[k] = r
  <2>1. r \in DOMAIN ps /\ ps[r].slots # <<>>
    BY <1>10, <1>11, <1>17, EmptyPage
  <2>2. PICK k \in DOMAIN s : s[k] = r
    BY <2>1 DEF HeapOn
  <2> QED
    BY <1>1, <1>12, <2>2
<1>18. DOMAIN z \subseteq PageIds
  BY <1>1, <1>10
<1>19. HeapOn(z, h.first, t)
  BY <1>12, <1>13, <1>14, <1>15, <1>16, <1>17, <1>18 DEF HeapOn, IsPath
<1> QED
  BY <1>10, <1>11, <1>19 DEF z, t

-----------------------------------------------------------------------------
(* The rows of a heap *)

RidsOf(ps) == UNION {{<<p, i>> : i \in Live(ps[p])} : p \in DOMAIN ps}
UsedOf(ps) == UNION {{<<p, i>> : i \in DOMAIN ps[p].slots} : p \in DOMAIN ps}
AnswerOf(ps, rid) == slotted_page_get(ps[rid[1]], rid[2])

\* From the pages ps to the pages qs no row changes, a row is put under an id
\* never used, is changed, or goes.
RowsKept(ps, qs) ==
  /\ RidsOf(qs) = RidsOf(ps) /\ UsedOf(qs) = UsedOf(ps)
  /\ \A rid \in RidsOf(ps) : AnswerOf(qs, rid) = AnswerOf(ps, rid)

RowAdded(ps, qs, rid, image) ==
  /\ rid \in PageIds \X (1 .. PAGE_SIZE) /\ rid \notin UsedOf(ps)
  /\ RidsOf(qs) = RidsOf(ps) \cup {rid} /\ UsedOf(qs) = UsedOf(ps) \cup {rid}
  /\ AnswerOf(qs, rid) = image
  /\ \A other \in RidsOf(ps) : AnswerOf(qs, other) = AnswerOf(ps, other)

RowChanged(ps, qs, rid, image) ==
  /\ rid \in RidsOf(ps) /\ RidsOf(qs) = RidsOf(ps) /\ UsedOf(qs) = UsedOf(ps)
  /\ AnswerOf(qs, rid) = image
  /\ \A other \in RidsOf(ps) : other # rid => AnswerOf(qs, other) = AnswerOf(ps, other)

RowGone(ps, qs, rid) ==
  /\ rid \in RidsOf(ps) /\ RidsOf(qs) = RidsOf(ps) \ {rid} /\ UsedOf(qs) = UsedOf(ps)
  /\ \A other \in RidsOf(qs) : AnswerOf(qs, other) = AnswerOf(ps, other)

\* Row ids are pairs.
LEMMA RidsArePairs ==
  ASSUME NEW ps
  PROVE  /\ \A p, i : <<p, i>> \in RidsOf(ps) <=> p \in DOMAIN ps /\ i \in Live(ps[p])
         /\ \A p, i : <<p, i>> \in UsedOf(ps) <=> p \in DOMAIN ps /\ i \in DOMAIN ps[p].slots
         /\ \A rid \in RidsOf(ps) : rid = <<rid[1], rid[2]>>
         /\ \A rid \in UsedOf(ps) : rid = <<rid[1], rid[2]>>
         /\ RidsOf(ps) \subseteq UsedOf(ps)
<1>1. \A rid : rid \in RidsOf(ps) <=> \E p \in DOMAIN ps : \E i \in Live(ps[p]) : rid = <<p, i>>
  BY DEF RidsOf
<1>2. \A rid : rid \in UsedOf(ps) <=> \E p \in DOMAIN ps : \E i \in DOMAIN ps[p].slots : rid = <<p, i>>
  BY DEF UsedOf
<1>3. \A p : Live(ps[p]) \subseteq DOMAIN ps[p].slots
  BY DEF Live
<1>4. \A p, i : <<p, i>> \in RidsOf(ps) <=> p \in DOMAIN ps /\ i \in Live(ps[p])
  BY <1>1
<1>5. \A p, i : <<p, i>> \in UsedOf(ps) <=> p \in DOMAIN ps /\ i \in DOMAIN ps[p].slots
  BY <1>2
<1>6. \A rid \in RidsOf(ps) : rid = <<rid[1], rid[2]>>
  BY <1>1
<1>7. \A rid \in UsedOf(ps) : rid = <<rid[1], rid[2]>>
  BY <1>2
<1>8. RidsOf(ps) \subseteq UsedOf(ps)
  BY <1>1, <1>2, <1>3
<1> QED
  BY <1>4, <1>5, <1>6, <1>7, <1>8

\* More pages without slots, and other links, leave the rows alone.
LEMMA SameRows ==
  ASSUME NEW ps, NEW qs, DOMAIN ps \subseteq DOMAIN qs,
         \A r \in DOMAIN ps : qs[r].slots = ps[r].slots /\ qs[r].bytes = ps[r].bytes,
         \A r \in DOMAIN qs \ DOMAIN ps : qs[r].slots = <<>>
  PROVE  RowsKept(ps, qs)
<1>1. \A r \in DOMAIN ps : Live(qs[r]) = Live(ps[r]) /\ DOMAIN qs[r].slots = DOMAIN ps[r].slots
  BY DEF Live
<1>2. \A r \in DOMAIN qs \ DOMAIN ps : Live(qs[r]) = {} /\ DOMAIN qs[r].slots = {}
  BY DEF Live
<1>2a. /\ \A p, i : <<p, i>> \in RidsOf(qs) <=> p \in DOMAIN qs /\ i \in Live(qs[p])
       /\ \A p, i : <<p, i>> \in UsedOf(qs) <=> p \in DOMAIN qs /\ i \in DOMAIN qs[p].slots
  BY RidsArePairs
<1>2b. /\ \A p, i : <<p, i>> \in RidsOf(ps) <=> p \in DOMAIN ps /\ i \in Live(ps[p])
       /\ \A p, i : <<p, i>> \in UsedOf(ps) <=> p \in DOMAIN ps /\ i \in DOMAIN ps[p].slots
  BY RidsArePairs
<1>3. ASSUME NEW p, NEW i PROVE <<p, i>> \in RidsOf(qs) <=> <<p, i>> \in RidsOf(ps)
  <2>1. CASE p \in DOMAIN ps
    <3>1. p \in DOMAIN qs /\ Live(qs[p]) = Live(ps[p])
      BY <1>1, <2>1
    <3> QED
      BY <1>2a, <1>2b, <2>1, <3>1
  <2>2. CASE p \in DOMAIN qs \ DOMAIN ps
    <3>1. Live(qs[p]) = {}
      BY <1>2, <2>2
    <3> QED
      BY <1>2a, <1>2b, <2>2, <3>1
  <2>3. CASE p \notin DOMAIN qs
    BY <1>2a, <1>2b, <2>3
  <2> QED
    BY <2>1, <2>2, <2>3
<1>4. ASSUME NEW p, NEW i PROVE <<p, i>> \in UsedOf(qs) <=> <<p, i>> \in UsedOf(ps)
  <2>1. CASE p \in DOMAIN ps
    <3>1. p \in DOMAIN qs /\ DOMAIN qs[p].slots = DOMAIN ps[p].slots
      BY <1>1, <2>1
    <3> QED
      BY <1>2a, <1>2b, <2>1, <3>1
  <2>2. CASE p \in DOMAIN qs \ DOMAIN ps
    <3>1. DOMAIN qs[p].slots = {}
      BY <1>2, <2>2
    <3> QED
      BY <1>2a, <1>2b, <2>2, <3>1
  <2>3. CASE p \notin DOMAIN qs
    BY <1>2a, <1>2b, <2>3
  <2> QED
    BY <2>1, <2>2, <2>3
<1>5. \A rid \in RidsOf(ps) : rid = <<rid[1], rid[2]>> /\ rid[1] \in DOMAIN ps
  BY RidsArePairs
<1>6. RidsOf(qs) = RidsOf(ps)
  <2>1. RidsOf(qs) \subseteq RidsOf(ps)
    BY <1>3, RidsArePairs
  <2>2. RidsOf(ps) \subseteq RidsOf(qs)
    BY <1>3, RidsArePairs
  <2> QED
    BY <2>1, <2>2
<1>7. UsedOf(qs) = UsedOf(ps)
  <2>1. UsedOf(qs) \subseteq UsedOf(ps)
    BY <1>4, RidsArePairs
  <2>2. UsedOf(ps) \subseteq UsedOf(qs)
    BY <1>4, RidsArePairs
  <2> QED
    BY <2>1, <2>2
<1>8. \A rid \in RidsOf(ps) : AnswerOf(qs, rid) = AnswerOf(ps, rid)
  BY <1>5 DEF AnswerOf, slotted_page_get
<1> QED
  BY <1>6, <1>7, <1>8 DEF RowsKept

\* What the pages qs answer when page p of ps is replaced by q.
PageReplaced(ps, qs, p, q) ==
  /\ \A r, i : <<r, i>> \in RidsOf(qs) <=>
       IF r = p THEN i \in Live(q) ELSE <<r, i>> \in RidsOf(ps)
  /\ \A r, i : <<r, i>> \in UsedOf(qs) <=>
       IF r = p THEN i \in DOMAIN q.slots ELSE <<r, i>> \in UsedOf(ps)
  /\ \A i : AnswerOf(qs, <<p, i>>) = slotted_page_get(q, i)
  /\ \A rid \in RidsOf(ps) : rid[1] # p => AnswerOf(qs, rid) = AnswerOf(ps, rid)

\* The rows of the other pages do not depend on the page that changes.
LEMMA OnePageChanges ==
  ASSUME NEW ps, NEW p \in DOMAIN ps, NEW q
  PROVE  PageReplaced(ps, [ps EXCEPT ![p] = q], p, q)
<1> DEFINE qs == [ps EXCEPT ![p] = q]
<1>1. DOMAIN qs = DOMAIN ps /\ qs[p] = q /\ \A r \in DOMAIN ps : r # p => qs[r] = ps[r]
  OBVIOUS
<1> HIDE DEF qs
<1>2. /\ \A r, i : <<r, i>> \in RidsOf(qs) <=> r \in DOMAIN qs /\ i \in Live(qs[r])
      /\ \A r, i : <<r, i>> \in RidsOf(ps) <=> r \in DOMAIN ps /\ i \in Live(ps[r])
      /\ \A r, i : <<r, i>> \in UsedOf(qs) <=> r \in DOMAIN qs /\ i \in DOMAIN qs[r].slots
      /\ \A r, i : <<r, i>> \in UsedOf(ps) <=> r \in DOMAIN ps /\ i \in DOMAIN ps[r].slots
      /\ \A rid \in RidsOf(ps) : rid = <<rid[1], rid[2]>>
  BY RidsArePairs
<1>3. ASSUME NEW r, NEW i
      PROVE  <<r, i>> \in RidsOf(qs) <=> IF r = p THEN i \in Live(q) ELSE <<r, i>> \in RidsOf(ps)
  <2>1. CASE r = p
    BY <1>1, <1>2, <2>1
  <2>2. CASE r # p
    <3>1. <<r, i>> \in RidsOf(qs) <=> r \in DOMAIN ps /\ i \in Live(qs[r])
      BY <1>1, <1>2
    <3>2. r \in DOMAIN ps => Live(qs[r]) = Live(ps[r])
      BY <1>1, <2>2
    <3>3. <<r, i>> \in RidsOf(ps) <=> r \in DOMAIN ps /\ i \in Live(ps[r])
      BY <1>2
    <3> QED
      BY <2>2, <3>1, <3>2, <3>3
  <2> QED
    BY <2>1, <2>2
<1>4. ASSUME NEW r, NEW i
      PROVE  <<r, i>> \in UsedOf(qs) <=> IF r = p THEN i \in DOMAIN q.slots ELSE <<r, i>> \in UsedOf(ps)
  <2>1. CASE r = p
    BY <1>1, <1>2, <2>1
  <2>2. CASE r # p
    <3>1. <<r, i>> \in UsedOf(qs) <=> r \in DOMAIN ps /\ i \in DOMAIN qs[r].slots
      BY <1>1, <1>2
    <3>2. r \in DOMAIN ps => DOMAIN qs[r].slots = DOMAIN ps[r].slots
      BY <1>1, <2>2
    <3>3. <<r, i>> \in UsedOf(ps) <=> r \in DOMAIN ps /\ i \in DOMAIN ps[r].slots
      BY <1>2
    <3> QED
      BY <2>2, <3>1, <3>2, <3>3
  <2> QED
    BY <2>1, <2>2
<1>5. \A i : AnswerOf(qs, <<p, i>>) = slotted_page_get(q, i)
  BY <1>1 DEF AnswerOf
<1>6. \A rid \in RidsOf(ps) : rid[1] # p => AnswerOf(qs, rid) = AnswerOf(ps, rid)
  <2>1. \A rid \in RidsOf(ps) : rid[1] \in DOMAIN ps
    BY <1>2
  <2> QED
    BY <1>1, <2>1 DEF AnswerOf
<1> QED
  BY <1>3, <1>4, <1>5, <1>6 DEF qs, PageReplaced

\* slotted_page_insert on a page of the chain.
LEMMA StoreOn ==
  ASSUME NEW ps, NEW first, NEW s, HeapOn(ps, first, s), NEW p \in DOMAIN ps,
         \E k \in DOMAIN s : s[k] = p, NEW row \in Rows, Fits(ps[p], tuple_size[row], 1)
  PROVE  LET qs == [ps EXCEPT ![p] = slotted_page_insert(ps[p], row)]
         IN  /\ HeapOn(qs, first, s)
             /\ RowAdded(ps, qs, <<p, Len(ps[p].slots) + 1>>, Image(row))
<1> DEFINE old == ps[p]
           new == slotted_page_insert(old, row)
           qs == [ps EXCEPT ![p] = new]
           i == Len(old.slots) + 1
           rid == <<p, i>>
<1>1. PageInv(old) /\ p \in PageIds
  BY DEF HeapOn
<1>2. /\ PageInv(new) /\ Live(new) = Live(old) \cup {i} /\ new.next = old.next
      /\ DOMAIN new.slots = DOMAIN old.slots \cup {i} /\ i \notin DOMAIN old.slots
      /\ i \in Nat /\ slotted_page_get(new, i) = Image(row)
      /\ \A j \in Live(old) : slotted_page_get(new, j) = slotted_page_get(old, j)
  BY <1>1, InsertOnPage
<1>3. i \in 1 .. PAGE_SIZE
  <2>1. Len(new.slots) <= PAGE_SIZE /\ i \in 1 .. Len(new.slots) /\ Len(new.slots) \in Nat
    BY <1>2, SlotsFit, PageFields DEF PageInv
  <2> HIDE DEF i
  <2> QED
    BY <1>2, <2>1, PageAssumption
<1> HIDE DEF new
<1>4. HeapOn(qs, first, s)
  BY <1>2, PageChanged
<1>5. PageReplaced(ps, qs, p, new)
  BY OnePageChanges
<1>6. /\ \A j : <<p, j>> \in RidsOf(ps) <=> j \in Live(old)
      /\ \A j : <<p, j>> \in UsedOf(ps) <=> j \in DOMAIN old.slots
      /\ \A j : AnswerOf(ps, <<p, j>>) = slotted_page_get(old, j)
  BY RidsArePairs DEF AnswerOf
<1>7. /\ \A other \in RidsOf(ps) : other = <<other[1], other[2]>>
      /\ \A other \in RidsOf(qs) : other = <<other[1], other[2]>>
      /\ \A other \in UsedOf(ps) : other = <<other[1], other[2]>>
      /\ \A other \in UsedOf(qs) : other = <<other[1], other[2]>>
  BY RidsArePairs
<1> HIDE DEF qs, i, old
<1>8. RidsOf(qs) = RidsOf(ps) \cup {rid}
  <2>1. ASSUME NEW r, NEW j
        PROVE  <<r, j>> \in RidsOf(qs) <=> (<<r, j>> \in RidsOf(ps) \/ (r = p /\ j = i))
    <3>1. CASE r = p
      BY <1>2, <1>5, <1>6, <3>1 DEF PageReplaced
    <3>2. CASE r # p
      BY <1>5, <3>2 DEF PageReplaced
    <3> QED
      BY <3>1, <3>2
  <2> QED
    BY <1>7, <2>1
<1>9. UsedOf(qs) = UsedOf(ps) \cup {rid}
  <2>1. ASSUME NEW r, NEW j
        PROVE  <<r, j>> \in UsedOf(qs) <=> (<<r, j>> \in UsedOf(ps) \/ (r = p /\ j = i))
    <3>1. CASE r = p
      BY <1>2, <1>5, <1>6, <3>1 DEF PageReplaced
    <3>2. CASE r # p
      BY <1>5, <3>2 DEF PageReplaced
    <3> QED
      BY <3>1, <3>2
  <2> QED
    BY <1>7, <2>1
<1>10. ASSUME NEW other \in RidsOf(ps) PROVE AnswerOf(qs, other) = AnswerOf(ps, other)
  <2>1. CASE other[1] = p
    <3>1. other = <<p, other[2]>> /\ other[2] \in Live(old)
      BY <1>6, <1>7, <2>1
    <3>2. /\ AnswerOf(qs, <<p, other[2]>>) = slotted_page_get(new, other[2])
          /\ AnswerOf(ps, <<p, other[2]>>) = slotted_page_get(old, other[2])
          /\ slotted_page_get(new, other[2]) = slotted_page_get(old, other[2])
      BY <1>2, <1>5, <1>6, <3>1 DEF PageReplaced
    <3> QED
      BY <3>1, <3>2
  <2> QED
    BY <1>5, <2>1 DEF PageReplaced
<1>11. /\ rid \in PageIds \X (1 .. PAGE_SIZE) /\ rid \notin UsedOf(ps)
       /\ AnswerOf(qs, rid) = Image(row)
  BY <1>1, <1>2, <1>3, <1>5, <1>6 DEF PageReplaced
<1>12. RowAdded(ps, qs, rid, Image(row))
  BY <1>8, <1>9, <1>10, <1>11 DEF RowAdded
<1> QED
  BY <1>4, <1>12 DEF qs, new, i, old

\* slotted_page_update on the page of the row.
LEMMA UpdateOn ==
  ASSUME NEW ps, NEW first, NEW s, HeapOn(ps, first, s), NEW p \in DOMAIN ps,
         NEW i \in Live(ps[p]), NEW row \in Rows, CanUpdate(ps[p], i, row)
  PROVE  LET qs == [ps EXCEPT ![p] = slotted_page_update(ps[p], i, row)]
         IN  HeapOn(qs, first, s) /\ RowChanged(ps, qs, <<p, i>>, Image(row))
<1> DEFINE old == ps[p]
           new == slotted_page_update(old, i, row)
           qs == [ps EXCEPT ![p] = new]
           rid == <<p, i>>
<1>1. PageInv(old) /\ p \in PageIds
  BY DEF HeapOn
<1>2. /\ PageInv(new) /\ Live(new) = Live(old) /\ new.next = old.next
      /\ DOMAIN new.slots = DOMAIN old.slots /\ new.slots # <<>>
      /\ slotted_page_get(new, i) = Image(row)
      /\ \A j \in Live(old) : j # i => slotted_page_get(new, j) = slotted_page_get(old, j)
  BY <1>1, UpdateOnPage
<1>3. \E k \in DOMAIN s : s[k] = p
  <2>1. old.slots # <<>>
    BY DEF Live
  <2> QED
    BY <2>1 DEF HeapOn
<1> HIDE DEF new
<1>4. HeapOn(qs, first, s)
  BY <1>2, <1>3, PageChanged
<1>5. PageReplaced(ps, qs, p, new)
  BY OnePageChanges
<1>6. /\ \A j : <<p, j>> \in RidsOf(ps) <=> j \in Live(old)
      /\ \A j : <<p, j>> \in UsedOf(ps) <=> j \in DOMAIN old.slots
      /\ \A j : AnswerOf(ps, <<p, j>>) = slotted_page_get(old, j)
  BY RidsArePairs DEF AnswerOf
<1>7. /\ \A other \in RidsOf(ps) : other = <<other[1], other[2]>>
      /\ \A other \in RidsOf(qs) : other = <<other[1], other[2]>>
      /\ \A other \in UsedOf(ps) : other = <<other[1], other[2]>>
      /\ \A other \in UsedOf(qs) : other = <<other[1], other[2]>>
  BY RidsArePairs
<1> HIDE DEF qs, old
<1>8. RidsOf(qs) = RidsOf(ps)
  <2>1. ASSUME NEW r, NEW j PROVE <<r, j>> \in RidsOf(qs) <=> <<r, j>> \in RidsOf(ps)
    <3>1. CASE r = p
      BY <1>2, <1>5, <1>6, <3>1 DEF PageReplaced
    <3>2. CASE r # p
      BY <1>5, <3>2 DEF PageReplaced
    <3> QED
      BY <3>1, <3>2
  <2> QED
    BY <1>7, <2>1
<1>9. UsedOf(qs) = UsedOf(ps)
  <2>1. ASSUME NEW r, NEW j PROVE <<r, j>> \in UsedOf(qs) <=> <<r, j>> \in UsedOf(ps)
    <3>1. CASE r = p
      BY <1>2, <1>5, <1>6, <3>1 DEF PageReplaced
    <3>2. CASE r # p
      BY <1>5, <3>2 DEF PageReplaced
    <3> QED
      BY <3>1, <3>2
  <2> QED
    BY <1>7, <2>1
<1>10. ASSUME NEW other \in RidsOf(ps), other # rid
       PROVE  AnswerOf(qs, other) = AnswerOf(ps, other)
  <2>1. CASE other[1] = p
    <3>1. other = <<p, other[2]>> /\ other[2] \in Live(old) /\ other[2] # i
      BY <1>6, <1>7, <1>10, <2>1
    <3>2. /\ AnswerOf(qs, <<p, other[2]>>) = slotted_page_get(new, other[2])
          /\ AnswerOf(ps, <<p, other[2]>>) = slotted_page_get(old, other[2])
          /\ slotted_page_get(new, other[2]) = slotted_page_get(old, other[2])
      BY <1>2, <1>5, <1>6, <3>1 DEF PageReplaced
    <3> QED
      BY <3>1, <3>2
  <2> QED
    BY <1>5, <2>1 DEF PageReplaced
<1>11. rid \in RidsOf(ps) /\ AnswerOf(qs, rid) = Image(row)
  BY <1>2, <1>5, <1>6 DEF old, PageReplaced
<1>12. RowChanged(ps, qs, rid, Image(row))
  BY <1>8, <1>9, <1>10, <1>11 DEF RowChanged
<1> QED
  BY <1>4, <1>12 DEF qs, new, old

\* slotted_page_delete on the page of the row.
LEMMA DeleteOn ==
  ASSUME NEW ps, NEW first, NEW s, HeapOn(ps, first, s), NEW p \in DOMAIN ps,
         NEW i \in Live(ps[p])
  PROVE  LET qs == [ps EXCEPT ![p] = slotted_page_delete(ps[p], i)]
         IN  HeapOn(qs, first, s) /\ RowGone(ps, qs, <<p, i>>)
<1> DEFINE old == ps[p]
           new == slotted_page_delete(old, i)
           qs == [ps EXCEPT ![p] = new]
           rid == <<p, i>>
<1>1. PageInv(old) /\ p \in PageIds
  BY DEF HeapOn
<1>2. /\ PageInv(new) /\ Live(new) = Live(old) \ {i} /\ new.next = old.next
      /\ DOMAIN new.slots = DOMAIN old.slots /\ new.slots # <<>>
      /\ \A j \in Live(new) : slotted_page_get(new, j) = slotted_page_get(old, j)
  BY <1>1, DeleteOnPage
<1>3. \E k \in DOMAIN s : s[k] = p
  <2>1. old.slots # <<>>
    BY DEF Live
  <2> QED
    BY <2>1 DEF HeapOn
<1> HIDE DEF new
<1>4. HeapOn(qs, first, s)
  BY <1>2, <1>3, PageChanged
<1>5. PageReplaced(ps, qs, p, new)
  BY OnePageChanges
<1>6. /\ \A j : <<p, j>> \in RidsOf(ps) <=> j \in Live(old)
      /\ \A j : <<p, j>> \in UsedOf(ps) <=> j \in DOMAIN old.slots
      /\ \A j : AnswerOf(ps, <<p, j>>) = slotted_page_get(old, j)
  BY RidsArePairs DEF AnswerOf
<1>7. /\ \A other \in RidsOf(ps) : other = <<other[1], other[2]>>
      /\ \A other \in RidsOf(qs) : other = <<other[1], other[2]>>
      /\ \A other \in UsedOf(ps) : other = <<other[1], other[2]>>
      /\ \A other \in UsedOf(qs) : other = <<other[1], other[2]>>
  BY RidsArePairs
<1> HIDE DEF qs, old
<1>8. RidsOf(qs) = RidsOf(ps) \ {rid}
  <2>1. ASSUME NEW r, NEW j
        PROVE  <<r, j>> \in RidsOf(qs) <=> (<<r, j>> \in RidsOf(ps) /\ ~(r = p /\ j = i))
    <3>1. CASE r = p
      BY <1>2, <1>5, <1>6, <3>1 DEF PageReplaced
    <3>2. CASE r # p
      BY <1>5, <3>2 DEF PageReplaced
    <3> QED
      BY <3>1, <3>2
  <2> QED
    BY <1>7, <2>1
<1>9. UsedOf(qs) = UsedOf(ps)
  <2>1. ASSUME NEW r, NEW j PROVE <<r, j>> \in UsedOf(qs) <=> <<r, j>> \in UsedOf(ps)
    <3>1. CASE r = p
      BY <1>2, <1>5, <1>6, <3>1 DEF PageReplaced
    <3>2. CASE r # p
      BY <1>5, <3>2 DEF PageReplaced
    <3> QED
      BY <3>1, <3>2
  <2> QED
    BY <1>7, <2>1
<1>10. ASSUME NEW other \in RidsOf(qs)
       PROVE  AnswerOf(qs, other) = AnswerOf(ps, other)
  <2>1. CASE other[1] = p
    <3>1. other = <<p, other[2]>> /\ other[2] \in Live(new)
      BY <1>5, <1>7, <2>1 DEF PageReplaced
    <3>2. /\ AnswerOf(qs, <<p, other[2]>>) = slotted_page_get(new, other[2])
          /\ AnswerOf(ps, <<p, other[2]>>) = slotted_page_get(old, other[2])
          /\ slotted_page_get(new, other[2]) = slotted_page_get(old, other[2])
      BY <1>2, <1>5, <1>6, <3>1 DEF PageReplaced
    <3> QED
      BY <3>1, <3>2
  <2> QED
    BY <1>5, <1>8, <2>1 DEF PageReplaced
<1>11. rid \in RidsOf(ps)
  BY <1>6 DEF old
<1>12. RowGone(ps, qs, rid)
  BY <1>8, <1>9, <1>10, <1>11 DEF RowGone
<1> QED
  BY <1>4, <1>12 DEF qs, new, old

-----------------------------------------------------------------------------
(* The operations on the heap *)

\* The chain t goes on where s ended.
GoesOn(s, t) == Len(s) <= Len(t) /\ \A k \in DOMAIN s : t[k] = s[k]

\* ensure_first_page.
LEMMA WithFirstOn ==
  ASSUME NEW s, HeapOn(pages, first_page_id, s), NEW h \in WithFirst
  PROVE  \E t : /\ HeapOn(h.pages, h.first, t) /\ GoesOn(s, t)
                /\ RowsKept(pages, h.pages) /\ h.first # INVALID_PAGE_ID
<1>1. CASE first_page_id # INVALID_PAGE_ID
  <2>1. h.pages = pages /\ h.first = first_page_id
    BY <1>1 DEF WithFirst
  <2>2. RowsKept(pages, pages)
    BY DEF RowsKept
  <2>3. GoesOn(s, s)
    <3>1. s \in Seq(DOMAIN pages)
      BY DEF HeapOn, IsPath
    <3>2. Len(s) \in Nat
      BY <3>1
    <3> QED
      BY <3>2 DEF GoesOn
  <2> QED
    BY <1>1, <2>1, <2>2, <2>3
<1>2. CASE first_page_id = INVALID_PAGE_ID
  <2>1. PICK p \in Fresh(pages) : h.pages = WithPage(pages, p, slotted_page_init) /\ h.first = p
    BY <1>2 DEF WithFirst
  <2> DEFINE qs == WithPage(pages, p, slotted_page_init)
             t == <<p>>
  <2>2. /\ HeapOn(qs, first_page_id, s)
        /\ DOMAIN qs = DOMAIN pages \cup {p} /\ qs[p] = slotted_page_init
        /\ \A r \in DOMAIN pages : qs[r] = pages[r]
    BY PageAdded
  <2>3. p \in PageIds /\ p # INVALID_PAGE_ID /\ p \notin DOMAIN pages
    BY PageAssumption DEF Fresh
  <2> HIDE DEF qs
  <2>4. s \in Seq(DOMAIN pages) /\ Len(s) = 0 /\ DOMAIN s = {}
    <3>1. /\ s \in Seq(DOMAIN pages) /\ Len(s) \in Nat /\ DOMAIN s = 1 .. Len(s)
          /\ first_page_id = At(s, 1) /\ DOMAIN pages \subseteq PageIds
      BY DEF HeapOn, IsPath
    <3>2. CASE Len(s) > 0
      <4>1. 1 \in DOMAIN s /\ s[1] \in PageIds
        BY <3>1, <3>2
      <4> QED
        BY <1>2, <3>1, <4>1, PageAssumption DEF At
    <3> QED
      BY <3>1, <3>2
  <2>5. t \in Seq(DOMAIN qs) /\ Len(t) = 1 /\ DOMAIN t = {1} /\ t[1] = p
    <3>1. t \in Seq(DOMAIN qs) /\ Len(t) = 1 /\ t[1] = p
      BY <2>2
    <3> QED
      BY <3>1
  <2>6. IsPath(qs, p, t)
    <3>1. At(t, 1) = p
      BY <2>5 DEF At
    <3>2. At(t, 2) = INVALID_PAGE_ID
      BY <2>5 DEF At
    <3>3. qs[t[1]].next = INVALID_PAGE_ID
      BY <2>2, <2>5, EmptyPage
    <3> HIDE DEF t
    <3>4. \A k \in DOMAIN t : qs[t[k]].next = At(t, k + 1)
      BY <2>5, <3>2, <3>3
    <3> QED
      BY <2>5, <3>1, <3>4 DEF IsPath
  <2>7. HeapOn(qs, p, t)
    BY <2>2, <2>4, <2>6 DEF HeapOn
  <2>8. RowsKept(pages, qs)
    BY <2>2, <2>3, SameRows, EmptyPage
  <2>9. GoesOn(s, t)
    <3> HIDE DEF t
    <3> QED
      BY <2>4, <2>5 DEF GoesOn
  <2> QED
    BY <2>1, <2>3, <2>7, <2>8, <2>9 DEF qs
<1> QED
  BY <1>1, <1>2

\* The page with room that the walk finds is on the chain.
LEMMA FitOnChain ==
  ASSUME NEW h, NEW s, HeapOn(h.pages, h.first, s), NEW row, NEW p \in FirstFit(h, row)
  PROVE  p \in DOMAIN h.pages /\ \E k \in DOMAIN s : s[k] = p
<1>1. /\ DOMAIN Chain(h.pages, h.first) = 0 .. Cardinality(PageIds)
      /\ \A k \in 0 .. Cardinality(PageIds) : Chain(h.pages, h.first)[k] = At(s, k + 1)
  BY PathIsChain
<1>2. PICK n \in 0 .. Cardinality(PageIds) : /\ p = Chain(h.pages, h.first)[n]
                                             /\ p # INVALID_PAGE_ID
  BY <1>1 DEF FirstFit
<1>3. n + 1 \in DOMAIN s /\ p = s[n + 1]
  BY <1>1, <1>2 DEF At
<1>4. s \in Seq(DOMAIN h.pages)
  BY DEF HeapOn, IsPath
<1> QED
  BY <1>3, <1>4

\* slotted_page_insert on a page of the chain, with room for the row or not.
LEMMA StoredOn ==
  ASSUME NEW ps, NEW first, NEW s, HeapOn(ps, first, s), NEW p \in DOMAIN ps,
         \E k \in DOMAIN s : s[k] = p, NEW row \in Rows, Stored(ps, p, row)
  PROVE  /\ HeapOn(pages', first, s)
         /\ \/ RowsKept(ps, pages')
            \/ \E rid : RowAdded(ps, pages', rid, Image(row))
<1>1. CASE Fits(ps[p], tuple_size[row], 1)
  <2>1. pages' = [ps EXCEPT ![p] = slotted_page_insert(ps[p], row)]
    BY <1>1 DEF Stored
  <2> QED
    BY <1>1, <2>1, StoreOn
<1>2. CASE ~Fits(ps[p], tuple_size[row], 1)
  <2>1. pages' = ps
    BY <1>2 DEF Stored
  <2> QED
    BY <2>1 DEF RowsKept
<1> QED
  BY <1>1, <1>2

\* What is kept on the way to a page is kept by the whole insert.
LEMMA KeptThenAdded ==
  ASSUME NEW ps, NEW qs, NEW rs, RowsKept(ps, qs), NEW image,
         RowsKept(qs, rs) \/ \E rid : RowAdded(qs, rs, rid, image)
  PROVE  RowsKept(ps, rs) \/ \E rid : RowAdded(ps, rs, rid, image)
<1>1. CASE RowsKept(qs, rs)
  BY <1>1 DEF RowsKept
<1>2. ASSUME NEW rid, RowAdded(qs, rs, rid, image) PROVE RowAdded(ps, rs, rid, image)
  BY <1>2 DEF RowsKept, RowAdded
<1> QED
  BY <1>1, <1>2

\* A chain that goes on twice goes on.
LEMMA GoesOnTwice ==
  ASSUME NEW S, NEW s \in Seq(S), NEW t \in Seq(S), NEW u \in Seq(S), GoesOn(s, t), GoesOn(t, u)
  PROVE  GoesOn(s, u)
<1>1. /\ Len(s) \in Nat /\ Len(t) \in Nat /\ Len(u) \in Nat
      /\ DOMAIN s = 1 .. Len(s) /\ DOMAIN t = 1 .. Len(t)
  OBVIOUS
<1>2. Len(s) <= Len(u) /\ \A k \in DOMAIN s : k \in DOMAIN t
  BY <1>1 DEF GoesOn
<1> QED
  BY <1>2 DEF GoesOn

\* The last page found, or the new page once it is linked, takes the row.
LEMMA InsertStep ==
  ASSUME NEW s, HeapOn(pages, first_page_id, s), NEW row \in Rows, bpm_heap_insert(row)
  PROVE  /\ \E u : HeapOn(pages', first_page_id', u) /\ GoesOn(s, u)
         /\ RowsKept(pages, pages') \/ \E rid : RowAdded(pages, pages', rid, Image(row))
<1>1. PICK h \in WithFirst :
        /\ first_page_id' = h.first
        /\ \/ \E p \in FirstFit(h, row) : Stored(h.pages, p, row)
           \/ /\ FirstFit(h, row) = {}
              /\ \E p \in Fresh(h.pages) : Stored(Linked(h, p), p, row)
  BY DEF bpm_heap_insert
<1>2. PICK t : /\ HeapOn(h.pages, h.first, t) /\ GoesOn(s, t)
               /\ RowsKept(pages, h.pages) /\ h.first # INVALID_PAGE_ID
  BY WithFirstOn
<1>3. CASE \E p \in FirstFit(h, row) : Stored(h.pages, p, row)
  <2>1. PICK p \in FirstFit(h, row) : Stored(h.pages, p, row)
    BY <1>3
  <2>2. p \in DOMAIN h.pages /\ \E k \in DOMAIN t : t[k] = p
    BY <1>2, FitOnChain
  <2>3. /\ HeapOn(pages', h.first, t)
        /\ RowsKept(h.pages, pages') \/ \E rid : RowAdded(h.pages, pages', rid, Image(row))
    BY <1>2, <2>1, <2>2, StoredOn
  <2>4. RowsKept(pages, pages') \/ \E rid : RowAdded(pages, pages', rid, Image(row))
    BY <1>2, <2>3, KeptThenAdded
  <2> QED
    BY <1>1, <1>2, <2>3, <2>4
<1>4. CASE \E p \in Fresh(h.pages) : Stored(Linked(h, p), p, row)
  <2>1. PICK p \in Fresh(h.pages) : Stored(Linked(h, p), p, row)
    BY <1>4
  <2> DEFINE ps == Linked(h, p)
             u == Append(t, p)
  <2>2. /\ HeapOn(ps, h.first, u)
        /\ DOMAIN ps = DOMAIN h.pages \cup {p} /\ ps[p] = slotted_page_init
        /\ \A r \in DOMAIN h.pages : /\ ps[r].slots = h.pages[r].slots
                                     /\ ps[r].bytes = h.pages[r].bytes
    BY <1>2, PageLinked
  <2> HIDE DEF ps
  <2>3. RowsKept(h.pages, ps)
    <3>1. \A r \in DOMAIN ps \ DOMAIN h.pages : ps[r].slots = <<>>
      BY <2>2, EmptyPage
    <3> QED
      BY <2>2, <3>1, SameRows
  <2>4. RowsKept(pages, ps)
    BY <1>2, <2>3 DEF RowsKept
  <2>5. /\ t \in Seq(PageIds) /\ s \in Seq(PageIds) /\ p \in PageIds
        /\ Len(u) = Len(t) + 1 /\ u \in Seq(PageIds) /\ u[Len(t) + 1] = p
        /\ \A k \in DOMAIN t : u[k] = t[k]
    <3>1. /\ t \in Seq(DOMAIN h.pages) /\ DOMAIN h.pages \subseteq PageIds
          /\ s \in Seq(DOMAIN pages) /\ DOMAIN pages \subseteq PageIds /\ p \in PageIds
      BY <1>2 DEF HeapOn, IsPath, Fresh
    <3>2. t \in Seq(PageIds) /\ s \in Seq(PageIds)
      BY <3>1
    <3> QED
      BY <3>1, <3>2
  <2> HIDE DEF u
  <2>6. GoesOn(s, u)
    <3>1. GoesOn(t, u)
      BY <2>5 DEF GoesOn
    <3> QED
      BY <1>2, <2>5, <3>1, GoesOnTwice
  <2>7. p \in DOMAIN ps /\ \E k \in DOMAIN u : u[k] = p
    <3>1. Len(t) + 1 \in DOMAIN u
      BY <2>5
    <3> QED
      BY <2>2, <2>5, <3>1
  <2>8. /\ HeapOn(pages', h.first, u)
        /\ RowsKept(ps, pages') \/ \E rid : RowAdded(ps, pages', rid, Image(row))
    BY <2>1, <2>2, <2>7, StoredOn DEF ps
  <2>9. RowsKept(pages, pages') \/ \E rid : RowAdded(pages, pages', rid, Image(row))
    BY <2>4, <2>8, KeptThenAdded
  <2> QED
    BY <1>1, <2>6, <2>8, <2>9
<1> QED
  BY <1>1, <1>3, <1>4

\* An insert that fails leaves the rows alone.
LEMMA FailStep ==
  ASSUME NEW s, HeapOn(pages, first_page_id, s), NEW row \in Rows, InsertFails(row)
  PROVE  /\ \E u : HeapOn(pages', first_page_id', u) /\ GoesOn(s, u)
         /\ RowsKept(pages, pages')
<1>1. PICK h \in WithFirst :
        /\ first_page_id' = h.first
        /\ \/ pages' = h.pages
           \/ /\ FirstFit(h, row) = {}
              /\ \E p \in Fresh(h.pages) : pages' = WithPage(h.pages, p, slotted_page_init)
  BY DEF InsertFails
<1>2. PICK t : /\ HeapOn(h.pages, h.first, t) /\ GoesOn(s, t) /\ RowsKept(pages, h.pages)
  BY WithFirstOn
<1>3. CASE pages' = h.pages
  BY <1>1, <1>2, <1>3
<1>4. CASE \E p \in Fresh(h.pages) : pages' = WithPage(h.pages, p, slotted_page_init)
  <2>1. PICK p \in Fresh(h.pages) : pages' = WithPage(h.pages, p, slotted_page_init)
    BY <1>4
  <2>2. /\ HeapOn(pages', h.first, t)
        /\ DOMAIN pages' = DOMAIN h.pages \cup {p} /\ pages'[p] = slotted_page_init
        /\ \A r \in DOMAIN h.pages : pages'[r] = h.pages[r]
    BY <1>2, <2>1, PageAdded
  <2>3. RowsKept(h.pages, pages')
    BY <2>2, SameRows, EmptyPage
  <2>4. RowsKept(pages, pages')
    BY <1>2, <2>3 DEF RowsKept
  <2> QED
    BY <1>1, <1>2, <2>2, <2>4
<1> QED
  BY <1>1, <1>3, <1>4

-----------------------------------------------------------------------------
(* Cursors *)

\* What a step of the walk ahead of the cursor does.
AheadFrom(f) ==
  [n \in 0 .. Cardinality(PageIds) |->
     IF n = 0 THEN cursor.page
     ELSE IF f[n - 1] = INVALID_PAGE_ID THEN INVALID_PAGE_ID
     ELSE IF n = 1 THEN CursorView.next ELSE pages[f[n - 1]].next]

\* The equation, value by value.
LEMMA AheadValues ==
  ASSUME NEW f, f = AheadFrom(f)
  PROVE  /\ f = [n \in 0 .. Cardinality(PageIds) |-> f[n]]
         /\ \A n \in 0 .. Cardinality(PageIds) :
              f[n] = IF n = 0 THEN cursor.page
                     ELSE IF f[n - 1] = INVALID_PAGE_ID THEN INVALID_PAGE_ID
                     ELSE IF n = 1 THEN CursorView.next ELSE pages[f[n - 1]].next
<1>1. /\ AheadFrom(f) = [n \in 0 .. Cardinality(PageIds) |-> AheadFrom(f)[n]]
      /\ \A n \in 0 .. Cardinality(PageIds) :
           AheadFrom(f)[n] = IF n = 0 THEN cursor.page
                             ELSE IF f[n - 1] = INVALID_PAGE_ID THEN INVALID_PAGE_ID
                             ELSE IF n = 1 THEN CursorView.next ELSE pages[f[n - 1]].next
  <2> DEFINE g == AheadFrom(f)
  <2>1. g = [n \in 0 .. Cardinality(PageIds) |->
               IF n = 0 THEN cursor.page
               ELSE IF f[n - 1] = INVALID_PAGE_ID THEN INVALID_PAGE_ID
               ELSE IF n = 1 THEN CursorView.next ELSE pages[f[n - 1]].next]
    BY Zenon DEF AheadFrom
  <2> HIDE DEF g
  <2>2. DOMAIN g = 0 .. Cardinality(PageIds)
    BY <2>1, Zenon
  <2>3. g = [n \in 0 .. Cardinality(PageIds) |-> g[n]]
    BY <2>1, Zenon
  <2> QED
    BY <2>1, <2>3, Zenon DEF g
<1> QED
  BY <1>1, Zenon

\* The equation of the walk has one solution.
LEMMA AheadUnique ==
  ASSUME NEW d, d = AheadFrom(d)
  PROVE  Ahead = d
<1> DEFINE N == Cardinality(PageIds)
           walk == CHOOSE f : f = AheadFrom(f)
<1>1. N \in Nat
  BY HeapAssumption, FS_CardinalityType
<1>2. Ahead = walk
  BY DEF Ahead, AheadFrom
<1>3. walk = AheadFrom(walk)
  OBVIOUS
<1> HIDE DEF walk
<1>4. /\ walk = [n \in 0 .. N |-> walk[n]] /\ d = [n \in 0 .. N |-> d[n]]
      /\ \A n \in 0 .. N : walk[n] = IF n = 0 THEN cursor.page
                                     ELSE IF walk[n - 1] = INVALID_PAGE_ID THEN INVALID_PAGE_ID
                                     ELSE IF n = 1 THEN CursorView.next
                                     ELSE pages[walk[n - 1]].next
      /\ \A n \in 0 .. N : d[n] = IF n = 0 THEN cursor.page
                                  ELSE IF d[n - 1] = INVALID_PAGE_ID THEN INVALID_PAGE_ID
                                  ELSE IF n = 1 THEN CursorView.next
                                  ELSE pages[d[n - 1]].next
  BY <1>3, AheadValues
<1> HIDE DEF N
<1> DEFINE Same == {n \in Nat : n <= N => walk[n] = d[n]}
<1>5. Nat \subseteq Same
  <2>1. 0 \in Same
    <3>1. 0 \in 0 .. N
      BY <1>1
    <3> QED
      BY <1>4, <3>1
  <2>2. ASSUME NEW n \in Nat, n \in Same PROVE n + 1 \in Same
    <3> SUFFICES ASSUME n + 1 <= N PROVE walk[n + 1] = d[n + 1]
      OBVIOUS
    <3>1. n + 1 \in 0 .. N /\ n + 1 # 0 /\ (n + 1) - 1 = n /\ walk[n] = d[n]
      BY <1>1, <2>2
    <3> QED
      BY <1>4, <3>1
  <2> HIDE DEF Same
  <2> QED
    BY <2>1, <2>2, NatsBelong
<1>6. \A n \in 0 .. N : walk[n] = d[n]
  <2>1. \A n \in 0 .. N : n \in Nat /\ n <= N
    BY <1>1
  <2> QED
    BY <1>5, <2>1
<1>7. walk = d
  BY <1>4, <1>6
<1> QED
  BY <1>2, <1>7

\* A cursor that is on no page has nothing ahead.
LEMMA AheadOfNowhere ==
  ASSUME cursor.page = INVALID_PAGE_ID
  PROVE  Returned = {}
<1> DEFINE N == Cardinality(PageIds)
           d == [n \in 0 .. N |-> INVALID_PAGE_ID]
<1>1. N \in Nat
  BY HeapAssumption, FS_CardinalityType
<1>2. d = AheadFrom(d)
  <2>1. ASSUME NEW n \in 0 .. N
        PROVE  INVALID_PAGE_ID = IF n = 0 THEN cursor.page
                                 ELSE IF d[n - 1] = INVALID_PAGE_ID THEN INVALID_PAGE_ID
                                 ELSE IF n = 1 THEN CursorView.next ELSE pages[d[n - 1]].next
    <3>1. n # 0 => n - 1 \in 0 .. N
      BY <1>1
    <3> QED
      BY <3>1
  <2> HIDE DEF N
  <2> QED
    BY <2>1 DEF AheadFrom, N
<1> HIDE DEF d
<1>3. Ahead = d
  BY <1>2, AheadUnique
<1>4. {m \in 0 .. Cardinality(PageIds) : Ahead[m] # INVALID_PAGE_ID} = {}
  BY <1>3 DEF d
<1>5. RowsAhead = {}
  BY <1>4 DEF RowsAhead
<1> QED
  BY <1>5 DEF NextRow, Returned

\* The cursor is on the c-th page of s, or on a copy of it, which may have been
\* made when no page followed.
OnPage(s, c) ==
  /\ c \in DOMAIN s /\ s[c] = cursor.page
  /\ CursorView \in Page /\ cursor.slot \in Nat
  /\ CursorView.next \in {INVALID_PAGE_ID, At(s, c + 1)}

\* The pages ahead of the cursor are those of the chain.
LEMMA AheadIs ==
  ASSUME NEW s, HeapOn(pages, first_page_id, s), NEW c, OnPage(s, c)
  PROVE  \A n \in 0 .. Cardinality(PageIds) :
           Ahead[n] = IF n = 0 \/ CursorView.next # INVALID_PAGE_ID THEN At(s, c + n)
                      ELSE INVALID_PAGE_ID
<1> DEFINE N == Cardinality(PageIds)
           next == CursorView.next
           d == [n \in 0 .. N |-> IF n = 0 \/ next # INVALID_PAGE_ID THEN At(s, c + n)
                                  ELSE INVALID_PAGE_ID]
<1>1. /\ N \in Nat /\ Len(s) \in Nat /\ DOMAIN s = 1 .. Len(s) /\ c \in Nat
      /\ \A k \in DOMAIN s : s[k] \in PageIds /\ pages[s[k]].next = At(s, k + 1)
      /\ INVALID_PAGE_ID \notin PageIds
  <2>1. N \in Nat
    BY HeapAssumption, FS_CardinalityType
  <2>2. s \in Seq(DOMAIN pages) /\ DOMAIN pages \subseteq PageIds
    BY DEF HeapOn, IsPath
  <2> QED
    BY <2>1, <2>2, PageAssumption DEF OnPage, HeapOn, IsPath
<1>0. /\ d = [n \in 0 .. N |-> d[n]]
      /\ \A n \in 0 .. N : d[n] = IF n = 0 \/ next # INVALID_PAGE_ID THEN At(s, c + n)
                                  ELSE INVALID_PAGE_ID
      /\ \A n \in 0 .. N : n # 0 => n - 1 \in 0 .. N
  BY <1>1
<1> HIDE DEF d
<1>2. ASSUME NEW n \in 0 .. N
      PROVE  d[n] = IF n = 0 THEN cursor.page
                      ELSE IF d[n - 1] = INVALID_PAGE_ID THEN INVALID_PAGE_ID
                      ELSE IF n = 1 THEN next ELSE pages[d[n - 1]].next
  <2>1. CASE n = 0
    <3>1. At(s, c + 0) = cursor.page
      BY <1>1 DEF OnPage, At
    <3>2. d[0] = At(s, c + 0)
      BY <1>1, <1>0
    <3> QED
      BY <2>1, <3>1, <3>2
  <2>2. CASE n = 1
    <3>1. d[0] = cursor.page /\ cursor.page # INVALID_PAGE_ID
      BY <1>1, <1>0 DEF OnPage, At
    <3>2. d[1] = next
      BY <1>0, <2>2 DEF OnPage
    <3> QED
      BY <2>2, <3>1, <3>2
  <2>3. CASE n > 1 /\ next = INVALID_PAGE_ID
    BY <1>1, <1>0, <2>3
  <2>4. CASE n > 1 /\ next # INVALID_PAGE_ID
    <3>1. d[n - 1] = At(s, c + (n - 1)) /\ d[n] = At(s, c + n)
      BY <1>0, <2>4
    <3>2. CASE c + (n - 1) \in DOMAIN s
      <4>1. (c + (n - 1)) + 1 = c + n
        BY <1>1, <1>0
      <4>2. d[n - 1] = s[c + (n - 1)] /\ d[n - 1] # INVALID_PAGE_ID
        BY <1>1, <1>0, <3>1, <3>2 DEF At
      <4>3. pages[d[n - 1]].next = At(s, c + n)
        BY <1>1, <1>0, <3>2, <4>1, <4>2
      <4> QED
        BY <1>1, <1>0, <2>4, <3>1, <4>2, <4>3
    <3>3. CASE c + (n - 1) \notin DOMAIN s
      <4>1. c + n \notin DOMAIN s
        BY <1>1, <1>0, <2>4, <3>3
      <4>2. d[n - 1] = INVALID_PAGE_ID /\ d[n] = INVALID_PAGE_ID
        BY <3>1, <3>3, <4>1 DEF At
      <4> QED
        BY <1>1, <1>0, <2>4, <4>2
    <3> QED
      BY <3>2, <3>3
  <2> QED
    BY <1>1, <1>0, <2>1, <2>2, <2>3, <2>4
<1>3. d = AheadFrom(d)
  <2> DEFINE g == [n \in 0 .. N |-> IF n = 0 THEN cursor.page
                                   ELSE IF d[n - 1] = INVALID_PAGE_ID THEN INVALID_PAGE_ID
                                   ELSE IF n = 1 THEN next ELSE pages[d[n - 1]].next]
  <2>1. g = [n \in 0 .. N |-> g[n]]
    BY Zenon
  <2>2. \A n \in 0 .. N : g[n] = d[n]
    BY <1>2, Zenon
  <2>3. g = AheadFrom(d)
    BY Zenon DEF AheadFrom
  <2> HIDE DEF g, N
  <2> QED
    BY <1>0, <2>1, <2>2, <2>3
<1>4. Ahead = d
  BY <1>3, AheadUnique
<1> QED
  BY <1>4, <1>0

\* The cursor has the c-th page of s before it from slot StartSlot(0) on: the
\* rows that are due and not yet seen are there or on later pages, the rows
\* seen are behind.
ScanOn(s, c) ==
  /\ OnPage(s, c)
  /\ \A rid \in due \ seen : \E k \in DOMAIN s :
       /\ s[k] = rid[1] /\ k >= c
       /\ k = c => rid[2] \in Live(CursorView) /\ rid[2] >= StartSlot(0)
       /\ k > c => CursorView.next # INVALID_PAGE_ID
  /\ \A rid \in seen : \E k \in DOMAIN s :
       s[k] = rid[1] /\ k <= c /\ (k = c => rid[2] < StartSlot(0))

CursorInv(s) ==
  /\ due \subseteq RidsOf(pages) /\ seen \subseteq PageIds \X Nat
  /\ ~cursor.open => due = {} /\ seen = {}
  /\ cursor.open /\ cursor.page = INVALID_PAGE_ID => due = {}
  /\ cursor.open /\ cursor.page # INVALID_PAGE_ID => \E c : ScanOn(s, c)

\* The places in a chain.
LEMMA PathFields ==
  ASSUME NEW ps, NEW first, NEW s, HeapOn(ps, first, s)
  PROVE  /\ Len(s) \in Nat /\ DOMAIN s = 1 .. Len(s) /\ first = At(s, 1)
         /\ INVALID_PAGE_ID \notin PageIds /\ DOMAIN ps \subseteq PageIds
         /\ \A k \in DOMAIN s : /\ s[k] \in DOMAIN ps /\ s[k] \in PageIds
                                /\ ps[s[k]].next = At(s, k + 1) /\ ps[s[k]] \in Page
         /\ \A k, l \in DOMAIN s : s[k] = s[l] => k = l
<1>1. s \in Seq(DOMAIN ps) /\ DOMAIN ps \subseteq PageIds
  BY DEF HeapOn, IsPath
<1>2. \A k \in DOMAIN s : s[k] \in DOMAIN ps
  BY <1>1
<1> QED
  BY <1>1, <1>2, PageAssumption DEF HeapOn, IsPath, PageInv

\* Row ids name a page and a slot on it.
LEMMA RidFields ==
  ASSUME NEW ps, NEW first, NEW s, HeapOn(ps, first, s), NEW rid \in RidsOf(ps)
  PROVE  /\ rid = <<rid[1], rid[2]>> /\ rid[1] \in DOMAIN ps /\ rid[2] \in Live(ps[rid[1]])
         /\ rid[1] \in PageIds /\ rid[2] \in Nat /\ rid[2] >= 1
         /\ \E k \in DOMAIN s : s[k] = rid[1]
<1>1. rid = <<rid[1], rid[2]>> /\ rid[1] \in DOMAIN ps /\ rid[2] \in Live(ps[rid[1]])
  BY RidsArePairs
<1>2. PageInv(ps[rid[1]]) /\ rid[1] \in PageIds
  BY <1>1 DEF HeapOn
<1>3. rid[2] \in 1 .. Len(ps[rid[1]].slots) /\ Len(ps[rid[1]].slots) \in Nat
  BY <1>1, <1>2, PageFields DEF PageInv
<1>4. ps[rid[1]].slots # <<>>
  BY <1>3
<1>5. \E k \in DOMAIN s : s[k] = rid[1]
  BY <1>1, <1>4 DEF HeapOn
<1> QED
  BY <1>1, <1>2, <1>3, <1>5

\* A change of the heap leaves a cursor where it was.
LEMMA CursorStays ==
  ASSUME NEW s, HeapOn(pages, first_page_id, s), CursorInv(s),
         NEW t, HeapOn(pages', first_page_id', t), GoesOn(s, t),
         cursor' = cursor, seen' = seen, due' \subseteq due, due' \subseteq RidsOf(pages')
  PROVE  CursorInv(t)'
<1>1. ASSUME cursor.open, cursor.page # INVALID_PAGE_ID PROVE \E c : ScanOn(t, c)'
  <2>1. PICK c : ScanOn(s, c)
    BY <1>1 DEF CursorInv
  <2>2. /\ Len(s) \in Nat /\ DOMAIN s = 1 .. Len(s)
        /\ Len(t) \in Nat /\ DOMAIN t = 1 .. Len(t)
        /\ INVALID_PAGE_ID \notin PageIds
    BY PathFields
  <2>3. \A k \in DOMAIN s : k \in DOMAIN t /\ t[k] = s[k]
    BY <2>2 DEF GoesOn
  <2>4. /\ c \in DOMAIN s /\ c \in DOMAIN t /\ t[c] = cursor'.page /\ t[c] = cursor.page
        /\ cursor'.slot \in Nat /\ c \in Nat
    BY <2>1, <2>2, <2>3 DEF ScanOn, OnPage
  <2>5. StartSlot(0)' = StartSlot(0)
    BY DEF StartSlot
  <2>6. CASE cursor.loaded /\ cursor.copies
    <3>1. CursorView' = CursorView
      BY <2>6 DEF CursorView
    <3>2. CursorView.next \in {INVALID_PAGE_ID, At(t, c + 1)}
      <4>1. CursorView.next \in {INVALID_PAGE_ID, At(s, c + 1)}
        BY <2>1 DEF ScanOn, OnPage
      <4>2. c + 1 \in DOMAIN s => At(t, c + 1) = At(s, c + 1)
        BY <2>3 DEF At
      <4> QED
        BY <4>1, <4>2 DEF At
    <3>3. CursorView \in Page
      BY <2>1 DEF ScanOn, OnPage
    <3>4. OnPage(t, c)'
      BY <2>4, <3>1, <3>2, <3>3 DEF OnPage
    <3>5. ASSUME NEW rid \in due' \ seen'
          PROVE  \E k \in DOMAIN t :
                   /\ t[k] = rid[1] /\ k >= c
                   /\ k = c => rid[2] \in Live(CursorView)' /\ rid[2] >= StartSlot(0)'
                   /\ k > c => CursorView'.next # INVALID_PAGE_ID
      <4>1. rid \in due \ seen
        OBVIOUS
      <4>2. PICK k \in DOMAIN s :
                   /\ s[k] = rid[1] /\ k >= c
                   /\ k = c => rid[2] \in Live(CursorView) /\ rid[2] >= StartSlot(0)
                   /\ k > c => CursorView.next # INVALID_PAGE_ID
        BY <2>1, <4>1 DEF ScanOn
      <4>3. k \in DOMAIN t /\ t[k] = rid[1]
        BY <2>3, <4>2
      <4>4. Live(CursorView)' = Live(CursorView)
        BY <3>1 DEF Live
      <4> QED
        BY <2>5, <3>1, <4>2, <4>3, <4>4
    <3>6. \A rid \in seen : \E k \in DOMAIN t :
            t[k] = rid[1] /\ k <= c /\ (k = c => rid[2] < StartSlot(0)')
      BY <2>1, <2>3, <2>5 DEF ScanOn
    <3> QED
      BY <3>4, <3>5, <3>6 DEF ScanOn
  <2>7. CASE ~(cursor.loaded /\ cursor.copies)
    <3>1. CursorView' = pages'[t[c]]
      BY <2>4, <2>7 DEF CursorView
    <3>2. CursorView' \in Page /\ CursorView'.next = At(t, c + 1)
      BY <2>4, <3>1, PathFields
    <3>3. OnPage(t, c)'
      BY <2>4, <3>2 DEF OnPage
    <3>4. ASSUME NEW rid \in due' \ seen'
          PROVE  \E k \in DOMAIN t :
                   /\ t[k] = rid[1] /\ k >= c
                   /\ k = c => rid[2] \in Live(CursorView)' /\ rid[2] >= StartSlot(0)'
                   /\ k > c => CursorView'.next # INVALID_PAGE_ID
      <4>1. PICK k \in DOMAIN s :
                   /\ s[k] = rid[1] /\ k >= c
                   /\ k = c => rid[2] \in Live(CursorView) /\ rid[2] >= StartSlot(0)
        <5>1. rid \in due \ seen
          OBVIOUS
        <5> QED
          BY <2>1, <5>1 DEF ScanOn
      <4>2. k \in DOMAIN t /\ t[k] = rid[1]
        BY <2>3, <4>1
      <4>3. k = c => rid[2] \in Live(CursorView)'
        <5>1. rid[2] \in Live(pages'[rid[1]])
          BY RidFields
        <5>2. k = c => CursorView' = pages'[rid[1]]
          BY <3>1, <4>2
        <5> QED
          BY <5>1, <5>2 DEF Live
      <4>4. ASSUME k > c PROVE CursorView'.next # INVALID_PAGE_ID
        <5>1. c + 1 \in DOMAIN t
          BY <2>2, <2>4, <4>2, <4>4
        <5>2. At(t, c + 1) \in PageIds
          BY <5>1, PathFields DEF At
        <5> QED
          BY <2>2, <3>2, <5>2
      <4> QED
        BY <2>5, <4>1, <4>2, <4>3, <4>4
    <3>5. \A rid \in seen : \E k \in DOMAIN t :
            t[k] = rid[1] /\ k <= c /\ (k = c => rid[2] < StartSlot(0)')
      BY <2>1, <2>3, <2>5 DEF ScanOn
    <3> QED
      BY <3>3, <3>4, <3>5 DEF ScanOn
  <2> QED
    BY <2>6, <2>7
<1>2. due' \subseteq due /\ seen' = seen /\ cursor' = cursor
  OBVIOUS
<1> QED
  BY <1>1, <1>2 DEF CursorInv

\* A new cursor has all rows ahead.
LEMMA OpenStep ==
  ASSUME NEW s, HeapOn(pages, first_page_id, s), NEW copies \in BOOLEAN, iter_init(copies)
  PROVE  CursorInv(s)'
<1>1. /\ cursor'.open = TRUE /\ cursor'.page = first_page_id /\ cursor'.slot = 1
      /\ cursor'.loaded = FALSE /\ seen' = {} /\ due' = LiveRids
      /\ pages' = pages /\ first_page_id' = first_page_id
  BY DEF iter_init, heapVars
<1>2. LiveRids = RidsOf(pages)
  BY DEF LiveRids, RidsOf
<1>3. /\ Len(s) \in Nat /\ DOMAIN s = 1 .. Len(s) /\ first_page_id = At(s, 1)
      /\ INVALID_PAGE_ID \notin PageIds
  BY PathFields
<1>4. ASSUME first_page_id = INVALID_PAGE_ID PROVE due' = {}
  <2>1. DOMAIN s = {}
    <3>1. CASE 1 \in DOMAIN s
      <4>1. s[1] \in PageIds
        BY <3>1, PathFields
      <4> QED
        BY <1>3, <1>4, <3>1, <4>1 DEF At
    <3>2. CASE 1 \notin DOMAIN s
      BY <1>3, <3>2
    <3> QED
      BY <3>1, <3>2
  <2>2. \A rid \in RidsOf(pages) : \E k \in DOMAIN s : s[k] = rid[1]
    BY RidFields
  <2> QED
    BY <1>1, <1>2, <2>1, <2>2
<1>5. ASSUME first_page_id # INVALID_PAGE_ID PROVE ScanOn(s, 1)'
  <2>1. 1 \in DOMAIN s /\ s[1] = first_page_id
    BY <1>3, <1>5 DEF At
  <2>2. CursorView' = pages[s[1]]
    BY <1>1, <2>1 DEF CursorView
  <2>3. OnPage(s, 1)'
    <3>1. pages[s[1]] \in Page /\ pages[s[1]].next = At(s, 1 + 1)
      BY <2>1, PathFields
    <3> QED
      BY <1>1, <2>1, <2>2, <3>1 DEF OnPage
  <2>4. StartSlot(0)' = 1
    BY <1>1 DEF StartSlot
  <2>5. ASSUME NEW rid \in RidsOf(pages)
        PROVE  \E k \in DOMAIN s :
                 /\ s[k] = rid[1] /\ k >= 1
                 /\ k = 1 => rid[2] \in Live(CursorView)' /\ rid[2] >= StartSlot(0)'
                 /\ k > 1 => CursorView'.next # INVALID_PAGE_ID
    <3>1. /\ rid[2] \in Live(pages[rid[1]]) /\ rid[2] >= 1
          /\ \E k \in DOMAIN s : s[k] = rid[1]
      BY RidFields
    <3>2. PICK k \in DOMAIN s : s[k] = rid[1]
      BY <3>1
    <3>3. k = 1 => rid[2] \in Live(CursorView)'
      BY <2>2, <3>1, <3>2 DEF Live
    <3>4. ASSUME k > 1 PROVE CursorView'.next # INVALID_PAGE_ID
      <4>1. 1 + 1 \in DOMAIN s /\ pages[s[1]].next = At(s, 1 + 1)
        BY <1>3, <2>1, <3>2, <3>4, PathFields
      <4>2. s[1 + 1] \in PageIds
        BY <4>1, PathFields
      <4> QED
        BY <1>3, <2>2, <4>1, <4>2 DEF At
    <3>5. k >= 1
      BY <1>3
    <3> QED
      BY <2>4, <3>1, <3>2, <3>3, <3>4, <3>5
  <2> QED
    BY <1>1, <1>2, <2>3, <2>5 DEF ScanOn
<1> QED
  BY <1>1, <1>2, <1>4, <1>5 DEF CursorInv

\* The rows ahead of the cursor are on the pages from its own on.
LEMMA RowsAheadAre ==
  ASSUME NEW s, HeapOn(pages, first_page_id, s), NEW c, OnPage(s, c), NEW at \in RowsAhead
  PROVE  /\ at = <<at[1], at[2]>> /\ at[1] \in 0 .. Cardinality(PageIds) /\ at[1] \in Nat
         /\ c \in Nat /\ c + at[1] \in DOMAIN s /\ Ahead[at[1]] = s[c + at[1]]
         /\ at[2] \in Live(ViewAhead(at[1])) /\ at[2] >= StartSlot(at[1]) /\ at[2] \in Nat
         /\ at[1] # 0 => CursorView.next # INVALID_PAGE_ID
         /\ ViewAhead(at[1]) \in Page
<1>1. \E n \in {m \in 0 .. Cardinality(PageIds) : Ahead[m] # INVALID_PAGE_ID} :
        \E i \in {j \in Live(ViewAhead(n)) : j >= StartSlot(n)} : at = <<n, i>>
  BY DEF RowsAhead
<1>2. /\ at = <<at[1], at[2]>> /\ at[1] \in 0 .. Cardinality(PageIds)
      /\ Ahead[at[1]] # INVALID_PAGE_ID
      /\ at[2] \in Live(ViewAhead(at[1])) /\ at[2] >= StartSlot(at[1])
  BY <1>1
<1>3. Ahead[at[1]] = IF at[1] = 0 \/ CursorView.next # INVALID_PAGE_ID THEN At(s, c + at[1])
                     ELSE INVALID_PAGE_ID
  BY <1>2, AheadIs
<1>4. /\ c + at[1] \in DOMAIN s /\ Ahead[at[1]] = s[c + at[1]]
      /\ at[1] # 0 => CursorView.next # INVALID_PAGE_ID
  BY <1>2, <1>3 DEF At
<1>5. ViewAhead(at[1]) \in Page
  <2>1. CASE at[1] = 0
    BY <2>1 DEF ViewAhead, OnPage
  <2>2. CASE at[1] # 0
    <3>1. pages[s[c + at[1]]] \in Page
      BY <1>4, PathFields
    <3> QED
      BY <1>4, <2>2, <3>1 DEF ViewAhead
  <2> QED
    BY <2>1, <2>2
<1>6. at[2] \in Nat
  <2>1. at[2] \in 1 .. Len(ViewAhead(at[1]).slots) /\ Len(ViewAhead(at[1]).slots) \in Nat
    BY <1>2, <1>5, PageFields
  <2> QED
    BY <2>1
<1>7. c \in Nat /\ at[1] \in Nat
  <2>1. Cardinality(PageIds) \in Nat
    BY HeapAssumption, FS_CardinalityType
  <2> QED
    BY <1>2, <2>1, PathFields DEF OnPage
<1> QED
  BY <1>2, <1>4, <1>5, <1>6, <1>7

\* A row that is due and not yet seen is among the rows ahead.
LEMMA DueIsAhead ==
  ASSUME NEW s, HeapOn(pages, first_page_id, s), NEW c, ScanOn(s, c),
         due \subseteq RidsOf(pages), NEW rid \in due \ seen
  PROVE  \E n \in Nat : /\ <<n, rid[2]>> \in RowsAhead /\ c + n \in DOMAIN s
                        /\ s[c + n] = rid[1] /\ rid[2] \in Nat
<1>1. PICK k \in DOMAIN s :
        /\ s[k] = rid[1] /\ k >= c
        /\ k = c => rid[2] \in Live(CursorView) /\ rid[2] >= StartSlot(0)
        /\ k > c => CursorView.next # INVALID_PAGE_ID
  BY DEF ScanOn
<1>2. /\ OnPage(s, c) /\ c \in DOMAIN s
      /\ Len(s) \in Nat /\ DOMAIN s = 1 .. Len(s) /\ Len(s) \in 0 .. Cardinality(PageIds)
      /\ Cardinality(PageIds) \in Nat /\ INVALID_PAGE_ID \notin PageIds
  BY PathFields, PathIsChain DEF ScanOn, OnPage
<1> DEFINE n == k - c
<1>3. n \in Nat /\ n \in 0 .. Cardinality(PageIds) /\ c + n = k /\ (n = 0 <=> k = c)
  BY <1>1, <1>2
<1> HIDE DEF n
<1>4. Ahead[n] = IF n = 0 \/ CursorView.next # INVALID_PAGE_ID THEN At(s, c + n)
                 ELSE INVALID_PAGE_ID
  BY <1>2, <1>3, AheadIs
<1>5. Ahead[n] = rid[1] /\ rid[1] \in PageIds
  <2>1. At(s, c + n) = rid[1] /\ rid[1] \in PageIds
    BY <1>1, <1>3, PathFields DEF At
  <2>2. n = 0 \/ CursorView.next # INVALID_PAGE_ID
    BY <1>1, <1>2, <1>3
  <2> QED
    BY <1>4, <2>1, <2>2
<1>6. rid[2] \in Live(pages[rid[1]]) /\ rid[2] >= 1 /\ rid[2] \in Nat
  BY RidFields
<1>7. rid[2] \in Live(ViewAhead(n)) /\ rid[2] >= StartSlot(n)
  <2>1. CASE n = 0
    BY <1>1, <1>3, <2>1 DEF ViewAhead, StartSlot
  <2>2. CASE n # 0
    BY <1>5, <1>6, <2>2 DEF ViewAhead, StartSlot
  <2> QED
    BY <2>1, <2>2
<1>8. <<n, rid[2]>> \in RowsAhead
  <2>1. n \in {m \in 0 .. Cardinality(PageIds) : Ahead[m] # INVALID_PAGE_ID}
    BY <1>2, <1>3, <1>5
  <2>2. rid[2] \in {j \in Live(ViewAhead(n)) : j >= StartSlot(n)}
    BY <1>7
  <2> QED
    BY <2>1, <2>2 DEF RowsAhead
<1> QED
  BY <1>1, <1>3, <1>6, <1>8

\* If there are rows ahead there is a first one.
LEMMA FirstAhead ==
  ASSUME NEW s, HeapOn(pages, first_page_id, s), NEW c, OnPage(s, c), RowsAhead # {}
  PROVE  NextRow # {}
<1>1. \A at \in RowsAhead : at = <<at[1], at[2]>> /\ at[1] \in Nat /\ at[2] \in Nat
  BY RowsAheadAre
<1> DEFINE Ns == {at[1] : at \in RowsAhead}
<1>2. PICK n \in Ns : \A m \in Ns : n <= m
  <2>1. Ns \subseteq Nat /\ Ns # {}
    BY <1>1
  <2> HIDE DEF Ns
  <2> QED
    BY <2>1, LeastNatural
<1> DEFINE Is == {at[2] : at \in {a \in RowsAhead : a[1] = n}}
<1>3. PICK i \in Is : \A j \in Is : i <= j
  <2>1. Is \subseteq Nat /\ Is # {}
    BY <1>1, <1>2
  <2> HIDE DEF Is
  <2> QED
    BY <2>1, LeastNatural
<1>4. PICK at \in RowsAhead : at[1] = n /\ at[2] = i
  BY <1>3
<1>5. ASSUME NEW other \in RowsAhead
      PROVE  at[1] < other[1] \/ (at[1] = other[1] /\ at[2] <= other[2])
  <2>1. n <= other[1] /\ n \in Nat /\ other[1] \in Nat
    BY <1>1, <1>2, <1>4
  <2>2. CASE n = other[1]
    <3>1. i <= other[2]
      BY <1>3, <2>2
    <3> QED
      BY <1>4, <2>2, <3>1
  <2>3. CASE n # other[1]
    BY <1>4, <2>1, <2>3
  <2> QED
    BY <2>2, <2>3
<1>6. at \in NextRow
  BY <1>4, <1>5 DEF NextRow
<1> QED
  BY <1>6

\* What iter_next returns is new, and up to date unless the cursor copies; the
\* cursor then stands right behind it.
LEMMA RowStep ==
  ASSUME NEW s, HeapOn(pages, first_page_id, s), CursorInv(s), cursor.open,
         NEW x \in Returned, IterRow(x)
  PROVE  /\ CursorInv(s)' /\ x.rid \notin seen /\ seen' = seen \cup {x.rid}
         /\ ~cursor.copies => x.rid \in LiveRids /\ x.image = Get(x.rid)
<1>1. PICK at \in NextRow : x = [at |-> at, rid |-> <<Ahead[at[1]], at[2]>>,
                                 image |-> slotted_page_get(ViewAhead(at[1]), at[2])]
  BY DEF Returned
<1>2. /\ at \in RowsAhead
      /\ \A other \in RowsAhead : at[1] < other[1] \/ (at[1] = other[1] /\ at[2] <= other[2])
  BY DEF NextRow
<1>3. PICK c : ScanOn(s, c)
  <2>1. cursor.page # INVALID_PAGE_ID
    BY AheadOfNowhere
  <2> QED
    BY <2>1 DEF CursorInv
<1> DEFINE n == at[1]
           i == at[2]
           d == c + n
           v == ViewAhead(n)
<1>4. OnPage(s, c)
  BY <1>3 DEF ScanOn
<1>5. /\ n \in Nat /\ c \in Nat /\ d \in DOMAIN s /\ Ahead[n] = s[d]
      /\ i \in Live(v) /\ i >= StartSlot(n) /\ i \in Nat
      /\ n # 0 => CursorView.next # INVALID_PAGE_ID
      /\ v \in Page
  BY <1>2, <1>4, RowsAheadAre
<1>6. /\ x.at = at /\ x.rid = <<s[d], i>> /\ x.image = slotted_page_get(v, i)
  BY <1>1, <1>5
<1>7. /\ Len(s) \in Nat /\ DOMAIN s = 1 .. Len(s) /\ INVALID_PAGE_ID \notin PageIds
      /\ \A k \in DOMAIN s : /\ s[k] \in DOMAIN pages /\ s[k] \in PageIds
                             /\ pages[s[k]].next = At(s, k + 1) /\ pages[s[k]] \in Page
      /\ \A k, l \in DOMAIN s : s[k] = s[l] => k = l
  BY PathFields
<1>8. /\ cursor' = [open |-> TRUE, copies |-> cursor.copies, page |-> s[d], slot |-> i + 1,
                    loaded |-> TRUE, view |-> IF cursor.copies THEN v ELSE NoView]
      /\ pages' = pages /\ due' = due /\ first_page_id' = first_page_id
  BY <1>6 DEF IterRow, heapVars
<1>9. seen' = seen \cup {x.rid}
  BY DEF IterRow
<1>10. n = 0 => v = CursorView
  BY DEF ViewAhead
<1>11. n # 0 => v = pages[s[d]]
  BY <1>5 DEF ViewAhead
<1>12. ~cursor.copies => v = pages[s[d]]
  <2>1. ASSUME ~cursor.copies, n = 0 PROVE v = pages[s[d]]
    <3>1. CursorView = pages[cursor.page] /\ d = c
      BY <1>5, <2>1 DEF CursorView
    <3> QED
      BY <1>4, <1>10, <2>1, <3>1 DEF OnPage
  <2> QED
    BY <1>11, <2>1
<1> HIDE DEF v
<1>13. CursorView' = v
  <2>1. CASE cursor.copies
    BY <1>8, <2>1 DEF CursorView
  <2>2. CASE ~cursor.copies
    <3>1. CursorView' = pages[s[d]]
      BY <1>8, <2>2 DEF CursorView
    <3> QED
      BY <1>12, <2>2, <3>1
  <2> QED
    BY <2>1, <2>2
<1>14. v.next \in {INVALID_PAGE_ID, At(s, d + 1)}
  <2>1. CASE n = 0
    <3>1. d = c
      BY <1>5, <2>1
    <3> QED
      BY <1>4, <1>10, <2>1, <3>1 DEF OnPage
  <2>2. CASE n # 0
    BY <1>5, <1>7, <1>11, <2>2
  <2> QED
    BY <2>1, <2>2
<1>15. OnPage(s, d)'
  BY <1>5, <1>8, <1>13, <1>14 DEF OnPage
<1>16. StartSlot(0)' = i + 1
  BY <1>8 DEF StartSlot
<1>17. StartSlot(0) \in Nat
  BY <1>4 DEF StartSlot, OnPage
<1>18. ASSUME NEW rid \in due' \ seen'
       PROVE  \E k \in DOMAIN s :
                /\ s[k] = rid[1] /\ k >= d
                /\ k = d => rid[2] \in Live(CursorView)' /\ rid[2] >= StartSlot(0)'
                /\ k > d => CursorView'.next # INVALID_PAGE_ID
  <2>1. rid \in due \ seen /\ rid # x.rid /\ due \subseteq RidsOf(pages)
    BY <1>8, <1>9 DEF CursorInv
  <2>2. PICK m \in Nat : /\ <<m, rid[2]>> \in RowsAhead /\ c + m \in DOMAIN s
                         /\ s[c + m] = rid[1] /\ rid[2] \in Nat
    BY <1>3, <2>1, DueIsAhead
  <2>3. n < m \/ (n = m /\ i <= rid[2])
    <3> DEFINE other == <<m, rid[2]>>
    <3>1. other[1] = m /\ other[2] = rid[2] /\ other \in RowsAhead
      BY <2>2
    <3> HIDE DEF other
    <3> QED
      BY <1>2, <3>1
  <2>4. rid[2] \in Live(ViewAhead(m)) /\ (m # 0 => CursorView.next # INVALID_PAGE_ID)
    <3> DEFINE other == <<m, rid[2]>>
    <3>1. other[1] = m /\ other[2] = rid[2] /\ other \in RowsAhead
      BY <2>2
    <3> HIDE DEF other
    <3> QED
      BY <1>4, <3>1, RowsAheadAre
  <2>5. rid = <<rid[1], rid[2]>>
    BY <2>1, RidFields
  <2>6. CASE n = m
    <3>1. c + m = d /\ rid[1] = s[d] /\ rid[2] # i
      BY <1>6, <2>1, <2>2, <2>5, <2>6
    <3>2. rid[2] \in Live(v) /\ rid[2] >= i + 1
      BY <1>5, <2>2, <2>3, <2>4, <2>6, <3>1 DEF v
    <3>3. Live(CursorView)' = Live(v)
      BY <1>13 DEF Live
    <3>4. d \in Nat
      BY <1>5
    <3> HIDE DEF d
    <3> QED
      BY <1>5, <1>16, <3>1, <3>2, <3>3, <3>4
  <2>7. CASE n < m
    <3>1. c + m \in DOMAIN s /\ c + m > d /\ d + 1 \in DOMAIN s /\ d \in Nat /\ c + m \in Nat
      <4>1. c + m \in DOMAIN s /\ m \in Nat
        BY <2>2
      <4> QED
        BY <1>5, <1>7, <2>7, <4>1
    <3>2. v.next # INVALID_PAGE_ID
      <4>1. CASE n = 0
        BY <1>10, <2>4, <2>7, <4>1
      <4>2. CASE n # 0
        <5>1. v.next = s[d + 1]
          BY <1>5, <1>7, <1>11, <3>1, <4>2 DEF At
        <5> QED
          BY <1>7, <3>1, <5>1
      <4> QED
        BY <4>1, <4>2
    <3> HIDE DEF d
    <3> QED
      BY <1>13, <2>2, <3>1, <3>2
  <2> QED
    BY <2>3, <2>6, <2>7
<1>19. ASSUME NEW rid \in seen
       PROVE  \E k \in DOMAIN s : s[k] = rid[1] /\ k <= d /\ (k = d => rid[2] < i + 1)
  <2>1. PICK k \in DOMAIN s : s[k] = rid[1] /\ k <= c /\ (k = c => rid[2] < StartSlot(0))
    BY <1>3 DEF ScanOn
  <2>2. k \in Nat /\ rid[2] \in Nat
    BY <1>7 DEF CursorInv
  <2>3. k <= d
    BY <1>5, <2>1, <2>2
  <2>4. ASSUME k = d PROVE rid[2] < i + 1
    <3>1. k = c /\ n = 0
      BY <1>5, <2>1, <2>2, <2>4
    <3>2. rid[2] < StartSlot(0) /\ i >= StartSlot(0)
      BY <1>5, <2>1, <3>1
    <3> QED
      BY <1>5, <1>17, <2>2, <3>2
  <2> QED
    BY <2>1, <2>3, <2>4
<1>20. x.rid[1] = s[d] /\ x.rid[2] = i /\ d <= d /\ i < i + 1
  BY <1>5, <1>6
<1>21. ScanOn(s, d)'
  <2>1. \A rid \in seen' : \E k \in DOMAIN s :
          s[k] = rid[1] /\ k <= d /\ (k = d => rid[2] < StartSlot(0)')
    <3>1. \A rid \in seen : \E k \in DOMAIN s :
            s[k] = rid[1] /\ k <= d /\ (k = d => rid[2] < StartSlot(0)')
      BY <1>16, <1>19
    <3>2. s[d] = x.rid[1] /\ d <= d /\ (d = d => x.rid[2] < StartSlot(0)')
      BY <1>16, <1>20
    <3> HIDE DEF d
    <3> QED
      BY <1>5, <1>9, <3>1, <3>2
  <2> HIDE DEF d
  <2> QED
    BY <1>15, <1>18, <2>1 DEF ScanOn
<1>22. x.rid \notin seen
  <2>1. SUFFICES ASSUME x.rid \in seen PROVE FALSE
    OBVIOUS
  <2>2. PICK k \in DOMAIN s : s[k] = x.rid[1] /\ k <= c /\ (k = c => x.rid[2] < StartSlot(0))
    BY <1>3, <2>1 DEF ScanOn
  <2>3. k = d
    <3> HIDE DEF d
    <3> QED
      BY <1>5, <1>7, <1>20, <2>2
  <2>4. n = 0 /\ k = c
    BY <1>5, <2>2, <2>3
  <2> QED
    BY <1>5, <1>17, <1>20, <2>2, <2>4
<1>23. CursorInv(s)'
  <2>1. seen' \subseteq PageIds \X Nat
    <3>1. s[d] \in PageIds
      BY <1>5, <1>7
    <3> QED
      BY <1>5, <1>6, <1>9, <3>1 DEF CursorInv
  <2>2. due' \subseteq RidsOf(pages)'
    BY <1>8 DEF CursorInv, RidsOf, Live
  <2>3. cursor'.open = TRUE /\ cursor'.page # INVALID_PAGE_ID
    BY <1>5, <1>7, <1>8
  <2> HIDE DEF d
  <2> QED
    BY <1>21, <2>1, <2>2, <2>3 DEF CursorInv
<1>24. ASSUME ~cursor.copies PROVE x.rid \in LiveRids /\ x.image = Get(x.rid)
  <2>1. LiveRids = RidsOf(pages)
    BY DEF LiveRids, RidsOf
  <2>2. i \in Live(pages[s[d]]) /\ s[d] \in DOMAIN pages
    BY <1>5, <1>7, <1>12, <1>24
  <2>3. <<s[d], i>> \in RidsOf(pages)
    BY <2>2, RidsArePairs
  <2> QED
    BY <1>6, <1>12, <1>20, <1>24, <2>1, <2>3 DEF Get
<1> QED
  BY <1>9, <1>22, <1>23, <1>24

\* At the end of a scan no row is left out.
LEMMA EndStep ==
  ASSUME NEW s, HeapOn(pages, first_page_id, s), CursorInv(s), cursor.open, Returned = {}
  PROVE  due \subseteq seen
<1>1. CASE cursor.page = INVALID_PAGE_ID
  BY <1>1 DEF CursorInv
<1>2. CASE cursor.page # INVALID_PAGE_ID
  <2>1. PICK c : ScanOn(s, c)
    BY <1>2 DEF CursorInv
  <2>2. NextRow = {}
    BY DEF Returned
  <2>3. RowsAhead = {}
    BY <2>1, <2>2, FirstAhead DEF ScanOn
  <2>4. \A rid \in due \ seen : FALSE
    BY <2>1, <2>3, DueIsAhead DEF CursorInv
  <2> QED
    BY <2>4
<1> QED
  BY <1>1, <1>2

-----------------------------------------------------------------------------
(* The invariant *)

HeapIInv == \E s : HeapOn(pages, first_page_id, s) /\ CursorInv(s)

\* The heap starts without pages.
LEMMA HeapInitInv == HeapInit => HeapIInv
<1> SUFFICES ASSUME HeapInit PROVE HeapIInv
  OBVIOUS
<1> DEFINE s == <<>>
<1>1. /\ DOMAIN pages = {} /\ first_page_id = INVALID_PAGE_ID /\ cursor.open = FALSE
      /\ seen = {} /\ due = {}
  BY DEF HeapInit, Closed
<1>2. DOMAIN s = {} /\ s \in Seq(DOMAIN pages)
  OBVIOUS
<1> HIDE DEF s
<1>3. HeapOn(pages, first_page_id, s)
  BY <1>1, <1>2 DEF HeapOn, IsPath, At
<1>4. CursorInv(s)
  BY <1>1 DEF CursorInv
<1> QED
  BY <1>3, <1>4 DEF HeapIInv

\* A step of the heap or of a cursor keeps the invariant and does to the rows
\* what the operation promises.
LEMMA HeapStep ==
  ASSUME HeapIInv, HeapNext
  PROVE  /\ HeapIInv'
         /\ \/ RowsKept(pages, pages')
            \/ \E rid : \E row \in Rows : \/ RowAdded(pages, pages', rid, Image(row))
                                          \/ RowChanged(pages, pages', rid, Image(row))
            \/ \E rid : RowGone(pages, pages', rid)
<1>1. PICK s : HeapOn(pages, first_page_id, s) /\ CursorInv(s)
  BY DEF HeapIInv
<1>2. LiveRids = RidsOf(pages) /\ due \subseteq RidsOf(pages)
  BY <1>1 DEF LiveRids, RidsOf, CursorInv
<1>3. GoesOn(s, s)
  <2>1. Len(s) \in Nat
    BY <1>1, PathFields
  <2> QED
    BY <2>1 DEF GoesOn
<1>4. ASSUME NEW row \in Rows, bpm_heap_insert(row)
      PROVE  /\ HeapIInv'
             /\ RowsKept(pages, pages') \/ \E rid : RowAdded(pages, pages', rid, Image(row))
  <2>1. PICK u : HeapOn(pages', first_page_id', u) /\ GoesOn(s, u)
    BY <1>1, <1>4, InsertStep
  <2>2. RowsKept(pages, pages') \/ \E rid : RowAdded(pages, pages', rid, Image(row))
    BY <1>1, <1>4, InsertStep
  <2>3. cursor' = cursor /\ seen' = seen /\ due' = due
    BY <1>4 DEF bpm_heap_insert, cursorVars
  <2>4. due' \subseteq RidsOf(pages')
    BY <1>2, <2>2, <2>3 DEF RowsKept, RowAdded
  <2>5. CursorInv(u)'
    BY <1>1, <2>1, <2>3, <2>4, CursorStays
  <2> QED
    BY <2>1, <2>2, <2>5 DEF HeapIInv
<1>5. ASSUME NEW row \in Rows, InsertFails(row)
      PROVE  HeapIInv' /\ RowsKept(pages, pages')
  <2>1. PICK u : HeapOn(pages', first_page_id', u) /\ GoesOn(s, u)
    BY <1>1, <1>5, FailStep
  <2>2. RowsKept(pages, pages')
    BY <1>1, <1>5, FailStep
  <2>3. cursor' = cursor /\ seen' = seen /\ due' = due
    BY <1>5 DEF InsertFails, cursorVars
  <2>4. due' \subseteq RidsOf(pages')
    BY <1>2, <2>2, <2>3 DEF RowsKept
  <2>5. CursorInv(u)'
    BY <1>1, <2>1, <2>3, <2>4, CursorStays
  <2> QED
    BY <2>1, <2>2, <2>5 DEF HeapIInv
<1>6. ASSUME NEW rid \in LiveRids, bpm_heap_delete(rid)
      PROVE  HeapIInv' /\ RowGone(pages, pages', rid)
  <2>1. rid = <<rid[1], rid[2]>> /\ rid[1] \in DOMAIN pages /\ rid[2] \in Live(pages[rid[1]])
    BY <1>2, RidsArePairs
  <2>2. /\ pages' = [pages EXCEPT ![rid[1]] = slotted_page_delete(pages[rid[1]], rid[2])]
        /\ due' = due \ {rid} /\ first_page_id' = first_page_id
        /\ cursor' = cursor /\ seen' = seen
    BY <1>6 DEF bpm_heap_delete
  <2>3. HeapOn(pages', first_page_id', s) /\ RowGone(pages, pages', <<rid[1], rid[2]>>)
    BY <1>1, <2>1, <2>2, DeleteOn
  <2>4. RowGone(pages, pages', rid)
    BY <2>1, <2>3
  <2>5. due' \subseteq due /\ due' \subseteq RidsOf(pages')
    BY <1>2, <2>2, <2>4 DEF RowGone
  <2>6. CursorInv(s)'
    BY <1>1, <1>3, <2>2, <2>3, <2>5, CursorStays
  <2> QED
    BY <2>3, <2>4, <2>6 DEF HeapIInv
<1>7. ASSUME NEW rid \in LiveRids, NEW row \in Rows, bpm_heap_update(rid, row)
      PROVE  HeapIInv' /\ RowChanged(pages, pages', rid, Image(row))
  <2>1. rid = <<rid[1], rid[2]>> /\ rid[1] \in DOMAIN pages /\ rid[2] \in Live(pages[rid[1]])
    BY <1>2, RidsArePairs
  <2>2. /\ pages' = [pages EXCEPT ![rid[1]] = slotted_page_update(pages[rid[1]], rid[2], row)]
        /\ CanUpdate(pages[rid[1]], rid[2], row)
        /\ due' = due /\ first_page_id' = first_page_id
        /\ cursor' = cursor /\ seen' = seen
    BY <1>7 DEF bpm_heap_update, cursorVars
  <2>3. /\ HeapOn(pages', first_page_id', s)
        /\ RowChanged(pages, pages', <<rid[1], rid[2]>>, Image(row))
    BY <1>1, <2>1, <2>2, UpdateOn
  <2>4. RowChanged(pages, pages', rid, Image(row))
    BY <2>1, <2>3
  <2>5. due' \subseteq due /\ due' \subseteq RidsOf(pages')
    BY <1>2, <2>2, <2>4 DEF RowChanged
  <2>6. CursorInv(s)'
    BY <1>1, <1>3, <2>2, <2>3, <2>5, CursorStays
  <2> QED
    BY <2>3, <2>4, <2>6 DEF HeapIInv
<1>8. RowsKept(pages, pages)
  BY DEF RowsKept
<1>9. ASSUME NEW copies \in BOOLEAN, iter_init(copies)
      PROVE  HeapIInv' /\ pages' = pages
  <2>1. pages' = pages /\ first_page_id' = first_page_id
    BY <1>9 DEF iter_init, heapVars
  <2>2. CursorInv(s)'
    BY <1>1, <1>9, OpenStep
  <2> QED
    BY <1>1, <2>1, <2>2 DEF HeapIInv
<1>10. ASSUME cursor'.open = FALSE, seen' = {}, due' = {}, UNCHANGED heapVars
       PROVE  HeapIInv' /\ pages' = pages
  <2>1. pages' = pages /\ first_page_id' = first_page_id
    BY <1>10 DEF heapVars
  <2>2. CursorInv(s)'
    BY <1>10 DEF CursorInv
  <2> QED
    BY <1>1, <2>1, <2>2 DEF HeapIInv
<1>11. ASSUME iter_next PROVE HeapIInv' /\ pages' = pages
  <2>1. CASE IterEnd
    BY <1>10, <2>1 DEF IterEnd, Closed
  <2>2. ASSUME NEW x \in Returned, IterRow(x) PROVE HeapIInv' /\ pages' = pages
    <3>1. pages' = pages /\ first_page_id' = first_page_id
      BY <2>2 DEF IterRow, heapVars
    <3>2. CursorInv(s)'
      BY <1>1, <1>11, <2>2, RowStep DEF iter_next
    <3> QED
      BY <1>1, <3>1, <3>2 DEF HeapIInv
  <2> QED
    BY <1>11, <2>1, <2>2 DEF iter_next
<1>12. ASSUME iter_destroy PROVE HeapIInv' /\ pages' = pages
  BY <1>10, <1>12 DEF iter_destroy, Closed
<1> QED
  BY <1>4, <1>5, <1>6, <1>7, <1>8, <1>9, <1>11, <1>12 DEF HeapNext

\* The pages are sound and hang together, and the cursor knows where it is, in
\* every state.
THEOREM HeapInvariance == HeapSpec => []HeapIInv
<1>1. ASSUME HeapIInv, UNCHANGED allVars PROVE HeapIInv'
  <2>1. /\ pages' = pages /\ first_page_id' = first_page_id /\ cursor' = cursor
        /\ seen' = seen /\ due' = due
    BY <1>1 DEF allVars, heapVars, cursorVars
  <2>2. PICK s : HeapOn(pages, first_page_id, s) /\ CursorInv(s)
    BY <1>1 DEF HeapIInv
  <2>3. /\ GoesOn(s, s) /\ due \subseteq RidsOf(pages)
    BY <2>2, PathFields DEF GoesOn, CursorInv
  <2>4. HeapOn(pages', first_page_id', s)
    BY <2>1, <2>2
  <2>5. CursorInv(s)'
    BY <2>1, <2>2, <2>3, <2>4, CursorStays
  <2> QED
    BY <2>4, <2>5 DEF HeapIInv
<1>2. HeapIInv /\ [HeapNext]_allVars => HeapIInv'
  BY <1>1, HeapStep
<1> QED
  BY <1>2, HeapInitInv, PTL DEF HeapSpec

-----------------------------------------------------------------------------
(* Theorems *)

\* Rows end within their page and no two of them, nor the slot array or the
\* header, share a byte, whatever is inserted, deleted, grown and shrunk.
THEOREM PagesAlwaysSound == HeapSpec => []PagesSound
<1>1. ASSUME HeapIInv PROVE PagesSound
  <2>1. PICK s : HeapOn(pages, first_page_id, s) /\ CursorInv(s)
    BY <1>1 DEF HeapIInv
  <2>2. DOMAIN pages \subseteq PageIds /\ \A p \in DOMAIN pages : PageInv(pages[p])
    BY <2>1 DEF HeapOn
  <2>3. ASSUME NEW p \in DOMAIN pages
        PROVE  /\ pages[p] \in Page
               /\ \A i \in Live(pages[p]) : Extent(pages[p], i) \subseteq Bytes
    <3>1. PageInv(pages[p]) /\ pages[p] \in Page
      BY <2>2 DEF PageInv
    <3>2. ASSUME NEW i \in Live(pages[p]), NEW b \in Extent(pages[p], i) PROVE b \in Bytes
      <4>1. HoldsRow(pages[p], i)
        BY <3>1 DEF PageInv
      <4>2. pages[p].slots[i].offset \in Nat /\ pages[p].slots[i].size \in Nat
        BY <3>1, PageFields
      <4> QED
        BY <4>1, <4>2, PageAssumption DEF HoldsRow, Extent, Bytes
    <3> QED
      BY <3>1, <3>2
  <2>4. first_page_id \in DOMAIN pages \cup {INVALID_PAGE_ID}
    BY <2>1, PathFields DEF At
  <2>5. due \subseteq PageIds \X Nat
    <3>1. \A rid \in due : rid = <<rid[1], rid[2]>> /\ rid[1] \in PageIds /\ rid[2] \in Nat
      BY <2>1, RidFields DEF CursorInv
    <3> QED
      BY <3>1
  <2>6. HeapTypeOK
    BY <2>1, <2>2, <2>3, <2>4, <2>5 DEF HeapTypeOK, CursorInv
  <2>7. ASSUME NEW p \in DOMAIN pages PROVE Apart(pages[p])
    <3>1. PageInv(pages[p]) /\ pages[p] \in Page
      BY <2>2 DEF PageInv
    <3>2. \A i, j \in Live(pages[p]) :
            i # j => Extent(pages[p], i) \cap Extent(pages[p], j) = {}
      BY <3>1, OverlapMeaning DEF PageInv
    <3> QED
      BY <3>1, <3>2 DEF PageInv, Apart
  <2> QED
    BY <2>6, <2>7 DEF PagesSound, RowsApart
<1> QED
  BY <1>1, HeapInvariance, PTL

\* The walk along the next pages ends, and meets every page that has slots.
THEOREM ChainAlwaysWhole == HeapSpec => []ChainWhole
<1>1. ASSUME HeapIInv PROVE ChainWhole
  <2>1. PICK s : HeapOn(pages, first_page_id, s) /\ CursorInv(s)
    BY <1>1 DEF HeapIInv
  <2>2. /\ Len(s) \in 0 .. Cardinality(PageIds)
        /\ \A k \in 0 .. Cardinality(PageIds) : Chain(pages, first_page_id)[k] = At(s, k + 1)
        /\ OnChain(pages, first_page_id) = {s[k] : k \in DOMAIN s}
    BY <2>1, PathIsChain
  <2>3. At(s, Len(s) + 1) = INVALID_PAGE_ID
    BY <2>1, PathFields DEF At
  <2> QED
    BY <2>1, <2>2, <2>3 DEF HeapOn, ChainWhole
<1> QED
  BY <1>1, HeapInvariance, PTL

\* Inserts, updates, deletes and scans may follow each other in any order: a
\* cursor returns each row that stays, once, and none before its end is left out.
THEOREM ScansAreExact == HeapSpec => ScanExact
<1> DEFINE Exact ==
      /\ iter_next /\ cursor'.open =>
           \E x \in Returned :
              /\ x.rid \notin seen /\ seen' = seen \cup {x.rid}
              /\ ~cursor.copies => x.rid \in LiveRids /\ x.image = Get(x.rid)
      /\ iter_next /\ ~cursor'.open => due \subseteq seen
<1>1. ASSUME HeapIInv, iter_next PROVE Exact
  <2>1. PICK s : HeapOn(pages, first_page_id, s) /\ CursorInv(s)
    BY <1>1 DEF HeapIInv
  <2>2. cursor.open
    BY <1>1 DEF iter_next
  <2>3. CASE IterEnd
    <3>1. Returned = {} /\ cursor'.open = FALSE
      BY <2>3 DEF IterEnd, Closed
    <3> QED
      BY <2>1, <2>2, <3>1, EndStep
  <2>4. ASSUME NEW x \in Returned, IterRow(x) PROVE Exact
    <3>1. cursor'.open = TRUE
      BY <2>4 DEF IterRow
    <3>2. /\ x.rid \notin seen /\ seen' = seen \cup {x.rid}
          /\ ~cursor.copies => x.rid \in LiveRids /\ x.image = Get(x.rid)
      BY <2>1, <2>2, <2>4, RowStep
    <3> QED
      BY <2>4, <3>1, <3>2
  <2> QED
    BY <1>1, <2>3, <2>4 DEF iter_next
<1>2. HeapIInv => [Exact]_allVars
  BY <1>1
<1> HIDE DEF Exact
<1>3. HeapSpec => [][Exact]_allVars
  BY <1>2, HeapInvariance, PTL
<1> QED
  BY <1>3 DEF ScanExact, Exact

\* Row ids stay within their range.
LEMMA RidsInRange ==
  ASSUME NEW ps, NEW first, NEW s, HeapOn(ps, first, s)
  PROVE  RidsOf(ps) \subseteq PageIds \X (1 .. PAGE_SIZE)
<1>1. ASSUME NEW rid \in RidsOf(ps)
      PROVE  rid = <<rid[1], rid[2]>> /\ rid[1] \in PageIds /\ rid[2] \in 1 .. PAGE_SIZE
  <2>1. /\ rid = <<rid[1], rid[2]>> /\ rid[1] \in DOMAIN ps /\ rid[2] \in Live(ps[rid[1]])
        /\ rid[1] \in PageIds
    BY RidFields
  <2>2. PageInv(ps[rid[1]])
    BY <2>1 DEF HeapOn
  <2>3. /\ rid[2] \in 1 .. Len(ps[rid[1]].slots) /\ Len(ps[rid[1]].slots) \in Nat
        /\ Len(ps[rid[1]].slots) <= PAGE_SIZE
    BY <2>1, <2>2, PageFields, SlotsFit DEF PageInv
  <2> QED
    BY <2>1, <2>3, PageAssumption
<1> QED
  BY <1>1

\* The heap implements the table it promises: an insert puts a row under an id
\* never used before, an update or a delete concerns one row, and an insert that
\* fails half way, a new page or a cursor changes no row.
THEOREM HeapIsTable == HeapSpec => ImplementsTable
<1> DEFINE Rids == PageIds \X (1 .. PAGE_SIZE)
           Images == {Image(row) : row \in Rows}
           table == [rid \in LiveRids |-> Get(rid)]
           used == UNION {{<<p, i>> : i \in DOMAIN pages[p].slots} : p \in DOMAIN pages}
<1>1. /\ LiveRids = RidsOf(pages) /\ used = UsedOf(pages)
      /\ table = [rid \in RidsOf(pages) |-> AnswerOf(pages, rid)]
  BY DEF LiveRids, RidsOf, UsedOf, Get, AnswerOf
<1>2. /\ LiveRids' = RidsOf(pages') /\ used' = UsedOf(pages')
      /\ table' = [rid \in RidsOf(pages') |-> AnswerOf(pages', rid)]
  BY DEF LiveRids, RidsOf, UsedOf, Get, AnswerOf, Live, slotted_page_get
<1> HIDE DEF table, used
<1>3. ASSUME HeapInit PROVE Table!TableInit
  <2>1. DOMAIN pages = {}
    BY <1>3 DEF HeapInit
  <2>2. RidsOf(pages) = {} /\ UsedOf(pages) = {}
    BY <2>1 DEF RidsOf, UsedOf
  <2>3. used = {} /\ table = [r \in {} |-> r]
    BY <1>1, <2>2
  <2> QED
    BY <2>3 DEF Table!TableInit, table, used
<1>4. ASSUME RowsKept(pages, pages') PROVE table' = table /\ used' = used
  BY <1>1, <1>2, <1>4 DEF RowsKept
<1>5. ASSUME NEW rid, NEW row \in Rows, RowAdded(pages, pages', rid, Image(row))
      PROVE  /\ rid \in Rids \ used /\ Image(row) \in Images
             /\ table' = [r \in DOMAIN table \cup {rid} |->
                            IF r = rid THEN Image(row) ELSE table[r]]
             /\ used' = used \cup {rid}
  BY <1>1, <1>2, <1>5 DEF RowAdded
<1>6. ASSUME HeapIInv, NEW rid, NEW row \in Rows, RowChanged(pages, pages', rid, Image(row))
      PROVE  /\ rid \in Rids /\ rid \in DOMAIN table /\ Image(row) \in Images
             /\ table' = [r \in DOMAIN table \cup {rid} |->
                            IF r = rid THEN Image(row) ELSE table[r]]
             /\ used' = used
  <2>1. RidsOf(pages) \subseteq Rids
    BY <1>6, RidsInRange DEF HeapIInv
  <2>2. /\ rid \in RidsOf(pages) /\ RidsOf(pages') = RidsOf(pages)
        /\ RidsOf(pages) = RidsOf(pages) \cup {rid}
        /\ UsedOf(pages') = UsedOf(pages) /\ AnswerOf(pages', rid) = Image(row)
        /\ \A r \in RidsOf(pages) : r # rid => AnswerOf(pages', r) = AnswerOf(pages, r)
    BY <1>6 DEF RowChanged
  <2> QED
    BY <1>1, <1>2, <2>1, <2>2
<1>7. ASSUME NEW rid, RowGone(pages, pages', rid)
      PROVE  /\ rid \in DOMAIN table /\ table' = [r \in DOMAIN table \ {rid} |-> table[r]]
             /\ used' = used
  BY <1>1, <1>2, <1>7 DEF RowGone
<1>8. ASSUME HeapIInv, HeapNext PROVE [Table!TableNext]_(Table!tableVars)
  <2>1. \/ RowsKept(pages, pages')
        \/ \E rid : \E row \in Rows : \/ RowAdded(pages, pages', rid, Image(row))
                                      \/ RowChanged(pages, pages', rid, Image(row))
        \/ \E rid : RowGone(pages, pages', rid)
    BY <1>8, HeapStep
  <2>2. CASE RowsKept(pages, pages')
    BY <1>4, <2>2 DEF Table!tableVars, table, used
  <2>3. ASSUME NEW rid, NEW row \in Rows, RowAdded(pages, pages', rid, Image(row))
        PROVE  Table!TableNext
    <3>1. Table!TableInsert(rid, Image(row))
      BY <1>5, <2>3 DEF Table!TableInsert, Table!With, table, used
    <3>2. rid \in Rids /\ Image(row) \in Images
      BY <1>5, <2>3
    <3> QED
      BY <3>1, <3>2 DEF Table!TableNext
  <2>4. ASSUME NEW rid, NEW row \in Rows, RowChanged(pages, pages', rid, Image(row))
        PROVE  Table!TableNext
    <3>1. Table!TableUpdate(rid, Image(row))
      BY <1>6, <1>8, <2>4 DEF Table!TableUpdate, Table!With, table, used
    <3>2. rid \in Rids /\ Image(row) \in Images
      BY <1>6, <1>8, <2>4
    <3> QED
      BY <3>1, <3>2 DEF Table!TableNext
  <2>5. ASSUME NEW rid, RowGone(pages, pages', rid) PROVE Table!TableNext
    <3>1. Table!TableDelete(rid) /\ rid \in DOMAIN table
      BY <1>7, <2>5 DEF Table!TableDelete, table, used
    <3> QED
      BY <3>1 DEF Table!TableNext, table
  <2> QED
    BY <2>1, <2>2, <2>3, <2>4, <2>5
<1>9. ASSUME UNCHANGED allVars PROVE UNCHANGED Table!tableVars
  <2>1. pages' = pages
    BY <1>9 DEF allVars, heapVars
  <2>2. RowsKept(pages, pages')
    BY <2>1 DEF RowsKept
  <2> QED
    BY <1>4, <2>2 DEF Table!tableVars, table, used
<1>10. HeapIInv /\ [HeapNext]_allVars => [Table!TableNext]_(Table!tableVars)
  BY <1>8, <1>9
<1> QED
  BY <1>3, <1>10, HeapInvariance, PTL DEF HeapSpec, ImplementsTable, Table!TableSpec
=============================================================================
