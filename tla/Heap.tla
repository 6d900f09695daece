-------------------------------- MODULE Heap --------------------------------
(***************************************************************************)
(* The rows of a table in a chain of slotted pages: bpm_heap.c, which      *)
(* reaches the pages through the buffer pool, and heap_file.c, which does  *)
(* the same through the disk manager.  One client runs at a time; it may   *)
(* have a cursor open while it changes rows, as UPDATE and DELETE do.      *)
(* The cursor of bpm_heap.c reads the page itself, the one of heap_file.c  *)
(* a copy made when it reached the page.                                   *)
(*                                                                         *)
(* bpm_fetch_page and bpm_new_page are represented by what they promise:   *)
(* the page as it was last written, a page nobody has, or NULL.  The disk  *)
(* operations of heap_file.c are taken to succeed.                         *)
(***************************************************************************)
EXTENDS SlottedPage, FiniteSets

ASSUME HeapAssumption == IsFiniteSet(PageIds)

VARIABLES
  pages,           \* partial function: page id -> content
  first_page_id,   \* bpm_heap_t.first_page_id
  cursor,          \* bpm_heap_iter_t or heap_iter_t
  seen,            \* history: row ids the cursor has returned
  due              \* history: rows there since the cursor was opened

heapVars == <<pages, first_page_id>>
cursorVars == <<cursor, seen, due>>
allVars == <<heapVars, cursorVars>>

LiveRids == UNION {{<<p, i>> : i \in Live(pages[p])} : p \in DOMAIN pages}
Get(rid) == slotted_page_get(pages[rid[1]], rid[2])

-----------------------------------------------------------------------------
(* The chain of pages *)

\* The n-th page of the chain ps starts at first, INVALID_PAGE_ID past its end.
Chain(ps, first) ==
  LET nth[n \in 0 .. Cardinality(PageIds)] ==
        IF n = 0 THEN first
        ELSE IF nth[n - 1] = INVALID_PAGE_ID THEN INVALID_PAGE_ID
        ELSE ps[nth[n - 1]].next
  IN nth

OnChain(ps, first) == {p \in PageIds : \E n \in 0 .. Cardinality(PageIds) : Chain(ps, first)[n] = p}

WithPage(ps, p, content) ==
  [q \in DOMAIN ps \cup {p} |-> IF q = p THEN content ELSE ps[q]]

Fresh(ps) == PageIds \ DOMAIN ps

-----------------------------------------------------------------------------
(* bpm_heap_insert *)

\* ensure_first_page: the heaps it may leave, given that a page can be had.
WithFirst ==
  IF first_page_id # INVALID_PAGE_ID
  THEN {[pages |-> pages, first |-> first_page_id]}
  ELSE {[pages |-> WithPage(pages, p, slotted_page_init), first |-> p] : p \in Fresh(pages)}

HasRoom(content, row) == slotted_page_free_space(content) >= tuple_size[row] + SLOT_SIZE

\* The first page of the chain with room for the row, if any.
FirstFit(h, row) ==
  LET chain == Chain(h.pages, h.first)
      Fitting(n) == chain[n] # INVALID_PAGE_ID /\ HasRoom(h.pages[chain[n]], row)
  IN  {chain[n] : n \in {m \in DOMAIN chain : Fitting(m) /\ \A k \in 0 .. m - 1 : ~Fitting(k)}}

\* Mutant of the next definition: the new page is never linked.
Linked_Nowhere(h, p) == WithPage(h.pages, p, slotted_page_init)

\* A page is initialised and becomes the last of the chain.
Linked(h, p) ==
  LET last == CHOOSE q \in OnChain(h.pages, h.first) : h.pages[q].next = INVALID_PAGE_ID
  IN  WithPage([h.pages EXCEPT ![last] = [@ EXCEPT !.next = p]], p, slotted_page_init)

\* slotted_page_insert on page p.  A page without room, which a new page is for
\* a long row, makes it return DB_OUT_OF_MEMORY; the number is not below zero,
\* passes for a slot, and the insert answers DB_OK all the same.
Stored(ps, p, row) ==
  pages' = IF Fits(ps[p], tuple_size[row], 1)
           THEN [ps EXCEPT ![p] = slotted_page_insert(ps[p], row)] ELSE ps

bpm_heap_insert(row) ==
  /\ \E h \in WithFirst :
        /\ first_page_id' = h.first
        /\ \/ \E p \in FirstFit(h, row) : Stored(h.pages, p, row)
           \/ /\ FirstFit(h, row) = {}
              /\ \E p \in Fresh(h.pages) : Stored(Linked(h, p), p, row)
  /\ UNCHANGED cursorVars

\* The insert answers with an error: no frame, or no page, for one of the calls
\* to the pool.  The first page may have been added by then, or a new page been
\* initialised which the walk to the end of the chain then failed to link.
InsertFails(row) ==
  /\ \E h \in WithFirst :
        /\ first_page_id' = h.first
        /\ \/ pages' = h.pages
           \/ /\ FirstFit(h, row) = {}
              /\ \E p \in Fresh(h.pages) : pages' = WithPage(h.pages, p, slotted_page_init)
  /\ UNCHANGED cursorVars

-----------------------------------------------------------------------------
(* bpm_heap_delete, bpm_heap_update; what they refuse changes nothing *)

bpm_heap_delete(rid) ==
  /\ rid \in LiveRids
  /\ pages' = [pages EXCEPT ![rid[1]] = slotted_page_delete(@, rid[2])]
  /\ due' = due \ {rid}
  /\ UNCHANGED <<first_page_id, cursor, seen>>

bpm_heap_update(rid, row) ==
  /\ rid \in LiveRids
  /\ CanUpdate(pages[rid[1]], rid[2], row)
  /\ pages' = [pages EXCEPT ![rid[1]] = slotted_page_update(@, rid[2], row)]
  /\ UNCHANGED <<first_page_id, cursorVars>>

-----------------------------------------------------------------------------
(* Cursors *)

NoView == slotted_page_init
Closed == [open |-> FALSE, copies |-> FALSE, page |-> INVALID_PAGE_ID,
           slot |-> 1, loaded |-> FALSE, view |-> NoView]

iter_init(copies) ==
  /\ ~cursor.open
  /\ cursor' = [open |-> TRUE, copies |-> copies, page |-> first_page_id,
                 slot |-> 1, loaded |-> FALSE, view |-> NoView]
  /\ seen' = {}
  /\ due' = LiveRids
  /\ UNCHANGED heapVars

\* The page the cursor is on as it sees it.
CursorView == IF cursor.loaded /\ cursor.copies THEN cursor.view ELSE pages[cursor.page]

\* Mutant of the next definition: the slot is not set back on the next page.
StartSlot_Kept(n) == cursor.slot

\* The slot to start from on the n-th page ahead of the cursor.
StartSlot(n) == IF n = 0 /\ cursor.loaded THEN cursor.slot ELSE 1

\* The pages ahead of the cursor, its own being the 0-th, and their contents.
Ahead ==
  LET nth[n \in 0 .. Cardinality(PageIds)] ==
        IF n = 0 THEN cursor.page
        ELSE IF nth[n - 1] = INVALID_PAGE_ID THEN INVALID_PAGE_ID
        ELSE IF n = 1 THEN CursorView.next ELSE pages[nth[n - 1]].next
  IN nth

ViewAhead(n) == IF n = 0 THEN CursorView ELSE pages[Ahead[n]]

\* The positions of rows ahead, and the first of them.
RowsAhead ==
  UNION {{<<n, i>> : i \in {j \in Live(ViewAhead(n)) : j >= StartSlot(n)}} :
           n \in {m \in 0 .. Cardinality(PageIds) : Ahead[m] # INVALID_PAGE_ID}}

NextRow ==
  {at \in RowsAhead :
     \A other \in RowsAhead : at[1] < other[1] \/ (at[1] = other[1] /\ at[2] <= other[2])}

\* The row a call of iter_next returns: where it is, its id and its bytes.
Returned ==
  {[at |-> at, rid |-> <<Ahead[at[1]], at[2]>>,
    image |-> slotted_page_get(ViewAhead(at[1]), at[2])] : at \in NextRow}

IterRow(x) ==
  /\ cursor' = [open |-> TRUE, copies |-> cursor.copies, page |-> x.rid[1],
                 slot |-> x.at[2] + 1, loaded |-> TRUE,
                 view |-> IF cursor.copies THEN ViewAhead(x.at[1]) ELSE NoView]
  /\ seen' = seen \cup {x.rid}
  /\ UNCHANGED <<heapVars, due>>

IterEnd ==
  /\ Returned = {}
  /\ cursor' = Closed /\ seen' = {} /\ due' = {}
  /\ UNCHANGED heapVars

\* bpm_heap_iter_next, heap_iter_next.
iter_next == cursor.open /\ (IterEnd \/ \E x \in Returned : IterRow(x))

\* bpm_heap_iter_destroy before the end: a page could not be fetched, which
\* iter_next does not tell from the end, or the client has enough (LIMIT).
iter_destroy ==
  /\ cursor.open
  /\ cursor' = Closed /\ seen' = {} /\ due' = {}
  /\ UNCHANGED heapVars

-----------------------------------------------------------------------------
(* Specification *)

HeapInit ==
  /\ pages = [p \in {} |-> slotted_page_init]
  /\ first_page_id = INVALID_PAGE_ID
  /\ cursor = Closed
  /\ seen = {} /\ due = {}

HeapNext ==
  \/ \E row \in Rows : bpm_heap_insert(row) \/ InsertFails(row)
  \/ \E rid \in LiveRids : bpm_heap_delete(rid)
  \/ \E rid \in LiveRids, row \in Rows : bpm_heap_update(rid, row)
  \/ \E copies \in BOOLEAN : iter_init(copies)
  \/ iter_next
  \/ iter_destroy

HeapSpec == HeapInit /\ [][HeapNext]_allVars

-----------------------------------------------------------------------------
(* Properties *)

\* Page contents, slots and the cursor stay within their ranges; rows end
\* within their page.
HeapTypeOK ==
  /\ DOMAIN pages \subseteq PageIds
  /\ \A p \in DOMAIN pages :
        /\ pages[p] \in Page
        /\ \A i \in Live(pages[p]) : Extent(pages[p], i) \subseteq Bytes
  /\ first_page_id \in DOMAIN pages \cup {INVALID_PAGE_ID}
  /\ seen \subseteq PageIds \X Nat /\ due \subseteq PageIds \X Nat

\* The rows of a page share no byte with each other, with the slot array or
\* with the header, after any inserts, deletes, growth and shrinking.
Apart(p) ==
  /\ slot_array_end(p) <= free_space_upper(p)
  /\ \A i, j \in Live(p) : i # j => Extent(p, i) \cap Extent(p, j) = {}

RowsApart == \A p \in DOMAIN pages : Apart(pages[p])

\* Both of it: what slotted_page.c keeps of a page, call after call.
PagesSound == HeapTypeOK /\ RowsApart

\* The chain has an end, and no page with rows is off it.
ChainWhole ==
  /\ first_page_id # INVALID_PAGE_ID =>
        \E n \in 0 .. Cardinality(PageIds) : Chain(pages, first_page_id)[n] = INVALID_PAGE_ID
  /\ \A p \in DOMAIN pages : pages[p].slots # <<>> => p \in OnChain(pages, first_page_id)

\* Between its opening and its end a cursor returns every row that is there
\* all the while, and none twice; the one that reads the page itself returns
\* each as it is at that moment.
ScanExact ==
  [][/\ iter_next /\ cursor'.open =>
          \E x \in Returned :
             /\ x.rid \notin seen /\ seen' = seen \cup {x.rid}
             /\ ~cursor.copies => x.rid \in LiveRids /\ x.image = Get(x.rid)
     /\ iter_next /\ ~cursor'.open => due \subseteq seen]_allVars

\* The heap implements the table it promises: what it answers under a row id
\* is what was last put there, and ids are not reused.
Table == INSTANCE HeapTable WITH
  Rids <- PageIds \X (1 .. PAGE_SIZE),
  Images <- {Image(row) : row \in Rows},
  table <- [rid \in LiveRids |-> Get(rid)],
  used <- UNION {{<<p, i>> : i \in DOMAIN pages[p].slots} : p \in DOMAIN pages}

ImplementsTable == Table!TableSpec
=============================================================================
