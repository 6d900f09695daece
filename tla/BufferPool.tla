----------------------------- MODULE BufferPool -----------------------------
(***************************************************************************)
(* The buffer pool of src/buffer: a fixed array of frames, the page table, *)
(* the list of free frames and the LRU replacer (buffer_pool_manager.c,    *)
(* lru_replacer.c), used by clients that pin a page, read or write it      *)
(* through the frame they were given and unpin it (page_guard.c).  The     *)
(* content of a page is one word; disk_manager_allocate_page is            *)
(* represented by what it promises, a page nobody has.                     *)
(***************************************************************************)
EXTENDS Integers, Sequences, FiniteSets

CONSTANTS
  Frames,    \* frame ids, 0 .. pool_size - 1
  Pages,     \* bound: pages the database file can hold
  Handles,   \* pins that clients can hold at the same time
  MaxPins,   \* bound: pins on one frame (a spoiled pool leaks pins)
  Words,     \* contents of a page; a new page holds Blank
  Blank,
  NoFrame, NoPage

ASSUME PoolAssumption ==
  /\ IsFiniteSet(Frames) /\ NoFrame \notin Frames
  /\ IsFiniteSet(Handles) /\ MaxPins \in Nat
  /\ NoPage \notin Pages /\ Blank \in Words

VARIABLES
  frame,       \* bpm->pages: frame -> the page_t in it
  page_table,  \* partial function from pages to frames
  free_list,   \* sequence of frames; see PopFree for NoFrame in it
  cold, hot,   \* the lists of the replacer, most recent first
  disk,        \* page -> content in the file
  allocated,   \* pages disk_manager_allocate_page has handed out
  handle,      \* handle -> page_guard_t of the client
  running,     \* FALSE once the process has died on a null pointer
  latest,      \* history: page -> what a client last put there
  spoiled      \* history: a frame in use went back into circulation

lruVars  == <<cold, hot>>
fileVars == <<disk, allocated>>
histVars == <<latest, spoiled>>
poolVars == <<frame, page_table, free_list, cold, hot, disk, allocated,
              handle, running, latest, spoiled>>

EmptyFrame == [page_id |-> NoPage, pin_count |-> 0, is_dirty |-> FALSE,
               data |-> Blank]
Idle == [page |-> NoPage, frame |-> NoFrame, is_dirty |-> FALSE]

RangeOf(s) == {s[i] : i \in DOMAIN s}
Evictable == RangeOf(cold) \cup RangeOf(hot)
Resident == DOMAIN page_table

-----------------------------------------------------------------------------
(* lru_replacer.c and hashmap.c *)

\* A frame is in a list once at most (its node hangs in a hash map): list_remove
\* takes that node out.
WithoutFrame(s, f) ==
  IF f \in RangeOf(s)
  THEN LET i == CHOOSE j \in DOMAIN s : s[j] = f
       IN  [j \in 1 .. Len(s) - 1 |-> IF j < i THEN s[j] ELSE s[j + 1]]
  ELSE s
BackOf(s) == s[Len(s)]
FrontOf(s) == SubSeq(s, 1, Len(s) - 1)

\* lru_replacer_victim: the tail of the cold list, else of the hot list.
IsVictim(f) ==
  \/ cold # <<>> /\ f = BackOf(cold)
  \/ cold = <<>> /\ hot # <<>> /\ f = BackOf(hot)

lru_replacer_victim ==
  IF cold # <<>> THEN cold' = FrontOf(cold) /\ hot' = hot
                 ELSE hot' = FrontOf(hot) /\ cold' = cold

\* Mutant of the next definition: the frame stays in the replacer.
lru_replacer_pin_Stays(f) == UNCHANGED lruVars

lru_replacer_pin(f) ==
  cold' = WithoutFrame(cold, f) /\ hot' = WithoutFrame(hot, f)

\* A frame already in one of the lists moves to the front of the hot list.
lru_replacer_unpin(f) ==
  IF f \in Evictable
  THEN cold' = WithoutFrame(cold, f) /\ hot' = <<f>> \o WithoutFrame(hot, f)
  ELSE cold' = <<f>> \o cold /\ hot' = hot

Mapped(table, p, f) ==
  [q \in DOMAIN table \cup {p} |-> IF q = p THEN f ELSE table[q]]

\* Mutant of the next definition: the mapping stays.
Unmapped_Stays(table, p) == table

Unmapped(table, p) == [q \in DOMAIN table \ {p} |-> table[q]]

-----------------------------------------------------------------------------
(* Finding a frame: find_free_frame, then evict_page *)

\* A node pushed while it is in the list links to itself and counts twice: it
\* comes out once, and the list then claims one more node it cannot reach.
\* <<f, f>> stands for the self-linked node, <<NoFrame>> for what is left.
PopFree == IF free_list = <<free_list[1], free_list[1]>> THEN <<NoFrame>>
           ELSE Tail(free_list)

\* Mutant of the next definition: the frame is not given back.
PushFree_Nothing(list, f) == list

PushFree(list, f) == IF list = <<NoFrame>> THEN <<f, f>> ELSE Append(list, f)

\* What find_free_frame and evict_page leave behind for the caller to use: a
\* frame, the frames, the table, the free list and the disk.
Taken(f) == [f |-> f, frame |-> frame, table |-> page_table,
             free |-> PopFree, disk |-> disk]

\* evict_page puts its victim on the free list and also returns it.
Evicted(f) ==
  LET v == frame[f] IN
  [f |-> f,
   frame |-> [frame EXCEPT ![f] = [EmptyFrame EXCEPT !.data = v.data]],
   table |-> Unmapped(page_table, v.page_id),
   free |-> PushFree(free_list, f),
   disk |-> IF v.is_dirty /\ v.page_id \in allocated
            THEN [disk EXCEPT ![v.page_id] = v.data] ELSE disk]

\* The one way to obtain a frame, or none.
Obtained ==
  IF free_list # <<>>
  THEN {Taken(f) : f \in {g \in Frames : g = free_list[1]}}
  ELSE {Evicted(f) : f \in {g \in Frames : IsVictim(g)}}

Obtain == IF free_list # <<>> THEN UNCHANGED lruVars ELSE lru_replacer_victim

\* The frame handed out still belongs to a page.
InUse(f) == f \in RangeOf(free_list) /\ frame[f].page_id # NoPage

NoneLeft == free_list = <<>> /\ cold = <<>> /\ hot = <<>>

\* list_remove follows a null link: the process dies.
Dies ==
  /\ free_list = <<NoFrame>>
  /\ running' = FALSE
  /\ UNCHANGED <<frame, page_table, free_list, lruVars, fileVars, handle, histVars>>

-----------------------------------------------------------------------------
(* The operations of the pool, called by the client owning handle h *)

Pinned(p, x) == [page_id |-> p, pin_count |-> 1, is_dirty |-> FALSE, data |-> x]

Grab(h, p, f) ==
  handle' = [handle EXCEPT ![h] = [page |-> p, frame |-> f, is_dirty |-> FALSE]]

\* bpm_fetch_page, the page is in the pool.
FetchHit(h, p) ==
  /\ p \in Resident
  /\ LET f == page_table[p] IN
     /\ frame[f].pin_count < MaxPins
     /\ frame' = [frame EXCEPT ![f].pin_count = @ + 1]
     /\ lru_replacer_pin(f)
     /\ Grab(h, p, f)
  /\ UNCHANGED <<page_table, free_list, fileVars, running, histVars>>

\* A frame was obtained; it now holds page p with content x.
Fill(h, p, o, x, newdisk) ==
  /\ frame' = [o.frame EXCEPT ![o.f] = Pinned(p, x)]
  /\ page_table' = Mapped(o.table, p, o.f)
  /\ free_list' = o.free
  /\ disk' = newdisk
  /\ Grab(h, p, o.f)
  /\ spoiled' = (spoiled \/ InUse(o.f))

\* bpm_fetch_page, the page is read from disk.
FetchMiss(h, p) ==
  /\ p \notin Resident
  /\ \/ \E o \in Obtained : Fill(h, p, o, o.disk[p], o.disk) /\ Obtain
        /\ UNCHANGED <<allocated, running, latest>>
     \/ NoneLeft /\ UNCHANGED poolVars
     \/ Dies

bpm_fetch_page(h, p) == p \in allocated /\ (FetchHit(h, p) \/ FetchMiss(h, p))

\* bpm_fetch_page with a page number past the end of the file: the read fails
\* after a frame was obtained, and the frame goes (back) to the free list.
bpm_fetch_missing ==
  \/ \E o \in Obtained :
        /\ frame' = o.frame /\ page_table' = o.table /\ disk' = o.disk
        /\ free_list' = PushFree(o.free, o.f)
        /\ spoiled' = (spoiled \/ o.f \in RangeOf(o.free))
        /\ Obtain
        /\ UNCHANGED <<allocated, handle, running, latest>>
  \/ Dies

\* bpm_new_page.  When no frame is left the page number is given back.
bpm_new_page(h, p) ==
  /\ p \notin allocated
  /\ \/ \E o \in Obtained :
           /\ Fill(h, p, o, Blank, [o.disk EXCEPT ![p] = Blank]) /\ Obtain
           /\ allocated' = allocated \cup {p}
           /\ latest' = [latest EXCEPT ![p] = Blank]
           /\ UNCHANGED running
     \/ NoneLeft /\ UNCHANGED poolVars
     \/ Dies

\* The client changes the page in place; page_guard_mark_dirty tells the pool
\* at once (mark), other clients only when they unpin.
Write(h, x, mark) ==
  LET f == handle[h].frame IN
  /\ handle[h] # Idle
  /\ frame' = [frame EXCEPT ![f].data = x, ![f].is_dirty = @ \/ mark]
  /\ handle' = [handle EXCEPT ![h].is_dirty = TRUE]
  /\ latest' = [latest EXCEPT ![handle[h].page] = x]
  /\ UNCHANGED <<page_table, free_list, lruVars, fileVars, running, spoiled>>

\* Mutant of the next definition: pins are not looked at.
CanUnpin_Unpinned(p) == p \in Resident

CanUnpin(p) == p \in Resident /\ frame[page_table[p]].pin_count > 0

\* Mutant of the next definition: a clean unpin forgets an earlier write.
Unpinned_Overwrites(v, dirty) == [v EXCEPT !.pin_count = @ - 1, !.is_dirty = dirty]

Unpinned(v, dirty) == [v EXCEPT !.pin_count = @ - 1, !.is_dirty = @ \/ dirty]

\* Refused when p is not in the pool or is not pinned.
bpm_unpin_page(p, dirty) ==
  IF CanUnpin(p)
  THEN LET f == page_table[p] IN
       /\ frame' = [frame EXCEPT ![f] = Unpinned(@, dirty)]
       /\ IF frame[f].pin_count = 1
          THEN lru_replacer_unpin(f)
          ELSE UNCHANGED lruVars
  ELSE UNCHANGED <<frame, lruVars>>

\* Clients remember the page number; page_guard_release takes it from the frame.
Release(h) ==
  LET g == handle[h] IN
  /\ g # Idle
  /\ \E p \in {g.page, frame[g.frame].page_id} : bpm_unpin_page(p, g.is_dirty)
  /\ handle' = [handle EXCEPT ![h] = Idle]
  /\ UNCHANGED <<page_table, free_list, fileVars, running, latest, spoiled>>

bpm_flush_page(p) ==
  /\ p \in Resident
  /\ disk' = [disk EXCEPT ![p] = frame[page_table[p]].data]
  /\ frame' = [frame EXCEPT ![page_table[p]].is_dirty = FALSE]
  /\ UNCHANGED <<page_table, free_list, lruVars, allocated, handle, running, histVars>>

\* The outcomes of writing every dirty frame in frame order: a page held by
\* two frames ends with the content of one of them.
FlushedAll ==
  LET Dirty(p) == {f \in Frames : frame[f].is_dirty /\ frame[f].page_id = p}
  IN  {d \in [Pages -> Words] :
         \A p \in Pages : IF Dirty(p) = {} THEN d[p] = disk[p]
                          ELSE \E f \in Dirty(p) : d[p] = frame[f].data}

bpm_flush_all ==
  /\ disk' \in FlushedAll
  /\ frame' = [f \in Frames |-> [frame[f] EXCEPT
                 !.is_dirty = @ /\ frame[f].page_id = NoPage]]
  /\ UNCHANGED <<page_table, free_list, lruVars, allocated, handle, running, histVars>>

AllFree == CHOOSE s \in [1 .. Cardinality(Frames) -> Frames] : RangeOf(s) = Frames

\* bpm_destroy when no client holds a page, then bpm_init on the same file.
bpm_restart ==
  /\ \A h \in Handles : handle[h] = Idle
  /\ disk' \in FlushedAll
  /\ frame' = [f \in Frames |-> EmptyFrame]
  /\ page_table' = [p \in {} |-> NoFrame]
  /\ free_list' = AllFree
  /\ cold' = <<>> /\ hot' = <<>>
  /\ spoiled' = FALSE
  /\ latest' = [p \in Pages |-> IF spoiled THEN disk'[p] ELSE latest[p]]
  /\ UNCHANGED <<allocated, handle, running>>

PoolInit ==
  /\ frame = [f \in Frames |-> EmptyFrame]
  /\ page_table = [p \in {} |-> NoFrame]
  /\ free_list = AllFree
  /\ cold = <<>> /\ hot = <<>>
  /\ disk = [p \in Pages |-> Blank]
  /\ allocated = {}
  /\ handle = [h \in Handles |-> Idle]
  /\ running = TRUE
  /\ latest = [p \in Pages |-> Blank]
  /\ spoiled = FALSE

PoolNext ==
  /\ running
  /\ \/ \E h \in Handles, p \in Pages :
           handle[h] = Idle /\ (bpm_fetch_page(h, p) \/ bpm_new_page(h, p))
     \/ bpm_fetch_missing
     \/ \E h \in Handles, x \in Words, mark \in BOOLEAN : Write(h, x, mark)
     \/ \E h \in Handles : Release(h)
     \/ \E p \in Pages : bpm_flush_page(p)
     \/ bpm_flush_all
     \/ bpm_restart

PoolSpec == PoolInit /\ [][PoolNext]_poolVars

-----------------------------------------------------------------------------
(* Properties.  The pool keeps its promises as long as no frame in use went
   back into circulation (spoiled); types and NoFrameLost hold regardless. *)

\* Fields, tables and lists stay within their ranges.
PoolTypeOK ==
  /\ frame \in [Frames -> [page_id : Pages \cup {NoPage}, pin_count : Nat,
                           is_dirty : BOOLEAN, data : Words]]
  /\ Resident \subseteq Pages /\ RangeOf(page_table) \subseteq Frames
  /\ RangeOf(free_list) \subseteq Frames \cup {NoFrame}
  /\ Evictable \subseteq Frames
  /\ disk \in [Pages -> Words] /\ allocated \subseteq Pages
  /\ running \in BOOLEAN /\ spoiled \in BOOLEAN

\* The page table and the frames say the same: one frame per page, one page
\* per frame.
PageTableExact ==
  ~spoiled => \A p \in Pages, f \in Frames :
     frame[f].page_id = p <=> p \in Resident /\ page_table[p] = f

\* The replacer offers the resident frames nobody pins, each once.
ReplacerExact ==
  ~spoiled =>
     /\ Evictable = {f \in Frames : frame[f].page_id # NoPage /\ frame[f].pin_count = 0}
     /\ Len(cold) + Len(hot) = Cardinality(Evictable)

HeldOn(f) == {h \in Handles : handle[h].frame = f}

\* Pins are counted right, and what a client has pinned stays where it is.
PinnedPagesStay ==
  ~spoiled =>
     /\ \A f \in Frames : frame[f].pin_count = Cardinality(HeldOn(f))
     /\ \A h \in Handles : handle[h] # Idle =>
           frame[handle[h].frame].page_id = handle[h].page

\* No write is lost: the frame of a resident page has the last thing written;
\* the file has it too unless the pool or a client still remembers to write it.
NoLostWrite ==
  ~spoiled => \A p \in allocated :
     IF p \in Resident
     THEN LET f == page_table[p] IN
          /\ frame[f].data = latest[p]
          /\ \/ frame[f].is_dirty
             \/ \E h \in HeldOn(f) : handle[h].is_dirty
             \/ disk[p] = latest[p]
     ELSE disk[p] = latest[p]

\* No frame is lost: one that is not pinned can be obtained again.
NoFrameLost ==
  \A f \in Frames :
     \/ frame[f].pin_count > 0
     \/ f \in Evictable
     \/ f \in RangeOf(free_list)
     \/ free_list = <<NoFrame>>

\* "the data persisted after dirty flush during eviction": a client that
\* fetches a page finds what was last written to it.
FetchedIsLatest ==
  \A h \in Handles : handle[h] # Idle =>
     frame[handle[h].frame].data = latest[handle[h].page]
=============================================================================
