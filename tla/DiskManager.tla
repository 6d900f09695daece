---------------------------- MODULE DiskManager ----------------------------
(***************************************************************************)
(* Page allocation in the database file (src/storage/disk_manager.c).  A   *)
(* page is represented by its first four bytes, the only part the manager  *)
(* ever interprets: on a free page they hold the number of the next free   *)
(* page.  Page 0 is the header, kept apart as hdr; the manager caches its  *)
(* two fields in memory.                                                   *)
(*                                                                         *)
(* File operations may fail and the process may die between two of them;   *)
(* Faults says which of these an instance lets happen, trouble which of    *)
(* them have happened.                                                     *)
(***************************************************************************)
EXTENDS Integers, FiniteSets

CONSTANTS
  MaxPages,   \* bound: the file grows to at most this many pages
  Words,      \* first words clients write to their pages
  Faults      \* which of the faults in FaultKinds may happen

\* A file operation that fails and leaves the file alone, a failing header write
\* in close, the death of the process, and an open that takes an existing file
\* for a missing one.
FaultKinds == {"io", "close", "crash", "open"}

ASSUME DiskAssumption ==
  MaxPages \in Nat \ {0} /\ Words \subseteq Int /\ Faults \subseteq FaultKinds

VARIABLES
  is_open,         \* disk_manager_t.is_open
  page_count,      \* disk_manager_t.page_count
  free_list_head,  \* disk_manager_t.free_list_head
  hdr,             \* page 0 of the file, or NoHeader once it was zeroed
  file,            \* first word of pages 1 .. in the file
  owned,           \* history: pages handed out and not given back
  written,         \* history: what the owner of a page last put there
  twice,           \* history: pages handed out while they were in use
  trouble          \* history: the kinds of faults there have been

diskVars == <<is_open, page_count, free_list_head, hdr, file, owned, written,
              twice, trouble>>

INVALID_PAGE_ID == -1
DB_IO_ERROR == 1001
Magic == 1229867341           \* "MINI", the first word of page 0
NoHeader == [count |-> 0, head |-> 0]

PageIds == 1 .. MaxPages - 1
\* Mutant of the next definition: the list head is not saved.
Header_CountOnly == [count |-> page_count]

Header == [count |-> page_count, head |-> free_list_head]

\* Mutants of FirstWord: the link is read after the page was zeroed; the page
\* stays at the head of the list.
FirstWord_AfterZeroing(p) == 0
FirstWord_Itself(p) == p

\* Mutant of Zeroed: pages counted from one.
Zeroed_Next(p) == [file EXCEPT ![p + 1] = 0]

\* A page number read from a clobbered link may lie past the end of the file.
Readable(p) == p \in 0 .. page_count - 1
FirstWord(p) == IF p = 0 THEN Magic ELSE file[p]
Zeroed(p) == IF p = 0 THEN file ELSE [file EXCEPT ![p] = 0]

\* A fault of kind k happens in this step, or none does.
Fault(k) == k \in Faults /\ trouble' = trouble \cup {k}
NoFault == trouble' = trouble

-----------------------------------------------------------------------------
(* Opening, closing and dying *)

\* A new file: header page only, nothing free.
DiskInit ==
  /\ is_open = TRUE
  /\ page_count = 1
  /\ free_list_head = INVALID_PAGE_ID
  /\ hdr = [count |-> 1, head |-> INVALID_PAGE_ID]
  /\ file = [p \in PageIds |-> 0]
  /\ owned = {}
  /\ written = [p \in PageIds |-> 0]
  /\ twice = {}
  /\ trouble = {}

\* Mutant of the next definition: the list head is not read back.
TakeUp_NoList ==
  /\ hdr # NoHeader
  /\ is_open' = TRUE
  /\ page_count' = hdr.count
  /\ free_list_head' = INVALID_PAGE_ID
  /\ UNCHANGED <<hdr, file, trouble>>

\* "rb+" succeeds: the file is taken up again if its header is intact.
TakeUp ==
  /\ hdr # NoHeader
  /\ is_open' = TRUE
  /\ page_count' = hdr.count
  /\ free_list_head' = hdr.head
  /\ UNCHANGED <<hdr, file, trouble>>

\* "rb+" fails for whatever reason: "wb+" empties the file, and a fresh header
\* is written unless that fails too.
StartAnew ==
  /\ Fault("open")
  /\ file' = [p \in PageIds |-> 0]
  /\ \/ /\ is_open' = TRUE
        /\ page_count' = 1
        /\ free_list_head' = INVALID_PAGE_ID
        /\ hdr' = [count |-> 1, head |-> INVALID_PAGE_ID]
     \/ hdr' = NoHeader /\ UNCHANGED <<is_open, page_count, free_list_head>>

\* Neither mode opens the file, or its header cannot be read.  Nobody looks at
\* the fields of a closed manager.
CannotOpen ==
  /\ Fault("io")
  /\ UNCHANGED <<is_open, page_count, free_list_head, hdr, file>>

disk_manager_open ==
  /\ ~is_open
  /\ TakeUp \/ StartAnew \/ CannotOpen
  /\ UNCHANGED <<owned, written, twice>>

\* Closing writes the header; the write may fail without anyone noticing.
disk_manager_close ==
  /\ is_open
  /\ is_open' = FALSE
  /\ \/ hdr' = Header /\ NoFault
     \/ hdr' = hdr /\ Fault("close")
  /\ UNCHANGED <<page_count, free_list_head, file, owned, written, twice>>

\* The process stops between two operations: the cached header is lost.
Crash ==
  /\ Fault("crash")
  /\ is_open
  /\ is_open' = FALSE
  /\ UNCHANGED <<page_count, free_list_head, hdr, file, owned, written, twice>>

-----------------------------------------------------------------------------
(* disk_manager_allocate_page *)

\* The caller takes whatever number is returned for a page of its own.
Answer(r) == twice' = twice \cup ({r} \cap owned \cap PageIds)

HandOut(p) ==
  /\ Answer(p)
  /\ owned' = owned \cup {p}
  /\ written' = IF p = 0 THEN written ELSE [written EXCEPT ![p] = 0]
  /\ UNCHANGED <<is_open, trouble>>

Refuse ==
  /\ Answer(DB_IO_ERROR)
  /\ UNCHANGED <<is_open, owned, written>>

DieHalfway ==
  /\ Fault("crash")
  /\ is_open' = FALSE
  /\ UNCHANGED <<page_count, free_list_head, owned, written, twice>>

\* The head of the free list is unlinked, zeroed on disk, and the header is
\* written last.
AllocateFree ==
  LET p == free_list_head IN
  /\ is_open
  /\ p # INVALID_PAGE_ID
  /\ \/ /\ Readable(p)
        /\ free_list_head' = FirstWord(p)
        /\ page_count' = page_count
        /\ \/ /\ file' = Zeroed(p)
              /\ hdr' = [count |-> page_count, head |-> FirstWord(p)]
              /\ HandOut(p)
           \/ /\ Fault("io")                \* zeroing or header write failed
              /\ file' \in {file, Zeroed(p)}
              /\ hdr' = hdr
              /\ Refuse
     \/ /\ \/ Fault("io")                   \* the page could not be read
           \/ ~Readable(p) /\ NoFault
        /\ Refuse
        /\ UNCHANGED <<page_count, free_list_head, hdr, file>>
     \/ /\ Readable(p)                       \* dies before the header write
        /\ file' = Zeroed(p)
        /\ hdr' = IF p = 0 THEN NoHeader ELSE hdr
        /\ DieHalfway

\* Mutant of the next definition: the header is left for close to write.
AllocateNew_LazyHeader ==
  LET p == page_count IN
  /\ is_open
  /\ free_list_head = INVALID_PAGE_ID
  /\ p < MaxPages
  /\ file' = Zeroed(p)
  /\ page_count' = page_count + 1
  /\ UNCHANGED <<free_list_head, hdr>>
  /\ HandOut(p)

\* The free list is empty: the file is extended by one zero page.
AllocateNew ==
  LET p == page_count IN
  /\ is_open
  /\ free_list_head = INVALID_PAGE_ID
  /\ p < MaxPages
  /\ \/ /\ file' = Zeroed(p)
        /\ page_count' = page_count + 1
        /\ free_list_head' = free_list_head
        /\ \/ /\ hdr' = [count |-> page_count + 1, head |-> free_list_head]
              /\ HandOut(p)
           \/ /\ Fault("io")                \* header write failed
              /\ hdr' = hdr
              /\ Refuse
     \/ /\ Fault("io")                      \* page write failed
        /\ Refuse
        /\ UNCHANGED <<page_count, free_list_head, hdr, file>>
     \/ file' = Zeroed(p) /\ hdr' = hdr /\ DieHalfway

disk_manager_allocate_page == AllocateFree \/ AllocateNew

-----------------------------------------------------------------------------
(* disk_manager_deallocate_page, by the owner, who then forgets the page
   whatever the call returns (bpm_new_page drops the result) *)

GiveBack(p) ==
  /\ owned' = owned \ {p}
  /\ UNCHANGED <<page_count, written, twice>>

disk_manager_deallocate_page(p) ==
  LET linked == [file EXCEPT ![p] = free_list_head] IN
  /\ is_open
  /\ p \in owned
  /\ \/ /\ p \notin 1 .. page_count - 1     \* DB_PAGE_NOT_FOUND
        /\ NoFault
        /\ UNCHANGED <<file, free_list_head, hdr, is_open>>
     \/ /\ p \in 1 .. page_count - 1
        /\ file' = linked
        /\ free_list_head' = p
        /\ \/ hdr' = [count |-> page_count, head |-> p] /\ NoFault
           \/ hdr' = hdr /\ Fault("io")     \* header write failed
        /\ is_open' = is_open
     \/ /\ Fault("io")                      \* read or link write failed
        /\ UNCHANGED <<file, free_list_head, hdr, is_open>>
     \/ /\ p \in 1 .. page_count - 1        \* dies before the header write
        /\ Fault("crash")
        /\ file' = linked
        /\ is_open' = FALSE
        /\ UNCHANGED <<free_list_head, hdr>>
  /\ GiveBack(p)

\* disk_manager_write_page by the owner of the page; a failed write is the
\* owner's to repeat.
disk_manager_write_page(p, w) ==
  /\ is_open
  /\ p \in owned \cap PageIds
  /\ p < page_count
  /\ file' = [file EXCEPT ![p] = w]
  /\ written' = [written EXCEPT ![p] = w]
  /\ UNCHANGED <<is_open, page_count, free_list_head, hdr, owned, twice, trouble>>

DiskNext ==
  \/ disk_manager_open
  \/ disk_manager_close
  \/ Crash
  \/ disk_manager_allocate_page
  \/ \E p \in owned : disk_manager_deallocate_page(p)
  \/ \E p \in owned, w \in Words : disk_manager_write_page(p, w)

DiskSpec == DiskInit /\ [][DiskNext]_diskVars

-----------------------------------------------------------------------------
(* Properties *)

\* Cached and stored fields have the ranges the code relies on.
DiskTypeOK ==
  /\ is_open \in BOOLEAN
  /\ page_count \in 1 .. MaxPages
  /\ free_list_head \in Int
  /\ hdr \in {NoHeader} \cup [count : 1 .. MaxPages, head : Int]
  /\ file \in [PageIds -> Int]
  /\ owned \subseteq 0 .. MaxPages - 1
  /\ written \in [PageIds -> Int]
  /\ twice \subseteq PageIds
  /\ trouble \subseteq Faults

\* s lists the free pages in the order the first words chain them, from head.
IsChain(s, n, head) ==
  /\ head = IF n = 0 THEN INVALID_PAGE_ID ELSE s[1]
  /\ \A k \in 1 .. n :
        file[s[k]] = IF k = n THEN INVALID_PAGE_ID ELSE s[k + 1]
  /\ \A k, l \in 1 .. n : s[k] = s[l] => k = l

\* Without faults the free list ends, visits no page twice, and with the pages
\* handed out it makes up the whole file: no page is lost, none is both free
\* and in use.
FreeListComplete ==
  is_open /\ trouble = {} =>
    \E n \in 0 .. page_count - 1 : \E s \in [1 .. n -> 1 .. page_count - 1] :
       /\ IsChain(s, n, free_list_head)
       /\ {s[k] : k \in 1 .. n} = (1 .. page_count - 1) \ owned

\* Without faults the header on disk says what the manager has in memory after
\* every call: reopening the file at any moment resumes the same free list.
HeaderInSync == trouble = {} => hdr = Header

\* No reopening has emptied the file.
NotEmptied == "open" \notin trouble

\* What the owner wrote to a page stays until the owner writes again, in a file
\* no open has emptied: no link of the free list and no zeroing ever lands on a
\* page in use.
OwnedContentKept ==
  NotEmptied => \A p \in owned \cap PageIds : file[p] = written[p]

\* A page that was handed out survives a crash, as long as no open empties the
\* file: the header on disk counts it, so a reopened manager neither appends
\* over it nor refuses to read it.
OwnedSurvives == NotEmptied /\ hdr # NoHeader => \A p \in owned : p < hdr.count

\* disk_manager_allocate_page never hands out a data page still in use, unless
\* an open has emptied the file.
NeverHandedOutTwice == NotEmptied => twice = {}
=============================================================================
