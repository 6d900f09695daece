------------------------- MODULE DiskManagerProofs -------------------------
(***************************************************************************)
(* Proofs about page allocation for files of any size.  Until a file       *)
(* operation fails or the process dies, the pages in use and the pages on  *)
(* the free list partition the file and the header on disk is up to date.  *)
(* Whatever else fails, no page in use is lost, overwritten or given away  *)
(* until an open takes the existing file for a missing one and empties it, *)
(* as long as page numbers stay below the numbers the code has other uses  *)
(* for.                                                                    *)
(***************************************************************************)
EXTENDS DiskManager, FiniteSetTheorems, TLAPS

\* s, of length n, is the free list and holds exactly the pages not in use.
IsFreeList(s, n) ==
  /\ IsChain(s, n, free_list_head)
  /\ {s[k] : k \in 1 .. n} = (1 .. page_count - 1) \ owned

FreeList ==
  \E n \in 0 .. page_count - 1 : \E s \in [1 .. n -> 1 .. page_count - 1] :
     IsFreeList(s, n)

\* What the owner of a page last wrote is there.
ContentKept == \A p \in owned \cap PageIds : file[p] = written[p]

\* What holds before the first fault.
Sound ==
  /\ owned \subseteq 1 .. page_count - 1
  /\ hdr = Header
  /\ ContentKept
  /\ FreeList

DiskInv == DiskTypeOK /\ Sound

\* The inductive invariant.
DiskIInv == DiskTypeOK /\ (trouble = {} => Sound)

\* It implies the invariants of the disk manager.
LEMMA DiskIInvMeaning ==
  DiskIInv => /\ DiskTypeOK /\ FreeListComplete /\ HeaderInSync
              /\ (trouble = {} => ContentKept)
  BY DEF DiskIInv, Sound, FreeList, IsFreeList, FreeListComplete, HeaderInSync

\* A new file has an empty free list and no page in use.
LEMMA DiskInvInit == DiskInit => DiskInv
<1> SUFFICES ASSUME DiskInit PROVE DiskInv
  OBVIOUS
<1> USE DiskAssumption DEF DiskInit
<1>1. DiskTypeOK /\ owned \subseteq 1 .. page_count - 1
  BY DEF DiskTypeOK, PageIds, INVALID_PAGE_ID
<1>2. (hdr = Header) /\ ContentKept
  BY DEF Header, ContentKept
<1>3. FreeList
  <2>1. [k \in 1 .. 0 |-> 1] \in [1 .. 0 -> 1 .. page_count - 1]
    OBVIOUS
  <2>2. IsFreeList([k \in 1 .. 0 |-> 1], 0)
    BY DEF IsFreeList, IsChain
  <2>3. 0 \in 0 .. page_count - 1
    OBVIOUS
  <2> QED
    BY ONLY <2>1, <2>2, <2>3 DEF FreeList
<1> QED
  BY <1>1, <1>2, <1>3 DEF DiskInv, Sound

\* With the list non-empty, its head is a page of the file that is not in use,
\* and the word stored there is the head of the rest of the list.
LEMMA HeadOfFreeList ==
  ASSUME DiskInv, free_list_head # INVALID_PAGE_ID
  PROVE  /\ free_list_head \in 1 .. page_count - 1
         /\ free_list_head \notin owned
         /\ Readable(free_list_head)
         /\ FirstWord(free_list_head) = file[free_list_head]
<1>0. PICK n \in 0 .. page_count - 1 :
          \E s \in [1 .. n -> 1 .. page_count - 1] : IsFreeList(s, n)
  BY DEF DiskInv, Sound, FreeList
<1>1. PICK s \in [1 .. n -> 1 .. page_count - 1] : IsFreeList(s, n)
  BY <1>0
<1>2. page_count \in Nat /\ n \in Nat
  BY DiskAssumption DEF DiskInv, Sound, DiskTypeOK
<1>3. n # 0 /\ 1 \in 1 .. n /\ free_list_head = s[1]
  BY <1>1, <1>2 DEF IsFreeList, IsChain
<1>4. s[1] \in 1 .. page_count - 1 /\ s[1] \notin owned
  BY <1>1, <1>3 DEF IsFreeList
<1> QED
  BY <1>2, <1>3, <1>4 DEF Readable, FirstWord

\* Reusing a free page takes the head off the list.
LEMMA AllocateFreeInv ==
  ASSUME DiskInv, trouble' = {}, AllocateFree
  PROVE  DiskInv'
<1> DEFINE p == free_list_head
<1>1. /\ p \in 1 .. page_count - 1 /\ p \notin owned
      /\ free_list_head' = file[p]
      /\ file' = [file EXCEPT ![p] = 0]
      /\ page_count' = page_count
      /\ hdr' = [count |-> page_count, head |-> file[p]]
      /\ owned' = owned \cup {p} /\ twice' \subseteq PageIds
      /\ written' = [written EXCEPT ![p] = 0]
      /\ is_open' = is_open
  <2>1. /\ p # INVALID_PAGE_ID /\ p \in 1 .. page_count - 1 /\ p \notin owned
        /\ Readable(p) /\ FirstWord(p) = file[p]
    BY HeadOfFreeList DEF AllocateFree
  <2>2. p # 0
    BY <2>1
  <2> QED
    BY <2>1, <2>2
       DEF AllocateFree, Zeroed, HandOut, Answer, DieHalfway, Fault,
           DiskInv, DiskTypeOK
<1>2. /\ page_count \in 1 .. MaxPages /\ MaxPages \in Nat
      /\ file \in [PageIds -> Int] /\ written \in [PageIds -> Int]
      /\ owned \subseteq 1 .. page_count - 1 /\ is_open \in BOOLEAN
  BY DiskAssumption DEF DiskInv, Sound, DiskTypeOK
<1>3. p \in PageIds /\ file[p] \in Int
  BY <1>1, <1>2 DEF PageIds
<1> HIDE DEF p
<1>4. DiskTypeOK'
  BY <1>1, <1>2, <1>3 DEF DiskTypeOK, PageIds
<1>5. (owned \subseteq 1 .. page_count - 1)' /\ (hdr = Header)'
  BY <1>1, <1>2 DEF Header
<1>6. ContentKept'
  BY <1>1, <1>2, <1>3 DEF DiskInv, Sound, ContentKept
<1>7. FreeList'
  <2>0. PICK n \in 0 .. page_count - 1 :
            \E s \in [1 .. n -> 1 .. page_count - 1] : IsFreeList(s, n)
    BY DEF DiskInv, Sound, FreeList
  <2>1. PICK s \in [1 .. n -> 1 .. page_count - 1] : IsFreeList(s, n)
    BY <2>0
  <2> DEFINE m == n - 1
             u == [k \in 1 .. m |-> s[k + 1]]
  <2>2. n # 0 /\ p = s[1]
    BY <1>1, <1>2, <2>1 DEF IsFreeList, IsChain, p, INVALID_PAGE_ID
  <2>3. m \in 0 .. page_count - 1 /\ u \in [1 .. m -> 1 .. page_count - 1]
    BY <1>2, <2>2
  <2>4. \A k \in 1 .. m : k + 1 \in 1 .. n /\ s[k + 1] # p
    BY <1>2, <2>1, <2>2 DEF IsFreeList, IsChain
  <2>5. IsChain(u, m, free_list_head)'
    <3>1. free_list_head' = IF m = 0 THEN INVALID_PAGE_ID ELSE u[1]
      BY <1>1, <1>2, <2>1, <2>2 DEF IsFreeList, IsChain
    <3>2. ASSUME NEW k \in 1 .. m
          PROVE  file'[u[k]] = IF k = m THEN INVALID_PAGE_ID ELSE u[k + 1]
      <4>1. file'[s[k + 1]] = file[s[k + 1]]
        BY <1>1, <1>2, <2>3, <2>4 DEF PageIds
      <4>2. file[s[k + 1]] = IF k + 1 = n THEN INVALID_PAGE_ID ELSE s[k + 2]
        BY <1>2, <2>1, <2>4 DEF IsFreeList, IsChain
      <4> QED
        BY <1>2, <2>2, <4>1, <4>2
    <3>3. \A k, l \in 1 .. m : u[k] = u[l] => k = l
      BY <1>2, <2>1, <2>4 DEF IsFreeList, IsChain
    <3> QED
      BY <3>1, <3>2, <3>3 DEF IsChain, INVALID_PAGE_ID
  <2>6. {u[k] : k \in 1 .. m} = (1 .. page_count - 1) \ (owned \cup {p})
    <3>1. {s[k] : k \in 1 .. n} = (1 .. page_count - 1) \ owned
      BY <2>1 DEF IsFreeList
    <3>2. \A x \in {u[k] : k \in 1 .. m} : x \in {s[k] : k \in 1 .. n} \ {p}
      BY <2>4
    <3>3. ASSUME NEW k \in 1 .. n, s[k] # p PROVE s[k] \in {u[j] : j \in 1 .. m}
      <4>1. k - 1 \in 1 .. m /\ u[k - 1] = s[k]
        BY <1>2, <2>2, <3>3
      <4> QED
        BY <4>1
    <3>4. p \in (1 .. page_count - 1) \ owned
      BY <1>1
    <3>5. ASSUME NEW x PROVE x \in {u[k] : k \in 1 .. m}
                               <=> x \in {s[k] : k \in 1 .. n} \ {p}
      <4>1. ASSUME x \in {s[k] : k \in 1 .. n} \ {p}
            PROVE  x \in {u[k] : k \in 1 .. m}
        <5>1. PICK k \in 1 .. n : x = s[k]
          BY <4>1
        <5> QED
          BY <3>3, <4>1, <5>1
      <4> QED
        BY <3>2, <4>1
    <3> HIDE DEF u, m
    <3> QED
      BY <3>1, <3>5
  <2> HIDE DEF m, u
  <2>7. IsFreeList(u, m)'
    BY <1>1, <2>5, <2>6 DEF IsFreeList
  <2> QED
    BY <1>1, <2>3, <2>7 DEF FreeList
<1> QED
  BY <1>4, <1>5, <1>6, <1>7 DEF DiskInv, Sound

\* Extending the file happens only when nothing is free, so the list stays
\* empty and the new page is in use.
LEMMA AllocateNewInv ==
  ASSUME DiskInv, trouble' = {}, AllocateNew
  PROVE  DiskInv'
<1> DEFINE p == page_count
<1>1. /\ free_list_head = INVALID_PAGE_ID
      /\ p < MaxPages /\ p # 0
      /\ page_count \in 1 .. MaxPages /\ MaxPages \in Nat
      /\ file \in [PageIds -> Int] /\ written \in [PageIds -> Int]
      /\ owned \subseteq 1 .. page_count - 1 /\ is_open \in BOOLEAN
  BY DiskAssumption DEF DiskInv, Sound, DiskTypeOK, AllocateNew
<1>2. /\ file' = [file EXCEPT ![p] = 0]
      /\ page_count' = page_count + 1 /\ free_list_head' = free_list_head
      /\ hdr' = [count |-> page_count + 1, head |-> free_list_head]
      /\ owned' = owned \cup {p} /\ twice' \subseteq PageIds
      /\ written' = [written EXCEPT ![p] = 0]
      /\ is_open' = is_open
  BY <1>1 DEF AllocateNew, Zeroed, HandOut, Answer, DieHalfway, Fault,
              DiskInv, DiskTypeOK
<1>3. p \in PageIds
  BY <1>1 DEF PageIds
<1>4. DiskTypeOK'
  BY <1>1, <1>2, <1>3 DEF DiskTypeOK, INVALID_PAGE_ID
<1>5. (owned \subseteq 1 .. page_count - 1)' /\ (hdr = Header)'
  BY <1>1, <1>2 DEF Header
<1>6. ContentKept'
  BY <1>1, <1>2, <1>3 DEF DiskInv, Sound, ContentKept
<1>7. FreeList'
  <2>0. PICK n \in 0 .. page_count - 1 :
            \E s \in [1 .. n -> 1 .. page_count - 1] : IsFreeList(s, n)
    BY DEF DiskInv, Sound, FreeList
  <2>1. PICK s \in [1 .. n -> 1 .. page_count - 1] : IsFreeList(s, n)
    BY <2>0
  <2>2. n = 0
    BY <1>1, <2>1 DEF IsFreeList, IsChain, INVALID_PAGE_ID
  <2>3. owned = 1 .. page_count - 1
    <3>1. {s[k] : k \in 1 .. n} = {}
      BY <2>2
    <3>2. (1 .. page_count - 1) \ owned = {}
      BY <2>1, <3>1 DEF IsFreeList
    <3> QED
      BY <1>1, <3>2
  <2>4. IsFreeList(s, 0)'
    BY <1>1, <1>2, <2>2, <2>3 DEF IsFreeList, IsChain
  <2>5. 0 \in 0 .. page_count' - 1 /\ s \in [1 .. 0 -> 1 .. page_count' - 1]
    BY <1>1, <1>2, <2>2
  <2> QED
    BY ONLY <2>4, <2>5 DEF FreeList
<1> QED
  BY <1>4, <1>5, <1>6, <1>7 DEF DiskInv, Sound

\* A list of different pages of a file is no longer than the file.
LEMMA DistinctPagesFit ==
  ASSUME NEW m \in Nat, NEW q \in Nat, NEW f \in [1 .. m -> 1 .. q],
         \A k, l \in 1 .. m : f[k] = f[l] => k = l
  PROVE  m <= q
<1>1. /\ IsFiniteSet(1 .. m) /\ Cardinality(1 .. m) = m
      /\ IsFiniteSet(1 .. q) /\ Cardinality(1 .. q) = q
  BY FS_Interval
<1> SUFFICES ASSUME q < m PROVE FALSE
  OBVIOUS
<1>2. \E k, l \in 1 .. m : k # l /\ f[k] = f[l]
  BY <1>1, FS_PigeonHole
<1> QED
  BY <1>2

\* Giving a page back puts it in front of the list.
LEMMA DeallocateInv ==
  ASSUME DiskInv, trouble' = {}, NEW p \in owned, disk_manager_deallocate_page(p)
  PROVE  DiskInv'
<1>1. /\ page_count \in 1 .. MaxPages /\ MaxPages \in Nat
      /\ file \in [PageIds -> Int] /\ written \in [PageIds -> Int]
      /\ free_list_head \in Int /\ twice \subseteq PageIds
      /\ owned \subseteq 1 .. page_count - 1 /\ is_open \in BOOLEAN
  BY DiskAssumption DEF DiskInv, Sound, DiskTypeOK
<1>2. p \in PageIds /\ p \in 1 .. page_count - 1
  BY <1>1 DEF PageIds
<1>3. /\ file' = [file EXCEPT ![p] = free_list_head]
      /\ free_list_head' = p
      /\ hdr' = [count |-> page_count, head |-> p]
      /\ is_open' = is_open /\ owned' = owned \ {p}
      /\ page_count' = page_count /\ written' = written /\ twice' = twice
  BY <1>2 DEF disk_manager_deallocate_page, GiveBack, Fault
<1>4. DiskTypeOK'
  BY <1>1, <1>2, <1>3 DEF DiskTypeOK, PageIds
<1>5. (owned \subseteq 1 .. page_count - 1)' /\ (hdr = Header)'
  BY <1>1, <1>3 DEF Header
<1>6. ContentKept'
  BY <1>1, <1>2, <1>3 DEF DiskInv, Sound, ContentKept
<1>7. FreeList'
  <2>0. PICK n \in 0 .. page_count - 1 :
            \E s \in [1 .. n -> 1 .. page_count - 1] : IsFreeList(s, n)
    BY DEF DiskInv, Sound, FreeList
  <2>1. PICK s \in [1 .. n -> 1 .. page_count - 1] : IsFreeList(s, n)
    BY <2>0
  <2> DEFINE m == n + 1
             u == [k \in 1 .. m |-> IF k = 1 THEN p ELSE s[k - 1]]
  <2>2. \A k \in 1 .. n : s[k] # p
    BY <2>1 DEF IsFreeList
  <2>3. \A k \in 1 .. m : k # 1 => k - 1 \in 1 .. n /\ u[k] = s[k - 1]
    OBVIOUS
  <2>4. u[1] = p /\ u \in [1 .. m -> 1 .. page_count - 1]
    BY <1>1, <1>2
  <2>5. IsChain(u, m, free_list_head)'
    <3>1. free_list_head' = IF m = 0 THEN INVALID_PAGE_ID ELSE u[1]
      BY <1>3, <2>4
    <3>2. ASSUME NEW k \in 1 .. m
          PROVE  file'[u[k]] = IF k = m THEN INVALID_PAGE_ID ELSE u[k + 1]
      <4>1. CASE k = 1
        <5>1. file'[u[k]] = free_list_head
          BY <1>1, <1>2, <1>3, <2>4, <4>1
        <5>2. free_list_head = IF n = 0 THEN INVALID_PAGE_ID ELSE s[1]
          BY <2>1 DEF IsFreeList, IsChain
        <5> QED
          BY <4>1, <5>1, <5>2
      <4>2. CASE k # 1
        <5>1. file'[u[k]] = file[s[k - 1]]
          BY <1>1, <1>2, <1>3, <2>2, <2>3, <4>2 DEF PageIds
        <5>2. file[s[k - 1]] = IF k - 1 = n THEN INVALID_PAGE_ID ELSE s[k]
          BY <2>1, <2>3, <4>2 DEF IsFreeList, IsChain
        <5> QED
          BY <4>2, <5>1, <5>2
      <4> QED
        BY <4>1, <4>2
    <3>3. \A k, l \in 1 .. m : u[k] = u[l] => k = l
      BY <2>1, <2>2, <2>3, <2>4 DEF IsFreeList, IsChain
    <3> QED
      BY <3>1, <3>2, <3>3 DEF IsChain, INVALID_PAGE_ID
  <2>6. {u[k] : k \in 1 .. m} = (1 .. page_count - 1) \ (owned \ {p})
    <3>1. {s[k] : k \in 1 .. n} = (1 .. page_count - 1) \ owned
      BY <2>1 DEF IsFreeList
    <3>2. ASSUME NEW x PROVE x \in {u[k] : k \in 1 .. m}
                               <=> x \in {s[k] : k \in 1 .. n} \cup {p}
      <4>1. \A k \in 1 .. m : u[k] \in {s[j] : j \in 1 .. n} \cup {p}
        BY <2>3, <2>4
      <4>2. \A j \in 1 .. n : j + 1 \in 1 .. m /\ u[j + 1] = s[j]
        OBVIOUS
      <4>3. 1 \in 1 .. m
        OBVIOUS
      <4> HIDE DEF u, m
      <4>4. ASSUME x \in {s[k] : k \in 1 .. n} \cup {p}
            PROVE  x \in {u[k] : k \in 1 .. m}
        <5>1. CASE x = p
          BY <2>4, <4>3, <5>1
        <5>2. CASE x # p
          <6>1. PICK j \in 1 .. n : x = s[j]
            BY <4>4, <5>2
          <6> QED
            BY <4>2, <6>1
        <5> QED
          BY <5>1, <5>2
      <4> QED
        BY <4>1, <4>4
    <3> HIDE DEF u, m
    <3> QED
      BY <1>2, <3>1, <3>2
  <2>7. m \in 0 .. page_count - 1
    <3>1. \A k, l \in 1 .. m : u[k] = u[l] => k = l
      BY <2>5 DEF IsChain
    <3>2. m \in Nat /\ page_count - 1 \in Nat
      BY <1>1
    <3> HIDE DEF m, u
    <3>3. m <= page_count - 1
      BY <2>4, <3>1, <3>2, DistinctPagesFit
    <3> QED
      BY <3>2, <3>3
  <2> HIDE DEF m, u
  <2>8. IsFreeList(u, m)'
    BY <1>3, <2>5, <2>6 DEF IsFreeList
  <2> QED
    BY <1>3, <2>4, <2>7, <2>8 DEF FreeList
<1> QED
  BY <1>4, <1>5, <1>6, <1>7 DEF DiskInv, Sound

\* Writing to a page in use touches no page of the list.
LEMMA WriteInv ==
  ASSUME DiskInv, NEW p \in owned, NEW w \in Words,
         disk_manager_write_page(p, w)
  PROVE  DiskInv'
<1>1. /\ page_count \in 1 .. MaxPages /\ MaxPages \in Nat /\ w \in Int
      /\ file \in [PageIds -> Int] /\ written \in [PageIds -> Int]
      /\ owned \subseteq 1 .. page_count - 1
  BY DiskAssumption DEF DiskInv, Sound, DiskTypeOK
<1>2. /\ p \in PageIds
      /\ file' = [file EXCEPT ![p] = w] /\ written' = [written EXCEPT ![p] = w]
      /\ UNCHANGED <<is_open, page_count, free_list_head, hdr, owned, twice, trouble>>
  BY DEF disk_manager_write_page
<1>3. DiskTypeOK'
  BY <1>1, <1>2 DEF DiskInv, Sound, DiskTypeOK
<1>4. (owned \subseteq 1 .. page_count - 1)' /\ (hdr = Header)'
  BY <1>1, <1>2 DEF DiskInv, Sound, Header
<1>5. ContentKept'
  BY <1>1, <1>2 DEF DiskInv, Sound, ContentKept
<1>6. FreeList'
  <2>0. PICK n \in 0 .. page_count - 1 :
            \E s \in [1 .. n -> 1 .. page_count - 1] : IsFreeList(s, n)
    BY DEF DiskInv, Sound, FreeList
  <2>1. PICK s \in [1 .. n -> 1 .. page_count - 1] : IsFreeList(s, n)
    BY <2>0
  <2>2. \A k \in 1 .. n : s[k] # p /\ s[k] \in PageIds
    BY <1>1, <2>1 DEF IsFreeList, PageIds
  <2>3. \A k \in 1 .. n : file'[s[k]] = file[s[k]]
    BY <1>1, <1>2, <2>2
  <2>4. IsFreeList(s, n)'
    BY <1>2, <2>1, <2>3 DEF IsFreeList, IsChain
  <2> QED
    BY <1>2, <2>4 DEF FreeList
<1> QED
  BY <1>3, <1>4, <1>5, <1>6 DEF DiskInv, Sound

\* The list depends on these four variables only.
LEMMA FreeListFrame ==
  ASSUME FreeList, UNCHANGED <<page_count, free_list_head, file, owned>>
  PROVE  FreeList'
<1>1. PICK n \in 0 .. page_count - 1 :
          \E s \in [1 .. n -> 1 .. page_count - 1] : IsFreeList(s, n)
  BY DEF FreeList
<1>2. PICK s \in [1 .. n -> 1 .. page_count - 1] : IsFreeList(s, n)
  BY <1>1
<1>3. IsFreeList(s, n)'
  BY <1>2 DEF IsFreeList, IsChain
<1> QED
  BY <1>3 DEF FreeList

\* Opening reads back the fields closing wrote: neither moves a page.
LEMMA OpenCloseInv ==
  ASSUME DiskInv, trouble' = {}, disk_manager_open \/ disk_manager_close
  PROVE  DiskInv'
<1>1. /\ page_count' = page_count /\ free_list_head' = free_list_head
      /\ hdr' = hdr /\ is_open' \in BOOLEAN
      /\ UNCHANGED <<file, owned, written, twice>>
  BY DEF DiskInv, Sound, DiskTypeOK, Header, disk_manager_open, TakeUp, StartAnew,
         CannotOpen, disk_manager_close, Fault, NoFault
<1>2. DiskTypeOK'
  BY <1>1 DEF DiskInv, Sound, DiskTypeOK
<1>3. (owned \subseteq 1 .. page_count - 1)' /\ (hdr = Header)' /\ ContentKept'
  BY <1>1 DEF DiskInv, Sound, Header, ContentKept
<1>4. FreeList'
  BY <1>1, FreeListFrame DEF DiskInv, Sound
<1> QED
  BY <1>2, <1>3, <1>4 DEF DiskInv, Sound

\* Without a fault every operation keeps the invariant.
LEMMA SoundStep ==
  ASSUME DiskInv, trouble' = {}, [DiskNext]_diskVars
  PROVE  DiskInv'
<1>1. CASE disk_manager_open \/ disk_manager_close
  BY <1>1, OpenCloseInv
<1>2. CASE Crash
  BY <1>2 DEF Crash, Fault
<1>3. CASE disk_manager_allocate_page
  BY <1>3, AllocateFreeInv, AllocateNewInv DEF disk_manager_allocate_page
<1>4. CASE \E p \in owned : disk_manager_deallocate_page(p)
  BY <1>4, DeallocateInv
<1>5. CASE \E p \in owned, w \in Words : disk_manager_write_page(p, w)
  BY <1>5, WriteInv
<1>6. CASE UNCHANGED diskVars
  <2>1. FreeList'
    BY <1>6, FreeListFrame DEF diskVars, DiskInv, Sound
  <2> QED
    BY <1>6, <2>1 DEF diskVars, DiskInv, DiskTypeOK, Sound, Header,
                      ContentKept
<1> QED
  BY <1>1, <1>2, <1>3, <1>4, <1>5, <1>6 DEF DiskNext

\* Clearing the first word of some page, or of none, keeps the type.
LEMMA ClearedWords ==
  ASSUME NEW f \in [PageIds -> Int], NEW q \in Int
  PROVE  [f EXCEPT ![q] = 0] \in [PageIds -> Int]
<1>1. CASE q \in PageIds
  BY <1>1
<1>2. CASE q \notin PageIds
  BY <1>2
<1> QED
  BY <1>1, <1>2

\* The types survive every step, faults included, and no fault is forgotten.
LEMMA DiskTypeStep ==
  ASSUME DiskTypeOK, [DiskNext]_diskVars
  PROVE  DiskTypeOK' /\ trouble \subseteq trouble'
<1>0. /\ is_open \in BOOLEAN /\ page_count \in 1 .. MaxPages
      /\ free_list_head \in Int /\ twice \subseteq PageIds /\ MaxPages \in Nat
      /\ hdr \in {NoHeader} \cup [count : 1 .. MaxPages, head : Int]
      /\ file \in [PageIds -> Int] /\ written \in [PageIds -> Int]
      /\ owned \subseteq 0 .. MaxPages - 1 /\ trouble \subseteq Faults
  BY DiskAssumption DEF DiskTypeOK
<1>1. CASE disk_manager_open
  <2>1. CASE TakeUp
    <3>1. hdr.count \in 1 .. MaxPages /\ hdr.head \in Int
      BY <1>0, <2>1 DEF TakeUp
    <3> QED
      BY <1>0, <1>1, <2>1, <3>1 DEF disk_manager_open, TakeUp, DiskTypeOK
  <2>2. CASE StartAnew
    <3>1. [count |-> 1, head |-> INVALID_PAGE_ID] \in [count : 1 .. MaxPages, head : Int]
      BY <1>0 DEF INVALID_PAGE_ID
    <3>2. /\ is_open' \in BOOLEAN /\ page_count' \in 1 .. MaxPages
          /\ free_list_head' \in Int
          /\ hdr' \in {NoHeader} \cup [count : 1 .. MaxPages, head : Int]
          /\ file' \in [PageIds -> Int]
          /\ trouble' \subseteq Faults /\ trouble \subseteq trouble'
      <4>1. is_open' = TRUE \/ is_open' = is_open
        BY <2>2 DEF StartAnew
      <4>2. page_count' \in 1 .. MaxPages /\ free_list_head' \in Int
        BY <1>0, <2>2 DEF StartAnew, INVALID_PAGE_ID
      <4>3. hdr' \in {NoHeader} \cup [count : 1 .. MaxPages, head : Int]
        BY <2>2, <3>1 DEF StartAnew
      <4>4. file' \in [PageIds -> Int] /\ trouble' \subseteq Faults /\ trouble \subseteq trouble'
        BY <1>0, <2>2 DEF StartAnew, Fault
      <4> QED
        BY <1>0, <4>1, <4>2, <4>3, <4>4
    <3> QED
      BY <1>0, <1>1, <3>2 DEF disk_manager_open, DiskTypeOK
  <2>3. CASE CannotOpen
    BY <1>0, <1>1, <2>3 DEF disk_manager_open, CannotOpen, Fault, DiskTypeOK
  <2> QED
    BY <1>1, <2>1, <2>2, <2>3 DEF disk_manager_open
<1>2. CASE disk_manager_close
  <2>1. Header \in [count : 1 .. MaxPages, head : Int]
    BY <1>0 DEF Header
  <2> QED
    BY <1>0, <1>2, <2>1 DEF disk_manager_close, DiskTypeOK, Fault, NoFault
<1>3. CASE Crash
  BY <1>0, <1>3 DEF Crash, DiskTypeOK, Fault
<1>4. CASE AllocateFree
  <2> DEFINE p == free_list_head
  <2>1. /\ Zeroed(p) \in [PageIds -> Int]
        /\ [written EXCEPT ![p] = 0] \in [PageIds -> Int]
    BY <1>0, ClearedWords DEF Zeroed
  <2>2. ASSUME Readable(p) PROVE FirstWord(p) \in Int /\ p \in 0 .. MaxPages - 1
    BY <1>0, <2>2 DEF Readable, FirstWord, Magic, PageIds
  <2>3. file' \in [PageIds -> Int]
    BY <1>0, <1>4, <2>1 DEF AllocateFree
  <2>4. page_count' = page_count /\ free_list_head' \in Int
    BY <1>0, <1>4, <2>2 DEF AllocateFree, DieHalfway
  <2>5. hdr' \in {NoHeader} \cup [count : 1 .. MaxPages, head : Int]
    BY <1>0, <1>4, <2>2 DEF AllocateFree
  <2>6. /\ owned' \subseteq 0 .. MaxPages - 1 /\ written' \in [PageIds -> Int]
        /\ is_open' \in BOOLEAN /\ twice' \subseteq PageIds
    <3>1. CASE Readable(p) /\ HandOut(p)
      <4>1. owned' \subseteq 0 .. MaxPages - 1 /\ twice' \subseteq PageIds
        BY <1>0, <1>4, <2>1, <2>2, <3>1 DEF HandOut, Answer
      <4>2. written' \in [PageIds -> Int]
        BY <1>0, <1>4, <2>1, <2>2, <3>1 DEF HandOut
      <4>3. is_open' = is_open
        BY <3>1 DEF HandOut
      <4> QED
        BY <1>0, <4>1, <4>2, <4>3
    <3>2. CASE Refuse
      <4>1. owned' = owned /\ written' = written /\ twice' \subseteq PageIds /\ is_open' = is_open
        BY <1>0, <3>2 DEF Refuse, Answer
      <4> QED
        BY <1>0, <4>1
    <3>3. CASE DieHalfway
      <4>1. owned' = owned /\ written' = written /\ twice' = twice /\ is_open' = FALSE
        BY <1>0, <3>3 DEF DieHalfway
      <4> QED
        BY <1>0, <4>1
    <3> QED
      BY <1>4, <3>1, <3>2, <3>3 DEF AllocateFree
  <2>7. trouble' \subseteq Faults /\ trouble \subseteq trouble'
    BY <1>0, <1>4 DEF AllocateFree, HandOut, DieHalfway, Fault, NoFault
  <2> QED
    BY <1>0, <2>3, <2>4, <2>5, <2>6, <2>7 DEF DiskTypeOK
<1>5. CASE AllocateNew
  <2> DEFINE p == page_count
  <2>0. p \in 0 .. MaxPages - 1
    BY <1>0, <1>5 DEF AllocateNew
  <2>1. /\ Zeroed(p) \in [PageIds -> Int]
        /\ [written EXCEPT ![p] = 0] \in [PageIds -> Int]
    BY <1>0, <2>0, ClearedWords DEF Zeroed
  <2>2. file' \in [PageIds -> Int]
    BY <1>0, <1>5, <2>1 DEF AllocateNew
  <2>3. page_count' \in 1 .. MaxPages /\ free_list_head' \in Int
    BY <1>0, <1>5, <2>0 DEF AllocateNew, DieHalfway
  <2>4. hdr' \in {NoHeader} \cup [count : 1 .. MaxPages, head : Int]
    <3>1. [count |-> page_count + 1, head |-> free_list_head]
            \in [count : 1 .. MaxPages, head : Int]
      BY <1>0, <2>0
    <3> QED
      BY <1>0, <1>5, <3>1 DEF AllocateNew, DieHalfway
  <2>5. /\ owned' \subseteq 0 .. MaxPages - 1 /\ written' \in [PageIds -> Int]
        /\ is_open' \in BOOLEAN /\ twice' \subseteq PageIds
    <3>1. CASE HandOut(p)
      <4>1. owned' \subseteq 0 .. MaxPages - 1 /\ twice' \subseteq PageIds
        BY <1>0, <1>5, <2>0, <2>1, <3>1 DEF HandOut, Answer
      <4>2. written' \in [PageIds -> Int]
        BY <1>0, <1>5, <2>0, <2>1, <3>1 DEF HandOut
      <4>3. is_open' = is_open
        BY <3>1 DEF HandOut
      <4> QED
        BY <1>0, <4>1, <4>2, <4>3
    <3>2. CASE Refuse
      <4>1. owned' = owned /\ written' = written /\ twice' \subseteq PageIds /\ is_open' = is_open
        BY <1>0, <3>2 DEF Refuse, Answer
      <4> QED
        BY <1>0, <4>1
    <3>3. CASE DieHalfway
      <4>1. owned' = owned /\ written' = written /\ twice' = twice /\ is_open' = FALSE
        BY <1>0, <3>3 DEF DieHalfway
      <4> QED
        BY <1>0, <4>1
    <3> QED
      BY <1>5, <3>1, <3>2, <3>3 DEF AllocateNew
  <2>6. trouble' \subseteq Faults /\ trouble \subseteq trouble'
    BY <1>0, <1>5 DEF AllocateNew, HandOut, DieHalfway, Fault
  <2> QED
    BY <1>0, <2>2, <2>3, <2>4, <2>5, <2>6 DEF DiskTypeOK
<1>6. ASSUME NEW p \in owned, disk_manager_deallocate_page(p)
      PROVE  DiskTypeOK' /\ trouble \subseteq trouble'
  <2>1. p \in Int /\ [count |-> page_count, head |-> p]
                       \in [count : 1 .. MaxPages, head : Int]
    BY <1>0
  <2>2. file' \in [PageIds -> Int] /\ free_list_head' \in Int
    BY <1>0, <1>6, <2>1 DEF disk_manager_deallocate_page
  <2>3. /\ hdr' \in {NoHeader} \cup [count : 1 .. MaxPages, head : Int]
        /\ is_open' \in BOOLEAN
    BY <1>0, <1>6, <2>1 DEF disk_manager_deallocate_page
  <2>4. /\ owned' \subseteq 0 .. MaxPages - 1
        /\ UNCHANGED <<page_count, written, twice>>
    BY <1>0, <1>6 DEF disk_manager_deallocate_page, GiveBack
  <2>5. trouble' \subseteq Faults /\ trouble \subseteq trouble'
    BY <1>0, <1>6 DEF disk_manager_deallocate_page, Fault, NoFault
  <2> QED
    BY <1>0, <2>2, <2>3, <2>4, <2>5 DEF DiskTypeOK
<1>7. ASSUME NEW p \in owned, NEW w \in Words, disk_manager_write_page(p, w)
      PROVE  DiskTypeOK' /\ trouble \subseteq trouble'
  <2>1. w \in Int
    BY DiskAssumption
  <2> QED
    BY <1>0, <1>7, <2>1 DEF disk_manager_write_page, DiskTypeOK
<1>8. CASE UNCHANGED diskVars
  BY <1>0, <1>8 DEF diskVars, DiskTypeOK
<1> QED
  BY <1>1, <1>2, <1>3, <1>4, <1>5, <1>6, <1>7, <1>8
     DEF DiskNext, disk_manager_allocate_page

\* DiskIInv holds in every state, for files of any size and any faults.
THEOREM DiskInvariance == DiskSpec => []DiskIInv
<1>1. DiskInit => DiskIInv
  BY DiskInvInit DEF DiskIInv, DiskInv
<1>2. DiskIInv /\ [DiskNext]_diskVars => DiskIInv'
  <2> SUFFICES ASSUME DiskIInv, [DiskNext]_diskVars PROVE DiskIInv'
    OBVIOUS
  <2>1. DiskTypeOK' /\ trouble \subseteq trouble'
    BY DiskTypeStep DEF DiskIInv
  <2>2. ASSUME trouble' = {} PROVE Sound'
    <3>1. DiskInv
      BY <2>1, <2>2 DEF DiskIInv, DiskInv
    <3> QED
      BY <2>2, <3>1, SoundStep DEF DiskInv
  <2> QED
    BY <2>1, <2>2 DEF DiskIInv
<1> QED
  BY <1>1, <1>2, PTL DEF DiskSpec

\* The fields of the manager and of the header stay in range whatever fails.
THEOREM DiskTypeSafety == DiskSpec => []DiskTypeOK
<1>1. DiskIInv => DiskTypeOK
  BY DEF DiskIInv
<1> QED
  BY <1>1, DiskInvariance, PTL

\* disk_manager_allocate_page and disk_manager_deallocate_page lose no page and
\* keep the pages in use off the free list.
THEOREM NoPageLost == DiskSpec => []FreeListComplete
<1>1. DiskIInv => FreeListComplete
  BY DiskIInvMeaning
<1> QED
  BY <1>1, DiskInvariance, PTL

\* The header on disk agrees with the fields in memory after every call.
THEOREM HeaderSafety == DiskSpec => []HeaderInSync
<1>1. DiskIInv => HeaderInSync
  BY DiskIInvMeaning
<1> QED
  BY <1>1, DiskInvariance, PTL

-----------------------------------------------------------------------------
(* With faults: what is on the free list is not in use *)

\* The pages chained from head by the first words are not in use and the chain
\* visits none twice; it may end anywhere off the data pages, as it does when a
\* page was zeroed and not unlinked.
FreeChain(head, words, used) ==
  \E pages \in SUBSET (PageIds \ used), rank \in [PageIds -> Nat] :
     /\ head \in PageIds => head \in pages
     /\ \A p \in pages :
          words[p] \in PageIds => words[p] \in pages /\ rank[words[p]] < rank[p]

\* The pages in use are counted, in memory and on disk, and neither the list in
\* memory nor the one a reopened manager would find leads to one of them.
FaultInv ==
  /\ ContentKept
  /\ is_open => /\ hdr # NoHeader
                /\ \A p \in owned : p < page_count
                /\ FreeChain(free_list_head, file, owned)
  /\ hdr # NoHeader => /\ \A p \in owned : p < hdr.count
                       /\ FreeChain(hdr.head, file, owned)

\* An empty list.
LEMMA NoChain ==
  ASSUME NEW head, head \notin PageIds, NEW words, NEW used
  PROVE  FreeChain(head, words, used)
<1>1. {} \in SUBSET (PageIds \ used) /\ [p \in PageIds |-> 0] \in [PageIds -> Nat]
  OBVIOUS
<1> QED
  BY <1>1 DEF FreeChain

\* Zeroing a page cuts the list there; whatever the owner of a page puts into
\* it, or giving it back, is off the list.
LEMMA ChainKept ==
  ASSUME NEW head, NEW words \in [PageIds -> Int], NEW used, FreeChain(head, words, used),
         NEW p \in PageIds, NEW w, p \in used \/ w = 0,
         NEW still, still \subseteq used
  PROVE  FreeChain(head, [words EXCEPT ![p] = w], still)
<1>1. PICK pages \in SUBSET (PageIds \ used), rank \in [PageIds -> Nat] :
        /\ head \in PageIds => head \in pages
        /\ \A q \in pages :
             words[q] \in PageIds => words[q] \in pages /\ rank[words[q]] < rank[q]
  BY DEF FreeChain
<1> DEFINE after == [words EXCEPT ![p] = w]
<1>2. pages \in SUBSET (PageIds \ still)
  OBVIOUS
<1>3. ASSUME NEW q \in pages, after[q] \in PageIds
      PROVE  after[q] \in pages /\ rank[after[q]] < rank[q]
  <2>1. q \in PageIds /\ q \notin used
    OBVIOUS
  <2>2. q # p
    <3>1. 0 \notin PageIds
      BY DiskAssumption DEF PageIds
    <3> QED
      BY <1>3, <2>1, <3>1
  <2>3. after[q] = words[q]
    BY <2>1, <2>2
  <2> HIDE DEF after
  <2> QED
    BY <1>1, <1>3, <2>3
<1> HIDE DEF after
<1>4. FreeChain(head, after, still)
  BY <1>1, <1>2, <1>3 DEF FreeChain
<1> QED
  BY <1>4 DEF after

\* What follows the first page does not lead back to it.
LEMMA ChainTail ==
  ASSUME NEW words \in [PageIds -> Int], NEW used,
         NEW p \in PageIds, FreeChain(p, words, used)
  PROVE  FreeChain(words[p], [words EXCEPT ![p] = 0], used \cup {p}) /\ p \notin used
<1>1. PICK pages \in SUBSET (PageIds \ used), rank \in [PageIds -> Nat] :
        /\ p \in PageIds => p \in pages
        /\ \A q \in pages :
             words[q] \in PageIds => words[q] \in pages /\ rank[words[q]] < rank[q]
  BY DEF FreeChain
<1> DEFINE after == [words EXCEPT ![p] = 0]
           rest == {q \in pages : rank[q] < rank[p]}
<1>2. \A q \in PageIds : rank[q] \in Nat
  OBVIOUS
<1>3. p \in pages /\ p \notin rest /\ rest \in SUBSET (PageIds \ (used \cup {p}))
  BY <1>1, <1>2
<1>4. words[p] \in PageIds => words[p] \in rest
  BY <1>1, <1>3
<1>5. ASSUME NEW q \in rest, after[q] \in PageIds
      PROVE  after[q] \in rest /\ rank[after[q]] < rank[q]
  <2>1. q \in pages /\ q \in PageIds /\ q # p /\ rank[q] < rank[p]
    BY <1>3
  <2>2. after[q] = words[q]
    BY <2>1
  <2> HIDE DEF after
  <2>3. words[q] \in pages /\ rank[words[q]] < rank[q] /\ words[q] \in PageIds
    BY <1>1, <1>5, <2>1, <2>2
  <2>4. rank[words[q]] < rank[p]
    BY <1>2, <1>3, <2>1, <2>3
  <2> QED
    BY <2>2, <2>3, <2>4
<1> HIDE DEF after, rest
<1>6. FreeChain(words[p], after, used \cup {p})
  BY <1>3, <1>4, <1>5 DEF FreeChain
<1> QED
  BY <1>3, <1>6 DEF after

\* A page given back becomes the first of the list.
LEMMA ChainLonger ==
  ASSUME NEW head \in Int, NEW words \in [PageIds -> Int], NEW used,
         FreeChain(head, words, used), NEW p \in PageIds, p \in used
  PROVE  FreeChain(p, [words EXCEPT ![p] = head], used \ {p})
<1>1. PICK pages \in SUBSET (PageIds \ used), rank \in [PageIds -> Nat] :
        /\ head \in PageIds => head \in pages
        /\ \A q \in pages :
             words[q] \in PageIds => words[q] \in pages /\ rank[words[q]] < rank[q]
  BY DEF FreeChain
<1> DEFINE after == [words EXCEPT ![p] = head]
           longer == pages \cup {p}
           first == IF head \in PageIds THEN rank[head] + 1 ELSE 0
           rank2 == [rank EXCEPT ![p] = first]
<1>2. p \notin pages /\ longer \in SUBSET (PageIds \ (used \ {p}))
  OBVIOUS
<1>3. first \in Nat /\ (head \in PageIds => rank[head] < first)
  BY <1>1
<1> HIDE DEF first
<1>4. rank2 \in [PageIds -> Nat]
  BY <1>3
<1>5. rank2[p] = first /\ \A q \in PageIds : q # p => rank2[q] = rank[q]
  OBVIOUS
<1>6. ASSUME NEW q \in longer, after[q] \in PageIds
      PROVE  after[q] \in longer /\ rank2[after[q]] < rank2[q]
  <2>1. CASE q = p
    <3>1. after[q] = head /\ head \in pages /\ head # p /\ head \in PageIds
      BY <1>1, <1>2, <1>6, <2>1
    <3> HIDE DEF after, rank2
    <3> QED
      BY <1>3, <1>5, <2>1, <3>1
  <2>2. CASE q # p
    <3>1. after[q] = words[q] /\ q \in pages /\ q \in PageIds
      BY <1>6, <2>2
    <3> HIDE DEF after, rank2
    <3>2. words[q] \in pages /\ rank[words[q]] < rank[q] /\ words[q] # p
      BY <1>1, <1>2, <1>6, <3>1
    <3> QED
      BY <1>5, <1>6, <2>2, <3>1, <3>2
  <2> QED
    BY <2>1, <2>2
<1> HIDE DEF after, rank2, longer
<1>7. p \in longer
  BY DEF longer
<1>8. FreeChain(p, after, used \ {p})
  BY <1>2, <1>4, <1>6, <1>7 DEF FreeChain
<1> QED
  BY <1>8 DEF after

\* One step that does not empty the file keeps FaultInv, whatever else fails in
\* it.  The number the header page starts with must not be a page number.
LEMMA FaultStep ==
  ASSUME DiskTypeOK, FaultInv, [DiskNext]_diskVars, NotEmptied', MaxPages <= Magic
  PROVE  FaultInv'
<1>1. /\ MaxPages \in Nat /\ page_count \in 1 .. MaxPages
      /\ free_list_head \in Int /\ file \in [PageIds -> Int] /\ written \in [PageIds -> Int]
      /\ owned \subseteq 0 .. MaxPages - 1
      /\ hdr # NoHeader => hdr.count \in 1 .. MaxPages /\ hdr.head \in Int
  BY DiskAssumption DEF DiskTypeOK
<1>2. /\ ContentKept
      /\ is_open => /\ hdr # NoHeader
                    /\ \A p \in owned : p < page_count
                    /\ FreeChain(free_list_head, file, owned)
      /\ hdr # NoHeader => /\ \A p \in owned : p < hdr.count
                           /\ FreeChain(hdr.head, file, owned)
  BY DEF FaultInv
<1>3. /\ PageIds = 1 .. MaxPages - 1 /\ PageIds \subseteq Nat /\ 0 \notin PageIds
      /\ INVALID_PAGE_ID \notin PageIds /\ Magic \notin PageIds
      /\ \A n \in 1 .. MaxPages : [count |-> n, head |-> free_list_head] # NoHeader
  <2>1. PageIds = 1 .. MaxPages - 1
    BY DEF PageIds
  <2>2. 0 \notin PageIds /\ INVALID_PAGE_ID \notin PageIds /\ Magic \notin PageIds
    BY <1>1, <2>1 DEF INVALID_PAGE_ID, Magic
  <2> QED
    BY <1>1, <2>1, <2>2 DEF NoHeader
<1>4. CASE disk_manager_open
  <2>1. CASE TakeUp
    BY <1>2, <1>4, <2>1 DEF disk_manager_open, TakeUp, FaultInv, ContentKept
  <2>2. CASE CannotOpen
    BY <1>2, <1>4, <2>2 DEF disk_manager_open, CannotOpen, FaultInv, ContentKept
  <2>3. ~StartAnew
    BY DEF StartAnew, Fault, NotEmptied
  <2> QED
    BY <1>4, <2>1, <2>2, <2>3 DEF disk_manager_open
<1>5. CASE disk_manager_close
  <2>1. /\ is_open /\ is_open' = FALSE /\ hdr' \in {hdr, Header}
        /\ UNCHANGED <<page_count, free_list_head, file, owned, written>>
    BY <1>5 DEF disk_manager_close
  <2>2. hdr' # NoHeader => /\ \A p \in owned : p < hdr'.count
                           /\ FreeChain(hdr'.head, file, owned)
    BY <1>2, <2>1 DEF Header
  <2> QED
    BY <1>2, <2>1, <2>2 DEF FaultInv, ContentKept
<1>6. CASE Crash
  BY <1>2, <1>6 DEF Crash, FaultInv, ContentKept
\* Zeroing a page that is not in use.
<1>7. ASSUME NEW p \in PageIds, p \notin owned, file' = [file EXCEPT ![p] = 0]
      PROVE  /\ \A q \in owned \cap PageIds : file'[q] = written[q]
             /\ \A head : FreeChain(head, file, owned) => FreeChain(head, file', owned)
  <2>1. \A q \in owned \cap PageIds : file'[q] = written[q]
    BY <1>1, <1>2, <1>7 DEF ContentKept
  <2>2. ASSUME NEW head, FreeChain(head, file, owned) PROVE FreeChain(head, file', owned)
    BY <1>1, <1>7, <2>2, ChainKept
  <2> QED
    BY <2>1, <2>2
<1>8. CASE AllocateFree
  <2> DEFINE p == free_list_head
  <2>1. /\ is_open /\ p # INVALID_PAGE_ID /\ hdr # NoHeader
        /\ FreeChain(p, file, owned)
    BY <1>2, <1>8 DEF AllocateFree
  <2>2. ASSUME p \in PageIds
        PROVE  /\ p \notin owned /\ FirstWord(p) = file[p] /\ file[p] \in Int
               /\ Zeroed(p) = [file EXCEPT ![p] = 0]
               /\ FreeChain(FirstWord(p), [file EXCEPT ![p] = 0], owned \cup {p})
    <3>1. p # 0 /\ file[p] \in Int
      BY <1>1, <1>3, <2>2
    <3>2. FreeChain(file[p], [file EXCEPT ![p] = 0], owned \cup {p}) /\ p \notin owned
      BY <1>1, <2>1, <2>2, ChainTail
    <3> QED
      BY <3>1, <3>2 DEF FirstWord, Zeroed
  <2>3. ASSUME Readable(p), p \notin PageIds
        PROVE  p = 0 /\ FirstWord(p) = Magic /\ Zeroed(p) = file
    <3>1. p \in 0 .. page_count - 1
      BY <2>3 DEF Readable
    <3>2. p = 0
      BY <1>1, <1>3, <2>3, <3>1
    <3> QED
      BY <3>2 DEF FirstWord, Zeroed
  <2>4. CASE /\ Readable(p)
             /\ free_list_head' = FirstWord(p)
             /\ page_count' = page_count
             /\ file' = Zeroed(p)
             /\ hdr' = [count |-> page_count, head |-> FirstWord(p)]
             /\ HandOut(p)
    <3>1. /\ is_open' = is_open /\ owned' = owned \cup {p}
          /\ written' = IF p = 0 THEN written ELSE [written EXCEPT ![p] = 0]
          /\ hdr'.count = page_count /\ hdr'.head = FirstWord(p)
      BY <2>4 DEF HandOut
    <3>2. p < page_count /\ \A q \in owned' : q < page_count
      <4>1. p < page_count
        BY <1>1, <2>4 DEF Readable
      <4> QED
        BY <1>2, <2>1, <3>1, <4>1
    <3>3. hdr' # NoHeader
      BY <1>1, <2>4 DEF NoHeader
    <3>4. FreeChain(FirstWord(p), file', owned')
      <4>1. CASE p \in PageIds
        BY <2>2, <2>4, <3>1, <4>1
      <4>2. CASE p \notin PageIds
        BY <1>3, <2>3, <2>4, <4>2, NoChain
      <4> QED
        BY <4>1, <4>2
    <3>5. \A q \in owned' \cap PageIds : file'[q] = written'[q]
      <4>1. CASE p \in PageIds
        <5>1. /\ file' = [file EXCEPT ![p] = 0] /\ written' = [written EXCEPT ![p] = 0]
              /\ p \notin owned
          BY <1>3, <2>2, <2>4, <3>1, <4>1
        <5>2. \A q \in owned \cap PageIds : file'[q] = written[q]
          BY <1>7, <4>1, <5>1
        <5>3. file'[p] = 0 /\ written'[p] = 0
          BY <1>1, <4>1, <5>1
        <5>4. \A q \in PageIds : q # p => written'[q] = written[q]
          BY <1>1, <5>1
        <5> HIDE DEF p
        <5> QED
          BY <3>1, <5>2, <5>3, <5>4
      <4>2. CASE p \notin PageIds
        BY <1>2, <2>3, <2>4, <3>1, <4>2 DEF ContentKept
      <4> QED
        BY <4>1, <4>2
    <3> HIDE DEF p
    <3>6. /\ page_count' = page_count /\ free_list_head' = FirstWord(p)
      BY <2>4
    <3> QED
      BY <3>1, <3>2, <3>3, <3>4, <3>5, <3>6 DEF FaultInv, ContentKept
  \* The page may have been zeroed, but is not handed out.
  <2>5. ASSUME file' \in {file, Zeroed(p)}, Readable(p),
               UNCHANGED <<page_count, owned, written>>,
               \/ hdr' = hdr
               \/ hdr' = NoHeader /\ is_open' = FALSE,
               \/ is_open' = FALSE
               \/ is_open' = is_open /\ free_list_head' = FirstWord(p)
        PROVE  FaultInv'
    <3>1. /\ \A q \in owned \cap PageIds : file'[q] = written[q]
          /\ \A head : FreeChain(head, file, owned) => FreeChain(head, file', owned)
      <4>1. CASE file' = file
        BY <1>2, <4>1 DEF ContentKept
      <4>2. CASE file' # file
        <5>1. p \in PageIds
          BY <2>3, <2>5, <4>2
        <5>2. p \notin owned /\ file' = [file EXCEPT ![p] = 0]
          BY <2>2, <2>5, <4>2, <5>1
        <5> HIDE DEF p
        <5> QED
          BY <1>7, <5>1, <5>2
      <4> QED
        BY <4>1, <4>2
    <3>2. FreeChain(FirstWord(p), file', owned)
      <4>1. CASE p \in PageIds
        <5>1. FreeChain(file[p], file, owned)
          <6>1. PICK pages \in SUBSET (PageIds \ owned), rank \in [PageIds -> Nat] :
                  /\ p \in PageIds => p \in pages
                  /\ \A q \in pages : file[q] \in PageIds =>
                       file[q] \in pages /\ rank[file[q]] < rank[q]
            BY <2>1 DEF FreeChain
          <6> HIDE DEF p
          <6> QED
            BY <4>1, <6>1 DEF FreeChain
        <5> QED
          BY <2>2, <3>1, <4>1, <5>1
      <4>2. CASE p \notin PageIds
        BY <1>3, <2>3, <2>5, <4>2, NoChain
      <4> QED
        BY <4>1, <4>2
    <3>3. /\ hdr # NoHeader /\ \A q \in owned : q < page_count
          /\ \A q \in owned : q < hdr.count
          /\ FreeChain(hdr.head, file', owned)
      BY <1>2, <2>1, <3>1
    <3> HIDE DEF p
    <3> QED
      BY <2>5, <3>1, <3>2, <3>3 DEF FaultInv, ContentKept
  <2>6. CASE /\ Refuse
             /\ UNCHANGED <<page_count, free_list_head, hdr, file>>
    BY <1>2, <2>6 DEF Refuse, FaultInv, ContentKept
  <2>7. CASE /\ Readable(p)
             /\ free_list_head' = FirstWord(p) /\ page_count' = page_count
             /\ file' \in {file, Zeroed(p)} /\ hdr' = hdr /\ Refuse
    <3>1. UNCHANGED <<is_open, owned, written>>
      BY <2>7 DEF Refuse
    <3> QED
      BY <2>5, <2>7, <3>1
  <2>8. CASE /\ Readable(p) /\ file' = Zeroed(p)
             /\ hdr' = IF p = 0 THEN NoHeader ELSE hdr
             /\ DieHalfway
    <3>1. is_open' = FALSE /\ UNCHANGED <<page_count, owned, written>>
      BY <2>8 DEF DieHalfway
    <3> QED
      BY <2>5, <2>8, <3>1
  <2> HIDE DEF p
  <2> QED
    BY <1>8, <2>4, <2>6, <2>7, <2>8 DEF AllocateFree, p
<1>9. CASE AllocateNew
  <2> DEFINE p == page_count
  <2>1. /\ is_open /\ hdr # NoHeader /\ p < MaxPages /\ free_list_head \notin PageIds
        /\ p \in PageIds /\ p \notin owned /\ Zeroed(p) = [file EXCEPT ![p] = 0]
    <3>1. is_open /\ p < MaxPages /\ free_list_head \notin PageIds
      BY <1>3, <1>9 DEF AllocateNew
    <3>2. p \in PageIds /\ p # 0 /\ p \notin owned
      BY <1>1, <1>2, <1>3, <3>1
    <3> QED
      BY <1>2, <3>1, <3>2 DEF Zeroed
  \* The file has grown or has not, the page in use or not counted.
  <2>2. CASE /\ file' = Zeroed(p) /\ page_count' = page_count + 1
             /\ free_list_head' = free_list_head
             /\ hdr' = [count |-> page_count + 1, head |-> free_list_head]
             /\ HandOut(p)
    <3>1. /\ is_open' = is_open /\ owned' = owned \cup {p}
          /\ written' = [written EXCEPT ![p] = 0] /\ file' = [file EXCEPT ![p] = 0]
          /\ hdr'.count = page_count + 1 /\ hdr'.head = free_list_head
          /\ hdr' # NoHeader
      <4>1. p # 0 /\ page_count + 1 # 0
        BY <1>1
      <4> QED
        BY <2>1, <2>2, <4>1 DEF HandOut, NoHeader
    <3>2. \A q \in owned' : q < page_count + 1
      BY <1>1, <1>2, <2>1, <3>1
    <3>3. FreeChain(free_list_head, file', owned')
      BY <2>1, NoChain
    <3>4. \A q \in owned' \cap PageIds : file'[q] = written'[q]
      <4>1. \A q \in owned \cap PageIds : file'[q] = written[q]
        BY <1>7, <2>1, <3>1
      <4>2. file'[p] = 0 /\ written'[p] = 0
        BY <1>1, <2>1, <3>1
      <4>3. \A q \in PageIds : q # p => written'[q] = written[q]
        BY <1>1, <3>1
      <4> HIDE DEF p
      <4> QED
        BY <3>1, <4>1, <4>2, <4>3
    <3> QED
      BY <2>2, <3>1, <3>2, <3>3, <3>4 DEF FaultInv, ContentKept
  <2>3. ASSUME file' \in {file, Zeroed(p)}, UNCHANGED <<free_list_head, hdr, owned, written>>,
               \/ is_open' = FALSE
               \/ is_open' = is_open /\ page_count' \in {page_count, page_count + 1}
        PROVE  FaultInv'
    <3>1. /\ \A q \in owned \cap PageIds : file'[q] = written[q]
          /\ \A head : FreeChain(head, file, owned) => FreeChain(head, file', owned)
      <4>1. CASE file' = file
        BY <1>2, <4>1 DEF ContentKept
      <4>2. CASE file' # file
        BY <1>7, <2>1, <2>3, <4>2
      <4> QED
        BY <4>1, <4>2
    <3>2. \A q \in owned : q < page_count /\ q < page_count + 1
      BY <1>1, <1>2, <2>1
    <3>3. /\ \A q \in owned : q < hdr.count
          /\ FreeChain(hdr.head, file', owned) /\ FreeChain(free_list_head, file', owned)
      BY <1>2, <2>1, <3>1
    <3> QED
      BY <2>1, <2>3, <3>1, <3>2, <3>3 DEF FaultInv, ContentKept
  <2>4. CASE /\ file' = Zeroed(p) /\ page_count' = page_count + 1
             /\ free_list_head' = free_list_head /\ hdr' = hdr /\ Refuse
    BY <2>3, <2>4 DEF Refuse
  <2>5. CASE Refuse /\ UNCHANGED <<page_count, free_list_head, hdr, file>>
    BY <2>3, <2>5 DEF Refuse
  <2>6. CASE file' = Zeroed(p) /\ hdr' = hdr /\ DieHalfway
    BY <2>3, <2>6 DEF DieHalfway
  <2> HIDE DEF p
  <2> QED
    BY <1>9, <2>2, <2>4, <2>5, <2>6 DEF AllocateNew, p
<1>10. ASSUME NEW p \in owned, disk_manager_deallocate_page(p) PROVE FaultInv'
  \* A call that changes nothing but who owns the page.
  <2>0. ASSUME UNCHANGED <<file, free_list_head, hdr, is_open>> PROVE FaultInv'
    <3>1. owned' \subseteq owned /\ UNCHANGED <<page_count, written>>
      BY <1>10 DEF disk_manager_deallocate_page, GiveBack
    <3>2. \A head : FreeChain(head, file, owned) => FreeChain(head, file, owned')
      BY <3>1 DEF FreeChain
    <3> QED
      BY <1>2, <2>0, <3>1, <3>2 DEF FaultInv, ContentKept
  <2> SUFFICES ASSUME ~UNCHANGED <<file, free_list_head, hdr, is_open>> PROVE FaultInv'
    BY <2>0
  <2> DEFINE linked == [file EXCEPT ![p] = free_list_head]
  <2>1. /\ is_open /\ hdr # NoHeader /\ p \in owned /\ p \in PageIds
        /\ file' = linked /\ owned' = owned \ {p}
        /\ UNCHANGED <<page_count, written>>
        /\ \/ is_open' = FALSE /\ hdr' = hdr
           \/ /\ is_open' = is_open /\ free_list_head' = p
              /\ hdr' \in {hdr, [count |-> page_count, head |-> p]}
    <3>1. /\ is_open /\ p \in 1 .. page_count - 1
          /\ file' = linked
          /\ \/ is_open' = FALSE /\ hdr' = hdr
             \/ /\ is_open' = is_open /\ free_list_head' = p
                /\ hdr' \in {hdr, [count |-> page_count, head |-> p]}
      BY <1>10 DEF disk_manager_deallocate_page
    <3>2. owned' = owned \ {p} /\ UNCHANGED <<page_count, written>>
      BY <1>10 DEF disk_manager_deallocate_page, GiveBack
    <3>3. p \in PageIds /\ hdr # NoHeader
      BY <1>1, <1>2, <1>3, <3>1
    <3> HIDE DEF linked
    <3> QED
      BY <3>1, <3>2, <3>3
  <2>2. \A head : FreeChain(head, file, owned) =>
                    FreeChain(head, file, owned') /\ FreeChain(head, linked, owned')
    <3>1. ASSUME NEW head, FreeChain(head, file, owned)
          PROVE  FreeChain(head, file, owned')
      <4>1. FreeChain(head, [file EXCEPT ![p] = file[p]], owned')
        BY <1>1, <2>1, <3>1, ChainKept
      <4>2. [file EXCEPT ![p] = file[p]] = file
        BY <1>1
      <4> QED
        BY <4>1, <4>2
    <3>2. ASSUME NEW head, FreeChain(head, file, owned)
          PROVE  FreeChain(head, linked, owned')
      BY <1>1, <2>1, <3>2, ChainKept
    <3> QED
      BY <3>1, <3>2
  <2>3. FreeChain(p, linked, owned')
    BY <1>1, <1>2, <2>1, ChainLonger
  <2>4. \A q \in owned' \cap PageIds : file'[q] = written'[q]
    BY <1>1, <1>2, <2>1 DEF ContentKept
  <2>5. /\ \A q \in owned' : q < page_count /\ q < hdr.count
        /\ FreeChain(hdr.head, file', owned')
        /\ FreeChain(free_list_head, file', owned')
    BY <1>2, <2>1, <2>2
  <2>6. [count |-> page_count, head |-> p] # NoHeader
    BY <1>1 DEF NoHeader
  <2> HIDE DEF linked
  <2>7. CASE hdr' = hdr
    <3>1. is_open' => FreeChain(free_list_head', file', owned')
      BY <2>1, <2>3, <2>5
    <3> QED
      BY <2>1, <2>4, <2>5, <2>7, <3>1 DEF FaultInv, ContentKept
  <2>8. CASE hdr' # hdr
    <3>1. /\ file' = linked /\ free_list_head' = p
          /\ hdr' = [count |-> page_count, head |-> p]
      BY <2>1, <2>8
    <3>2. hdr'.count = page_count /\ hdr'.head = p /\ hdr' # NoHeader
      BY <2>6, <3>1
    <3> QED
      BY <2>1, <2>3, <2>4, <2>5, <3>1, <3>2 DEF FaultInv, ContentKept
  <2> QED
    BY <2>7, <2>8
<1>11. ASSUME NEW p \in owned, NEW w \in Words, disk_manager_write_page(p, w) PROVE FaultInv'
  <2>1. /\ p \in PageIds /\ p \in owned
        /\ file' = [file EXCEPT ![p] = w] /\ written' = [written EXCEPT ![p] = w]
        /\ UNCHANGED <<is_open, page_count, free_list_head, hdr, owned>>
    BY <1>11 DEF disk_manager_write_page
  <2>2. \A q \in owned \cap PageIds : file'[q] = written'[q]
    BY <1>1, <1>2, <2>1 DEF ContentKept
  <2>3. \A head : FreeChain(head, file, owned) => FreeChain(head, file', owned)
    BY <1>1, <2>1, ChainKept
  <2> QED
    BY <1>2, <2>1, <2>2, <2>3 DEF FaultInv, ContentKept
<1>12. CASE UNCHANGED diskVars
  BY <1>2, <1>12 DEF diskVars, FaultInv, ContentKept
<1> QED
  BY <1>4, <1>5, <1>6, <1>8, <1>9, <1>10, <1>11, <1>12
     DEF DiskNext, disk_manager_allocate_page

\* FaultInv holds in every reachable state, with all faults possible, until an
\* open empties the file.
THEOREM FaultInvariance ==
  ASSUME MaxPages <= Magic
  PROVE  DiskSpec => [](NotEmptied => FaultInv)
<1>1. DiskInit => FaultInv
  <2> SUFFICES ASSUME DiskInit PROVE FaultInv
    OBVIOUS
  <2>1. INVALID_PAGE_ID \notin PageIds
    BY DiskAssumption DEF PageIds, INVALID_PAGE_ID
  <2>2. FreeChain(INVALID_PAGE_ID, file, owned)
    BY <2>1, NoChain
  <2> QED
    BY <2>2 DEF DiskInit, FaultInv, ContentKept, NoHeader
<1>2. DiskTypeOK /\ (NotEmptied => FaultInv) /\ [DiskNext]_diskVars
        => (NotEmptied => FaultInv)'
  <2> SUFFICES ASSUME DiskTypeOK, NotEmptied => FaultInv, [DiskNext]_diskVars,
                      NotEmptied'
               PROVE  FaultInv'
    OBVIOUS
  <2>1. NotEmptied
    BY DiskTypeStep DEF NotEmptied
  <2> QED
    BY <2>1, FaultStep
<1> QED
  BY <1>1, <1>2, DiskTypeSafety, PTL DEF DiskSpec

\* No fault and no crash makes a reopened manager forget a page in use, until an
\* open takes the file for a missing one (disk_manager.c:87): the header is
\* written before the page is handed out.
THEOREM OwnedSafety ==
  ASSUME MaxPages <= Magic
  PROVE  DiskSpec => []OwnedSurvives
<1>1. (NotEmptied => FaultInv) => OwnedSurvives
  BY DEF FaultInv, OwnedSurvives
<1> QED
  BY <1>1, FaultInvariance, PTL

\* What the owner of a page wrote is not overwritten by the manager: neither
\* the links of the free list nor the zeroing of a reused page land on a page
\* in use, whatever fails, until an open empties the file.  The number the header
\* page starts with, taken for a link, must not be a page number, or no fault
\* must happen.
THEOREM ContentSafety ==
  ASSUME Faults = {} \/ MaxPages <= Magic
  PROVE  DiskSpec => []OwnedContentKept
<1>1. CASE Faults = {}
  <2>1. DiskIInv => OwnedContentKept
    BY <1>1 DEF DiskIInv, Sound, ContentKept, DiskTypeOK, OwnedContentKept
  <2> QED
    BY <2>1, DiskInvariance, PTL
<1>2. CASE MaxPages <= Magic
  <2>1. (NotEmptied => FaultInv) => OwnedContentKept
    BY DEF FaultInv, ContentKept, OwnedContentKept
  <2>2. DiskSpec => [](NotEmptied => FaultInv)
    BY <1>2, FaultInvariance
  <2> QED
    BY <2>1, <2>2, PTL
<1> QED
  BY <1>1, <1>2

\* Neither the head of the list nor the page after the last one being in use, a
\* step adds nothing to twice, unless it answers with the code of an error that is
\* a page number too.
LEMMA HandsOutUnused ==
  ASSUME [DiskNext]_diskVars,
         AllocateFree /\ free_list_head \in PageIds => free_list_head \notin owned,
         AllocateNew /\ page_count \in PageIds => page_count \notin owned,
         \/ DB_IO_ERROR \notin PageIds
         \/ (\A k : ~Fault(k)) /\ (AllocateFree => Readable(free_list_head))
  PROVE  twice' = twice
<1>1. CASE AllocateFree
  <2>1. CASE HandOut(free_list_head)
    BY <1>1, <2>1 DEF HandOut, Answer
  <2>2. CASE Refuse /\ DB_IO_ERROR \notin PageIds
    BY <2>2 DEF Refuse, Answer
  <2>3. CASE DieHalfway
    BY <2>3 DEF DieHalfway
  <2> QED
    BY <1>1, <2>1, <2>2, <2>3 DEF AllocateFree
<1>2. CASE AllocateNew
  <2>1. CASE HandOut(page_count)
    BY <1>2, <2>1 DEF HandOut, Answer
  <2>2. CASE Refuse /\ DB_IO_ERROR \notin PageIds
    BY <2>2 DEF Refuse, Answer
  <2>3. CASE DieHalfway
    BY <2>3 DEF DieHalfway
  <2> QED
    BY <1>2, <2>1, <2>2, <2>3 DEF AllocateNew
<1> QED
  BY <1>1, <1>2
     DEF DiskNext, diskVars, disk_manager_open, disk_manager_close, Crash, GiveBack,
         disk_manager_allocate_page, disk_manager_deallocate_page,
         disk_manager_write_page

\* A data page in use is never handed out a second time, whatever fails, until an
\* open empties the file: neither from the list in memory, nor after the file is
\* opened again.  The code for an error must not be a page number, or no fault
\* must happen.
THEOREM AllocationSafety ==
  ASSUME Faults = {} \/ MaxPages <= DB_IO_ERROR
  PROVE  DiskSpec => []NeverHandedOutTwice
<1>0. DiskInit => NeverHandedOutTwice
  BY DEF DiskInit, NeverHandedOutTwice
<1>1. CASE Faults = {}
  <2>1. ASSUME DiskIInv, NeverHandedOutTwice, [DiskNext]_diskVars
        PROVE  NeverHandedOutTwice'
    <3>1. DiskInv /\ NotEmptied /\ \A k : ~Fault(k)
      BY <1>1, <2>1 DEF DiskIInv, DiskInv, DiskTypeOK, NotEmptied, Fault
    <3>2. AllocateFree => Readable(free_list_head) /\ free_list_head \notin owned
      BY <3>1, HeadOfFreeList DEF AllocateFree
    <3>3. page_count \notin owned
      BY <3>1, DiskAssumption DEF DiskInv, Sound, DiskTypeOK
    <3>4. twice' = twice
      BY <2>1, <3>1, <3>2, <3>3, HandsOutUnused
    <3> QED
      BY <2>1, <3>1, <3>4 DEF NeverHandedOutTwice
  <2>2. DiskIInv /\ NeverHandedOutTwice /\ [DiskNext]_diskVars => NeverHandedOutTwice'
    BY <2>1
  <2> QED
    BY <1>0, <2>2, DiskInvariance, PTL DEF DiskSpec
<1>2. CASE MaxPages <= DB_IO_ERROR
  <2>1. ASSUME DiskTypeOK, NotEmptied => FaultInv, NeverHandedOutTwice,
               [DiskNext]_diskVars
        PROVE  NeverHandedOutTwice'
    <3> SUFFICES ASSUME NotEmptied' PROVE twice' = {}
      BY DEF NeverHandedOutTwice
    <3>1. NotEmptied /\ twice = {}
      BY <2>1, DiskTypeStep DEF NotEmptied, NeverHandedOutTwice
    <3>2. /\ DB_IO_ERROR \notin PageIds /\ file \in [PageIds -> Int]
          /\ page_count \in Nat
      BY <1>2, <2>1, DiskAssumption DEF DiskTypeOK, PageIds, DB_IO_ERROR
    <3>3. is_open => /\ \A p \in owned : p < page_count
                     /\ FreeChain(free_list_head, file, owned)
      BY <2>1, <3>1 DEF FaultInv
    <3>4. AllocateFree /\ free_list_head \in PageIds => free_list_head \notin owned
      BY <3>2, <3>3, ChainTail DEF AllocateFree
    <3>5. AllocateNew => page_count \notin owned
      BY <3>2, <3>3 DEF AllocateNew
    <3> QED
      BY <2>1, <3>1, <3>2, <3>4, <3>5, HandsOutUnused
  <2>2. DiskTypeOK /\ (NotEmptied => FaultInv) /\ NeverHandedOutTwice
          /\ [DiskNext]_diskVars => NeverHandedOutTwice'
    BY <2>1
  <2>3. MaxPages <= Magic
    BY <1>2, DiskAssumption DEF DB_IO_ERROR, Magic
  <2>4. DiskSpec => [](NotEmptied => FaultInv)
    BY <2>3, FaultInvariance
  <2> QED
    BY <1>0, <2>2, <2>4, DiskTypeSafety, PTL DEF DiskSpec
<1> QED
  BY <1>1, <1>2
=============================================================================
