-------------------------- MODULE BufferPoolProofs --------------------------
(***************************************************************************)
(* The promises of the buffer pool for any number of frames, pages,        *)
(* clients and pins.  None of them is inductive alone: that a victim may   *)
(* be dropped follows from what the replacer offers, the pins and the      *)
(* dirty flags together; that a free frame is empty from the page table;   *)
(* that a write lands on its page from the pins.                           *)
(***************************************************************************)
EXTENDS BufferPool, FiniteSetTheorems, TLAPS

Frame == [page_id : Pages \cup {NoPage}, pin_count : Nat, is_dirty : BOOLEAN, data : Words]
Guard == [page : Pages \cup {NoPage}, frame : Frames \cup {NoFrame}, is_dirty : BOOLEAN]

Distinct(s) == \A i, j \in DOMAIN s : s[i] = s[j] => i = j

\* The lists of the replacer: each frame is in one of them, once.
ListsApart(c, h) ==
  /\ c \in Seq(Frames) /\ h \in Seq(Frames)
  /\ Distinct(c) /\ Distinct(h)
  /\ RangeOf(c) \cap RangeOf(h) = {}

-----------------------------------------------------------------------------
(* Lists of frames *)

\* list_remove takes out what it is given and nothing else.
LEMMA WithoutFrameFacts ==
  ASSUME NEW s \in Seq(Frames), Distinct(s), NEW f \in Frames
  PROVE  /\ WithoutFrame(s, f) \in Seq(Frames)
         /\ Distinct(WithoutFrame(s, f))
         /\ RangeOf(WithoutFrame(s, f)) = RangeOf(s) \ {f}
<1>1. CASE f \notin RangeOf(s)
  BY <1>1 DEF WithoutFrame
<1>2. CASE f \in RangeOf(s)
  <2> DEFINE i == CHOOSE j \in DOMAIN s : s[j] = f
             r == [j \in 1 .. Len(s) - 1 |-> IF j < i THEN s[j] ELSE s[j + 1]]
  <2>1. i \in DOMAIN s /\ s[i] = f
    BY <1>2 DEF RangeOf
  <2>2. WithoutFrame(s, f) = r
    BY <1>2 DEF WithoutFrame
  <2>3. Len(s) \in Nat /\ Len(s) - 1 \in Nat /\ DOMAIN s = 1 .. Len(s)
    BY <2>1
  <2> HIDE DEF i
  <2>4. r \in Seq(Frames) /\ DOMAIN r = 1 .. Len(s) - 1
    <3>1. \A j \in 1 .. Len(s) - 1 : j \in DOMAIN s /\ j + 1 \in DOMAIN s
      BY <2>3
    <3>2. r \in [1 .. Len(s) - 1 -> Frames]
      BY <3>1
    <3> QED
      BY <3>2, <2>3
  <2>5. \A j \in DOMAIN r : /\ j < i => j \in DOMAIN s /\ r[j] = s[j]
                            /\ j >= i => j + 1 \in DOMAIN s /\ r[j] = s[j + 1]
    BY <2>1, <2>3
  <2>6. Distinct(r)
    BY <2>1, <2>3, <2>4, <2>5 DEF Distinct
  <2>7. \A j \in DOMAIN r : r[j] \in RangeOf(s) /\ r[j] # f
    BY <2>1, <2>3, <2>4, <2>5 DEF Distinct, RangeOf
  <2>8. ASSUME NEW g \in RangeOf(s), g # f PROVE g \in RangeOf(r)
    <3>1. PICK j \in DOMAIN s : s[j] = g
      BY <2>8 DEF RangeOf
    <3>2. CASE j < i
      <4>1. j \in DOMAIN r /\ r[j] = g
        BY <2>1, <2>3, <2>4, <2>5, <3>1, <3>2
      <4> QED
        BY <4>1 DEF RangeOf
    <3>3. CASE j > i
      <4>1. j - 1 \in DOMAIN r /\ r[j - 1] = g
        BY <2>1, <2>3, <2>4, <2>5, <3>1, <3>3
      <4> QED
        BY <4>1 DEF RangeOf
    <3> QED
      BY <2>1, <2>3, <2>8, <3>1, <3>2, <3>3
  <2> HIDE DEF r
  <2>9. RangeOf(r) = RangeOf(s) \ {f}
    BY <2>7, <2>8 DEF RangeOf
  <2> QED
    BY <2>2, <2>4, <2>6, <2>9
<1> QED
  BY <1>1, <1>2

\* list_push_front of a frame that is not in the list.
LEMMA PushFrontFacts ==
  ASSUME NEW s \in Seq(Frames), Distinct(s), NEW f \in Frames, f \notin RangeOf(s)
  PROVE  /\ <<f>> \o s \in Seq(Frames)
         /\ Distinct(<<f>> \o s)
         /\ RangeOf(<<f>> \o s) = RangeOf(s) \cup {f}
<1> DEFINE r == <<f>> \o s
<1>1. r \in Seq(Frames) /\ Len(r) = Len(s) + 1 /\ DOMAIN r = 1 .. Len(s) + 1 /\ Len(s) \in Nat
      /\ DOMAIN s = 1 .. Len(s)
  OBVIOUS
<1>2. r[1] = f /\ \A j \in DOMAIN r : j # 1 => j - 1 \in DOMAIN s /\ r[j] = s[j - 1]
  BY <1>1
<1>3. \A j \in DOMAIN s : j + 1 \in DOMAIN r /\ r[j + 1] = s[j]
  BY <1>1, <1>2
<1> HIDE DEF r
<1>4. Distinct(r)
  <2> SUFFICES ASSUME NEW i \in DOMAIN r, NEW j \in DOMAIN r, r[i] = r[j] PROVE i = j
    BY DEF Distinct
  <2>1. i \in Nat /\ j \in Nat
    BY <1>1
  <2>2. CASE i # 1 /\ j # 1
    <3>1. i - 1 = j - 1
      BY <1>2, <2>2 DEF Distinct
    <3> QED
      BY <2>1, <3>1
  <2> QED
    BY <1>2, <2>2 DEF RangeOf
<1>5. RangeOf(r) = RangeOf(s) \cup {f}
  <2>1. RangeOf(r) \subseteq RangeOf(s) \cup {f}
    BY <1>1, <1>2 DEF RangeOf
  <2>2. f \in RangeOf(r)
    BY <1>1, <1>2 DEF RangeOf
  <2>3. RangeOf(s) \subseteq RangeOf(r)
    BY <1>3 DEF RangeOf
  <2> QED
    BY <2>1, <2>2, <2>3
<1> QED
  BY <1>1, <1>4, <1>5 DEF r

\* Taking the last frame off a list.
LEMMA FrontFacts ==
  ASSUME NEW s \in Seq(Frames), Distinct(s), s # <<>>
  PROVE  /\ FrontOf(s) \in Seq(Frames)
         /\ Distinct(FrontOf(s))
         /\ BackOf(s) \in Frames
         /\ RangeOf(FrontOf(s)) = RangeOf(s) \ {BackOf(s)}
         /\ BackOf(s) \in RangeOf(s)
<1> DEFINE r == FrontOf(s)
<1>1. Len(s) \in Nat \ {0} /\ DOMAIN s = 1 .. Len(s)
  OBVIOUS
<1>2. r \in Seq(Frames) /\ DOMAIN r = 1 .. Len(s) - 1 /\ \A j \in DOMAIN r : r[j] = s[j]
  BY <1>1 DEF FrontOf
<1>3. BackOf(s) = s[Len(s)] /\ Len(s) \in DOMAIN s
  BY <1>1 DEF BackOf
<1> HIDE DEF r
<1>4. \A j \in DOMAIN s : j # Len(s) => j \in DOMAIN r
  BY <1>1, <1>2
<1>5. \A j \in DOMAIN r : j \in DOMAIN s /\ j # Len(s)
  BY <1>1, <1>2
<1>6. RangeOf(r) = RangeOf(s) \ {BackOf(s)}
  <2>1. \A j \in DOMAIN r : s[j] # s[Len(s)]
    BY <1>3, <1>5 DEF Distinct
  <2>2. RangeOf(r) \subseteq RangeOf(s) \ {BackOf(s)}
    BY <1>2, <1>3, <1>5, <2>1 DEF RangeOf
  <2>3. RangeOf(s) \ {BackOf(s)} \subseteq RangeOf(r)
    BY <1>2, <1>3, <1>4 DEF RangeOf
  <2> QED
    BY <2>2, <2>3
<1>7. Distinct(r)
  BY <1>2, <1>5 DEF Distinct
<1>8. BackOf(s) \in Frames /\ BackOf(s) \in RangeOf(s)
  BY <1>3 DEF RangeOf
<1> QED
  BY <1>2, <1>6, <1>7, <1>8 DEF r

\* A list without repetition is as long as its frames are many.
LEMMA LengthCounts ==
  ASSUME NEW s \in Seq(Frames), Distinct(s)
  PROVE  IsFiniteSet(RangeOf(s)) /\ Cardinality(RangeOf(s)) = Len(s)
<1>1. Len(s) \in Nat /\ DOMAIN s = 1 .. Len(s)
  OBVIOUS
<1>2. s \in Bijection(1 .. Len(s), RangeOf(s))
  BY <1>1 DEF Bijection, Injection, Surjection, IsInjective, Distinct, RangeOf
<1>3. ExistsBijection(1 .. Len(s), RangeOf(s))
  BY <1>2 DEF ExistsBijection
<1> QED
  BY <1>1, <1>3, FS_CountingElements, FS_NatBijection

-----------------------------------------------------------------------------
(* The invariant *)

\* Types and lists, which hold in a spoiled pool too.
PoolShape ==
  /\ frame \in [Frames -> Frame]
  /\ Resident \subseteq Pages /\ page_table \in [Resident -> Frames]
  /\ free_list \in Seq(Frames) \/ free_list = <<NoFrame>>
  /\ ListsApart(cold, hot)
  /\ disk \in [Pages -> Words] /\ latest \in [Pages -> Words]
  /\ allocated \subseteq Pages
  /\ handle \in [Handles -> Guard]
  /\ \A h \in Handles : handle[h] # Idle => handle[h].page \in Pages /\ handle[h].frame \in Frames
  /\ running \in BOOLEAN /\ spoiled \in BOOLEAN

\* The table and the frames agree, and only pages handed out are in the pool.
TableSound ==
  /\ Resident \subseteq allocated
  /\ \A p \in Pages, f \in Frames :
       frame[f].page_id = p <=> p \in Resident /\ page_table[p] = f

OffersUnpinned ==
  Evictable = {f \in Frames : frame[f].page_id # NoPage /\ frame[f].pin_count = 0}

PinsCounted ==
  /\ \A f \in Frames : frame[f].pin_count = Cardinality(HeldOn(f))
  /\ \A h \in Handles : handle[h] # Idle =>
        frame[handle[h].frame].page_id = handle[h].page

\* The last thing written is in the frame, and on disk unless somebody
\* remembers to write it.
Remembered(p) ==
  IF p \in Resident
  THEN LET f == page_table[p] IN
       /\ frame[f].data = latest[p]
       /\ \/ frame[f].is_dirty
          \/ \E h \in HeldOn(f) : handle[h].is_dirty
          \/ disk[p] = latest[p]
  ELSE disk[p] = latest[p]

Sound == TableSound /\ OffersUnpinned /\ PinsCounted /\ \A p \in allocated : Remembered(p)

PoolInv == PoolShape /\ NoFrameLost /\ (~spoiled => Sound)

-----------------------------------------------------------------------------

\* The handles on a frame are finitely many, as the pin count needs them to be.
LEMMA HeldFacts ==
  ASSUME PoolShape, NEW f \in Frames
  PROVE  /\ IsFiniteSet(HeldOn(f)) /\ Cardinality(HeldOn(f)) \in Nat
         /\ Cardinality(HeldOn(f)) = 0 <=> HeldOn(f) = {}
         /\ \A h \in HeldOn(f) : h \in Handles /\ handle[h] # Idle
<1>1. HeldOn(f) \in SUBSET Handles /\ IsFiniteSet(Handles)
  BY PoolAssumption DEF HeldOn
<1>2. IsFiniteSet(HeldOn(f))
  BY <1>1, FS_Subset
<1>3. \A h \in HeldOn(f) : handle[h] # Idle
  BY PoolAssumption DEF HeldOn, Idle
<1> QED
  BY <1>1, <1>2, <1>3, FS_CardinalityType, FS_EmptySet

\* A pool in use has lost no frame: an empty frame is on the free list.
LEMMA EmptyIsFree ==
  ASSUME PoolInv, ~spoiled, NEW f \in Frames, frame[f].page_id = NoPage
  PROVE  f \notin Evictable /\ HeldOn(f) = {} /\ frame[f].pin_count = 0
         /\ (f \in RangeOf(free_list) \/ free_list = <<NoFrame>>)
<1>1. PoolShape /\ Sound /\ NoFrameLost
  BY DEF PoolInv
<1>2. f \notin Evictable
  BY <1>1 DEF Sound, OffersUnpinned
<1>3. HeldOn(f) = {}
  <2> SUFFICES ASSUME NEW h \in HeldOn(f) PROVE FALSE
    OBVIOUS
  <2>1. h \in Handles /\ handle[h] # Idle /\ handle[h].frame = f /\ handle[h].page \in Pages
    BY <1>1, HeldFacts DEF HeldOn, PoolShape
  <2> QED
    BY <1>1, <2>1, PoolAssumption DEF Sound, PinsCounted
<1>4. frame[f].pin_count = 0
  BY <1>1, <1>3, HeldFacts DEF Sound, PinsCounted
<1> QED
  BY <1>1, <1>2, <1>3, <1>4 DEF NoFrameLost

\* The properties of the runs follow.
LEMMA PoolInvMeaning ==
  PoolInv => /\ PoolTypeOK /\ PageTableExact /\ ReplacerExact /\ PinnedPagesStay
             /\ NoLostWrite /\ NoFrameLost
<1> SUFFICES ASSUME PoolInv
             PROVE  /\ PoolTypeOK /\ PageTableExact /\ ReplacerExact /\ PinnedPagesStay
                    /\ NoLostWrite /\ NoFrameLost
  OBVIOUS
<1>1. PoolTypeOK
  <2>1. PoolShape
    BY DEF PoolInv
  <2>2. RangeOf(page_table) \subseteq Frames /\ RangeOf(free_list) \subseteq Frames \cup {NoFrame}
        /\ Evictable \subseteq Frames
    BY <2>1 DEF PoolShape, ListsApart, RangeOf, Evictable
  <2> QED
    BY <2>1, <2>2 DEF PoolShape, PoolTypeOK, Frame
<1>2. ReplacerExact
  <2> SUFFICES ASSUME ~spoiled
               PROVE  /\ OffersUnpinned
                      /\ Len(cold) + Len(hot) = Cardinality(Evictable)
    BY DEF ReplacerExact, OffersUnpinned
  <2>1. ListsApart(cold, hot) /\ OffersUnpinned
    BY DEF PoolInv, PoolShape, Sound
  <2>2. /\ IsFiniteSet(RangeOf(cold)) /\ Cardinality(RangeOf(cold)) = Len(cold)
        /\ IsFiniteSet(RangeOf(hot)) /\ Cardinality(RangeOf(hot)) = Len(hot)
    BY <2>1, LengthCounts DEF ListsApart
  <2>3. Cardinality(RangeOf(cold) \cap RangeOf(hot)) = 0
    BY <2>1, FS_EmptySet DEF ListsApart
  <2>4. Len(cold) \in Nat /\ Len(hot) \in Nat
    BY <2>1 DEF ListsApart
  <2>5. Cardinality(RangeOf(cold) \cup RangeOf(hot))
          = Len(cold) + Len(hot) - Cardinality(RangeOf(cold) \cap RangeOf(hot))
    BY <2>2, FS_Union
  <2>6. Len(cold) + Len(hot) = Cardinality(Evictable)
    BY <2>3, <2>4, <2>5 DEF Evictable
  <2> QED
    BY <2>1, <2>6
<1> QED
  BY <1>1, <1>2 DEF PoolInv, PageTableExact, PinnedPagesStay, NoLostWrite, Sound,
     TableSound, PinsCounted, Remembered

-----------------------------------------------------------------------------
(* The replacer *)

\* lru_replacer_pin takes a frame out.
LEMMA PinFacts ==
  ASSUME ListsApart(cold, hot), NEW f \in Frames, lru_replacer_pin(f)
  PROVE  ListsApart(cold', hot') /\ Evictable' = Evictable \ {f}
  BY WithoutFrameFacts DEF ListsApart, lru_replacer_pin, Evictable

\* lru_replacer_unpin brings a frame in.
LEMMA UnpinFacts ==
  ASSUME ListsApart(cold, hot), NEW f \in Frames, lru_replacer_unpin(f)
  PROVE  ListsApart(cold', hot') /\ Evictable' = Evictable \cup {f}
<1>1. CASE f \in Evictable
  <2>1. cold' = WithoutFrame(cold, f) /\ hot' = <<f>> \o WithoutFrame(hot, f)
    BY <1>1 DEF lru_replacer_unpin
  <2> DEFINE w == WithoutFrame(hot, f)
  <2>2. /\ w \in Seq(Frames) /\ Distinct(w) /\ RangeOf(w) = RangeOf(hot) \ {f}
        /\ cold' \in Seq(Frames) /\ Distinct(cold') /\ RangeOf(cold') = RangeOf(cold) \ {f}
    BY <2>1, WithoutFrameFacts DEF ListsApart
  <2> HIDE DEF w
  <2>3. hot' \in Seq(Frames) /\ Distinct(hot') /\ RangeOf(hot') = RangeOf(w) \cup {f}
    BY <2>1, <2>2, PushFrontFacts DEF w
  <2> QED
    BY <1>1, <2>2, <2>3 DEF ListsApart, Evictable
<1>2. CASE f \notin Evictable
  <2>1. cold' = <<f>> \o cold /\ hot' = hot /\ f \notin RangeOf(cold) /\ f \notin RangeOf(hot)
    BY <1>2 DEF lru_replacer_unpin, Evictable
  <2>2. cold' \in Seq(Frames) /\ Distinct(cold') /\ RangeOf(cold') = RangeOf(cold) \cup {f}
    BY <2>1, PushFrontFacts DEF ListsApart
  <2> QED
    BY <2>1, <2>2 DEF ListsApart, Evictable
<1> QED
  BY <1>1, <1>2

\* lru_replacer_victim takes out the victim.
LEMMA VictimFacts ==
  ASSUME ListsApart(cold, hot), NEW f \in Frames, IsVictim(f), lru_replacer_victim
  PROVE  ListsApart(cold', hot') /\ Evictable' = Evictable \ {f} /\ f \in Evictable
<1>1. CASE cold # <<>>
  BY <1>1, FrontFacts DEF ListsApart, IsVictim, lru_replacer_victim, Evictable
<1>2. CASE cold = <<>>
  <2>1. hot # <<>> /\ f = BackOf(hot) /\ hot' = FrontOf(hot) /\ cold' = cold /\ RangeOf(cold) = {}
    BY <1>2 DEF IsVictim, lru_replacer_victim, RangeOf
  <2> QED
    BY <2>1, FrontFacts DEF ListsApart, Evictable
<1> QED
  BY <1>1, <1>2

-----------------------------------------------------------------------------
(* Obtaining a frame *)

FreeListTyped(l) == l \in Seq(Frames) \/ l = <<NoFrame>>

\* The tail of the free list keeps every other frame, or the list is broken.
LEMMA PopFacts ==
  ASSUME free_list \in Seq(Frames), free_list # <<>>
  PROVE  /\ FreeListTyped(PopFree)
         /\ \A g \in RangeOf(free_list) : g = free_list[1] \/ g \in RangeOf(PopFree)
<1>1. CASE free_list = <<free_list[1], free_list[1]>>
  <2>1. PopFree = <<NoFrame>>
    BY <1>1 DEF PopFree
  <2>2. DOMAIN <<free_list[1], free_list[1]>> = 1 .. 2
    OBVIOUS
  <2>3. \A i \in DOMAIN free_list : free_list[i] = free_list[1]
    BY <1>1, <2>2
  <2> QED
    BY <2>1, <2>3 DEF FreeListTyped, RangeOf
<1>2. CASE free_list # <<free_list[1], free_list[1]>>
  <2>1. PopFree = Tail(free_list)
    BY <1>2 DEF PopFree
  <2>2. \A i \in DOMAIN free_list : i # 1 => i - 1 \in DOMAIN Tail(free_list)
                                             /\ Tail(free_list)[i - 1] = free_list[i]
    OBVIOUS
  <2>3. \A i \in DOMAIN free_list : i # 1 => free_list[i] \in RangeOf(Tail(free_list))
    BY <2>2 DEF RangeOf
  <2> QED
    BY <2>1, <2>3 DEF FreeListTyped, RangeOf
<1> QED
  BY <1>1, <1>2

\* What list_push_front leaves on the free list: the frame given, and all the list
\* had, even when the node it pushes is in the list already.
LEMMA PushFacts ==
  ASSUME NEW l, FreeListTyped(l), NEW f \in Frames
  PROVE  /\ PushFree(l, f) \in Seq(Frames)
         /\ f \in RangeOf(PushFree(l, f))
         /\ \A g \in Frames : g \in RangeOf(l) => g \in RangeOf(PushFree(l, f))
<1>1. CASE l = <<NoFrame>>
  <2>1. PushFree(l, f) = <<f, f>>
    BY <1>1 DEF PushFree
  <2>2. <<f, f>> \in Seq(Frames) /\ f \in RangeOf(<<f, f>>)
    BY DEF RangeOf
  <2>3. RangeOf(l) \subseteq {NoFrame}
    BY <1>1 DEF RangeOf
  <2> QED
    BY <2>1, <2>2, <2>3, PoolAssumption
<1>2. CASE l # <<NoFrame>>
  <2>1. PushFree(l, f) = Append(l, f) /\ l \in Seq(Frames)
    BY <1>2 DEF PushFree, FreeListTyped
  <2> DEFINE r == Append(l, f)
  <2>2. r \in Seq(Frames) /\ Len(l) + 1 \in DOMAIN r /\ r[Len(l) + 1] = f
        /\ \A i \in DOMAIN l : i \in DOMAIN r /\ r[i] = l[i]
    BY <2>1
  <2> HIDE DEF r
  <2>3. f \in RangeOf(r) /\ \A g \in RangeOf(l) : g \in RangeOf(r)
    BY <2>2 DEF RangeOf
  <2> QED
    BY <2>1, <2>2, <2>3 DEF r
<1> QED
  BY <1>1, <1>2

\* What is obtained, in any pool: typed parts, and no other frame is lost.
LEMMA ObtainedShape ==
  ASSUME PoolShape, NEW o \in Obtained, Obtain
  PROVE  /\ o.f \in Frames
         /\ o.frame \in [Frames -> Frame]
         /\ \A g \in Frames \ {o.f} : o.frame[g] = frame[g]
         /\ DOMAIN o.table \subseteq Resident /\ o.table \in [DOMAIN o.table -> Frames]
         /\ FreeListTyped(o.free)
         /\ \A g \in Frames \ {o.f} : g \in RangeOf(free_list) => g \in RangeOf(o.free)
         /\ free_list # <<NoFrame>>
         /\ o.disk \in [Pages -> Words]
         /\ ListsApart(cold', hot')
         /\ Evictable \ {o.f} \subseteq Evictable'
<1> USE DEF PoolShape
<1>1. CASE free_list # <<>>
  <2>1. PICK f \in Frames : f = free_list[1] /\ o = Taken(f)
    BY <1>1 DEF Obtained
  <2>2. free_list # <<NoFrame>>
    BY <2>1, PoolAssumption
  <2>3. free_list \in Seq(Frames)
    BY <2>2
  <2>4. UNCHANGED lruVars
    BY <1>1 DEF Obtain
  <2>5. /\ FreeListTyped(PopFree)
        /\ \A g \in RangeOf(free_list) : g = f \/ g \in RangeOf(PopFree)
    BY <1>1, <2>1, <2>3, PopFacts
  <2>6. o.f = f /\ o.frame = frame /\ o.table = page_table /\ o.free = PopFree /\ o.disk = disk
    BY <2>1 DEF Taken
  <2> QED
    BY <2>2, <2>4, <2>5, <2>6 DEF lruVars, Evictable, Resident
<1>2. CASE free_list = <<>>
  <2>1. PICK f \in Frames : IsVictim(f) /\ o = Evicted(f)
    BY <1>2 DEF Obtained
  <2>2. lru_replacer_victim
    BY <1>2 DEF Obtain
  <2>3. ListsApart(cold', hot') /\ Evictable' = Evictable \ {f}
    BY <2>1, <2>2, VictimFacts
  <2> DEFINE v == frame[f]
             e == [EmptyFrame EXCEPT !.data = v.data]
  <2>4. /\ o.f = f
        /\ o.frame = [frame EXCEPT ![f] = e]
        /\ o.table = Unmapped(page_table, v.page_id)
        /\ o.free = PushFree(free_list, f)
        /\ o.disk = IF v.is_dirty /\ v.page_id \in allocated
                    THEN [disk EXCEPT ![v.page_id] = v.data] ELSE disk
    BY <2>1 DEF Evicted
  <2>5. v \in Frame
    OBVIOUS
  <2>6. e \in Frame
    BY <2>5, PoolAssumption DEF Frame, EmptyFrame
  <2>7. o.free \in Seq(Frames)
    <3>1. FreeListTyped(free_list)
      BY DEF FreeListTyped
    <3>2. PushFree(free_list, f) \in Seq(Frames)
      BY <3>1, PushFacts
    <3> QED
      BY <2>4, <3>2
  <2>8. RangeOf(free_list) = {} /\ free_list # <<NoFrame>>
    BY <1>2 DEF RangeOf
  <2>9. o.disk \in [Pages -> Words]
    BY <2>4, <2>5 DEF Frame
  <2>10. DOMAIN o.table \subseteq Resident /\ o.table \in [DOMAIN o.table -> Frames]
    BY <2>4 DEF Unmapped, Resident
  <2> HIDE DEF v, e
  <2> QED
    BY <2>3, <2>4, <2>6, <2>7, <2>8, <2>9, <2>10 DEF FreeListTyped
<1> QED
  BY <1>1, <1>2

\* What is obtained from a pool in use, unless it is in use itself: nobody holds
\* the frame, its page is out of the table, and the file has what it had.
LEMMA ObtainedSound ==
  ASSUME PoolInv, ~spoiled, NEW o \in Obtained, Obtain, ~InUse(o.f)
  PROVE  /\ HeldOn(o.f) = {}
         /\ Evictable' = Evictable \ {o.f}
         /\ \A q \in Pages : q \in DOMAIN o.table <=> q \in Resident /\ page_table[q] # o.f
         /\ \A q \in DOMAIN o.table : o.table[q] = page_table[q] /\ o.disk[q] = disk[q]
         /\ \A q \in allocated : q \notin DOMAIN o.table => o.disk[q] = latest[q]
<1>1. PoolShape /\ Sound
  BY DEF PoolInv
<1> USE DEF PoolShape
<1>2. CASE free_list # <<>>
  <2>1. PICK f \in Frames : f = free_list[1] /\ o = Taken(f)
    BY <1>2 DEF Obtained
  <2>2. free_list \in Seq(Frames)
    BY <1>1, <2>1, PoolAssumption
  <2>3. f \in RangeOf(free_list)
    BY <1>2, <2>1, <2>2 DEF RangeOf
  <2>4. o.f = f /\ o.table = page_table /\ o.disk = disk
    BY <2>1 DEF Taken
  <2>5. frame[f].page_id = NoPage
    BY <2>3, <2>4 DEF InUse
  <2>6. HeldOn(f) = {} /\ f \notin Evictable
    BY <2>5, EmptyIsFree
  <2>7. Evictable' = Evictable
    BY <1>2 DEF Obtain, lruVars, Evictable
  <2>8. \A q \in Resident : page_table[q] # f
    BY <1>1, <2>5, PoolAssumption DEF Sound, TableSound
  <2>9. \A q \in allocated : q \notin Resident => disk[q] = latest[q]
    BY <1>1 DEF Sound, Remembered
  <2> QED
    BY <2>4, <2>6, <2>7, <2>8, <2>9 DEF Resident
<1>3. CASE free_list = <<>>
  <2>1. PICK f \in Frames : IsVictim(f) /\ o = Evicted(f)
    BY <1>3 DEF Obtained
  <2> DEFINE v == frame[f]
             p == v.page_id
  <2>2. /\ o.f = f
        /\ o.table = Unmapped(page_table, p)
        /\ o.disk = IF v.is_dirty /\ p \in allocated
                    THEN [disk EXCEPT ![p] = v.data] ELSE disk
    BY <2>1 DEF Evicted
  <2>3. lru_replacer_victim
    BY <1>3 DEF Obtain
  <2>4. Evictable' = Evictable \ {f} /\ f \in Evictable
    BY <1>1, <2>1, <2>3, VictimFacts
  <2>5. v \in Frame /\ p # NoPage /\ v.pin_count = 0
    BY <1>1, <2>4 DEF Sound, OffersUnpinned
  <2>6. p \in Pages
    BY <2>5 DEF Frame
  <2>7. p \in Resident /\ page_table[p] = f /\ p \in allocated
    BY <1>1, <2>6 DEF Sound, TableSound
  <2>8. HeldOn(f) = {}
    BY <1>1, <2>5, HeldFacts DEF Sound, PinsCounted
  <2>9. \A q \in Resident : page_table[q] = f => q = p
    BY <1>1, <2>7 DEF Sound, TableSound
  <2>10. v.data = latest[p] /\ (v.is_dirty \/ disk[p] = latest[p])
    BY <1>1, <2>7, <2>8 DEF Sound, Remembered
  <2>11. o.disk[p] = latest[p] /\ \A q \in Pages \ {p} : o.disk[q] = disk[q]
    <3> HIDE DEF p, v
    <3>1. CASE v.is_dirty
      BY <1>1, <2>2, <2>6, <2>7, <2>10, <3>1
    <3>2. CASE ~v.is_dirty
      BY <1>1, <2>2, <2>6, <2>7, <2>10, <3>2
    <3> QED
      BY <3>1, <3>2
  <2>12. DOMAIN o.table = Resident \ {p} /\ \A q \in DOMAIN o.table : o.table[q] = page_table[q]
    BY <2>2 DEF Unmapped, Resident
  <2>13. \A q \in allocated : q \notin Resident => disk[q] = latest[q]
    BY <1>1 DEF Sound, Remembered
  <2> HIDE DEF p, v
  <2>14. \A q \in Pages : q \in DOMAIN o.table <=> q \in Resident /\ page_table[q] # f
    BY <2>7, <2>9, <2>12
  <2>15. \A q \in DOMAIN o.table : o.table[q] = page_table[q] /\ o.disk[q] = disk[q]
    BY <1>1, <2>11, <2>12
  <2>16. \A q \in allocated : q \notin DOMAIN o.table => o.disk[q] = latest[q]
    BY <1>1, <2>11, <2>12, <2>13
  <2> QED
    BY <2>2, <2>4, <2>8, <2>14, <2>15, <2>16
<1> QED
  BY <1>2, <1>3

-----------------------------------------------------------------------------
(* A page comes into the pool *)

\* Pages have their new frame, and no other frame is lost.
LEMMA FillShape ==
  ASSUME PoolInv, NEW h \in Handles, NEW p \in Pages, NEW x \in Words,
         NEW newdisk \in [Pages -> Words], NEW o \in Obtained, Obtain,
         Fill(h, p, o, x, newdisk),
         allocated' \subseteq Pages, latest' \in [Pages -> Words], running' = running
  PROVE  PoolShape' /\ NoFrameLost'
<1>1. PoolShape /\ NoFrameLost
  BY DEF PoolInv
<1> DEFINE f == o.f
<1>2. /\ f \in Frames
      /\ o.frame \in [Frames -> Frame]
      /\ \A g \in Frames \ {f} : o.frame[g] = frame[g]
      /\ DOMAIN o.table \subseteq Resident /\ o.table \in [DOMAIN o.table -> Frames]
      /\ FreeListTyped(o.free)
      /\ \A g \in Frames \ {f} : g \in RangeOf(free_list) => g \in RangeOf(o.free)
      /\ free_list # <<NoFrame>>
      /\ ListsApart(cold', hot')
      /\ Evictable \ {f} \subseteq Evictable'
  BY <1>1, ObtainedShape
<1>3. /\ frame' = [o.frame EXCEPT ![f] = Pinned(p, x)]
      /\ page_table' = Mapped(o.table, p, f)
      /\ free_list' = o.free
      /\ disk' = newdisk
      /\ handle' = [handle EXCEPT ![h] = [page |-> p, frame |-> f, is_dirty |-> FALSE]]
      /\ spoiled' = (spoiled \/ InUse(f))
  BY DEF Fill, Grab
<1> HIDE DEF f
<1>4. Pinned(p, x) \in Frame /\ Pinned(p, x).pin_count = 1
  BY DEF Pinned, Frame
<1>5. frame' \in [Frames -> Frame] /\ frame'[f].pin_count = 1
      /\ \A g \in Frames \ {f} : frame'[g] = frame[g]
  BY <1>2, <1>3, <1>4
<1>6. Resident' \subseteq Pages /\ page_table' \in [Resident' -> Frames]
  BY <1>1, <1>2, <1>3 DEF Mapped, Resident, PoolShape
<1>7. [page |-> p, frame |-> f, is_dirty |-> FALSE] \in Guard
  BY <1>2 DEF Guard
<1>8. handle' \in [Handles -> Guard]
  BY <1>1, <1>3, <1>7 DEF PoolShape
<1>9. \A k \in Handles : handle'[k] # Idle => handle'[k].page \in Pages /\ handle'[k].frame \in Frames
  BY <1>1, <1>2, <1>3, <1>7 DEF PoolShape
<1>10. spoiled' \in BOOLEAN /\ running' \in BOOLEAN
  BY <1>1, <1>3 DEF PoolShape, InUse
<1>11. PoolShape'
  BY <1>2, <1>3, <1>5, <1>6, <1>8, <1>9, <1>10 DEF PoolShape, FreeListTyped
<1>12. ASSUME NEW g \in Frames
       PROVE  frame'[g].pin_count > 0 \/ g \in Evictable' \/ g \in RangeOf(free_list')
  <2>1. CASE g = f
    BY <1>5, <2>1
  <2>2. CASE g # f
    BY <1>1, <1>2, <1>3, <1>5, <2>2 DEF NoFrameLost
  <2> QED
    BY <2>1, <2>2
<1> QED
  BY <1>11, <1>12 DEF NoFrameLost

\* A page put into the frame just obtained, by bpm_fetch_page or bpm_new_page,
\* leaves table, replacer, pins and contents in agreement.
LEMMA FillSound ==
  ASSUME PoolInv, NEW h \in Handles, NEW p \in Pages, NEW x \in Words,
         NEW newdisk \in [Pages -> Words], NEW o \in Obtained, Obtain,
         Fill(h, p, o, x, newdisk), handle[h] = Idle, p \notin Resident, ~spoiled',
         allocated' = allocated \cup {p},
         latest'[p] = x, newdisk[p] = x,
         \A q \in Pages \ {p} : latest'[q] = latest[q] /\ newdisk[q] = o.disk[q]
  PROVE  Sound'
<1> DEFINE f == o.f
<1>1. PoolShape
  BY DEF PoolInv
<1>2. /\ f \in Frames /\ o.frame \in [Frames -> Frame]
      /\ \A g \in Frames \ {f} : o.frame[g] = frame[g]
      /\ DOMAIN o.table \subseteq Resident
  BY <1>1, ObtainedShape
<1>3. /\ frame' = [o.frame EXCEPT ![f] = Pinned(p, x)]
      /\ page_table' = Mapped(o.table, p, f)
      /\ disk' = newdisk
      /\ handle' = [handle EXCEPT ![h] = [page |-> p, frame |-> f, is_dirty |-> FALSE]]
      /\ spoiled' = (spoiled \/ InUse(f))
  BY DEF Fill, Grab
<1>4. ~spoiled /\ ~InUse(f)
  BY <1>1, <1>3 DEF PoolShape, InUse
<1>5. Sound
  BY <1>4 DEF PoolInv
<1>6. /\ HeldOn(f) = {}
      /\ Evictable' = Evictable \ {f}
      /\ \A q \in Pages : q \in DOMAIN o.table <=> q \in Resident /\ page_table[q] # f
      /\ \A q \in DOMAIN o.table : o.table[q] = page_table[q] /\ o.disk[q] = disk[q]
      /\ \A q \in allocated : q \notin DOMAIN o.table => o.disk[q] = latest[q]
  BY <1>4, ObtainedSound
<1> HIDE DEF f
<1>7. /\ frame'[f] = [page_id |-> p, pin_count |-> 1, is_dirty |-> FALSE, data |-> x]
      /\ \A g \in Frames \ {f} : frame'[g] = frame[g]
  BY <1>2, <1>3 DEF Pinned
<1>8. /\ Resident' = DOMAIN o.table \cup {p} /\ page_table'[p] = f
      /\ \A q \in DOMAIN o.table : q # p => page_table'[q] = page_table[q]
  BY <1>3, <1>6 DEF Mapped, Resident
<1>9. p \notin DOMAIN o.table
  BY <1>2
<1>10. TableSound'
  <2>1. Resident' \subseteq allocated'
    BY <1>2, <1>5, <1>8 DEF Sound, TableSound
  <2>2. ASSUME NEW q \in Pages, NEW g \in Frames
        PROVE  frame'[g].page_id = q <=> q \in Resident' /\ page_table'[q] = g
    <3>1. CASE g = f
      BY <1>6, <1>7, <1>8, <1>9, <3>1
    <3>2. CASE g # f
      BY <1>5, <1>6, <1>7, <1>8, <1>9, <3>2 DEF Sound, TableSound
    <3> QED
      BY <3>1, <3>2
  <2> QED
    BY <2>1, <2>2 DEF TableSound
<1>11. Idle.frame = NoFrame
  BY DEF Idle
<1>12. /\ handle'[h] = [page |-> p, frame |-> f, is_dirty |-> FALSE]
       /\ \A k \in Handles \ {h} : handle'[k] = handle[k]
       /\ handle[h].frame = NoFrame
  BY <1>1, <1>3, <1>11 DEF PoolShape
<1>13. HeldOn(f)' = {h} /\ \A g \in Frames \ {f} : HeldOn(g)' = HeldOn(g)
  BY <1>2, <1>6, <1>12, PoolAssumption DEF HeldOn
<1>14. OffersUnpinned'
  BY <1>2, <1>5, <1>6, <1>7 DEF Sound, OffersUnpinned
<1>15. PinsCounted'
  <2>1. \A g \in Frames : frame'[g].pin_count = Cardinality(HeldOn(g)')
    <3>1. Cardinality({h}) = 1
      BY FS_Singleton
    <3>2. \A g \in Frames \ {f} : frame[g].pin_count = Cardinality(HeldOn(g))
      BY <1>5 DEF Sound, PinsCounted
    <3>3. \A g \in Frames \ {f} : frame'[g].pin_count = Cardinality(HeldOn(g)')
      BY <1>7, <1>13, <3>2
    <3>4. frame'[f].pin_count = Cardinality(HeldOn(f)')
      BY <1>7, <1>13, <3>1
    <3> QED
      BY <3>3, <3>4
  <2>2. ASSUME NEW k \in Handles, handle'[k] # Idle
        PROVE  frame'[handle'[k].frame].page_id = handle'[k].page
    <3>1. CASE k = h
      BY <1>7, <1>12, <3>1
    <3>2. CASE k # h
      <4>1. handle'[k] = handle[k] /\ handle[k].frame \in Frames /\ k \notin HeldOn(f)
        BY <1>1, <1>6, <1>12, <2>2, <3>2 DEF PoolShape
      <4>2. handle[k].frame # f
        BY <4>1 DEF HeldOn
      <4> QED
        BY <1>5, <1>7, <2>2, <4>1, <4>2 DEF Sound, PinsCounted
    <3> QED
      BY <3>1, <3>2
  <2> QED
    BY <2>1, <2>2 DEF PinsCounted, HeldOn
<1>16. ASSUME NEW q \in allocated' PROVE Remembered(q)'
  <2>1. CASE q = p
    BY <1>3, <1>7, <1>8, <2>1 DEF Remembered
  <2>2. CASE q # p
    <3>1. q \in allocated /\ q \in Pages /\ Remembered(q)
          /\ latest'[q] = latest[q] /\ disk'[q] = o.disk[q]
      BY <1>1, <1>3, <1>5, <2>2 DEF PoolShape, Sound
    <3>2. CASE q \notin DOMAIN o.table
      BY <1>6, <1>8, <2>2, <3>1, <3>2 DEF Remembered
    <3>3. CASE q \in DOMAIN o.table
      <4> DEFINE g == page_table[q]
      <4>1. q \in Resident /\ q \in Resident' /\ page_table'[q] = g /\ g # f /\ g \in Frames
            /\ o.disk[q] = disk[q]
        BY <1>1, <1>6, <1>8, <2>2, <3>1, <3>3 DEF PoolShape
      <4>2. frame'[g] = frame[g] /\ HeldOn(g)' = HeldOn(g)
        BY <1>7, <1>13, <4>1
      <4>3. \A k \in HeldOn(g) : handle'[k] = handle[k]
        BY <1>12, <4>1, PoolAssumption DEF HeldOn
      <4> HIDE DEF g
      <4> QED
        BY <3>1, <4>1, <4>2, <4>3 DEF Remembered, g
    <3> QED
      BY <3>2, <3>3
  <2> QED
    BY <2>1, <2>2
<1> QED
  BY <1>10, <1>14, <1>15, <1>16 DEF Sound

-----------------------------------------------------------------------------
(* One lemma per operation *)

\* Another client pins a page that is in the pool.
LEMMA FetchHitInv ==
  ASSUME PoolInv, NEW h \in Handles, NEW p \in Pages, handle[h] = Idle, FetchHit(h, p)
  PROVE  PoolInv'
<1>1. PoolShape /\ NoFrameLost /\ (~spoiled => Sound)
  BY DEF PoolInv
<1>2. PICK f \in Frames : p \in Resident /\ f = page_table[p]
  BY <1>1 DEF FetchHit, PoolShape
<1>3. /\ frame' = [frame EXCEPT ![f].pin_count = @ + 1]
      /\ lru_replacer_pin(f)
      /\ handle' = [handle EXCEPT ![h] = [page |-> p, frame |-> f, is_dirty |-> FALSE]]
      /\ UNCHANGED <<page_table, free_list, fileVars, running, histVars>>
  BY <1>2 DEF FetchHit, Grab
<1>4. ListsApart(cold', hot') /\ Evictable' = Evictable \ {f}
  BY <1>1, <1>2, <1>3, PinFacts DEF PoolShape
<1>5. /\ frame' \in [Frames -> Frame]
      /\ frame'[f].pin_count = frame[f].pin_count + 1
      /\ frame'[f].page_id = frame[f].page_id /\ frame'[f].data = frame[f].data
      /\ frame'[f].is_dirty = frame[f].is_dirty
      /\ \A g \in Frames \ {f} : frame'[g] = frame[g]
      /\ \A g \in Frames : frame[g].pin_count \in Nat
  <2> DEFINE v == frame[f]
             w == [v EXCEPT !.pin_count = @ + 1]
  <2>1. v \in Frame /\ frame \in [Frames -> Frame]
    BY <1>1, <1>2 DEF PoolShape
  <2>2. /\ w \in Frame /\ w.pin_count = v.pin_count + 1
        /\ w.page_id = v.page_id /\ w.data = v.data /\ w.is_dirty = v.is_dirty
    BY <2>1 DEF Frame
  <2>3. frame' = [frame EXCEPT ![f] = w]
    BY <1>3
  <2>4. \A g \in Frames : frame[g].pin_count \in Nat
    BY <2>1 DEF Frame
  <2> HIDE DEF w
  <2> QED
    BY <1>2, <2>1, <2>2, <2>3, <2>4
<1>6. /\ handle' \in [Handles -> Guard]
      /\ handle'[h] = [page |-> p, frame |-> f, is_dirty |-> FALSE]
      /\ \A k \in Handles \ {h} : handle'[k] = handle[k]
  <2>1. [page |-> p, frame |-> f, is_dirty |-> FALSE] \in Guard
    BY <1>2 DEF Guard
  <2> QED
    BY <1>1, <1>3, <2>1 DEF PoolShape
<1>7. PoolShape'
  BY <1>1, <1>2, <1>3, <1>4, <1>5, <1>6 DEF PoolShape, Resident, fileVars, histVars
<1>8. NoFrameLost'
  <2> SUFFICES ASSUME NEW g \in Frames
               PROVE  frame'[g].pin_count > 0 \/ g \in Evictable' \/ g \in RangeOf(free_list)
                      \/ free_list = <<NoFrame>>
    BY <1>3 DEF NoFrameLost
  <2>1. CASE g = f
    BY <1>5, <2>1
  <2>2. CASE g # f
    BY <1>1, <1>4, <1>5, <2>2 DEF NoFrameLost
  <2> QED
    BY <2>1, <2>2
<1>9. ASSUME ~spoiled' PROVE Sound'
  <2>1. ~spoiled /\ Sound
    BY <1>1, <1>3, <1>9 DEF histVars
  <2>2. TableSound'
    BY <1>3, <1>5, <2>1 DEF Sound, TableSound, Resident, fileVars
  <2>3. frame[f].page_id = p
    BY <1>2, <2>1 DEF Sound, TableSound
  <2>4. OffersUnpinned'
    <3> SUFFICES ASSUME NEW g
                 PROVE  g \in Evictable' <=> g \in Frames /\ frame'[g].page_id # NoPage
                                             /\ frame'[g].pin_count = 0
      BY DEF OffersUnpinned
    <3>1. CASE g = f
      BY <1>2, <1>4, <1>5, <3>1
    <3>2. CASE g # f
      BY <1>4, <1>5, <2>1, <3>2 DEF Sound, OffersUnpinned
    <3> QED
      BY <3>1, <3>2
  <2>5. /\ HeldOn(f)' = HeldOn(f) \cup {h} /\ h \notin HeldOn(f)
        /\ \A g \in Frames \ {f} : HeldOn(g)' = HeldOn(g)
    <3>1. handle[h].frame = NoFrame /\ NoFrame # f /\ h \in Handles
      BY <1>2, PoolAssumption DEF Idle
    <3>2. handle'[h].frame = f /\ \A k \in Handles \ {h} : handle'[k].frame = handle[k].frame
      BY <1>6
    <3> QED
      BY <3>1, <3>2, PoolAssumption DEF HeldOn
  <2>6. PinsCounted'
    <3>1. frame'[f].pin_count = Cardinality(HeldOn(f)')
      <4>1. IsFiniteSet(HeldOn(f))
        BY <1>1, <1>2, HeldFacts
      <4>2. Cardinality(HeldOn(f) \cup {h}) = Cardinality(HeldOn(f)) + 1
        BY <2>5, <4>1, FS_AddElement
      <4>3. frame[f].pin_count = Cardinality(HeldOn(f))
        BY <1>2, <2>1 DEF Sound, PinsCounted
      <4> QED
        BY <1>5, <2>5, <4>2, <4>3
    <3>2. \A g \in Frames \ {f} : frame[g].pin_count = Cardinality(HeldOn(g))
      BY <2>1 DEF Sound, PinsCounted
    <3>3. \A g \in Frames \ {f} : frame'[g].pin_count = Cardinality(HeldOn(g)')
      BY <1>5, <2>5, <3>2
    <3>4. ASSUME NEW k \in Handles, handle'[k] # Idle
          PROVE  frame'[handle'[k].frame].page_id = handle'[k].page
      <4>1. CASE k = h
        BY <1>5, <1>6, <2>3, <4>1
      <4>2. CASE k # h
        <5>1. handle'[k] = handle[k] /\ handle[k].frame \in Frames
              /\ frame[handle[k].frame].page_id = handle[k].page
          BY <1>1, <1>6, <2>1, <3>4, <4>2 DEF Sound, PinsCounted, PoolShape
        <5> QED
          BY <1>5, <5>1
      <4> QED
        BY <4>1, <4>2
    <3>5. ASSUME NEW g \in Frames PROVE frame'[g].pin_count = Cardinality(HeldOn(g)')
      <4>1. CASE g = f
        BY <3>1, <4>1
      <4> QED
        BY <3>3, <4>1
    <3> QED
      BY <3>4, <3>5 DEF PinsCounted, HeldOn
  <2>7. ASSUME NEW q \in allocated' PROVE Remembered(q)'
    <3>1. q \in allocated /\ Remembered(q) /\ UNCHANGED <<page_table, disk, latest>>
      BY <1>3, <2>1, <2>7 DEF Sound, fileVars, histVars
    <3>2. CASE q \notin Resident
      BY <3>1, <3>2 DEF Remembered, Resident
    <3>3. CASE q \in Resident
      <4>0. PICK g \in Frames : g = page_table[q]
        BY <1>1, <3>3 DEF PoolShape
      <4>1. frame'[g].data = frame[g].data /\ frame'[g].is_dirty = frame[g].is_dirty
        BY <1>5
      <4>2. HeldOn(g) \subseteq HeldOn(g)'
        <5>1. CASE g = f
          BY <2>5, <5>1
        <5> QED
          BY <2>5, <4>1, <5>1
      <4>3. \A k \in HeldOn(g) : handle'[k] = handle[k]
        BY <1>6, <4>1, PoolAssumption DEF HeldOn, Idle
      <4>4. Resident' = Resident /\ page_table'[q] = g
        BY <3>1, <4>0 DEF Resident
      <4> QED
        BY <3>1, <3>3, <4>0, <4>1, <4>2, <4>3, <4>4 DEF Remembered
    <3> QED
      BY <3>2, <3>3
  <2> QED
    BY <2>2, <2>4, <2>6, <2>7 DEF Sound
<1> QED
  BY <1>7, <1>8, <1>9 DEF PoolInv

\* The invariant does not depend on whether the process still runs.
LEMMA StutterInv ==
  ASSUME PoolInv, running' \in BOOLEAN,
         UNCHANGED <<frame, page_table, free_list, cold, hot, disk, allocated, handle,
                     latest, spoiled>>
  PROVE  PoolInv'
<1>1. Resident' = Resident /\ Evictable' = Evictable /\ \A f : HeldOn(f)' = HeldOn(f)
  BY DEF Resident, Evictable, HeldOn
<1>2. PoolShape' /\ NoFrameLost'
  BY <1>1 DEF PoolInv, PoolShape, NoFrameLost
<1>3. ASSUME Sound PROVE Sound'
  <2>1. TableSound' /\ OffersUnpinned' /\ PinsCounted'
    BY <1>1, <1>3 DEF Sound, TableSound, OffersUnpinned, PinsCounted
  <2>2. ASSUME NEW p \in allocated' PROVE Remembered(p)'
    BY <1>1, <1>3 DEF Sound, Remembered
  <2> QED
    BY <2>1, <2>2 DEF Sound
<1> QED
  BY <1>2, <1>3 DEF PoolInv

\* A process that has ended changes nothing.
LEMMA DiesInv == PoolInv /\ Dies => PoolInv'
  BY StutterInv DEF Dies, lruVars, fileVars, histVars

\* bpm_fetch_page of a page that is in no frame keeps the invariant.
LEMMA FetchMissInv ==
  ASSUME PoolInv, NEW h \in Handles, NEW p \in allocated, handle[h] = Idle, FetchMiss(h, p)
  PROVE  PoolInv'
<1>1. PoolShape
  BY DEF PoolInv
<1>2. p \in Pages /\ p \notin Resident
  BY <1>1 DEF FetchMiss, PoolShape
<1>3. CASE \E o \in Obtained : Fill(h, p, o, o.disk[p], o.disk) /\ Obtain
                               /\ UNCHANGED <<allocated, running, latest>>
  <2>1. PICK o \in Obtained : Fill(h, p, o, o.disk[p], o.disk) /\ Obtain
                              /\ UNCHANGED <<allocated, running, latest>>
    BY <1>3
  <2>2. o.disk \in [Pages -> Words] /\ o.disk[p] \in Words
    BY <1>1, <1>2, <2>1, ObtainedShape
  <2>3. PoolShape' /\ NoFrameLost'
    <3>1. allocated' \subseteq Pages /\ latest' \in [Pages -> Words] /\ running' = running
      BY <1>1, <2>1 DEF PoolShape
    <3> QED
      BY <1>2, <2>1, <2>2, <3>1, FillShape
  <2>4. ASSUME ~spoiled' PROVE Sound'
    <3>1. ~spoiled /\ ~InUse(o.f)
      BY <1>1, <2>1, <2>4 DEF PoolShape, InUse, Fill
    <3>2. p \notin DOMAIN o.table
      BY <1>1, <1>2, <2>1, ObtainedShape
    <3>3. o.disk[p] = latest[p]
      BY <2>1, <3>1, <3>2, ObtainedSound
    <3> QED
      BY <1>2, <2>1, <2>2, <2>4, <3>3, FillSound
  <2> QED
    BY <2>3, <2>4 DEF PoolInv
<1>4. CASE UNCHANGED poolVars
  BY <1>4, StutterInv DEF poolVars, PoolInv, PoolShape
<1>5. CASE Dies
  BY <1>5, DiesInv
<1> QED
  BY <1>3, <1>4, <1>5 DEF FetchMiss

\* bpm_new_page keeps the invariant.
LEMMA NewPageInv ==
  ASSUME PoolInv, NEW h \in Handles, NEW p \in Pages, handle[h] = Idle, bpm_new_page(h, p)
  PROVE  PoolInv'
<1>1. PoolShape
  BY DEF PoolInv
<1>2. CASE \E o \in Obtained :
              /\ Fill(h, p, o, Blank, [o.disk EXCEPT ![p] = Blank]) /\ Obtain
              /\ allocated' = allocated \cup {p}
              /\ latest' = [latest EXCEPT ![p] = Blank]
              /\ UNCHANGED running
  <2>1. PICK o \in Obtained :
              /\ Fill(h, p, o, Blank, [o.disk EXCEPT ![p] = Blank]) /\ Obtain
              /\ allocated' = allocated \cup {p}
              /\ latest' = [latest EXCEPT ![p] = Blank]
              /\ UNCHANGED running
    BY <1>2
  <2> DEFINE d == [o.disk EXCEPT ![p] = Blank]
  <2>2. Blank \in Words /\ o.disk \in [Pages -> Words]
    BY <1>1, <2>1, ObtainedShape, PoolAssumption
  <2>3. /\ d \in [Pages -> Words] /\ d[p] = Blank
        /\ \A q \in Pages \ {p} : d[q] = o.disk[q]
    BY <2>2
  <2>4. /\ latest' \in [Pages -> Words] /\ latest'[p] = Blank
        /\ \A q \in Pages \ {p} : latest'[q] = latest[q]
        /\ allocated' \subseteq Pages
    BY <1>1, <2>1, <2>2 DEF PoolShape
  <2>5. Fill(h, p, o, Blank, d)
    BY <2>1
  <2> HIDE DEF d
  <2>6. PoolShape' /\ NoFrameLost'
    BY <2>1, <2>2, <2>3, <2>4, <2>5, FillShape
  <2>7. ASSUME ~spoiled' PROVE Sound'
    <3>1. ~spoiled
      BY <1>1, <2>1, <2>7 DEF PoolShape, InUse, Fill
    <3>2. p \notin Resident
      BY <3>1 DEF PoolInv, Sound, TableSound, bpm_new_page
    <3> QED
      BY <2>1, <2>2, <2>3, <2>4, <2>5, <2>7, <3>2, FillSound
  <2> QED
    BY <2>6, <2>7 DEF PoolInv
<1>3. CASE UNCHANGED poolVars
  BY <1>3, StutterInv DEF poolVars, PoolInv, PoolShape
<1>4. CASE Dies
  BY <1>4, DiesInv
<1> QED
  BY <1>2, <1>3, <1>4 DEF bpm_new_page

\* A page that is not there: the frame goes back, or the pool is spoiled.
LEMMA FetchMissingInv ==
  ASSUME PoolInv, bpm_fetch_missing
  PROVE  PoolInv'
<1>1. PoolShape /\ NoFrameLost /\ (~spoiled => Sound)
  BY DEF PoolInv
<1>2. ASSUME NEW o \in Obtained,
             frame' = o.frame, page_table' = o.table, disk' = o.disk,
             free_list' = PushFree(o.free, o.f),
             spoiled' = (spoiled \/ o.f \in RangeOf(o.free)),
             Obtain, UNCHANGED <<allocated, handle, running, latest>>
      PROVE  PoolInv'
  <2>1. /\ o.f \in Frames
        /\ o.frame \in [Frames -> Frame]
        /\ \A g \in Frames \ {o.f} : o.frame[g] = frame[g]
        /\ DOMAIN o.table \subseteq Resident /\ o.table \in [DOMAIN o.table -> Frames]
        /\ FreeListTyped(o.free)
        /\ \A g \in Frames \ {o.f} : g \in RangeOf(free_list) => g \in RangeOf(o.free)
        /\ free_list # <<NoFrame>>
        /\ o.disk \in [Pages -> Words]
        /\ ListsApart(cold', hot')
        /\ Evictable \ {o.f} \subseteq Evictable'
    BY <1>1, <1>2, ObtainedShape
  <2>2. /\ free_list' \in Seq(Frames)
        /\ o.f \in RangeOf(free_list')
        /\ \A g \in Frames : g \in RangeOf(o.free) => g \in RangeOf(free_list')
    BY <1>2, <2>1, PushFacts
  <2>3. PoolShape'
    BY <1>1, <1>2, <2>1, <2>2 DEF PoolShape, Resident
  <2>4. NoFrameLost'
    <3> SUFFICES ASSUME NEW g \in Frames
                 PROVE  frame'[g].pin_count > 0 \/ g \in Evictable' \/ g \in RangeOf(free_list')
      BY DEF NoFrameLost
    <3> QED
      BY <1>1, <1>2, <2>1, <2>2 DEF NoFrameLost
  <2>5. ASSUME ~spoiled' PROVE Sound'
    <3>1. ~spoiled /\ Sound /\ o.f \notin RangeOf(o.free)
      BY <1>1, <1>2, <2>5 DEF PoolShape
    <3>2. CASE free_list # <<>>
      <4>1. o.frame = frame /\ o.table = page_table /\ o.disk = disk /\ UNCHANGED lruVars
        BY <1>2, <3>2 DEF Obtained, Taken, Obtain
      <4> QED
        BY <1>2, <3>1, <4>1 DEF lruVars, Sound, TableSound, OffersUnpinned,
           PinsCounted, Remembered, Resident, Evictable, HeldOn
    <3>3. CASE free_list = <<>>
      <4>1. PICK f \in Frames : o = Evicted(f)
        BY <1>2, <3>3 DEF Obtained
      <4>2. o.f = f /\ o.free = PushFree(free_list, f)
        BY <4>1 DEF Evicted
      <4>3. FreeListTyped(free_list)
        BY <1>1 DEF PoolShape, FreeListTyped
      <4> QED
        BY <3>1, <4>2, <4>3, PushFacts
    <3> QED
      BY <3>2, <3>3
  <2> QED
    BY <2>3, <2>4, <2>5 DEF PoolInv
<1>3. CASE Dies
  BY <1>3, DiesInv
<1> QED
  BY <1>2, <1>3 DEF bpm_fetch_missing

\* A client writes through the frame it was given.
LEMMA WriteInv ==
  ASSUME PoolInv, NEW h \in Handles, NEW x \in Words, NEW mark \in BOOLEAN, Write(h, x, mark)
  PROVE  PoolInv'
<1>1. PoolShape /\ NoFrameLost /\ (~spoiled => Sound) /\ handle[h] # Idle
  BY DEF PoolInv, Write
<1>2. PICK f \in Frames : f = handle[h].frame
  BY <1>1 DEF PoolShape
<1>3. PICK p \in Pages : p = handle[h].page
  BY <1>1 DEF PoolShape
<1>4. /\ frame' = [frame EXCEPT ![f].data = x, ![f].is_dirty = @ \/ mark]
      /\ handle' = [handle EXCEPT ![h].is_dirty = TRUE]
      /\ latest' = [latest EXCEPT ![p] = x]
      /\ UNCHANGED <<page_table, free_list, cold, hot, disk, allocated, running, spoiled>>
  BY <1>2, <1>3 DEF Write, lruVars, fileVars
<1>5. /\ frame' \in [Frames -> Frame]
      /\ frame'[f].data = x
      /\ frame'[f].page_id = frame[f].page_id /\ frame'[f].pin_count = frame[f].pin_count
      /\ \A g \in Frames \ {f} : frame'[g] = frame[g]
  <2> DEFINE w == [[frame[f] EXCEPT !.data = x] EXCEPT !.is_dirty = @ \/ mark]
  <2>1. frame[f] \in Frame /\ frame \in [Frames -> Frame]
    BY <1>1 DEF PoolShape
  <2>2. [frame[f] EXCEPT !.data = x] \in Frame
    BY <2>1 DEF Frame
  <2>3. w \in Frame /\ w.data = x /\ w.page_id = frame[f].page_id
        /\ w.pin_count = frame[f].pin_count
    BY <2>1, <2>2 DEF Frame
  <2>4. frame' = [frame EXCEPT ![f] = w]
    BY <1>4, <2>1
  <2> HIDE DEF w
  <2> QED
    BY <2>1, <2>3, <2>4
<1>6. /\ handle' \in [Handles -> Guard]
      /\ handle'[h].frame = f /\ handle'[h].page = p /\ handle'[h].is_dirty
      /\ \A k \in Handles \ {h} : handle'[k] = handle[k]
  <2> DEFINE w == [handle[h] EXCEPT !.is_dirty = TRUE]
  <2>1. handle[h] \in Guard /\ handle \in [Handles -> Guard]
    BY <1>1 DEF PoolShape
  <2>2. w \in Guard /\ w.frame = f /\ w.page = p /\ w.is_dirty
    BY <1>2, <1>3, <2>1 DEF Guard
  <2>3. handle' = [handle EXCEPT ![h] = w]
    BY <1>4
  <2> HIDE DEF w
  <2> QED
    BY <2>1, <2>2, <2>3
<1>7. Resident' = Resident /\ Evictable' = Evictable
  BY <1>4 DEF Resident, Evictable
<1>8. \A g \in Frames : HeldOn(g)' = HeldOn(g)
  BY <1>2, <1>6 DEF HeldOn
<1>9. PoolShape'
  BY <1>1, <1>2, <1>3, <1>4, <1>5, <1>6, <1>7 DEF PoolShape
<1>10. NoFrameLost'
  BY <1>1, <1>4, <1>5, <1>7 DEF NoFrameLost
<1>11. ASSUME ~spoiled' PROVE Sound'
  <2>1. Sound
    BY <1>1, <1>4, <1>11
  <2>2. \A g \in Frames : frame'[g].page_id = frame[g].page_id
                          /\ frame'[g].pin_count = frame[g].pin_count
    BY <1>5
  <2>3. TableSound'
    <3>1. Resident' \subseteq allocated'
      BY <1>4, <1>7, <2>1 DEF Sound, TableSound
    <3>2. ASSUME NEW q \in Pages, NEW g \in Frames
          PROVE  frame'[g].page_id = q <=> q \in Resident' /\ page_table'[q] = g
      <4>1. frame[g].page_id = q <=> q \in Resident /\ page_table[q] = g
        BY <2>1 DEF Sound, TableSound
      <4>2. frame'[g].page_id = frame[g].page_id /\ page_table' = page_table
        BY <1>4, <2>2
      <4> QED
        BY <1>7, <4>1, <4>2
    <3> QED
      BY <3>1, <3>2 DEF TableSound
  <2>4. OffersUnpinned'
    BY <1>7, <2>1, <2>2 DEF Sound, OffersUnpinned
  <2>5. PinsCounted'
    <3>1. \A g \in Frames : frame'[g].pin_count = Cardinality(HeldOn(g)')
      BY <1>8, <2>1, <2>2 DEF Sound, PinsCounted
    <3>2. ASSUME NEW k \in Handles, handle'[k] # Idle
          PROVE  frame'[handle'[k].frame].page_id = handle'[k].page
      <4>1. handle[k] # Idle /\ handle'[k].frame = handle[k].frame
            /\ handle'[k].page = handle[k].page /\ handle[k].frame \in Frames
        BY <1>1, <1>2, <1>3, <1>6, <3>2 DEF PoolShape
      <4> QED
        BY <2>1, <2>2, <4>1 DEF Sound, PinsCounted
    <3> QED
      BY <3>1, <3>2 DEF PinsCounted, HeldOn
  <2>6. frame[f].page_id = p
    BY <1>1, <1>2, <1>3, <2>1 DEF Sound, PinsCounted
  <2>7. p \in Resident /\ page_table[p] = f
    BY <2>1, <2>6 DEF Sound, TableSound
  <2>8. ASSUME NEW q \in allocated' PROVE Remembered(q)'
    <3>1. q \in allocated /\ Remembered(q) /\ q \in Pages
      BY <1>1, <1>4, <2>1 DEF Sound, PoolShape
    <3>2. CASE q = p
      <4>1. latest'[p] = x
        BY <1>1, <1>4 DEF PoolShape
      <4>2. h \in HeldOn(f)'
        BY <1>6 DEF HeldOn
      <4>3. Resident' = Resident /\ page_table'[p] = f
        BY <1>4, <1>7, <2>7
      <4> QED
        BY <1>5, <1>6, <2>7, <3>2, <4>1, <4>2, <4>3 DEF Remembered
    <3>3. CASE q # p
      <4>1. latest'[q] = latest[q] /\ disk'[q] = disk[q] /\ page_table' = page_table
        BY <1>1, <1>4, <3>1, <3>3 DEF PoolShape
      <4>2. CASE q \in Resident
        <5>1. PICK g \in Frames : g = page_table[q]
          BY <1>1, <4>2 DEF PoolShape
        <5>2. g # f
          BY <2>1, <2>6, <3>1, <3>3, <4>2, <5>1 DEF Sound, TableSound
        <5>3. frame'[g] = frame[g] /\ HeldOn(g)' = HeldOn(g)
          BY <1>5, <1>8, <5>2
        <5>4. \A k \in HeldOn(g) : handle'[k] = handle[k]
          BY <1>2, <1>6, <5>2 DEF HeldOn
        <5> QED
          BY <1>7, <3>1, <4>1, <4>2, <5>1, <5>3, <5>4 DEF Remembered
      <4>3. CASE q \notin Resident
        BY <1>7, <3>1, <4>1, <4>3 DEF Remembered
      <4> QED
        BY <4>2, <4>3
    <3> QED
      BY <3>2, <3>3
  <2> QED
    BY <2>3, <2>4, <2>5, <2>8 DEF Sound
<1> QED
  BY <1>9, <1>10, <1>11 DEF PoolInv

\* A client gives its pin back, by the number it remembers or by that of its
\* frame; in a pool in use they are the same.
LEMMA ReleaseInv ==
  ASSUME PoolInv, NEW h \in Handles, Release(h)
  PROVE  PoolInv'
<1>1. PoolShape /\ NoFrameLost /\ (~spoiled => Sound) /\ handle[h] # Idle
  BY DEF PoolInv, Release
<1>2. PICK p \in {handle[h].page, frame[handle[h].frame].page_id} :
        bpm_unpin_page(p, handle[h].is_dirty)
  BY DEF Release
<1>3. /\ handle' = [handle EXCEPT ![h] = Idle]
      /\ UNCHANGED <<page_table, free_list, disk, allocated, running, latest, spoiled>>
  BY DEF Release, fileVars
<1>4. /\ handle' \in [Handles -> Guard] /\ handle'[h] = Idle
      /\ \A k \in Handles \ {h} : handle'[k] = handle[k]
  BY <1>1, <1>3 DEF PoolShape, Guard, Idle
<1>5. \A k \in Handles : handle'[k] # Idle => handle'[k].page \in Pages /\ handle'[k].frame \in Frames
  BY <1>1, <1>4 DEF PoolShape
<1>6. Resident' = Resident
  BY <1>3 DEF Resident
<1>7. ASSUME ~spoiled PROVE CanUnpin(p) /\ p = handle[h].page /\ page_table[p] = handle[h].frame
  <2>1. Sound /\ handle[h].page \in Pages /\ handle[h].frame \in Frames
    BY <1>1, <1>7 DEF PoolShape
  <2>2. p = handle[h].page /\ frame[handle[h].frame].page_id = p
    BY <1>1, <1>2, <2>1 DEF Sound, PinsCounted
  <2>3. p \in Resident /\ page_table[p] = handle[h].frame
    BY <2>1, <2>2 DEF Sound, TableSound
  <2>4. h \in HeldOn(handle[h].frame)
    BY DEF HeldOn
  <2>5. frame[handle[h].frame].pin_count = Cardinality(HeldOn(handle[h].frame))
    BY <2>1 DEF Sound, PinsCounted
  <2>6. Cardinality(HeldOn(handle[h].frame)) > 0
    BY <1>1, <2>1, <2>4, HeldFacts
  <2> QED
    BY <2>2, <2>3, <2>5, <2>6 DEF CanUnpin
<1>8. CASE ~CanUnpin(p)
  <2>1. UNCHANGED <<frame, cold, hot>>
    BY <1>2, <1>8 DEF bpm_unpin_page, lruVars
  <2>2. PoolShape'
    BY <1>1, <1>3, <1>4, <1>5, <1>6, <2>1 DEF PoolShape
  <2>3. NoFrameLost'
    BY <1>1, <1>3, <2>1 DEF NoFrameLost, Evictable
  <2> QED
    BY <1>3, <1>7, <1>8, <2>2, <2>3 DEF PoolInv
<1>9. CASE CanUnpin(p)
  <2>1. PICK f \in Frames : f = page_table[p] /\ p \in Resident
    BY <1>1, <1>9 DEF PoolShape, CanUnpin
  <2> DEFINE d == handle[h].is_dirty
  <2>2. /\ frame[f].pin_count > 0
        /\ frame' = [frame EXCEPT ![f] = Unpinned(@, d)]
        /\ IF frame[f].pin_count = 1 THEN lru_replacer_unpin(f) ELSE UNCHANGED lruVars
    BY <1>2, <1>9, <2>1 DEF CanUnpin, bpm_unpin_page
  <2>3. /\ frame' \in [Frames -> Frame]
        /\ frame'[f].pin_count = frame[f].pin_count - 1
        /\ frame'[f].page_id = frame[f].page_id /\ frame'[f].data = frame[f].data
        /\ frame'[f].is_dirty = (frame[f].is_dirty \/ d)
        /\ \A g \in Frames \ {f} : frame'[g] = frame[g]
        /\ \A g \in Frames : frame[g].pin_count \in Nat
    <3> DEFINE v == frame[f]
               w == [v EXCEPT !.pin_count = @ - 1]
               u == [w EXCEPT !.is_dirty = @ \/ d]
    <3>1. v \in Frame /\ frame \in [Frames -> Frame] /\ d \in BOOLEAN
      BY <1>1 DEF PoolShape, Guard
    <3>2. /\ w \in Frame /\ w.pin_count = v.pin_count - 1 /\ w.is_dirty = v.is_dirty
          /\ w.page_id = v.page_id /\ w.data = v.data
      BY <2>2, <3>1 DEF Frame
    <3>3. frame' = [frame EXCEPT ![f] = u]
      BY <2>2, <3>1 DEF Unpinned
    <3> HIDE DEF w, d
    <3>4. /\ u \in Frame /\ u.pin_count = w.pin_count /\ u.is_dirty = (w.is_dirty \/ d)
          /\ u.page_id = w.page_id /\ u.data = w.data
      BY <3>1, <3>2 DEF Frame
    <3>5. \A g \in Frames : frame[g].pin_count \in Nat
      BY <3>1 DEF Frame
    <3> HIDE DEF u
    <3> QED
      BY <3>1, <3>2, <3>3, <3>4, <3>5
  <2>4. ListsApart(cold', hot') /\ Evictable' = IF frame[f].pin_count = 1
                                                THEN Evictable \cup {f} ELSE Evictable
    BY <1>1, <2>2, UnpinFacts DEF PoolShape, lruVars, Evictable
  <2>5. PoolShape'
    BY <1>1, <1>3, <1>4, <1>5, <1>6, <2>3, <2>4 DEF PoolShape
  <2>6. NoFrameLost'
    <3> SUFFICES ASSUME NEW g \in Frames
                 PROVE  frame'[g].pin_count > 0 \/ g \in Evictable' \/ g \in RangeOf(free_list)
                        \/ free_list = <<NoFrame>>
      BY <1>3 DEF NoFrameLost
    <3>1. CASE g = f
      BY <2>2, <2>3, <2>4, <3>1
    <3>2. CASE g # f
      BY <1>1, <2>3, <2>4, <3>2 DEF NoFrameLost
    <3> QED
      BY <3>1, <3>2
  <2>7. ASSUME ~spoiled' PROVE Sound'
    <3>1. Sound /\ p = handle[h].page /\ f = handle[h].frame
      BY <1>1, <1>3, <1>7, <2>1, <2>7
    <3>2. /\ HeldOn(f)' = HeldOn(f) \ {h} /\ h \in HeldOn(f)
          /\ \A g \in Frames \ {f} : HeldOn(g)' = HeldOn(g)
      <4>1. handle'[h].frame = NoFrame
        BY <1>4 DEF Idle
      <4>2. \A g \in Frames : NoFrame # g
        BY PoolAssumption
      <4> QED
        BY <1>4, <3>1, <4>1, <4>2 DEF HeldOn
    <3>3. \A g \in Frames : frame'[g].page_id = frame[g].page_id
      BY <2>3
    <3>4. TableSound'
      BY <1>3, <1>6, <3>1, <3>3 DEF Sound, TableSound
    <3>5. PinsCounted'
      <4>1. frame'[f].pin_count = Cardinality(HeldOn(f)')
        <5>1. IsFiniteSet(HeldOn(f)) /\ frame[f].pin_count = Cardinality(HeldOn(f))
          BY <1>1, <3>1, HeldFacts DEF Sound, PinsCounted
        <5>2. Cardinality(HeldOn(f) \ {h}) = Cardinality(HeldOn(f)) - 1
          BY <3>2, <5>1, FS_RemoveElement
        <5> QED
          BY <2>3, <3>2, <5>1, <5>2
      <4>2. \A g \in Frames \ {f} : frame[g].pin_count = Cardinality(HeldOn(g))
        BY <3>1 DEF Sound, PinsCounted
      <4>3. \A g \in Frames \ {f} : frame'[g].pin_count = Cardinality(HeldOn(g)')
        BY <2>3, <3>2, <4>2
      <4>4. ASSUME NEW g \in Frames PROVE frame'[g].pin_count = Cardinality(HeldOn(g)')
        <5>1. CASE g = f
          BY <4>1, <5>1
        <5> QED
          BY <4>3, <5>1
      <4>5. ASSUME NEW k \in Handles, handle'[k] # Idle
            PROVE  frame'[handle'[k].frame].page_id = handle'[k].page
        <5>1. handle'[k] = handle[k] /\ handle[k].frame \in Frames
              /\ frame[handle[k].frame].page_id = handle[k].page
          BY <1>1, <1>4, <3>1, <4>5 DEF Sound, PinsCounted, PoolShape
        <5> QED
          BY <3>3, <5>1
      <4> QED
        BY <4>4, <4>5 DEF PinsCounted, HeldOn
    <3>6. OffersUnpinned'
      <4>1. p \in Pages /\ frame[f].page_id = p
        BY <1>1, <2>1, <3>1 DEF Sound, TableSound, PoolShape
      <4>2. frame[f].page_id # NoPage
        BY <4>1, PoolAssumption
      <4> SUFFICES ASSUME NEW g
                   PROVE  g \in Evictable' <=> g \in Frames /\ frame'[g].page_id # NoPage
                                               /\ frame'[g].pin_count = 0
        BY DEF OffersUnpinned
      <4>3. g \in Evictable <=> g \in Frames /\ frame[g].page_id # NoPage
                                /\ frame[g].pin_count = 0
        BY <3>1 DEF Sound, OffersUnpinned
      <4>4. CASE g = f
        BY <2>2, <2>3, <2>4, <4>2, <4>3, <4>4
      <4>5. CASE g # f
        BY <2>3, <2>4, <4>3, <4>5
      <4> QED
        BY <4>4, <4>5
    <3>7. ASSUME NEW q \in allocated' PROVE Remembered(q)'
      <4>1. q \in allocated /\ Remembered(q) /\ UNCHANGED <<page_table, disk, latest>>
        BY <1>3, <3>1 DEF Sound
      <4>2. CASE q \notin Resident
        BY <1>6, <4>1, <4>2 DEF Remembered
      <4>3. CASE q \in Resident
        <5>1. PICK g \in Frames : g = page_table[q]
          BY <1>1, <4>3 DEF PoolShape
        <5>2. frame'[g].data = frame[g].data /\ frame'[g].data = latest'[q]
          BY <2>3, <4>1, <4>3, <5>1 DEF Remembered
        <5>3. frame'[g].is_dirty \/ (\E k \in HeldOn(g)' : handle'[k].is_dirty) \/ disk[q] = latest[q]
          <6>1. CASE frame[g].is_dirty
            BY <2>3, <6>1
          <6>2. CASE \E k \in HeldOn(g) : handle[k].is_dirty
            <7>1. PICK k \in HeldOn(g) : handle[k].is_dirty
              BY <6>2
            <7>2. CASE k = h
              <8>1. g = f /\ d
                BY <3>1, <7>1, <7>2 DEF HeldOn
              <8> QED
                BY <2>3, <8>1
            <7>3. CASE k # h
              <8>1. k \in Handles /\ handle'[k] = handle[k] /\ k \in HeldOn(g)'
                BY <1>4, <7>1, <7>3 DEF HeldOn
              <8> QED
                BY <7>1, <8>1
            <7> QED
              BY <7>2, <7>3
          <6> QED
            BY <4>1, <4>3, <5>1, <6>1, <6>2 DEF Remembered
        <5> QED
          BY <1>6, <4>1, <4>3, <5>1, <5>2, <5>3 DEF Remembered
      <4> QED
        BY <4>2, <4>3
    <3> QED
      BY <3>4, <3>5, <3>6, <3>7 DEF Sound
  <2> QED
    BY <2>5, <2>6, <2>7 DEF PoolInv
<1> QED
  BY <1>8, <1>9

-----------------------------------------------------------------------------
(* Flushing and restarting *)

\* What the two flushes share: frames keep their pages, pins and contents, and
\* a page is written with what its frame has or its flag is left alone.
LEMMA FlushInv ==
  ASSUME PoolInv,
         UNCHANGED <<page_table, free_list, lruVars, allocated, handle, running, histVars>>,
         frame' \in [Frames -> Frame], disk' \in [Pages -> Words],
         \A g \in Frames : /\ frame'[g].page_id = frame[g].page_id
                           /\ frame'[g].pin_count = frame[g].pin_count
                           /\ frame'[g].data = frame[g].data,
         ~spoiled =>
           \A q \in Pages :
             /\ q \notin Resident => disk'[q] = disk[q]
             /\ \A g \in Frames : q \in Resident /\ page_table[q] = g =>
                  \/ disk'[q] = frame[g].data
                  \/ disk'[q] = disk[q] /\ frame'[g].is_dirty = frame[g].is_dirty
  PROVE  PoolInv'
<1>1. PoolShape /\ NoFrameLost /\ (~spoiled => Sound)
  BY DEF PoolInv
<1>2. UNCHANGED <<page_table, free_list, cold, hot, allocated, handle, running, latest, spoiled>>
  BY DEF lruVars, histVars
<1>3. Resident' = Resident /\ Evictable' = Evictable
  BY <1>2 DEF Resident, Evictable
<1>4. \A g \in Frames : HeldOn(g)' = HeldOn(g)
  BY <1>2 DEF HeldOn
<1>5. PoolShape'
  BY <1>1, <1>2, <1>3 DEF PoolShape
<1>6. NoFrameLost'
  BY <1>1, <1>2, <1>3 DEF NoFrameLost
<1>7. ASSUME ~spoiled' PROVE Sound'
  <2>1. Sound
    BY <1>1, <1>2, <1>7
  <2>2. TableSound'
    <3>1. Resident' \subseteq allocated'
      BY <1>2, <1>3, <2>1 DEF Sound, TableSound
    <3>2. ASSUME NEW q \in Pages, NEW g \in Frames
          PROVE  frame'[g].page_id = q <=> q \in Resident' /\ page_table'[q] = g
      <4>1. frame[g].page_id = q <=> q \in Resident /\ page_table[q] = g
        BY <2>1 DEF Sound, TableSound
      <4> QED
        BY <1>2, <1>3, <4>1
    <3> QED
      BY <3>1, <3>2 DEF TableSound
  <2>3. OffersUnpinned'
    BY <1>3, <2>1 DEF Sound, OffersUnpinned
  <2>4. PinsCounted'
    <3>1. \A g \in Frames : frame'[g].pin_count = Cardinality(HeldOn(g)')
      BY <1>4, <2>1 DEF Sound, PinsCounted
    <3>2. ASSUME NEW k \in Handles, handle'[k] # Idle
          PROVE  frame'[handle'[k].frame].page_id = handle'[k].page
      <4>1. handle' = handle
        BY <1>2
      <4>2. frame[handle[k].frame].page_id = handle[k].page
        BY <2>1, <3>2, <4>1 DEF Sound, PinsCounted
      <4>3. handle[k].frame \in Frames
        BY <1>1, <3>2, <4>1 DEF PoolShape
      <4> QED
        BY <4>1, <4>2, <4>3
    <3> QED
      BY <3>1, <3>2 DEF PinsCounted, HeldOn
  <2>5. ASSUME NEW q \in allocated' PROVE Remembered(q)'
    <3>1. q \in allocated /\ q \in Pages /\ Remembered(q) /\ ~spoiled
      BY <1>1, <1>2, <1>7, <2>1 DEF Sound, PoolShape
    <3>2. CASE q \notin Resident
      <4>1. disk'[q] = disk[q] /\ disk[q] = latest[q]
        BY <3>1, <3>2 DEF Remembered
      <4> QED
        BY <1>2, <1>3, <3>2, <4>1 DEF Remembered
    <3>3. CASE q \in Resident
      <4>1. PICK g \in Frames : g = page_table[q]
        BY <1>1, <3>3 DEF PoolShape
      <4>2. frame'[g].data = latest'[q]
        BY <1>2, <3>1, <3>3, <4>1 DEF Remembered
      <4>3. \/ disk'[q] = frame[g].data
            \/ disk'[q] = disk[q] /\ frame'[g].is_dirty = frame[g].is_dirty
        BY <3>1, <3>3, <4>1
      <4>4. frame[g].is_dirty \/ (\E h \in HeldOn(g) : handle[h].is_dirty) \/ disk[q] = latest[q]
        BY <3>1, <3>3, <4>1 DEF Remembered
      <4>5. frame'[g].is_dirty \/ (\E h \in HeldOn(g)' : handle'[h].is_dirty) \/ disk'[q] = latest'[q]
        BY <1>2, <1>4, <4>2, <4>3, <4>4
      <4> QED
        BY <1>2, <1>3, <3>3, <4>1, <4>2, <4>5 DEF Remembered
    <3> QED
      BY <3>2, <3>3
  <2> QED
    BY <2>2, <2>3, <2>4, <2>5 DEF Sound
<1> QED
  BY <1>5, <1>6, <1>7 DEF PoolInv

\* bpm_flush_page keeps the invariant.
LEMMA FlushPageInv ==
  ASSUME PoolInv, NEW p \in Pages, bpm_flush_page(p)
  PROVE  PoolInv'
<1>1. PoolShape /\ (~spoiled => Sound) /\ p \in Resident
  BY DEF PoolInv, bpm_flush_page
<1>2. PICK f \in Frames : f = page_table[p]
  BY <1>1 DEF PoolShape
<1>3. /\ disk' = [disk EXCEPT ![p] = frame[f].data]
      /\ frame' = [frame EXCEPT ![f].is_dirty = FALSE]
      /\ UNCHANGED <<page_table, free_list, lruVars, allocated, handle, running, histVars>>
  BY <1>2 DEF bpm_flush_page
<1>4. frame \in [Frames -> Frame] /\ disk \in [Pages -> Words] /\ frame[f] \in Frame
  BY <1>1 DEF PoolShape
<1>5. frame[f].data \in Words
  BY <1>4 DEF Frame
<1>6. disk' \in [Pages -> Words] /\ disk'[p] = frame[f].data
      /\ \A q \in Pages \ {p} : disk'[q] = disk[q]
  BY <1>3, <1>4, <1>5
<1>7. /\ frame' \in [Frames -> Frame]
      /\ frame'[f].page_id = frame[f].page_id /\ frame'[f].pin_count = frame[f].pin_count
      /\ frame'[f].data = frame[f].data
      /\ \A g \in Frames \ {f} : frame'[g] = frame[g]
  <2> DEFINE w == [frame[f] EXCEPT !.is_dirty = FALSE]
  <2>1. w \in Frame /\ w.page_id = frame[f].page_id /\ w.pin_count = frame[f].pin_count
        /\ w.data = frame[f].data
    BY <1>4 DEF Frame
  <2>2. frame' = [frame EXCEPT ![f] = w]
    BY <1>3
  <2> HIDE DEF w
  <2> QED
    BY <1>4, <2>1, <2>2
<1>8. \A g \in Frames : /\ frame'[g].page_id = frame[g].page_id
                        /\ frame'[g].pin_count = frame[g].pin_count
                        /\ frame'[g].data = frame[g].data
  BY <1>7
<1>9. ASSUME ~spoiled, NEW q \in Pages
      PROVE  /\ q \notin Resident => disk'[q] = disk[q]
             /\ \A g \in Frames : q \in Resident /\ page_table[q] = g =>
                  \/ disk'[q] = frame[g].data
                  \/ disk'[q] = disk[q] /\ frame'[g].is_dirty = frame[g].is_dirty
  <2>1. CASE q = p
    BY <1>1, <1>2, <1>6, <2>1
  <2>2. CASE q # p
    <3>1. \A g \in Frames : q \in Resident /\ page_table[q] = g => g # f
      BY <1>1, <1>2, <1>9, <2>2 DEF Sound, TableSound
    <3> QED
      BY <1>6, <1>7, <2>2, <3>1
  <2> QED
    BY <2>1, <2>2
<1> QED
  BY <1>3, <1>6, <1>7, <1>8, <1>9, FlushInv

\* What bpm_flush_all leaves on disk when every page has one frame.
LEMMA FlushedPages ==
  ASSUME PoolInv, ~spoiled, NEW d \in FlushedAll, NEW q \in Pages
  PROVE  /\ d \in [Pages -> Words]
         /\ q \notin Resident => d[q] = disk[q]
         /\ \A g \in Frames : q \in Resident /\ page_table[q] = g =>
              d[q] = IF frame[g].is_dirty THEN frame[g].data ELSE disk[q]
<1>1. PoolShape /\ Sound
  BY DEF PoolInv
<1> DEFINE D == {f \in Frames : frame[f].is_dirty /\ frame[f].page_id = q}
<1>2. d \in [Pages -> Words]
  BY DEF FlushedAll
<1>3. IF D = {} THEN d[q] = disk[q] ELSE \E f \in D : d[q] = frame[f].data
  BY DEF FlushedAll
<1>4. \A g \in Frames : g \in D <=> frame[g].is_dirty /\ q \in Resident /\ page_table[q] = g
  BY <1>1 DEF Sound, TableSound
<1>5. D \subseteq Frames
  OBVIOUS
<1> HIDE DEF D
<1>6. q \notin Resident => d[q] = disk[q]
  BY <1>3, <1>4, <1>5
<1>7. ASSUME NEW g \in Frames, q \in Resident, page_table[q] = g
      PROVE  d[q] = IF frame[g].is_dirty THEN frame[g].data ELSE disk[q]
  BY <1>3, <1>4, <1>5, <1>7
<1> QED
  BY <1>2, <1>6, <1>7

\* bpm_flush_all keeps the invariant.
LEMMA FlushAllInv ==
  ASSUME PoolInv, bpm_flush_all
  PROVE  PoolInv'
<1>1. PoolShape /\ disk' \in FlushedAll
  BY DEF PoolInv, bpm_flush_all
<1>2. disk' \in [Pages -> Words]
  BY <1>1 DEF FlushedAll
<1>3. UNCHANGED <<page_table, free_list, lruVars, allocated, handle, running, histVars>>
  BY DEF bpm_flush_all
<1>4. ASSUME NEW g \in Frames
      PROVE  /\ frame'[g] \in Frame
             /\ frame'[g].page_id = frame[g].page_id
             /\ frame'[g].pin_count = frame[g].pin_count
             /\ frame'[g].data = frame[g].data
             /\ frame'[g].is_dirty => frame[g].is_dirty /\ frame[g].page_id = NoPage
             /\ frame[g].is_dirty /\ frame[g].page_id = NoPage => frame'[g].is_dirty
  <2>1. frame[g] \in Frame
    BY <1>1 DEF PoolShape
  <2> DEFINE b == frame[g].is_dirty /\ frame[g].page_id = NoPage
  <2>2. b \in BOOLEAN
    BY <2>1 DEF Frame
  <2>3. frame'[g] = [frame[g] EXCEPT !.is_dirty = b]
    BY DEF bpm_flush_all
  <2> HIDE DEF b
  <2>4. frame'[g] \in Frame /\ frame'[g].is_dirty = b
        /\ frame'[g].page_id = frame[g].page_id
        /\ frame'[g].pin_count = frame[g].pin_count
        /\ frame'[g].data = frame[g].data
    BY <2>1, <2>2, <2>3 DEF Frame
  <2> QED
    BY <2>4 DEF b
<1>5. frame' \in [Frames -> Frame]
  BY <1>4 DEF bpm_flush_all
<1>6. ASSUME ~spoiled, NEW q \in Pages
      PROVE  /\ q \notin Resident => disk'[q] = disk[q]
             /\ \A g \in Frames : q \in Resident /\ page_table[q] = g =>
                  \/ disk'[q] = frame[g].data
                  \/ disk'[q] = disk[q] /\ frame'[g].is_dirty = frame[g].is_dirty
  <2>1. q \notin Resident => disk'[q] = disk[q]
    BY <1>1, <1>6, FlushedPages
  <2>2. \A g \in Frames : q \in Resident /\ page_table[q] = g =>
          disk'[q] = IF frame[g].is_dirty THEN frame[g].data ELSE disk[q]
    BY <1>1, <1>6, FlushedPages
  <2>3. \A g \in Frames : frame[g].is_dirty \in BOOLEAN /\ frame'[g].is_dirty \in BOOLEAN
    BY <1>1, <1>4 DEF PoolShape, Frame
  <2>4. \A g \in Frames : ~frame[g].is_dirty => frame'[g].is_dirty = frame[g].is_dirty
    BY <1>4, <2>3
  <2> QED
    BY <2>1, <2>2, <2>4
<1> QED
  BY <1>2, <1>3, <1>4, <1>5, <1>6, FlushInv

\* The free list of a new pool has every frame.
LEMMA AllFreeFacts == AllFree \in Seq(Frames) /\ RangeOf(AllFree) = Frames
<1> DEFINE n == Cardinality(Frames)
<1>1. n \in Nat /\ ExistsBijection(1 .. n, Frames)
  BY PoolAssumption, FS_CardinalityType
<1>2. PICK s : s \in Bijection(1 .. n, Frames)
  BY <1>1 DEF ExistsBijection
<1>3. s \in [1 .. n -> Frames] /\ RangeOf(s) = Frames
  BY <1>2 DEF Bijection, Injection, Surjection, RangeOf
<1>4. AllFree \in [1 .. n -> Frames] /\ RangeOf(AllFree) = Frames
  BY <1>3 DEF AllFree
<1> QED
  BY <1>1, <1>4

\* An empty pool on a file that has what was written.
EmptyPool ==
  /\ frame = [f \in Frames |-> EmptyFrame]
  /\ page_table = [p \in {} |-> NoFrame]
  /\ free_list = AllFree
  /\ cold = <<>> /\ hot = <<>>
  /\ \A h \in Handles : handle[h] = Idle
  /\ disk \in [Pages -> Words] /\ latest \in [Pages -> Words]
  /\ allocated \subseteq Pages
  /\ handle \in [Handles -> Guard]
  /\ running \in BOOLEAN /\ spoiled \in BOOLEAN
  /\ \A p \in allocated : disk[p] = latest[p]

\* A pool just initialised satisfies the invariant, whatever is on disk.
LEMMA EmptyPoolInv == EmptyPool => PoolInv
<1> SUFFICES ASSUME EmptyPool PROVE PoolInv
  OBVIOUS
<1> USE DEF EmptyPool
<1>1. EmptyFrame \in Frame /\ EmptyFrame.page_id = NoPage /\ EmptyFrame.pin_count = 0
  BY PoolAssumption DEF EmptyFrame, Frame
<1>2. Resident = {} /\ page_table \in [Resident -> Frames]
  BY DEF Resident
<1>3. Evictable = {} /\ ListsApart(cold, hot)
  BY DEF Evictable, RangeOf, ListsApart, Distinct
<1>4. PoolShape
  BY <1>1, <1>2, <1>3, AllFreeFacts DEF PoolShape
<1>5. NoFrameLost
  BY AllFreeFacts DEF NoFrameLost
<1>6. TableSound
  <2>1. \A p \in Pages, f \in Frames : frame[f].page_id # p
    BY <1>1, PoolAssumption
  <2> QED
    BY <1>2, <2>1 DEF TableSound
<1>7. OffersUnpinned
  BY <1>1, <1>3 DEF OffersUnpinned
<1>8. PinsCounted
  <2>1. ASSUME NEW f \in Frames PROVE frame[f].pin_count = Cardinality(HeldOn(f))
    <3>1. HeldOn(f) = {}
      BY <1>4, HeldFacts
    <3> QED
      BY <1>1, <3>1, FS_EmptySet
  <2> QED
    BY <2>1 DEF PinsCounted
<1>9. \A p \in allocated : Remembered(p)
  BY <1>2 DEF Remembered
<1> QED
  BY <1>4, <1>5, <1>6, <1>7, <1>8, <1>9 DEF PoolInv, Sound

\* Destroying the pool, which flushes it, and initialising it again keep the
\* invariant.
LEMMA RestartInv ==
  ASSUME PoolInv, bpm_restart
  PROVE  PoolInv'
<1>1. PoolShape
  BY DEF PoolInv
<1>2. /\ frame' = [f \in Frames |-> EmptyFrame] /\ page_table' = [p \in {} |-> NoFrame]
      /\ free_list' = AllFree /\ cold' = <<>> /\ hot' = <<>>
  BY DEF bpm_restart
<1>3. disk' \in FlushedAll /\ disk' \in [Pages -> Words]
  BY DEF bpm_restart, FlushedAll
<1>4. /\ latest' = [p \in Pages |-> IF spoiled THEN disk'[p] ELSE latest[p]]
      /\ spoiled' = FALSE /\ UNCHANGED <<allocated, handle, running>>
      /\ \A h \in Handles : handle[h] = Idle
  BY DEF bpm_restart
<1>5. latest' \in [Pages -> Words]
  BY <1>1, <1>3, <1>4 DEF PoolShape
<1>6. ASSUME NEW p \in allocated' PROVE disk'[p] = latest'[p]
  <2>1. p \in allocated /\ p \in Pages
    BY <1>1, <1>4 DEF PoolShape
  <2>2. CASE spoiled
    BY <1>4, <2>1, <2>2
  <2>3. CASE ~spoiled
    <3>1. latest'[p] = latest[p] /\ Remembered(p)
      BY <1>4, <2>1, <2>3 DEF PoolInv, Sound
    <3>2. CASE p \notin Resident
      BY <1>3, <2>1, <2>3, <3>1, <3>2, FlushedPages DEF Remembered
    <3>3. CASE p \in Resident
      <4>1. PICK g \in Frames : g = page_table[p]
        BY <1>1, <3>3 DEF PoolShape
      <4>2. HeldOn(g) = {}
        BY <1>1, <1>4, HeldFacts
      <4>3. frame[g].data = latest[p] /\ (frame[g].is_dirty \/ disk[p] = latest[p])
        BY <3>1, <3>3, <4>1, <4>2 DEF Remembered
      <4>4. disk'[p] = IF frame[g].is_dirty THEN frame[g].data ELSE disk[p]
        BY <1>3, <2>1, <2>3, <3>3, <4>1, FlushedPages
      <4> QED
        BY <3>1, <4>3, <4>4
    <3> QED
      BY <3>2, <3>3
  <2> QED
    BY <2>2, <2>3
<1>7. EmptyPool'
  BY <1>1, <1>2, <1>3, <1>4, <1>5, <1>6 DEF EmptyPool, PoolShape
<1> QED
  BY <1>7, EmptyPoolInv, PTL

-----------------------------------------------------------------------------
(* The theorems *)

\* The first pool satisfies the invariant.
LEMMA InitInv == PoolInit => PoolInv
<1> SUFFICES ASSUME PoolInit PROVE PoolInv
  OBVIOUS
<1>1. /\ disk \in [Pages -> Words] /\ latest \in [Pages -> Words]
      /\ allocated \subseteq Pages /\ handle \in [Handles -> Guard]
      /\ running \in BOOLEAN /\ spoiled \in BOOLEAN
      /\ \A p \in allocated : disk[p] = latest[p]
      /\ \A h \in Handles : handle[h] = Idle
  BY PoolAssumption DEF PoolInit, Guard, Idle
<1> QED
  BY <1>1, EmptyPoolInv DEF PoolInit, EmptyPool

\* Every call of a client keeps the invariant.
LEMMA NextInv == PoolInv /\ [PoolNext]_poolVars => PoolInv'
<1> SUFFICES ASSUME PoolInv, [PoolNext]_poolVars PROVE PoolInv'
  OBVIOUS
<1>1. CASE UNCHANGED poolVars
  <2>1. running' \in BOOLEAN
    BY <1>1 DEF PoolInv, PoolShape, poolVars
  <2> QED
    BY <1>1, <2>1, StutterInv DEF poolVars
<1>2. CASE \E h \in Handles, p \in Pages :
             handle[h] = Idle /\ (bpm_fetch_page(h, p) \/ bpm_new_page(h, p))
  BY <1>2, FetchHitInv, FetchMissInv, NewPageInv DEF bpm_fetch_page
<1>3. CASE bpm_fetch_missing
  BY <1>3, FetchMissingInv
<1>4. CASE \E h \in Handles, x \in Words, mark \in BOOLEAN : Write(h, x, mark)
  BY <1>4, WriteInv
<1>5. CASE \E h \in Handles : Release(h)
  BY <1>5, ReleaseInv
<1>6. CASE \E p \in Pages : bpm_flush_page(p)
  BY <1>6, FlushPageInv
<1>7. CASE bpm_flush_all
  BY <1>7, FlushAllInv
<1>8. CASE bpm_restart
  BY <1>8, RestartInv
<1> QED
  BY <1>1, <1>2, <1>3, <1>4, <1>5, <1>6, <1>7, <1>8 DEF PoolNext

\* Whatever the clients fetch, write, give back and flush, in whatever order,
\* with restarts in between: buffer_pool_manager.c keeps its invariant.
THEOREM PoolInvariance == PoolSpec => []PoolInv
<1> QED
  BY InitInv, NextInv, PTL DEF PoolSpec

\* Fields, page table and lists stay within their ranges, in a spoiled pool too.
THEOREM PoolTypes == PoolSpec => []PoolTypeOK
<1> QED
  BY PoolInvariance, PoolInvMeaning, PTL

\* The page table and the frames of buffer_pool_manager.c say the same.
THEOREM PoolTableExact == PoolSpec => []PageTableExact
<1> QED
  BY PoolInvariance, PoolInvMeaning, PTL

\* lru_replacer.c offers the resident frames nobody pins, each once.
THEOREM PoolReplacerExact == PoolSpec => []ReplacerExact
<1> QED
  BY PoolInvariance, PoolInvMeaning, PTL

\* bpm_fetch_page and bpm_unpin_page count pins right, and a pinned page stays
\* in its frame.
THEOREM PoolPinsStay == PoolSpec => []PinnedPagesStay
<1> QED
  BY PoolInvariance, PoolInvMeaning, PTL

\* Eviction, flushing and restarting lose no write a client made.
THEOREM PoolKeepsWrites == PoolSpec => []NoLostWrite
<1> QED
  BY PoolInvariance, PoolInvMeaning, PTL

\* A frame without pins can be obtained again, in a spoiled pool too.
THEOREM PoolKeepsFrames == PoolSpec => []NoFrameLost
<1> QED
  BY PoolInvariance, PoolInvMeaning, PTL
=============================================================================
