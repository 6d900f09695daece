----------------------------- MODULE BPlusTree -----------------------------
(***************************************************************************)
(* The index of src/index: a B+ tree whose nodes are pages of the buffer   *)
(* pool (b_plus_tree.c, b_plus_tree_node.c) and a cursor over its chain of *)
(* leaves (index_iterator.c).  Removal leaves nodes as empty as they get.  *)
(*                                                                         *)
(* The pool is represented by what it promises: a page can be fetched when *)
(* it is pinned already or some frame is not.  find_leaf leaves the leaf   *)
(* it returns pinned and most callers do not unpin it (leaked); with every *)
(* frame pinned, lookups fail and splits follow a null pointer (halted).   *)
(***************************************************************************)
EXTENDS Integers, FiniteSets, SequencesExt

CONSTANTS
  Keys,
  RidsOf,          \* bound: key -> the row ids stored under it
  Ranges,          \* bound: the <<lowest key, highest key>> cursors are opened for
  MaxPages,        \* bound: pages the tree can have
  MaxLevels,       \* bound: levels of the tree, and of a descent: path[64] in the code
  PoolSizes,       \* bound: the numbers of frames a pool may have
  leaf_max_keys, internal_max_keys

ASSUME TreeAssumption ==
  /\ IsFiniteSet(Keys) /\ Keys \subseteq Int /\ Keys # {} /\ Ranges \subseteq Keys \X Keys
  /\ MaxPages \in Nat /\ MaxLevels \in Nat \ {0} /\ PoolSizes \subseteq Nat \ {0}
  /\ leaf_max_keys \in Nat \ {0} /\ internal_max_keys \in Nat \ {0, 1}

VARIABLES
  nodes,           \* sequence: the pages of the tree in the order of their making
  root_page_id,    \* b_plus_tree_t.root_page_id
  is_unique,       \* b_plus_tree_t.is_unique
  pool_size,       \* buffer_pool_manager_t.pool_size
  leaked,          \* pages with pins that nobody will give back
  halted,          \* the process followed a null pointer
  starved,         \* history: an operation did not get a frame
  it,              \* index_iterator_t
  seen,            \* history: keys the cursor has returned
  due              \* history: keys it has to return, see IteratorMissesNothing

settings == <<is_unique, pool_size>>
treeVars == <<nodes, root_page_id, settings>>
poolVars == <<leaked, halted, starved>>
iterVars == <<it, seen, due>>
indexVars == <<treeVars, poolVars, iterVars>>

INVALID_PAGE_ID == -1
Pages == DOMAIN nodes
Rids == UNION {RidsOf[k] : k \in Keys}

\* What step makes of a, n times over.
Iterated(step, a, k) ==
  LET f[n \in 0 .. k] == IF n = 0 THEN a ELSE step[f[n - 1]] IN f

Leaf(keys, rids, next) == [leaf |-> TRUE, keys |-> keys, rids |-> rids, next |-> next]
Internal(keys, child) == [leaf |-> FALSE, keys |-> keys, child |-> child]

-----------------------------------------------------------------------------
(* b_plus_tree_node.c.  The binary searches are given by what they compute   *)
(* on sorted keys, which SearchAgrees includes.                              *)

\* Mutant of the next definition: < where the search has <=.
internal_find_position_Below(n, key) == Cardinality({i \in DOMAIN n.keys : n.keys[i] < key})

\* The number of keys not above key: the child to follow, counted from 0.
internal_find_position(n, key) == Cardinality({i \in DOMAIN n.keys : n.keys[i] <= key})

\* The number of keys below key: where key is or belongs, counted from 0.
leaf_find_position(n, key) == Cardinality({i \in DOMAIN n.keys : n.keys[i] < key})

Child(n, key) == n.child[internal_find_position(n, key) + 1]

\* Mutant of the next definition: the new child goes to the left of its key.
internal_insert_Left(n, pos, key, page) ==
  Internal(InsertAt(n.keys, pos + 1, key), InsertAt(n.child, pos + 1, page))

internal_insert(n, pos, key, page) ==
  Internal(InsertAt(n.keys, pos + 1, key), InsertAt(n.child, pos + 2, page))

leaf_insert(n, pos, key, rid) ==
  Leaf(InsertAt(n.keys, pos + 1, key), InsertAt(n.rids, pos + 1, rid), n.next)

leaf_remove(n, pos) ==
  Leaf(RemoveAt(n.keys, pos + 1), RemoveAt(n.rids, pos + 1), n.next)

leaf_set_rid(n, pos, rid) == Leaf(n.keys, [n.rids EXCEPT ![pos + 1] = rid], n.next)

\* The position of key in leaf n is taken by key.
Has(n, key) ==
  LET pos == leaf_find_position(n, key) IN pos < Len(n.keys) /\ n.keys[pos + 1] = key

-----------------------------------------------------------------------------
(* find_leaf *)

\* From a page to the one below it towards key, from a leaf to itself.
Down(key) == [p \in Pages |-> IF nodes[p].leaf THEN p ELSE Child(nodes[p], key)]

\* The pages on the way from the root, at place 0, to the leaf for key, which
\* then repeats.
Path(key) == Iterated(Down(key), root_page_id, MaxLevels - 1)

LeafFor(key) == Path(key)[MaxLevels - 1]

\* How many levels are above the leaves.
Height(key) == Cardinality({n \in DOMAIN Path(key) : ~nodes[Path(key)[n]].leaf})

FrameLeft(pinned) == Cardinality(pinned) < pool_size
Fetchable == IF FrameLeft(leaked) THEN Pages ELSE leaked
CanFetch(p) == p \in Fetchable

\* Every page on the way could be fetched.
Reached(key) == \A n \in DOMAIN Path(key) : CanFetch(Path(key)[n])

\* find_leaf and the fetch, use and single unpin of the leaf by its caller.
LeavesPin(key) == leaked' = leaked \cup {LeafFor(key)} /\ UNCHANGED <<halted, starved>>

\* find_leaf finds no frame: the caller answers with an error, or "not found".
NotReached(key) ==
  ~Reached(key) /\ starved' = TRUE /\ UNCHANGED <<treeVars, leaked, halted, iterVars>>

-----------------------------------------------------------------------------
(* Splits *)

\* Mutant of Linked: the chain behind the old leaf is dropped.
Linked_Cut(n) == INVALID_PAGE_ID

\* What the new leaf links to: what the old one did.
Linked(n) == n.next

\* split_leaf of the overfull leaf n, its upper half going to the new page.
LeftLeaf(n, page) ==
  LET mid == Len(n.keys) \div 2 IN Leaf(SubSeq(n.keys, 1, mid), SubSeq(n.rids, 1, mid), page)
RightLeaf(n) ==
  LET mid == Len(n.keys) \div 2
  IN  Leaf(SubSeq(n.keys, mid + 1, Len(n.keys)), SubSeq(n.rids, mid + 1, Len(n.rids)), Linked(n))

\* The split of an overfull internal node in insert_into_parent: the key at mid
\* moves up and stays in neither half.
LeftInternal(n) ==
  LET mid == Len(n.keys) \div 2 IN Internal(SubSeq(n.keys, 1, mid), SubSeq(n.child, 1, mid + 1))

RightInternal(n) ==
  LET mid == Len(n.keys) \div 2
  IN  Internal(SubSeq(n.keys, mid + 2, Len(n.keys)), SubSeq(n.child, mid + 2, Len(n.child)))

\* A split in progress: the nodes so far, the key to insert one level up and
\* the page to the right of it, INVALID_PAGE_ID when the level above took it.
LeafSplit(p, full) ==
  LET new == Len(nodes) + 1 IN
  [nodes |-> Append([nodes EXCEPT ![p] = LeftLeaf(full, new)], RightLeaf(full)),
   key |-> RightLeaf(full).keys[1], right |-> new]

\* One level of insert_into_parent, at page p of the path to key.
AtParent(s, p, key) ==
  LET wide == internal_insert(s.nodes[p], internal_find_position(s.nodes[p], key), s.key, s.right)
      new == Len(s.nodes) + 1
  IN  IF s.right = INVALID_PAGE_ID THEN s
      ELSE IF Len(s.nodes[p].keys) < internal_max_keys
      THEN [nodes |-> [s.nodes EXCEPT ![p] = wide], key |-> s.key, right |-> INVALID_PAGE_ID]
      ELSE [nodes |-> Append([s.nodes EXCEPT ![p] = LeftInternal(wide)], RightInternal(wide)),
            key |-> wide.keys[Len(wide.keys) \div 2 + 1], right |-> new]

\* insert_into_parent up the path to key: what becomes of the split of the leaf
\* n levels above it.
Propagated(key, split) ==
  LET up[n \in 0 .. Height(key)] ==
        IF n = 0 THEN split ELSE AtParent(up[n - 1], Path(key)[Height(key) - n], key)
  IN  up[Height(key)]

\* The root itself was split: a new one is made above the halves.
Rooted(s) ==
  IF s.right = INVALID_PAGE_ID THEN [nodes |-> s.nodes, root |-> root_page_id]
  ELSE [nodes |-> Append(s.nodes, Internal(<<s.key>>, <<root_page_id, s.right>>)),
        root |-> Len(s.nodes) + 1]

\* Whether the split reaches an internal node that is full: one more frame is
\* needed while that node is pinned.
SplitsParent(key) ==
  /\ Height(key) > 0
  /\ Len(nodes[Path(key)[Height(key) - 1]].keys) = internal_max_keys

-----------------------------------------------------------------------------
(* The operations *)

\* bpt_find, and bpt_find_range for keys from key: nothing changes but pins.
bpt_find(key) ==
  \/ NotReached(key)
  \/ Reached(key) /\ LeavesPin(key) /\ UNCHANGED <<treeVars, iterVars>>

\* The leaf is put in place of the one for key.
LeafBecomes(key, n) ==
  nodes' = [nodes EXCEPT ![LeafFor(key)] = n] /\ UNCHANGED <<root_page_id, settings>>

\* The key is there.  Updating its row id is the one path that gives back both
\* pins.
InsertPresent(key, rid) ==
  LET n == nodes[LeafFor(key)] IN
  /\ Has(n, key)
  /\ \/ is_unique /\ LeavesPin(key) /\ UNCHANGED treeVars
     \/ /\ ~is_unique
        /\ LeafBecomes(key, leaf_set_rid(n, leaf_find_position(n, key), rid))
        /\ UNCHANGED poolVars

WithEntry(key, rid) ==
  LET n == nodes[LeafFor(key)] IN leaf_insert(n, leaf_find_position(n, key), key, rid)

InsertRoom(key, rid) ==
  /\ LET n == nodes[LeafFor(key)] IN ~Has(n, key) /\ Len(n.keys) < leaf_max_keys
  /\ LeafBecomes(key, WithEntry(key, rid))
  /\ LeavesPin(key)

\* The leaf is full: it takes the entry all the same and is split, and so are
\* the full nodes above it.  bpm_new_page is not asked whether it found a frame.
InsertSplit(key, rid) ==
  LET p == LeafFor(key)
      pinned == leaked \cup {p}
      after == Rooted(Propagated(key, LeafSplit(p, WithEntry(key, rid))))
      enough == /\ FrameLeft(pinned)
                /\ SplitsParent(key) => Cardinality(pinned) + 1 < pool_size
  IN /\ ~Has(nodes[p], key)
     /\ Len(nodes[p].keys) = leaf_max_keys
     /\ \/ /\ enough
           /\ Len(after.nodes) <= MaxPages
           /\ after.root # root_page_id => Height(key) + 1 < MaxLevels
           /\ nodes' = after.nodes /\ root_page_id' = after.root
           /\ LeavesPin(key)
           /\ UNCHANGED settings
        \/ ~enough /\ halted' = TRUE /\ starved' = TRUE /\ UNCHANGED <<treeVars, leaked>>

bpt_insert(key, rid) ==
  \/ NotReached(key)
  \/ /\ Reached(key)
     /\ InsertPresent(key, rid) \/ InsertRoom(key, rid) \/ InsertSplit(key, rid)
     /\ UNCHANGED iterVars

\* No node is merged or redistributed.
bpt_remove(key) ==
  LET n == nodes[LeafFor(key)] IN
  \/ NotReached(key)
  \/ /\ Reached(key) /\ LeavesPin(key)
     /\ \/ ~Has(n, key) /\ UNCHANGED <<treeVars, iterVars>>
        \/ /\ Has(n, key)
           /\ LeafBecomes(key, leaf_remove(n, leaf_find_position(n, key)))
           /\ due' = {}
           /\ UNCHANGED <<it, seen>>

-----------------------------------------------------------------------------
(* index_iterator.c *)

NoIterator == [exhausted |-> TRUE, page |-> INVALID_PAGE_ID, index |-> 0, high |-> 0]

\* The leaves in the order of their links, from the one for the least keys on;
\* INVALID_PAGE_ID past the last.
NextLeaf ==
  [p \in Pages \cup {INVALID_PAGE_ID} |->
     IF p # INVALID_PAGE_ID /\ nodes[p].leaf THEN nodes[p].next ELSE INVALID_PAGE_ID]
LeafChain == Iterated(NextLeaf, LeafFor(Min(Keys) - 1), Len(nodes))

\* The entries a lookup finds.
Found(key, p) ==
  {<<nodes[p].keys[i], nodes[p].rids[i]>> : i \in {i \in DOMAIN nodes[p].keys : nodes[p].keys[i] = key}}
Entries == UNION {Found(key, LeafFor(key)) : key \in Keys}
Present == {e[1] : e \in Entries}

\* Mutant of the next definition: the place in the old leaf is kept.
Onward_Kept(p, i) ==
  IF i < Len(nodes[p].keys) THEN [page |-> p, index |-> i]
  ELSE [page |-> nodes[p].next, index |-> i]

\* A place past the end of its leaf is moved to the next leaf, once.
Onward(p, i) ==
  IF i < Len(nodes[p].keys) THEN [page |-> p, index |-> i]
  ELSE [page |-> nodes[p].next, index |-> 0]

index_iterator_init(low, high) ==
  LET leaf == LeafFor(low)
      at == Onward(leaf, leaf_find_position(nodes[leaf], low)) IN
  /\ it.exhausted
  /\ \/ NotReached(low)
     \/ /\ Reached(low) /\ LeavesPin(low)
        /\ it' = IF at.page = INVALID_PAGE_ID THEN NoIterator
                 ELSE [exhausted |-> FALSE, page |-> at.page, index |-> at.index, high |-> high]
        /\ seen' = {}
        /\ due' = {k \in Present : low <= k /\ k <= high}
        /\ UNCHANGED treeVars

\* Where the next entry is, and whether there is one to return.
At == Onward(it.page, it.index)
AtEntry ==
  /\ At.page \in Pages
  /\ LET n == nodes[At.page] IN At.index < Len(n.keys) /\ n.keys[At.index + 1] <= it.high

Exhausted == it' = NoIterator /\ seen' = {} /\ due' = {} /\ UNCHANGED <<treeVars, leaked, halted>>

IteratorRow ==
  /\ CanFetch(it.page) /\ AtEntry /\ CanFetch(At.page)
  /\ it' = [exhausted |-> FALSE, page |-> At.page, index |-> At.index + 1, high |-> it.high]
  /\ seen' = seen \cup {nodes[At.page].keys[At.index + 1]}
  /\ UNCHANGED <<treeVars, poolVars, due>>

IteratorEnd ==
  /\ CanFetch(it.page) /\ (At.page \in Pages => CanFetch(At.page)) /\ ~AtEntry
  /\ Exhausted /\ UNCHANGED starved

\* A fetch that fails is answered like the end.
IteratorStarved ==
  /\ ~CanFetch(it.page) \/ (At.page \in Pages /\ ~CanFetch(At.page))
  /\ Exhausted /\ starved' = TRUE

index_iterator_next == ~it.exhausted /\ (IteratorRow \/ IteratorEnd \/ IteratorStarved)

index_iterator_destroy == ~it.exhausted /\ Exhausted /\ UNCHANGED starved

-----------------------------------------------------------------------------
(* Specification *)

\* bpt_init with a new root.
TreeInit ==
  /\ nodes = <<Leaf(<<>>, <<>>, INVALID_PAGE_ID)>>
  /\ root_page_id = 1
  /\ is_unique \in BOOLEAN /\ pool_size \in PoolSizes
  /\ leaked = {} /\ halted = FALSE /\ starved = FALSE
  /\ it = NoIterator /\ seen = {} /\ due = {}

TreeNext ==
  /\ ~halted
  /\ \/ \E key \in Keys :
          \/ bpt_find(key) \/ bpt_remove(key)
          \/ \E rid \in RidsOf[key] : bpt_insert(key, rid)
     \/ \E range \in Ranges : index_iterator_init(range[1], range[2])
     \/ index_iterator_next
     \/ index_iterator_destroy

TreeSpec == TreeInit /\ [][TreeNext]_indexVars

-----------------------------------------------------------------------------
(* Properties *)

\* Every node has the shape of its kind and no more keys than a page takes.
TreeTypeOK ==
  /\ \A p \in Pages :
        LET n == nodes[p] IN
        IF n.leaf
        THEN /\ n.keys \in Seq(Keys) /\ Len(n.keys) <= leaf_max_keys
             /\ n.rids \in Seq(Rids) /\ Len(n.rids) = Len(n.keys)
             /\ n.next \in Pages \cup {INVALID_PAGE_ID}
        ELSE /\ n.keys \in Seq(Keys) /\ Len(n.keys) \in 1 .. internal_max_keys
             /\ n.child \in Seq(Pages) /\ Len(n.child) = Len(n.keys) + 1
  /\ root_page_id \in Pages /\ leaked \subseteq Pages

\* A lookup, which goes down, and a range, which goes along the leaves, see the
\* same entries, whatever was inserted, split and removed: the chain has every
\* leaf and its keys ascend, those a descent finds are all of them, and none
\* that a range must return lies before the leaf where it starts.
SearchAgrees ==
  LET chain == LeafChain
      Leaves == {p \in Pages : nodes[p].leaf}
      Onto == {n \in DOMAIN chain : chain[n] # INVALID_PAGE_ID}
      KeysOf(n) == ToSet(nodes[chain[n]].keys)
  IN /\ Onto # DOMAIN chain /\ {chain[n] : n \in Onto} = Leaves
     /\ \A p \in Leaves : \A i, j \in DOMAIN nodes[p].keys :
          i < j => nodes[p].keys[i] < nodes[p].keys[j]
     /\ \A m, n \in Onto : m < n => \A k \in KeysOf(m), l \in KeysOf(n) : k < l
     /\ UNION {KeysOf(n) : n \in Onto} = Present
     /\ \A key \in Keys : \E n \in Onto :
          /\ chain[n] = LeafFor(key)
          /\ \A m \in Onto : m < n => \A k \in KeysOf(m) : k < key

\* Both of it: what bpt_insert and bpt_remove keep of the nodes.
TreeSound == TreeTypeOK /\ SearchAgrees

\* A cursor returns what was there all the while, although keys are inserted
\* and leaves split under it; it stops early only at an empty leaf.  Removals
\* shift entries past it: after one nothing is due.
IteratorMissesNothing ==
  [][index_iterator_next =>
       /\ ~it'.exhausted =>
             \E k \in Present : seen' = seen \cup {k} /\ k <= it.high
       /\ it'.exhausted /\ ~starved' =>
             due \subseteq seen \/ (At.page \in Pages /\ nodes[At.page].keys = <<>>)]_indexVars

\* The tree implements a map until the pool runs out of frames.
Map == INSTANCE IndexMap WITH
  entries <- IF starved THEN {} ELSE Entries,
  unique <- is_unique,
  up <- ~starved

ImplementsMap == Map!MapSpec
=============================================================================
