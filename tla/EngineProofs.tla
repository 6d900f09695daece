---------------------------- MODULE EngineProofs ----------------------------
(***************************************************************************)
(* The execution engine, its catalog, the bytes of rows and the values in  *)
(* them, for any names, schemas, pages and statements, any evaluator and   *)
(* planner, and integers and doubles of any width.                         *)
(*                                                                         *)
(* CatalogInv: MapsAgree and RootsApart are not inductive: a new table     *)
(* must get an id and a new index a page that nothing has, so the          *)
(* invariant adds that ids are below those to be given out and where the   *)
(* maps take their values.                                                 *)
(*                                                                         *)
(* TellingInv: ChangeExact and InsertExact are not inductive: the heap of  *)
(* the statement must be the one its table starts on, and no other table's *)
(* (EngineInv); and for an INSERT, what is said of the rows at hand is     *)
(* said of any row, so that it survives the next (InsertTold).             *)
(*                                                                         *)
(* TypedInv: that the engine implements SqlTables needs to know what the   *)
(* bytes in a heap are: each row was written as a row of values, so that   *)
(* what is read of it fits the table, and what assignments make of it does *)
(* too.                                                                    *)
(*                                                                         *)
(* That the row read back is the row given rests on ReadsBack, where       *)
(* tuple_deserialize undoes tuple_serialize, and on CastIs, the types      *)
(* value_cast_to yields.  Recursive functions of the model are unfolded by *)
(* lemmas of their own (PowersAre, DigitsAre, NumberIs, OffsetsAre) from   *)
(* DescentExists and module Induction.                                     *)
(***************************************************************************)
EXTENDS Engine, ValueCalls, Induction, FiniteSetTheorems, SequenceTheorems

(* The catalog *)

TableMeta == [name : Names, root_page_id : PageIds \cup {INVALID_PAGE_ID}, type : {"user", "system"}]
IndexMeta == [name : IndexNames, table_id : Nat, column_id : Nat, root_page_id : PageIds]

MapsTyped ==
  /\ name_to_id \in [DOMAIN name_to_id -> Nat]
  /\ table_cache \in [DOMAIN table_cache -> TableMeta] /\ DOMAIN table_cache \subseteq Nat
  /\ schema_cache \in [DOMAIN schema_cache -> Schemas]
  /\ index_cache \in [DOMAIN index_cache -> IndexMeta] /\ DOMAIN index_cache \subseteq Nat
  /\ id_gen \in [table : Nat, index : Nat]
  /\ allocated \subseteq PageIds

IdsBelow ==
  /\ \A tid \in DOMAIN table_cache : tid < id_gen.table
  /\ \A iid \in DOMAIN index_cache : iid < id_gen.index

CatalogInv == MapsTyped /\ IdsBelow /\ MapsAgree /\ RootsApart

-----------------------------------------------------------------------------

\* A name looked up in a schema yields 0 or the position of a column.
LEMMA FoundInSchema ==
  ASSUME NEW schema \in Seq([name : ColumnNames, type : ColumnTypes, max_length : Nat]), NEW column
  PROVE  schema_find_column(schema, column) \in {0} \cup DOMAIN schema
<1> DEFINE named == {i \in DOMAIN schema : schema[i].name = column}
<1>1. CASE named = {}
  BY <1>1 DEF schema_find_column
<1>2. CASE named # {}
  <2>1. named \in SUBSET Nat
    OBVIOUS
  <2>2. \E i \in named : \A j \in named : i <= j
    <3> DEFINE S == 1 .. Len(schema)
               T == {1 .. i : i \in named}
    <3>1. IsWellFoundedOn(StrictSubsetOrdering(S), SUBSET S)
      <4>1. IsFiniteSet(S)
        BY FS_Interval
      <4> HIDE DEF S
      <4> QED
        BY <4>1, FS_FiniteSubsetsOfFinite, FS_StrictSubsetOrderingWellFounded
    <3>2. T \subseteq SUBSET S /\ T # {}
      BY <1>2
    <3>3. PICK x \in T : \A y \in T : ~(<<y, x>> \in StrictSubsetOrdering(S))
      <4> HIDE DEF T
      <4> QED
        BY <3>1, <3>2, WFMin
    <3>4. PICK i \in named : x = 1 .. i
      OBVIOUS
    <3>5. ASSUME NEW j \in named PROVE i <= j
      <4>1. SUFFICES ASSUME j < i PROVE FALSE
        BY <2>1
      <4>2. 1 .. j \subseteq 1 .. i /\ i \in 1 .. i /\ i \notin 1 .. j
        BY <4>1, <2>1
      <4>3. <<1 .. j, 1 .. i>> \in StrictSubsetOrdering(S)
        BY <3>2, <3>4, <4>2 DEF StrictSubsetOrdering
      <4> QED
        BY <3>3, <3>4, <4>3
    <3> QED
      BY <3>5
  <2>3. (CHOOSE i \in named : \A j \in named : i <= j) \in named
    BY <2>2
  <2> QED
    BY <1>2, <2>3 DEF schema_find_column
<1> QED
  BY <1>1, <1>2

\* The catalog of catalog_init.
LEMMA InitCatalogInv == CatalogInit => CatalogInv
<1> SUFFICES ASSUME CatalogInit PROVE CatalogInv
  OBVIOUS
<1> USE CatalogAssumption DEF CatalogInit, catalog_init
<1>1. \A tid \in 0 .. 2 : \E n \in SystemTables : SystemId[n] = tid
  BY DEF SystemTables, SystemId
<1>2. \A tid \in 0 .. 2 : table_cache[tid].name \in SystemTables /\ SystemId[table_cache[tid].name] = tid
  BY <1>1
<1>3. \A n \in SystemTables : SystemId[n] \in 0 .. 2 /\ table_cache[SystemId[n]].name = n
  <2>1. \A n, m \in SystemTables : SystemId[n] = SystemId[m] => n = m
    BY DEF SystemTables, SystemId
  <2>2. \A n \in SystemTables : SystemId[n] \in 0 .. 2
    BY DEF SystemTables, SystemId
  <2> QED
    BY <1>2, <2>1, <2>2
<1>4. MapsTyped
  <2>1. name_to_id \in [DOMAIN name_to_id -> Nat]
    BY <1>3 DEF SystemId
  <2>2. table_cache \in [DOMAIN table_cache -> TableMeta] /\ DOMAIN table_cache \subseteq Nat
    BY <1>2 DEF TableMeta
  <2> QED
    BY <2>1, <2>2 DEF MapsTyped
<1>5. IdsBelow
  BY DEF IdsBelow
<1>6. MapsAgree
  <2>1. DOMAIN name_to_id = {table_cache[tid].name : tid \in DOMAIN table_cache}
    BY <1>2, <1>3 DEF SystemId
  <2> QED
    BY <1>2, <2>1 DEF MapsAgree
<1>7. RootsApart
  BY DEF RootsApart, Roots, Rooted, TableRoot
<1> QED
  BY <1>4, <1>5, <1>6, <1>7 DEF CatalogInv

-----------------------------------------------------------------------------
(* One lemma for each function of catalog.c that changes the maps *)

\* catalog_create_table of a name that is free, for a schema of CREATE TABLE.
LEMMA CreateTableInv ==
  ASSUME CatalogInv, NEW name \in Names, NEW schema \in Schemas,
         name \notin DOMAIN name_to_id,
         catalog_create_table(name, schema), allocated' = allocated
  PROVE  CatalogInv'
<1> DEFINE tid == id_gen.table
<1> USE DEF CatalogInv, catalog_create_table, hashmap_put
<1>1. tid \in Nat /\ tid \notin DOMAIN table_cache /\ tid \notin DOMAIN schema_cache
  BY DEF MapsTyped, IdsBelow, MapsAgree
<1>2. MapsTyped'
  BY <1>1 DEF MapsTyped, TableMeta
<1>3. IdsBelow'
  BY <1>1 DEF IdsBelow, MapsTyped
<1>4. MapsAgree'
  <2>1. /\ DOMAIN table_cache' = DOMAIN table_cache \cup {tid}
        /\ table_cache'[tid] = [name |-> name, root_page_id |-> INVALID_PAGE_ID, type |-> "user"]
        /\ \A uid \in DOMAIN table_cache : table_cache'[uid] = table_cache[uid]
    BY <1>1
  <2>2. /\ DOMAIN name_to_id' = DOMAIN name_to_id \cup {name}
        /\ name_to_id'[name] = tid
        /\ \A n \in DOMAIN name_to_id : name_to_id'[n] = name_to_id[n]
    OBVIOUS
  <2>3. /\ DOMAIN schema_cache' = DOMAIN schema_cache \cup {tid}
        /\ \A uid \in DOMAIN schema_cache : schema_cache'[uid] = schema_cache[uid]
    BY <1>1
  <2>4. DOMAIN name_to_id' = {table_cache'[uid].name : uid \in DOMAIN table_cache'}
    <3>1. {table_cache'[uid].name : uid \in DOMAIN table_cache'}
          = {table_cache[uid].name : uid \in DOMAIN table_cache} \cup {name}
      <4>1. table_cache'[tid].name = name
        BY <2>1
      <4> HIDE DEF tid
      <4> QED
        BY <2>1, <4>1
    <3> QED
      BY <2>2, <3>1 DEF MapsAgree
  <2>5. \A uid \in DOMAIN table_cache' : name_to_id'[table_cache'[uid].name] = uid
    <3>1. \A uid \in DOMAIN table_cache : table_cache[uid].name \in DOMAIN name_to_id
      BY DEF MapsAgree
    <3> QED
      BY <2>1, <2>2, <3>1 DEF MapsAgree
  <2>6. DOMAIN schema_cache' = {uid \in DOMAIN table_cache' : table_cache'[uid].type = "user"}
    BY <1>1, <2>1, <2>3 DEF MapsAgree
  <2>7. \A iid \in DOMAIN index_cache :
           /\ index_cache[iid].table_id \in DOMAIN schema_cache'
           /\ index_cache[iid].column_id \in DOMAIN schema_cache'[index_cache[iid].table_id]
    BY <2>3 DEF MapsAgree
  <2> QED
    BY <2>4, <2>5, <2>6, <2>7 DEF MapsAgree
<1>5. Rooted' = Rooted /\ \A uid \in Rooted : TableRoot(uid)' = TableRoot(uid)
  BY <1>1 DEF Rooted, TableRoot
<1>6. RootsApart'
  <2>1. Roots' = Roots
    BY <1>5 DEF Roots
  <2> QED
    BY <1>5, <2>1 DEF RootsApart
<1> QED
  BY <1>2, <1>3, <1>4, <1>6

\* catalog_drop_table of a name that is there.
LEMMA DropTableInv ==
  ASSUME CatalogInv, NEW name \in DOMAIN name_to_id,
         catalog_drop_table(name), allocated' = allocated
  PROVE  CatalogInv'
<1> DEFINE tid == TableId(name)
<1> USE DEF CatalogInv, catalog_drop_table, hashmap_remove
<1>1. tid \in DOMAIN table_cache /\ table_cache[tid].name = name
  BY DEF MapsAgree, TableId
<1>2. DOMAIN table_cache' = DOMAIN table_cache \ {tid}
      /\ \A uid \in DOMAIN table_cache' : table_cache'[uid] = table_cache[uid]
  OBVIOUS
<1>3. DOMAIN index_cache' = {iid \in DOMAIN index_cache : index_cache[iid].table_id # tid}
      /\ \A iid \in DOMAIN index_cache' : index_cache'[iid] = index_cache[iid]
  BY DEF catalog_get_table_indexes
<1>4. MapsTyped'
  BY <1>2, <1>3 DEF MapsTyped
<1>5. IdsBelow'
  BY <1>2, <1>3 DEF IdsBelow
<1>6. MapsAgree'
  BY <1>1, <1>2, <1>3 DEF MapsAgree
<1>7. Rooted' \subseteq Rooted /\ \A uid \in Rooted' : TableRoot(uid)' = TableRoot(uid)
  BY <1>2 DEF Rooted, TableRoot
<1>8. RootsApart'
  <2>1. Roots' \subseteq Roots
    BY <1>3, <1>7 DEF Roots
  <2> QED
    BY <1>3, <1>7, <2>1 DEF RootsApart
<1> QED
  BY <1>4, <1>5, <1>6, <1>8

\* catalog_update_root_page with a page nothing starts on.
LEMMA RootPageInv ==
  ASSUME CatalogInv, NEW tid \in DOMAIN table_cache, NEW page \in allocated \ Roots,
         catalog_update_root_page(tid, page), allocated' = allocated
  PROVE  CatalogInv'
<1> USE DEF CatalogInv, catalog_update_root_page
<1>1. /\ DOMAIN table_cache' = DOMAIN table_cache
      /\ table_cache'[tid] = [table_cache[tid] EXCEPT !.root_page_id = page]
      /\ \A uid \in DOMAIN table_cache \ {tid} : table_cache'[uid] = table_cache[uid]
      /\ table_cache' \in [DOMAIN table_cache -> TableMeta]
  <2>1. page \in PageIds /\ table_cache[tid] \in TableMeta
    BY DEF MapsTyped
  <2>2. [table_cache[tid] EXCEPT !.root_page_id = page] \in TableMeta
    BY <2>1 DEF TableMeta
  <2> QED
    BY <2>2 DEF MapsTyped
<1>2. \A uid \in DOMAIN table_cache : /\ table_cache'[uid].name = table_cache[uid].name
                                     /\ table_cache'[uid].type = table_cache[uid].type
  BY <1>1 DEF MapsTyped, TableMeta
<1>3. MapsTyped' /\ IdsBelow'
  BY <1>1 DEF MapsTyped, IdsBelow
<1>4. MapsAgree'
  <2>1. {table_cache'[uid].name : uid \in DOMAIN table_cache'} = {table_cache[uid].name : uid \in DOMAIN table_cache}
    BY <1>1, <1>2
  <2>2. {uid \in DOMAIN table_cache' : table_cache'[uid].type = "user"} = {uid \in DOMAIN table_cache : table_cache[uid].type = "user"}
    BY <1>1, <1>2
  <2> QED
    BY <1>1, <1>2, <2>1, <2>2 DEF MapsAgree
<1>5. /\ Rooted' \subseteq Rooted \cup {tid}
      /\ TableRoot(tid)' = page
      /\ \A uid \in Rooted' \ {tid} : TableRoot(uid)' = TableRoot(uid)
  BY <1>1 DEF Rooted, TableRoot, MapsTyped, TableMeta
<1>6. RootsApart'
  <2>1. Roots' \subseteq Roots \cup {page}
    BY <1>5 DEF Roots
  <2>2. \A uid \in Rooted : TableRoot(uid) # page
    BY DEF Roots
  <2>3. \A iid \in DOMAIN index_cache : index_cache[iid].root_page_id # page
    BY DEF Roots
  <2> QED
    BY <1>5, <2>1, <2>2, <2>3 DEF RootsApart
<1> QED
  BY <1>3, <1>4, <1>6

\* catalog_create_index on a new page, for a table with a schema.
LEMMA CreateIndexInv ==
  ASSUME CatalogInv, NEW name \in IndexNames, NEW tid \in DOMAIN schema_cache,
         NEW column \in DOMAIN schema_cache[tid], NEW page \in PageIds \ allocated,
         IndexesNamed(name) = {},
         catalog_create_index(name, tid, column, page),
         allocated' = allocated \cup {page}
  PROVE  CatalogInv'
<1> DEFINE iid == id_gen.index
<1> USE DEF CatalogInv, catalog_create_index, hashmap_put
<1>1. iid \in Nat /\ iid \notin DOMAIN index_cache
  BY DEF MapsTyped, IdsBelow
<1>2. /\ DOMAIN index_cache' = DOMAIN index_cache \cup {iid}
      /\ index_cache'[iid] = [name |-> name, table_id |-> tid, column_id |-> column, root_page_id |-> page]
      /\ \A jid \in DOMAIN index_cache : index_cache'[jid] = index_cache[jid]
  BY <1>1
<1>3. tid \in Nat /\ column \in Nat
  <2>1. schema_cache[tid] \in Seq([name : ColumnNames, type : ColumnTypes, max_length : Nat])
    BY CatalogAssumption DEF MapsTyped
  <2> QED
    BY <2>1 DEF MapsTyped, MapsAgree
<1>4. MapsTyped'
  BY <1>1, <1>2, <1>3 DEF MapsTyped, IndexMeta
<1>5. IdsBelow'
  BY <1>1, <1>2 DEF IdsBelow, MapsTyped
<1>6. MapsAgree'
  <2>1. \A jid \in DOMAIN index_cache : index_cache[jid].name # name
    BY DEF IndexesNamed
  <2> QED
    BY <1>2, <2>1 DEF MapsAgree
<1>7. RootsApart'
  <2>1. Rooted' = Rooted /\ \A uid \in Rooted : TableRoot(uid)' = TableRoot(uid)
    BY DEF Rooted, TableRoot
  <2>2. Roots' \subseteq Roots \cup {page}
    <3>1. {TableRoot(uid)' : uid \in Rooted'} = {TableRoot(uid) : uid \in Rooted}
      BY <2>1
    <3>2. {index_cache'[jid].root_page_id : jid \in DOMAIN index_cache'}
          \subseteq {index_cache[jid].root_page_id : jid \in DOMAIN index_cache} \cup {page}
      BY <1>2
    <3>3. Roots' = {TableRoot(uid)' : uid \in Rooted'}
                   \cup {index_cache'[jid].root_page_id : jid \in DOMAIN index_cache'}
      BY DEF Roots
    <3> QED
      BY <3>1, <3>2, <3>3 DEF Roots
  <2>3. \A uid \in Rooted : TableRoot(uid) # page
    BY DEF Roots, RootsApart
  <2>4. \A jid \in DOMAIN index_cache : index_cache[jid].root_page_id # page
    BY DEF Roots, RootsApart
  <2> QED
    BY <1>2, <2>1, <2>2, <2>3, <2>4 DEF RootsApart
<1> QED
  BY <1>4, <1>5, <1>6, <1>7

\* catalog_drop_index.
LEMMA DropIndexInv ==
  ASSUME CatalogInv, NEW iid \in DOMAIN index_cache,
         catalog_drop_index(iid), allocated' = allocated
  PROVE  CatalogInv'
<1> USE DEF CatalogInv, catalog_drop_index, hashmap_remove
<1>1. /\ DOMAIN index_cache' = DOMAIN index_cache \ {iid}
      /\ \A jid \in DOMAIN index_cache' : index_cache'[jid] = index_cache[jid]
  OBVIOUS
<1>2. MapsTyped' /\ IdsBelow' /\ MapsAgree'
  BY <1>1 DEF MapsTyped, IdsBelow, MapsAgree
<1>3. RootsApart'
  <2>1. Rooted' = Rooted /\ \A uid \in Rooted : TableRoot(uid)' = TableRoot(uid)
    BY DEF Rooted, TableRoot
  <2>2. Roots' \subseteq Roots
    BY <1>1, <2>1 DEF Roots
  <2> QED
    BY <1>1, <2>1, <2>2 DEF RootsApart
<1> QED
  BY <1>2, <1>3

\* A page more is handed out, or nothing changes.
LEMMA MorePagesInv ==
  ASSUME CatalogInv, UNCHANGED mapVars, allocated \subseteq allocated', allocated' \subseteq PageIds
  PROVE  CatalogInv'
<1> USE DEF CatalogInv, mapVars
<1>1. MapsTyped' /\ IdsBelow' /\ MapsAgree'
  BY DEF MapsTyped, IdsBelow, MapsAgree
<1>2. RootsApart'
  <2>1. Rooted' = Rooted /\ Roots' = Roots /\ \A uid \in Rooted : TableRoot(uid)' = TableRoot(uid)
    BY DEF Rooted, TableRoot, Roots
  <2> QED
    BY <2>1 DEF RootsApart
<1> QED
  BY <1>1, <1>2

-----------------------------------------------------------------------------

\* One step for each use of the catalog.
LEMMA NextCatalogInv == CatalogInv /\ [CatalogNext]_<<mapVars, allocated>> => CatalogInv'
<1> SUFFICES ASSUME CatalogInv, [CatalogNext]_<<mapVars, allocated>> PROVE CatalogInv'
  OBVIOUS
<1>0. allocated \subseteq PageIds
  BY DEF CatalogInv, MapsTyped
<1>1. CASE \E name \in Names, schema \in Schemas : CreateTable(name, schema)
  <2>1. PICK name \in Names, schema \in Schemas : CreateTable(name, schema)
    BY <1>1
  <2>2. CASE name \in DOMAIN name_to_id
    BY <1>0, <2>1, <2>2, MorePagesInv DEF CreateTable
  <2>3. CASE name \notin DOMAIN name_to_id
    BY <2>1, <2>3, CreateTableInv DEF CreateTable
  <2> QED
    BY <2>2, <2>3
<1>2. CASE \E name \in Names : DropTable(name)
  <2>1. PICK name \in Names : DropTable(name)
    BY <1>2
  <2>2. CASE name \notin DOMAIN name_to_id
    BY <1>0, <2>1, <2>2, MorePagesInv DEF DropTable
  <2>3. CASE name \in DOMAIN name_to_id
    BY <2>1, <2>3, DropTableInv DEF DropTable
  <2> QED
    BY <2>2, <2>3
<1>3. CASE \E name \in Names : RootSynced(name)
  <2>1. PICK name \in Names : RootSynced(name)
    BY <1>3
  <2>2. TableId(name) \in DOMAIN table_cache
    BY <2>1 DEF RootSynced, HasSchema, Known, TableId
  <2> QED
    BY <2>1, <2>2, RootPageInv DEF RootSynced
<1>4. CASE \E index \in IndexNames, table \in Names, column \in ColumnNames : CreateIndex(index, table, column)
  <2>1. PICK index \in IndexNames, table \in Names, column \in ColumnNames : CreateIndex(index, table, column)
    BY <1>4
  <2>2. CASE UNCHANGED mapVars
    BY <1>0, <2>1, <2>2, MorePagesInv DEF CreateIndex
  <2>3. CASE ~UNCHANGED mapVars
    <3> DEFINE found == schema_find_column(schema_cache[TableId(table)], column)
    <3>1. PICK page \in PageIds \ allocated :
            /\ allocated' = allocated \cup {page}
            /\ IndexVerdict(index, table, column) = "DB_OK"
            /\ catalog_create_index(index, TableId(table), found, page)
      BY <2>1, <2>3 DEF CreateIndex
    <3>2. HasSchema(table) /\ found # 0 /\ IndexesNamed(index) = {}
      BY <3>1 DEF IndexVerdict
    <3>3. TableId(table) \in DOMAIN schema_cache
      BY <3>2 DEF HasSchema
    <3>4. found \in DOMAIN schema_cache[TableId(table)]
      <4>1. schema_cache[TableId(table)] \in Seq([name : ColumnNames, type : ColumnTypes, max_length : Nat])
        BY <3>3, CatalogAssumption DEF CatalogInv, MapsTyped
      <4> QED
        BY <3>2, <4>1, FoundInSchema
    <3> HIDE DEF found
    <3> QED
      BY <3>1, <3>2, <3>3, <3>4, CreateIndexInv
  <2> QED
    BY <2>2, <2>3
<1>5. CASE \E index \in IndexNames : DropIndex(index)
  <2>1. PICK index \in IndexNames : DropIndex(index)
    BY <1>5
  <2>2. CASE IndexesNamed(index) = {}
    BY <1>0, <2>1, <2>2, MorePagesInv DEF DropIndex
  <2>3. CASE IndexesNamed(index) # {}
    <3>1. PICK iid \in IndexesNamed(index) : catalog_drop_index(iid) /\ allocated' = allocated
      BY <2>1, <2>3 DEF DropIndex
    <3> QED
      BY <3>1, DropIndexInv DEF IndexesNamed
  <2> QED
    BY <2>2, <2>3
<1>6. CASE FirstPage
  BY <1>0, <1>6, MorePagesInv DEF FirstPage
<1>7. CASE UNCHANGED <<mapVars, allocated>>
  BY <1>0, <1>7, MorePagesInv
<1> QED
  BY <1>1, <1>2, <1>3, <1>4, <1>5, <1>6, <1>7 DEF CatalogNext

\* Names, ids, schemas and indexes go together and nothing shares its first
\* page, whatever tables and indexes were created and dropped: catalog.c,
\* used as execute_ddl and execute_dml use it.
THEOREM CatalogStaysConsistent == CatalogSpec => []CatalogConsistent
<1>1. CatalogInv => CatalogConsistent
  BY DEF CatalogInv, CatalogConsistent
<1> QED
  BY <1>1, InitCatalogInv, NextCatalogInv, PTL DEF CatalogSpec
-----------------------------------------------------------------------------
(* The engine: statements, heaps and the catalog *)

\* A record with exactly these fields.
Record(r, fields) == DOMAIN r = fields /\ r = [f \in fields |-> r[f]]
IsSlots(s) == \E S : s \in Seq(S)

InsertFields == {"op", "table", "rows", "row", "failed", "root", "before", "affected"}
ChangeFields == {"op", "table", "root", "slot", "set", "predicate", "before", "affected"}

\* Heaps start on pages that were handed out, and every table has one.
HeapsTyped ==
  /\ DOMAIN heaps \subseteq allocated
  /\ heaps = [p \in DOMAIN heaps |-> heaps[p]]
  /\ \A p \in DOMAIN heaps : IsSlots(heaps[p])
  /\ \A tid \in Rooted : TableRoot(tid) \in DOMAIN heaps

RunningOn(root) ==
  /\ HasSchema(run.table)
  /\ IF TableRoot(TableId(run.table)) = INVALID_PAGE_ID THEN root \notin Roots
     ELSE root = TableRoot(TableId(run.table))

InsertRuns ==
  /\ Record(run, InsertFields)
  /\ run.op = "INSERT"
  /\ RunningOn(run.root)
  /\ run.root \in DOMAIN heaps \cup {INVALID_PAGE_ID}
  /\ \E s \in Statements : s.op = "INSERT" /\ s.rows = run.rows
  /\ run.row \in Nat /\ run.affected = run.row
  /\ IsSlots(run.before)

ChangeRuns ==
  /\ Record(run, ChangeFields)
  /\ run.op \in {"UPDATE", "DELETE"}
  /\ HasSchema(run.table) /\ run.root = TableRoot(TableId(run.table))
  /\ run.slot \in Nat /\ run.affected \in Nat
  /\ IsSlots(run.before)

EngineInv == CatalogInv /\ HeapsTyped /\ (run = Idle \/ InsertRuns \/ ChangeRuns)

\* The kinds of a run exclude each other.
LEMMA RunKinds ==
  /\ run = Idle => run.op = "NONE"
  /\ InsertRuns => run.op = "INSERT"
  /\ ChangeRuns => run.op \in {"UPDATE", "DELETE"}
BY DEF Idle, InsertRuns, ChangeRuns

\* The engine starts with an empty catalog and no heaps.
LEMMA InitEngineInv == EngineInit => EngineInv
<1> SUFFICES ASSUME EngineInit PROVE EngineInv
  OBVIOUS
<1>1. CatalogInv
  BY InitCatalogInv DEF EngineInit
<1>2. HeapsTyped
  <2>1. Rooted = {}
    BY DEF EngineInit, CatalogInit, catalog_init, Rooted, TableRoot
  <2> QED
    BY <2>1 DEF EngineInit, HeapsTyped
<1> QED
  BY <1>1, <1>2 DEF EngineInv, EngineInit

\* What the maps stand for does not change while they do not.
LEMMA SameMaps ==
  ASSUME UNCHANGED mapVars
  PROVE  /\ Rooted' = Rooted /\ Roots' = Roots
         /\ \A tid : TableRoot(tid)' = TableRoot(tid)
         /\ \A n : TableId(n)' = TableId(n) /\ (HasSchema(n)' <=> HasSchema(n))
<1>1. Rooted' = Rooted /\ \A tid : TableRoot(tid)' = TableRoot(tid)
  BY DEF mapVars, Rooted, TableRoot
<1>2. Roots' = Roots
  BY <1>1 DEF mapVars, Roots
<1>3. \A n : TableId(n)' = TableId(n) /\ (HasSchema(n)' <=> HasSchema(n))
  BY DEF mapVars, TableId, HasSchema, Known
<1> QED
  BY <1>1, <1>2, <1>3

\* The slots of a heap with a row more.
LEMMA SlotsWith ==
  ASSUME NEW slots, IsSlots(slots), NEW image, NEW new \in HeapsWith(slots, image)
  PROVE  IsSlots(new)
<1>1. PICK S : slots \in Seq(S)
  BY DEF IsSlots
<1> DEFINE T == S \cup {image}
<1>2. slots \in Seq(T)
  <2>1. \A i \in 1 .. Len(slots) : slots[i] \in T
    BY <1>1
  <2> QED
    BY <1>1, <2>1
<1>3. CASE new = slots
  BY <1>3
<1>4. ASSUME NEW k \in 0 .. Len(slots),
             new = SubSeq(slots, 1, k) \o <<image>> \o SubSeq(slots, k + 1, Len(slots))
      PROVE  IsSlots(new)
  <2>1. SubSeq(slots, 1, k) \in Seq(T) /\ SubSeq(slots, k + 1, Len(slots)) \in Seq(T) /\ <<image>> \in Seq(T)
    <3> HIDE DEF T
    <3>1. image \in T
      BY DEF T
    <3>2. \A i \in 1 .. k : slots[i] \in T
      BY <1>2
    <3>3. \A i \in k + 1 .. Len(slots) : slots[i] \in T
      BY <1>2
    <3> QED
      BY <1>2, <3>1, <3>2, <3>3
  <2> HIDE DEF T
  <2>2. new \in Seq(T)
    BY <1>4, <2>1
  <2> QED
    BY <2>2 DEF IsSlots
<1> QED
  BY <1>3, <1>4 DEF HeapsWith

\* A slot that is overwritten leaves a sequence of slots.
LEMMA SlotsSet ==
  ASSUME NEW slots, IsSlots(slots), NEW i \in 1 .. Len(slots), NEW image
  PROVE  IsSlots([slots EXCEPT ![i] = image])
<1>1. PICK S : slots \in Seq(S)
  BY DEF IsSlots
<1>2. [slots EXCEPT ![i] = image] \in Seq(S \cup {image})
  BY <1>1
<1> QED
  BY <1>2 DEF IsSlots

\* A table with a schema is in every map of the catalog.
LEMMA HasSchemaNamed ==
  ASSUME CatalogInv, NEW name, HasSchema(name)
  PROVE  /\ name \in Names /\ name \in DOMAIN name_to_id
         /\ TableId(name) \in DOMAIN table_cache /\ table_cache[TableId(name)].name = name
         /\ TableId(name) \in DOMAIN schema_cache /\ schema_cache[TableId(name)] \in Schemas
<1>1. name \in DOMAIN name_to_id /\ TableId(name) \in DOMAIN table_cache /\ TableId(name) \in DOMAIN schema_cache
  BY DEF HasSchema, Known, TableId
<1>2. PICK tid \in DOMAIN table_cache : table_cache[tid].name = name
  BY <1>1 DEF CatalogInv, MapsAgree
<1>3. name_to_id[name] = tid
  BY <1>2 DEF CatalogInv, MapsAgree
<1>4. name \in Names
  BY <1>2 DEF CatalogInv, MapsTyped, TableMeta
<1>5. schema_cache[TableId(name)] \in Schemas
  BY <1>1 DEF CatalogInv, MapsTyped
<1> QED
  BY <1>1, <1>2, <1>3, <1>4, <1>5 DEF TableId

\* The page a heap starts on: none of those handed out, or its own.
LEMMA FirstPagesFresh ==
  ASSUME EngineInv, InsertRuns, NEW page \in FirstPages
  PROVE  /\ page \in PageIds /\ page # INVALID_PAGE_ID
         /\ run.root # INVALID_PAGE_ID => page = run.root /\ page \in DOMAIN heaps /\ page \in allocated
         /\ run.root = INVALID_PAGE_ID => page \notin allocated /\ page \notin DOMAIN heaps
<1>1. allocated \subseteq PageIds /\ DOMAIN heaps \subseteq allocated
  BY DEF EngineInv, CatalogInv, MapsTyped, HeapsTyped
<1>2. INVALID_PAGE_ID \notin PageIds
  BY CatalogAssumption DEF INVALID_PAGE_ID
<1>3. run.root \in DOMAIN heaps \cup {INVALID_PAGE_ID}
  BY DEF InsertRuns
<1> QED
  BY <1>1, <1>2, <1>3 DEF FirstPages

\* Every step uses the catalog as module Catalog has it.
LEMMA EngineUsesCatalog ==
  ASSUME EngineInv, EngineNext
  PROVE  [CatalogNext]_<<mapVars, allocated>>
<1>1. ASSUME NEW s \in Statements, Execute(s) PROVE [CatalogNext]_<<mapVars, allocated>>
  <2>1. CASE s.op = "CREATE TABLE" /\ CreateTable(s.table, s.columns)
    BY <2>1, StatementsAssumption DEF CatalogNext
  <2>2. CASE s.op = "DROP TABLE" /\ DropTable(s.table)
    BY <2>2, StatementsAssumption DEF CatalogNext
  <2>3. CASE s.op = "CREATE INDEX" /\ CreateIndex(s.index, s.table, s.column)
    BY <2>3, StatementsAssumption DEF CatalogNext
  <2>4. CASE s.op = "DROP INDEX" /\ DropIndex(s.index)
    BY <2>4, StatementsAssumption DEF CatalogNext
  <2>5. CASE s.op = "INSERT" /\ StartInsert(s)
    BY <2>5 DEF StartInsert
  <2>6. CASE s.op \in {"UPDATE", "DELETE"} /\ StartChange(s)
    BY <2>6 DEF StartChange, Die
  <2>7. CASE s.op = "ROLLBACK" /\ Refuse("DB_OK") /\ UNCHANGED <<mapVars, allocated, heaps>>
    BY <2>7
  <2> QED
    BY <1>1, <2>1, <2>2, <2>3, <2>4, <2>5, <2>6, <2>7 DEF Execute, Defines
<1>2. ASSUME run.op = "INSERT" PROVE InsertRuns
  BY <1>2, RunKinds DEF EngineInv
<1>3. CASE InsertRow
  <2>1. InsertRuns
    BY <1>2, <1>3 DEF InsertRow, NextInserts
  <2>2. PICK page \in FirstPages : allocated' = allocated \cup {page}
    BY <1>3 DEF InsertRow
  <2>3. UNCHANGED <<mapVars, answer>>
    BY <1>3 DEF InsertRow
  <2>4. CASE run.root # INVALID_PAGE_ID
    BY <2>1, <2>2, <2>3, <2>4, FirstPagesFresh
  <2>5. CASE run.root = INVALID_PAGE_ID
    <3>1. page \in PageIds \ allocated
      BY <2>1, <2>5, FirstPagesFresh
    <3> QED
      BY <2>2, <2>3, <3>1 DEF CatalogNext, FirstPage
  <2> QED
    BY <2>4, <2>5
<1>4. CASE InsertFails
  <2>1. InsertRuns
    BY <1>2, <1>4 DEF InsertFails, NextInserts
  <2>2. PICK page \in FirstPages \cup {run.root} : allocated' = allocated \cup ({page} \ {INVALID_PAGE_ID})
    BY <1>4 DEF InsertFails
  <2>3. UNCHANGED <<mapVars, answer>>
    BY <1>4 DEF InsertFails
  <2>4. CASE page = run.root
    <3>1. {page} \ {INVALID_PAGE_ID} \subseteq allocated
      BY <2>1, <2>4 DEF InsertRuns, EngineInv, HeapsTyped
    <3> QED
      BY <2>2, <2>3, <3>1
  <2>5. CASE page # run.root
    <3>1. page \in PageIds \ allocated /\ page # INVALID_PAGE_ID
      BY <2>1, <2>2, <2>5, FirstPagesFresh
    <3> QED
      BY <2>2, <2>3, <3>1 DEF CatalogNext, FirstPage
  <2> QED
    BY <2>4, <2>5
<1>5. CASE InsertEnds
  <2>1. InsertRuns
    BY <1>2, <1>5 DEF InsertEnds
  <2>2. CASE UNCHANGED mapVars
    BY <1>5, <2>2 DEF InsertEnds
  <2>3. CASE ~UNCHANGED mapVars
    <3>1. /\ run.root # INVALID_PAGE_ID /\ TableRoot(TableId(run.table)) = INVALID_PAGE_ID
          /\ catalog_update_root_page(TableId(run.table), run.root)
      BY <1>5, <2>3 DEF InsertEnds, RootSync
    <3>2. run.root \in allocated \ Roots /\ HasSchema(run.table)
      BY <2>1, <3>1 DEF InsertRuns, RunningOn, EngineInv, HeapsTyped
    <3>3. run.table \in Names
      BY <3>2, HasSchemaNamed DEF EngineInv
    <3>4. answer' \in [rc : {"DB_OK"}, affected : Nat]
      BY <1>5, <2>1 DEF InsertEnds, Finish, InsertRuns
    <3>5. RootSynced(run.table)
      BY <1>5, <3>1, <3>2, <3>4 DEF RootSynced, InsertEnds
    <3> QED
      BY <3>3, <3>5 DEF CatalogNext
  <2> QED
    BY <2>2, <2>3
<1>6. CASE InsertDies \/ ChangeDies
  BY <1>6 DEF InsertDies, ChangeDies, Die
<1>7. CASE DeleteRow \/ UpdateRow \/ UpdatePasses \/ ChangeEnds
  BY <1>7 DEF DeleteRow, UpdateRow, UpdatePasses, ChangeEnds, catalogVars
<1> QED
  BY <1>1, <1>3, <1>4, <1>5, <1>6, <1>7 DEF EngineNext

\* The statements that define leave every first page as it was.
LEMMA DefinesRoots ==
  ASSUME CatalogInv, NEW s \in Statements,
         \/ CreateTable(s.table, s.columns) \/ DropTable(s.table)
         \/ CreateIndex(s.index, s.table, s.column) \/ DropIndex(s.index)
  PROVE  /\ allocated \subseteq allocated'
         /\ Rooted' \subseteq Rooted /\ \A tid \in Rooted' : TableRoot(tid)' = TableRoot(tid)
<1> DEFINE Kept == Rooted' \subseteq Rooted /\ \A tid \in Rooted' : TableRoot(tid)' = TableRoot(tid)
<1>1. UNCHANGED table_cache => Kept
  BY DEF Rooted, TableRoot
<1>2. CASE CreateTable(s.table, s.columns)
  <2>1. CASE catalog_create_table(s.table, s.columns)
    <3>1. id_gen.table \notin DOMAIN table_cache
      BY DEF CatalogInv, IdsBelow, MapsTyped
    <3>2. Kept
      BY <2>1, <3>1 DEF catalog_create_table, hashmap_put, Rooted, TableRoot
    <3> QED
      BY <1>2, <3>2 DEF CreateTable
  <2> QED
    BY <1>1, <1>2, <2>1 DEF CreateTable, mapVars
<1>3. CASE DropTable(s.table)
  <2>1. CASE catalog_drop_table(s.table)
    BY <1>3, <2>1 DEF catalog_drop_table, hashmap_remove, Rooted, TableRoot, DropTable
  <2> QED
    BY <1>1, <1>3, <2>1 DEF DropTable, mapVars
<1>4. CASE CreateIndex(s.index, s.table, s.column)
  <2>1. UNCHANGED table_cache
    BY <1>4 DEF CreateIndex, catalog_create_index, mapVars
  <2> QED
    BY <1>1, <1>4, <2>1 DEF CreateIndex
<1>5. CASE DropIndex(s.index)
  <2>1. UNCHANGED table_cache
    BY <1>5 DEF DropIndex, catalog_drop_index, mapVars
  <2> QED
    BY <1>1, <1>5, <2>1 DEF DropIndex
<1> QED
  BY <1>2, <1>3, <1>4, <1>5

\* The slots of a table, wherever it starts.
LEMMA TableSlots ==
  ASSUME HeapsTyped, NEW root, root # INVALID_PAGE_ID => root \in DOMAIN heaps
  PROVE  IsSlots(Slots(root))
<1>1. <<>> \in Seq({})
  OBVIOUS
<1> QED
  BY <1>1 DEF Slots, IsSlots, HeapsTyped

\* The heap of a table with a schema is there once the table has a first page.
LEMMA RootSlots ==
  ASSUME EngineInv, NEW n, HasSchema(n)
  PROVE  /\ TableRoot(TableId(n)) # INVALID_PAGE_ID => TableRoot(TableId(n)) \in DOMAIN heaps
         /\ IsSlots(Slots(TableRoot(TableId(n))))
<1>1. TableId(n) \in DOMAIN table_cache
  BY HasSchemaNamed DEF EngineInv
<1>2. TableRoot(TableId(n)) # INVALID_PAGE_ID => TableRoot(TableId(n)) \in DOMAIN heaps
  BY <1>1 DEF EngineInv, HeapsTyped, Rooted
<1> QED
  BY <1>2, TableSlots DEF EngineInv

\* While the catalog rests and heaps keep their pages, heaps stay well-formed.
LEMMA HeapsStay ==
  ASSUME HeapsTyped, UNCHANGED mapVars, allocated \subseteq allocated',
         DOMAIN heaps \subseteq DOMAIN heaps', DOMAIN heaps' \subseteq allocated',
         heaps' = [p \in DOMAIN heaps' |-> heaps'[p]],
         \A p \in DOMAIN heaps' : IsSlots(heaps'[p])
  PROVE  HeapsTyped'
BY SameMaps DEF HeapsTyped

\* execution_engine_execute: a statement starts, or is done at once.
LEMMA ExecuteInv ==
  ASSUME EngineInv, CatalogInv', NEW s \in Statements, Execute(s)
  PROVE  EngineInv'
<1>0. run = Idle
  BY DEF Execute, Ready
<1>1. ASSUME CreateTable(s.table, s.columns) \/ CreateIndex(s.index, s.table, s.column) \/ DropIndex(s.index),
             UNCHANGED <<heaps, run, alive>>
      PROVE  EngineInv'
  <2>1. HeapsTyped'
    BY <1>1, DefinesRoots DEF EngineInv, HeapsTyped
  <2> QED
    BY <1>0, <1>1, <2>1 DEF EngineInv, Idle
<1>2. ASSUME DropTable(s.table), Forget, UNCHANGED <<run, alive>>
      PROVE  EngineInv'
  <2>1. /\ allocated \subseteq allocated'
        /\ Rooted' \subseteq Rooted /\ \A tid \in Rooted' : TableRoot(tid)' = TableRoot(tid)
    BY <1>2, DefinesRoots DEF EngineInv
  <2>2. heaps' = [p \in DOMAIN heaps \cap Roots' |-> heaps[p]]
    BY <1>2 DEF Forget, hashmap_remove
  <2>3. \A tid \in Rooted' : TableRoot(tid)' \in Roots'
    BY DEF Roots
  <2>4. HeapsTyped'
    BY <2>1, <2>2, <2>3 DEF EngineInv, HeapsTyped
  <2> QED
    BY <1>0, <1>2, <2>4 DEF EngineInv, Idle
<1>3. ASSUME UNCHANGED <<mapVars, allocated, heaps>>, run' = Idle
      PROVE  EngineInv'
  <2>1. HeapsTyped'
    BY <1>3, HeapsStay DEF EngineInv, HeapsTyped
  <2> QED
    BY <1>3, <2>1 DEF EngineInv, Idle
<1>4. ASSUME s.op = "INSERT", StartInsert(s)
      PROVE  EngineInv'
  <2>1. CASE run' = Idle
    BY <1>3, <1>4, <2>1 DEF StartInsert
  <2>2. CASE run' # Idle
    <3> DEFINE root == TableRoot(TableId(s.table))
    <3>1. /\ HasSchema(s.table)
          /\ run' = [op |-> "INSERT", table |-> s.table, rows |-> s.rows, row |-> 0, failed |-> FALSE,
                     root |-> root, before |-> Slots(root), affected |-> 0]
          /\ UNCHANGED <<mapVars, allocated, heaps>>
      BY <1>4, <2>2 DEF StartInsert, Refuse
    <3>2. HeapsTyped'
      BY <3>1, HeapsStay DEF EngineInv, HeapsTyped
    <3>3. (root # INVALID_PAGE_ID => root \in DOMAIN heaps) /\ IsSlots(Slots(root))
      BY <3>1, RootSlots
    <3>4. RunningOn(run.root)'
      <4>1. INVALID_PAGE_ID \notin Roots
        <5>1. \A tid \in Rooted : TableRoot(tid) # INVALID_PAGE_ID
          BY DEF Rooted
        <5>2. \A iid \in DOMAIN index_cache : index_cache[iid].root_page_id # INVALID_PAGE_ID
          BY CatalogAssumption DEF EngineInv, CatalogInv, MapsTyped, IndexMeta, INVALID_PAGE_ID
        <5> QED
          BY <5>1, <5>2 DEF Roots
      <4>2. run'.root = root /\ run'.table = s.table
        BY <3>1
      <4> HIDE DEF root
      <4> QED
        BY <3>1, <4>1, <4>2, SameMaps DEF RunningOn, root
    <3>5. InsertRuns'
      <4>1. /\ Record(run', InsertFields) /\ run'.op = "INSERT" /\ run'.root = root /\ run'.rows = s.rows
            /\ run'.row = 0 /\ run'.affected = 0 /\ run'.before = Slots(root)
        BY <3>1 DEF Record, InsertFields
      <4> HIDE DEF root
      <4> QED
        BY <1>4, <3>1, <3>3, <3>4, <4>1 DEF InsertRuns
    <3> QED
      BY <3>2, <3>5 DEF EngineInv
  <2> QED
    BY <2>1, <2>2
<1>5. ASSUME StartChange(s), s.op \in {"UPDATE", "DELETE"}
      PROVE  EngineInv'
  <2>1. CASE UNCHANGED <<mapVars, allocated, heaps>> /\ run' = run
    BY <1>0, <1>3, <2>1
  <2>2. CASE UNCHANGED <<mapVars, allocated, heaps>> /\ run' = Idle
    BY <1>3, <2>2
  <2>3. CASE ~(UNCHANGED <<mapVars, allocated, heaps>> /\ run' \in {run, Idle})
    <3> DEFINE root == TableRoot(TableId(s.table))
    <3>1. PICK predicate :
          /\ HasSchema(s.table)
          /\ run' = [op |-> s.op, table |-> s.table, root |-> root, slot |-> 0,
                     set |-> IF s.op = "UPDATE" THEN s.set ELSE <<>>,
                     predicate |-> predicate, before |-> Slots(root), affected |-> 0]
          /\ UNCHANGED <<mapVars, allocated, heaps>>
      BY <1>5, <2>3 DEF StartChange, Refuse, Die
    <3>2. HeapsTyped'
      BY <3>1, HeapsStay DEF EngineInv, HeapsTyped
    <3>3. IsSlots(Slots(root))
      BY <3>1, RootSlots
    <3>4. ChangeRuns'
      <4>1. /\ Record(run', ChangeFields) /\ run'.op = s.op /\ run'.root = root /\ run'.table = s.table
            /\ run'.slot = 0 /\ run'.affected = 0 /\ run'.before = Slots(root)
        BY <3>1 DEF Record, ChangeFields
      <4> HIDE DEF root
      <4> QED
        BY <1>5, <3>1, <3>3, <4>1, SameMaps DEF ChangeRuns, root
    <3> QED
      BY <3>2, <3>4 DEF EngineInv
  <2> QED
    BY <2>1, <2>2, <2>3
<1>6. CASE Refuse("DB_OK") /\ UNCHANGED <<mapVars, allocated, heaps>>
  BY <1>3, <1>6 DEF Refuse
<1> QED
  BY <1>1, <1>2, <1>4, <1>5, <1>6 DEF Execute, Defines

\* A heap gets new slots, on a page it has or takes.
LEMMA PutHeap ==
  ASSUME EngineInv, InsertRuns, NEW page \in FirstPages, NEW slots, IsSlots(slots),
         heaps' = hashmap_put(heaps, page, slots), allocated' = allocated \cup {page}, UNCHANGED mapVars
  PROVE  /\ HeapsTyped' /\ page \in DOMAIN heaps' /\ heaps'[page] = slots
         /\ \A p \in DOMAIN heaps \ {page} : p \in DOMAIN heaps' /\ heaps'[p] = heaps[p]
         /\ DOMAIN heaps' = DOMAIN heaps \cup {page}
<1>1. /\ DOMAIN heaps' = DOMAIN heaps \cup {page}
      /\ heaps' = [k \in DOMAIN heaps' |-> heaps'[k]]
      /\ heaps'[page] = slots
      /\ \A k \in DOMAIN heaps \ {page} : heaps'[k] = heaps[k]
  BY DEF EngineInv, HeapsTyped, hashmap_put
<1>2. HeapsTyped'
  BY <1>1, HeapsStay DEF EngineInv, HeapsTyped
<1> QED
  BY <1>1, <1>2

\* The table of an INSERT starts on this page now, if it starts nowhere yet.
LEMMA RootTaken ==
  ASSUME EngineInv, InsertRuns, NEW page \in FirstPages \cup {run.root}, UNCHANGED mapVars,
         run'.table = run.table, run'.root = page
  PROVE  RunningOn(run.root)'
<1>1. HasSchema(run.table)' /\ TableRoot(TableId(run.table))' = TableRoot(TableId(run.table)) /\ Roots' = Roots
  BY SameMaps DEF InsertRuns, RunningOn
<1>2. CASE page = run.root
  BY <1>1, <1>2 DEF InsertRuns, RunningOn
<1>3. CASE page # run.root
  <2>1. run.root = INVALID_PAGE_ID /\ page \notin allocated
    BY <1>3, FirstPagesFresh
  <2>2. page \notin Roots
    BY <2>1 DEF EngineInv, CatalogInv, RootsApart
  <2>3. TableRoot(TableId(run.table)) = INVALID_PAGE_ID
    BY <2>1 DEF InsertRuns, RunningOn
  <2> QED
    BY <1>1, <2>2, <2>3 DEF RunningOn
<1> QED
  BY <1>2, <1>3

\* insert_executor_next puts a row into the heap.
LEMMA InsertRowInv ==
  ASSUME EngineInv, CatalogInv', InsertRow
  PROVE  EngineInv' /\ InsertRuns'
<1>1. InsertRuns /\ UNCHANGED mapVars
  BY RunKinds DEF InsertRow, NextInserts, EngineInv
<1>2. PICK page \in FirstPages :
       /\ allocated' = allocated \cup {page}
       /\ \E slots \in HeapsWith(Slots(run.root), tuple_serialize(NextValues, Columns)) :
            heaps' = hashmap_put(heaps, page, slots)
       /\ run' = [run EXCEPT !.root = page, !.row = @ + 1, !.affected = @ + 1]
  BY DEF InsertRow
<1>3. PICK slots \in HeapsWith(Slots(run.root), tuple_serialize(NextValues, Columns)) :
        heaps' = hashmap_put(heaps, page, slots)
  BY <1>2
<1>4. IsSlots(slots)
  <2>1. IsSlots(Slots(run.root))
    BY <1>1, TableSlots DEF EngineInv, InsertRuns
  <2> QED
    BY <2>1, SlotsWith
<1>5. HeapsTyped' /\ page \in DOMAIN heaps'
  BY <1>1, <1>2, <1>3, <1>4, PutHeap
<1>6. /\ Record(run', InsertFields) /\ run'.op = "INSERT" /\ run'.table = run.table /\ run'.rows = run.rows
      /\ run'.root = page /\ run'.row = run.row + 1 /\ run'.affected = run.affected + 1
      /\ run'.before = run.before
  BY <1>1, <1>2 DEF InsertRuns, Record, InsertFields
<1>7. RunningOn(run.root)'
  BY <1>1, <1>6, RootTaken
<1>8. InsertRuns'
  BY <1>1, <1>5, <1>6, <1>7 DEF InsertRuns
<1> QED
  BY <1>5, <1>8 DEF EngineInv

\* bpm_heap_insert fails: the slots stay, though a first page may have been made.
LEMMA InsertFailsInv ==
  ASSUME EngineInv, CatalogInv', InsertFails
  PROVE  /\ EngineInv' /\ InsertRuns'
         /\ run'.row = run.row /\ run'.rows = run.rows /\ run'.before = run.before /\ run'.table = run.table
         /\ Slots(run.root)' = Slots(run.root)
         /\ \A p \in DOMAIN heaps : p \in DOMAIN heaps' /\ heaps'[p] = heaps[p]
<1>1. InsertRuns /\ UNCHANGED mapVars
  BY RunKinds DEF InsertFails, NextInserts, EngineInv
<1>2. PICK page \in FirstPages \cup {run.root} :
       /\ allocated' = allocated \cup ({page} \ {INVALID_PAGE_ID})
       /\ heaps' = IF page = run.root THEN heaps ELSE hashmap_put(heaps, page, <<>>)
       /\ run' = [run EXCEPT !.root = page, !.failed = TRUE]
  BY DEF InsertFails
<1>3. /\ HeapsTyped' /\ page \in DOMAIN heaps' \cup {INVALID_PAGE_ID}
      /\ \A p \in DOMAIN heaps : p \in DOMAIN heaps' /\ heaps'[p] = heaps[p]
      /\ page # run.root => run.root = INVALID_PAGE_ID /\ page # INVALID_PAGE_ID /\ heaps'[page] = <<>>
  <2>1. CASE page = run.root
    <3>1. heaps' = heaps /\ allocated \subseteq allocated'
      BY <1>2, <2>1
    <3>2. HeapsTyped'
      BY <1>1, <3>1, HeapsStay DEF EngineInv, HeapsTyped
    <3> QED
      BY <1>1, <2>1, <3>1, <3>2 DEF InsertRuns
  <2>2. CASE page # run.root
    <3>1. page \in FirstPages /\ page # INVALID_PAGE_ID /\ run.root = INVALID_PAGE_ID
          /\ page \notin DOMAIN heaps
      BY <1>1, <2>2, FirstPagesFresh
    <3>2. IsSlots(<<>>)
      <4>1. <<>> \in Seq({})
        OBVIOUS
      <4> QED
        BY <4>1 DEF IsSlots
    <3>3. allocated' = allocated \cup {page}
      BY <1>2, <3>1
    <3>4. heaps' = hashmap_put(heaps, page, <<>>)
      BY <1>2, <2>2
    <3>5. /\ HeapsTyped' /\ page \in DOMAIN heaps' /\ heaps'[page] = <<>>
          /\ \A p \in DOMAIN heaps \ {page} : p \in DOMAIN heaps' /\ heaps'[p] = heaps[p]
      BY <1>1, <3>1, <3>2, <3>3, <3>4, PutHeap
    <3> QED
      BY <3>1, <3>5
  <2> QED
    BY <2>1, <2>2
<1>4. /\ Record(run', InsertFields) /\ run'.op = "INSERT" /\ run'.table = run.table /\ run'.rows = run.rows
      /\ run'.root = page /\ run'.row = run.row /\ run'.affected = run.affected
      /\ run'.before = run.before
  BY <1>1, <1>2 DEF InsertRuns, Record, InsertFields
<1>5. RunningOn(run.root)'
  BY <1>1, <1>4, RootTaken
<1>6. InsertRuns'
  BY <1>1, <1>3, <1>4, <1>5 DEF InsertRuns
<1>7. Slots(run.root)' = Slots(run.root)
  <2>1. CASE page = run.root
    BY <1>2, <1>4, <2>1 DEF Slots
  <2>2. CASE page # run.root
    BY <1>3, <1>4, <2>2 DEF Slots
  <2> QED
    BY <2>1, <2>2
<1> QED
  BY <1>3, <1>4, <1>6, <1>7 DEF EngineInv

\* The end of an INSERT tells the catalog where the table starts.
LEMMA InsertEndsInv ==
  ASSUME EngineInv, CatalogInv', InsertEnds
  PROVE  EngineInv'
<1>1. InsertRuns
  BY RunKinds DEF InsertEnds, EngineInv
<1>2. run' = Idle /\ UNCHANGED <<allocated, heaps>> /\ RootSync(run.root)
  BY DEF InsertEnds, Finish
<1>3. HeapsTyped'
  <2>1. CASE UNCHANGED mapVars
    BY <1>2, <2>1, HeapsStay DEF EngineInv, HeapsTyped
  <2>2. CASE catalog_update_root_page(TableId(run.table), run.root) /\ run.root # INVALID_PAGE_ID
    <3>1. TableId(run.table) \in DOMAIN table_cache
      BY <1>1, HasSchemaNamed DEF EngineInv, InsertRuns, RunningOn
    <3>2. table_cache[TableId(run.table)] \in TableMeta
      BY <3>1 DEF EngineInv, CatalogInv, MapsTyped
    <3>3. /\ DOMAIN table_cache' = DOMAIN table_cache
          /\ table_cache'[TableId(run.table)] = [table_cache[TableId(run.table)] EXCEPT !.root_page_id = run.root]
          /\ \A uid \in DOMAIN table_cache \ {TableId(run.table)} : table_cache'[uid] = table_cache[uid]
      BY <2>2, <3>1 DEF catalog_update_root_page
    <3>4. table_cache'[TableId(run.table)].root_page_id = run.root
      BY <3>2, <3>3 DEF TableMeta
    <3>5. \A tid \in Rooted' : TableRoot(tid)' = run.root \/ (tid \in Rooted /\ TableRoot(tid)' = TableRoot(tid))
      BY <3>3, <3>4 DEF Rooted, TableRoot
    <3>6. run.root \in DOMAIN heaps
      BY <1>1, <2>2 DEF InsertRuns
    <3> QED
      BY <1>2, <3>5, <3>6 DEF EngineInv, HeapsTyped
  <2> QED
    BY <1>2, <2>1, <2>2 DEF RootSync
<1> QED
  BY <1>2, <1>3 DEF EngineInv, Idle

-----------------------------------------------------------------------------
(* UPDATE and DELETE row by row *)

Chosen(i) == Passing(run.before[i]) = Boolean(TRUE)
Target(i) == IF run.op = "DELETE" THEN Gone ELSE tuple_serialize(NewRowOf(run.before[i]), Columns)
Untouched(i) == Slots(run.root)[i] = run.before[i]

\* ChangeExact in parts.
ChangeTold ==
  /\ DOMAIN Slots(run.root) = DOMAIN run.before
  /\ \A i \in DOMAIN run.before :
       IF i > run.slot \/ ~Chosen(i) THEN Untouched(i)
       ELSE Slots(run.root)[i] = Target(i) \/ (Untouched(i) /\ Len(Target(i)) > Len(Slots(run.root)[i]))
  /\ run.affected <= Cardinality({i \in 1 .. run.slot : Chosen(i)})
  /\ run.affected >= Cardinality({i \in 1 .. run.slot : ~Untouched(i)})

\* ChangeExact says ChangeTold of a running UPDATE or DELETE.
LEMMA ChangeParts ==
  ChangeExact <=> (run.op \in {"UPDATE", "DELETE"} => ChangeTold)
BY DEF ChangeExact, ChangeTold, Chosen, Target, Untouched

\* What the scan of an UPDATE or DELETE stops at.
LEMMA NextMatchFacts ==
  ASSUME EngineInv, ChangeRuns, NEW i \in NextMatch
  PROVE  /\ run.root \in DOMAIN heaps /\ IsSlots(heaps[run.root])
         /\ i \in 1 .. Len(heaps[run.root]) /\ i > run.slot
         /\ Passing(heaps[run.root][i]) = Boolean(TRUE)
         /\ \A j \in run.slot + 1 .. i - 1 : Passing(heaps[run.root][j]) # Boolean(TRUE)
<1> DEFINE stops == {k \in run.slot + 1 .. Len(Slots(run.root)) :
                       Passing(heaps[run.root][k]) \in {Boolean(TRUE), Dies}}
<1>1. i \in stops /\ (\A j \in stops : i <= j) /\ Passing(heaps[run.root][i]) # Dies
  BY DEF NextMatch, NextSlot
<1>2. run.slot \in Nat /\ run.root = TableRoot(TableId(run.table)) /\ HasSchema(run.table)
  BY DEF ChangeRuns
<1>3. run.root # INVALID_PAGE_ID
  <2>1. SUFFICES ASSUME run.root = INVALID_PAGE_ID PROVE FALSE
    OBVIOUS
  <2>2. Slots(run.root) = <<>>
    BY <2>1 DEF Slots
  <2> QED
    BY <1>1, <1>2, <2>2
<1>4. run.root \in DOMAIN heaps /\ Slots(run.root) = heaps[run.root]
  BY <1>2, <1>3, RootSlots DEF Slots
<1>5. IsSlots(heaps[run.root])
  BY <1>4 DEF EngineInv, HeapsTyped
<1>6. Len(heaps[run.root]) \in Nat
  BY <1>5 DEF IsSlots
<1>7. ASSUME NEW j \in run.slot + 1 .. i - 1 PROVE Passing(heaps[run.root][j]) # Boolean(TRUE)
  <2>1. i \in Nat /\ j \in Nat /\ j < i /\ i <= Len(heaps[run.root])
    BY <1>1, <1>2, <1>4, <1>6, <1>7
  <2>2. j \in run.slot + 1 .. Len(Slots(run.root))
    BY <1>2, <1>4, <1>6, <2>1
  <2>3. j \notin stops
    <3> HIDE DEF stops
    <3> QED
      BY <1>1, <2>1
  <2> QED
    BY <2>2, <2>3
<1>8. i \in 1 .. Len(heaps[run.root]) /\ i > run.slot
  BY <1>1, <1>2, <1>4, <1>6
<1>9. Passing(heaps[run.root][i]) = Boolean(TRUE)
  BY <1>1
<1> QED
  BY <1>4, <1>5, <1>7, <1>8, <1>9

\* A scan and its statement mean the same while the catalog rests.
LEMMA SameStatement ==
  ASSUME UNCHANGED mapVars, run'.table = run.table, run'.op = run.op,
         run'.predicate = run.predicate, run'.set = run.set, run'.before = run.before
  PROVE  /\ Columns' = Columns
         /\ \A x : Passing(x)' = Passing(x) /\ NewRowOf(x)' = NewRowOf(x)
         /\ \A i : (Chosen(i)' <=> Chosen(i)) /\ Target(i)' = Target(i)
<1>1. Columns' = Columns
  BY SameMaps DEF Columns, mapVars
<1>2. \A x : Passing(x)' = Passing(x)
  BY <1>1 DEF Passing
<1>3. \A x : NewRowOf(x)' = NewRowOf(x)
  BY <1>1 DEF NewRowOf
<1>4. \A i : Chosen(i)' <=> Chosen(i)
  BY <1>2 DEF Chosen
<1>5. \A i : Target(i)' = Target(i)
  BY <1>1, <1>3 DEF Target
<1> QED
  BY <1>1, <1>2, <1>3, <1>4, <1>5

\* A slot is changed as the statement says, or passed over.
LEMMA SlotDone ==
  ASSUME EngineInv, ChangeRuns, ChangeTold, UNCHANGED catalogVars, NEW i \in NextMatch,
         NEW image, NEW count \in 0 .. 1,
         \/ count = 1 /\ image = Target(i)
         \/ count = 0 /\ image = heaps[run.root][i] /\ Len(Target(i)) > Len(image),
         heaps' = [heaps EXCEPT ![run.root][i] = image],
         Pass(i, count)
  PROVE  HeapsTyped' /\ ChangeRuns' /\ ChangeTold'
<1> DEFINE slots == heaps[run.root]
           before == run.before
<1>1. /\ run.root \in DOMAIN heaps /\ IsSlots(slots) /\ i \in 1 .. Len(slots) /\ i > run.slot
      /\ Passing(slots[i]) = Boolean(TRUE)
      /\ \A j \in run.slot + 1 .. i - 1 : Passing(slots[j]) # Boolean(TRUE)
  BY NextMatchFacts
<1>2. run.slot \in Nat /\ run.affected \in Nat /\ i \in Nat /\ Len(slots) \in Nat /\ DOMAIN slots = 1 .. Len(slots)
  BY <1>1 DEF ChangeRuns, IsSlots
<1>3. /\ Record(run', ChangeFields) /\ run'.op = run.op /\ run'.table = run.table /\ run'.root = run.root
      /\ run'.slot = i /\ run'.affected = run.affected + count /\ run'.set = run.set
      /\ run'.predicate = run.predicate /\ run'.before = run.before
  BY DEF ChangeRuns, Record, ChangeFields, Pass
<1>4. UNCHANGED mapVars /\ allocated' = allocated
  BY DEF catalogVars
<1>5. /\ DOMAIN heaps' = DOMAIN heaps /\ heaps' = [p \in DOMAIN heaps |-> heaps'[p]]
      /\ heaps'[run.root] = [slots EXCEPT ![i] = image]
      /\ \A p \in DOMAIN heaps \ {run.root} : heaps'[p] = heaps[p]
  BY <1>1 DEF EngineInv, HeapsTyped
<1>6. HeapsTyped'
  <2>1. IsSlots([slots EXCEPT ![i] = image])
    BY <1>1, SlotsSet
  <2> QED
    BY <1>4, <1>5, <2>1, HeapsStay DEF EngineInv, HeapsTyped
<1>7. ChangeRuns'
  BY <1>2, <1>3, <1>4, SameMaps DEF ChangeRuns
<1>8. ChangeTold'
  <2>1. /\ \A j : (Chosen(j)' <=> Chosen(j)) /\ Target(j)' = Target(j)
    BY <1>3, <1>4, SameStatement
  <2>2. run.root # INVALID_PAGE_ID /\ Slots(run.root) = slots /\ Slots(run.root)' = [slots EXCEPT ![i] = image]
    <3>1. INVALID_PAGE_ID \notin DOMAIN heaps
      BY CatalogAssumption DEF EngineInv, CatalogInv, MapsTyped, HeapsTyped, INVALID_PAGE_ID
    <3> QED
      BY <1>1, <1>3, <1>5, <3>1 DEF Slots
  <2>3. DOMAIN slots = DOMAIN before /\ DOMAIN Slots(run.root)' = DOMAIN run.before'
    BY <1>3, <2>2 DEF ChangeTold
  <2>4. \A j \in DOMAIN before : Slots(run.root)'[j] = IF j = i THEN image ELSE slots[j]
    BY <2>2, <2>3
  <2>5. \A j \in DOMAIN before : j > run.slot => slots[j] = before[j]
    BY <2>2 DEF ChangeTold, Untouched
  <2>6. Chosen(i) /\ \A j \in run.slot + 1 .. i - 1 : ~Chosen(j)
    <3>1. i \in DOMAIN before /\ slots[i] = before[i]
      BY <1>1, <1>2, <2>3, <2>5
    <3>2. ASSUME NEW j \in run.slot + 1 .. i - 1 PROVE ~Chosen(j)
      <4>1. j \in 1 .. Len(slots) /\ j > run.slot
        BY <1>1, <1>2
      <4>2. slots[j] = before[j]
        BY <1>2, <2>3, <2>5, <4>1
      <4> QED
        BY <1>1, <4>2 DEF Chosen
    <3> QED
      BY <1>1, <3>1, <3>2 DEF Chosen
  <2>7. \A j \in DOMAIN before \ {i} : Untouched(j)' <=> Untouched(j)
    BY <1>3, <2>2, <2>4 DEF Untouched
  <2>8. ASSUME NEW j \in DOMAIN before
        PROVE  IF j > i \/ ~Chosen(j) THEN Untouched(j)'
               ELSE Slots(run.root)'[j] = Target(j) \/ (Untouched(j)' /\ Len(Target(j)) > Len(Slots(run.root)'[j]))
    <3>1. CASE j = i
      <4>1. Slots(run.root)'[j] = image /\ Chosen(j)
        BY <2>4, <2>6, <3>1
      <4>0. ~(j > i)
        BY <1>2, <3>1
      <4>2. CASE count = 1
        <5>1. image = Target(j)
          BY <3>1, <4>2
        <5> QED
          BY <4>0, <4>1, <5>1
      <4>3. CASE count = 0
        <5>1. image = before[j] /\ Untouched(j)'
          BY <1>1, <1>3, <2>5, <3>1, <4>1, <4>3 DEF Untouched
        <5>2. Len(Target(j)) > Len(image)
          BY <3>1, <4>3
        <5> QED
          BY <4>0, <4>1, <5>1, <5>2
      <4> QED
        BY <4>2, <4>3
    <3>2. CASE j # i
      <4>1. Slots(run.root)'[j] = Slots(run.root)[j] /\ (Untouched(j)' <=> Untouched(j))
        BY <2>2, <2>4, <2>7, <3>2
      <4>2. j \in Nat
        BY <1>2, <2>3
      <4>3. j > i => j > run.slot
        BY <1>1, <1>2, <4>2
      <4>4. j > run.slot /\ ~(j > i) => ~Chosen(j)
        BY <1>1, <1>2, <2>6, <3>2, <4>2
      <4>5. IF j > run.slot \/ ~Chosen(j) THEN Untouched(j)
            ELSE Slots(run.root)[j] = Target(j) \/ (Untouched(j) /\ Len(Target(j)) > Len(Slots(run.root)[j]))
        BY DEF ChangeTold
      <4>6. CASE j > i \/ ~Chosen(j)
        BY <4>1, <4>3, <4>5, <4>6
      <4>7. CASE ~(j > i \/ ~Chosen(j))
        BY <4>1, <4>4, <4>5, <4>7
      <4> QED
        BY <4>6, <4>7
    <3> QED
      BY <3>1, <3>2
  <2> DEFINE C == {j \in 1 .. run.slot : Chosen(j)}
             U == {j \in 1 .. run.slot : ~Untouched(j)}
             C1 == {j \in 1 .. i : Chosen(j)}
             U1 == {j \in 1 .. i : ~Untouched(j)'}
  <2>9. IsFiniteSet(C) /\ IsFiniteSet(U) /\ Cardinality(C) \in Nat /\ Cardinality(U) \in Nat
    <3>1. IsFiniteSet(1 .. run.slot)
      <4>1. run.slot \in Int /\ 1 \in Int
        BY <1>2
      <4> QED
        BY <4>1, FS_Interval
    <3>2. IsFiniteSet(C) /\ IsFiniteSet(U)
      BY <3>1, FS_Subset
    <3> QED
      BY <3>2, FS_CardinalityType
  <2>10. C1 = C \cup {i} /\ i \notin C
    BY <1>1, <1>2, <2>6
  <2>11. Cardinality(C1) = Cardinality(C) + 1
    <3> HIDE DEF C, C1
    <3> QED
      BY <2>9, <2>10, FS_AddElement
  <2>12. U1 \subseteq U \cup {i} /\ (count = 0 => U1 \subseteq U) /\ i \notin U
    <3>1. ASSUME NEW j \in U1 PROVE j \in U \/ (j = i /\ count = 1)
      <4>1. j \in DOMAIN before /\ j \in Nat
        BY <1>1, <1>2, <2>3
      <4>2. j > run.slot => slots[j] = before[j]
        BY <2>5, <4>1
      <4>3. CASE j # i
        <5>1. ~Untouched(j)
          BY <2>7, <4>1, <4>3
        <5> QED
          BY <1>2, <2>2, <4>1, <4>2, <5>1 DEF Untouched
      <4>4. CASE j = i
        <5>1. Slots(run.root)'[j] # before[j]
          BY <1>3, <3>1 DEF Untouched
        <5>2. image # slots[i]
          BY <1>1, <2>4, <4>1, <4>2, <4>4, <5>1
        <5> QED
          BY <4>4, <5>2
      <4> QED
        BY <4>3, <4>4
    <3>2. i \notin U
      BY <1>1, <1>2
    <3> QED
      BY <3>1, <3>2
  <2>13. Cardinality(U1) <= Cardinality(U) + count /\ Cardinality(U1) \in Nat
    <3> HIDE DEF U, U1
    <3>1. IsFiniteSet(U \cup {i}) /\ Cardinality(U \cup {i}) = Cardinality(U) + 1
      BY <2>9, <2>12, FS_AddElement
    <3>2. IsFiniteSet(U1) /\ Cardinality(U1) <= Cardinality(U) + 1
      BY <2>12, <3>1, FS_Subset
    <3>3. count = 0 => Cardinality(U1) <= Cardinality(U)
      BY <2>9, <2>12, FS_Subset
    <3>4. Cardinality(U1) \in Nat
      BY <3>2, FS_CardinalityType
    <3> QED
      BY <2>9, <3>2, <3>3, <3>4
  <2>14. run.affected <= Cardinality(C) /\ run.affected >= Cardinality(U)
    BY DEF ChangeTold
  <2>15. {j \in 1 .. run.slot : Chosen(j)}' = C1 /\ {j \in 1 .. run.slot : ~Untouched(j)}' = U1
    BY <1>3, <2>1
  <2>16. run'.affected <= Cardinality(C1) /\ run'.affected >= Cardinality(U1)
    <3> HIDE DEF C, C1, U, U1
    <3> QED
      BY <1>2, <1>3, <2>9, <2>11, <2>13, <2>14
  <2> HIDE DEF C, C1, U, U1
  <2>17. \A j \in DOMAIN run.before' :
           IF j > run.slot' \/ ~Chosen(j)' THEN Untouched(j)'
           ELSE Slots(run.root)'[j] = Target(j)' \/ (Untouched(j)' /\ Len(Target(j)') > Len(Slots(run.root)'[j]))
    BY <1>3, <2>1, <2>8
  <2> QED
    BY <2>3, <2>15, <2>16, <2>17 DEF ChangeTold
<1> QED
  BY <1>6, <1>7, <1>8

\* The row the scan stops at is still what it was when the statement began.
LEMMA MatchAsBefore ==
  ASSUME EngineInv, ChangeRuns, ChangeTold, NEW i \in NextMatch
  PROVE  heaps[run.root][i] = run.before[i] /\ NewRow(i) = NewRowOf(run.before[i])
<1>1. /\ run.root \in DOMAIN heaps /\ IsSlots(heaps[run.root])
      /\ i \in 1 .. Len(heaps[run.root]) /\ i > run.slot
  BY NextMatchFacts
<1>2. Slots(run.root) = heaps[run.root]
  <2>1. INVALID_PAGE_ID \notin DOMAIN heaps
    BY CatalogAssumption DEF EngineInv, CatalogInv, MapsTyped, HeapsTyped, INVALID_PAGE_ID
  <2> QED
    BY <1>1, <2>1 DEF Slots
<1>3. i \in DOMAIN heaps[run.root]
  BY <1>1 DEF IsSlots
<1>4. Untouched(i)
  BY <1>1, <1>2, <1>3 DEF ChangeTold
<1>5. heaps[run.root][i] = run.before[i]
  BY <1>2, <1>4 DEF Untouched
<1> QED
  BY <1>5 DEF NewRow

\* delete_executor_next empties the slot the scan stands on.
LEMMA DeleteRowDone ==
  ASSUME EngineInv, ChangeRuns, ChangeTold, DeleteRow
  PROVE  HeapsTyped' /\ ChangeRuns' /\ ChangeTold'
<1>1. PICK i \in NextMatch : heaps' = [heaps EXCEPT ![run.root][i] = Gone] /\ Pass(i, 1)
  BY DEF DeleteRow
<1>2. Gone = Target(i) /\ UNCHANGED catalogVars
  BY DEF DeleteRow, Target
<1>3. 1 \in 0 .. 1
  OBVIOUS
<1> QED
  BY <1>1, <1>2, <1>3, SlotDone

\* update_executor_next writes the new row over the old one.
LEMMA UpdateRowDone ==
  ASSUME EngineInv, ChangeRuns, ChangeTold, UpdateRow
  PROVE  HeapsTyped' /\ ChangeRuns' /\ ChangeTold'
<1>1. PICK i \in NextMatch :
        /\ heaps' = [heaps EXCEPT ![run.root][i] = tuple_serialize(NewRow(i), Columns)]
        /\ Pass(i, 1)
  BY DEF UpdateRow
<1>2. tuple_serialize(NewRow(i), Columns) = Target(i) /\ UNCHANGED catalogVars
  BY <1>1, MatchAsBefore DEF UpdateRow, Target
<1>3. 1 \in 0 .. 1
  OBVIOUS
<1> QED
  BY <1>1, <1>2, <1>3, SlotDone

\* A row that has grown too long is passed over.
LEMMA UpdatePassesDone ==
  ASSUME EngineInv, ChangeRuns, ChangeTold, UpdatePasses
  PROVE  HeapsTyped' /\ ChangeRuns' /\ ChangeTold'
<1>1. PICK i \in NextMatch :
        /\ Len(tuple_serialize(NewRow(i), Columns)) > Len(heaps[run.root][i])
        /\ Pass(i, 0)
  BY DEF UpdatePasses
<1>2. tuple_serialize(NewRow(i), Columns) = Target(i) /\ UNCHANGED catalogVars /\ heaps' = heaps
  BY <1>1, MatchAsBefore DEF UpdatePasses, Target
<1>3. 0 \in 0 .. 1
  OBVIOUS
<1>4. heaps' = [heaps EXCEPT ![run.root][i] = heaps[run.root][i]]
  <2>1. /\ run.root \in DOMAIN heaps /\ IsSlots(heaps[run.root]) /\ i \in 1 .. Len(heaps[run.root])
    BY <1>1, NextMatchFacts
  <2>2. [heaps[run.root] EXCEPT ![i] = heaps[run.root][i]] = heaps[run.root]
    BY <2>1 DEF IsSlots
  <2>3. heaps = [p \in DOMAIN heaps |-> heaps[p]]
    BY DEF EngineInv, HeapsTyped
  <2> QED
    BY <1>2, <2>1, <2>2, <2>3
<1> QED
  BY <1>1, <1>2, <1>3, <1>4, SlotDone

\* An UPDATE or DELETE starts with nothing changed.
LEMMA StartsUntouched ==
  ASSUME EngineInv, NEW s \in Statements, Execute(s), EngineInv', ChangeRuns'
  PROVE  ChangeTold'
<1>0. run = Idle
  BY DEF Execute, Ready
<1>1. run' # run /\ run' # Idle /\ run'.op # "INSERT"
  BY <1>0, RunKinds DEF Idle, ChangeRuns
<1>2. StartChange(s)
  <2>1. ~StartInsert(s)
    <3> SUFFICES ASSUME StartInsert(s) PROVE FALSE
      OBVIOUS
    <3> DEFINE first == TableRoot(TableId(s.table))
    <3>1. run' = [op |-> "INSERT", table |-> s.table, rows |-> s.rows, row |-> 0, failed |-> FALSE,
                  root |-> first, before |-> Slots(first), affected |-> 0]
      BY <1>1 DEF StartInsert, Refuse
    <3> HIDE DEF first
    <3>2. run'.op = "INSERT"
      BY <3>1
    <3> QED
      BY <1>1, <3>2
  <2> QED
    BY <1>1, <2>1 DEF Execute, Defines, Refuse
<1> DEFINE root == TableRoot(TableId(s.table))
<1>3. /\ HasSchema(s.table) /\ UNCHANGED <<mapVars, allocated, heaps>>
      /\ run'.root = root /\ run'.slot = 0 /\ run'.before = Slots(root) /\ run'.affected = 0
  BY <1>1, <1>2 DEF StartChange, Refuse, Die
<1>4. IsSlots(Slots(root))
  BY <1>3, RootSlots
<1>5. Slots(root)' = Slots(root) /\ Slots(run.root)' = Slots(root)
  <2>1. root' = root
    BY <1>3, SameMaps
  <2> HIDE DEF root
  <2> QED
    BY <1>3, <2>1 DEF Slots
<1>6. \A j \in DOMAIN Slots(root) : j > 0 /\ Untouched(j)'
  <2> HIDE DEF root
  <2>1. \A j \in DOMAIN Slots(root) : j > 0
    BY <1>4 DEF IsSlots
  <2> QED
    BY <1>3, <1>5, <2>1 DEF Untouched
<1>7. {j \in 1 .. run.slot : Chosen(j)}' = {} /\ {j \in 1 .. run.slot : ~Untouched(j)}' = {}
  BY <1>3
<1>8. Cardinality({}) = 0
  BY FS_EmptySet
<1> HIDE DEF root
<1> QED
  BY <1>3, <1>5, <1>6, <1>7, <1>8 DEF ChangeTold

\* A statement that ends or dies leaves heaps and catalog alone.
LEMMA StillsInv ==
  ASSUME EngineInv, UNCHANGED <<mapVars, allocated, heaps>>, CatalogInv', run' \in {run, Idle}
  PROVE  EngineInv' /\ (run' = run => (InsertRuns' <=> InsertRuns) /\ (ChangeRuns' <=> ChangeRuns))
<1>1. HeapsTyped'
  BY HeapsStay DEF EngineInv, HeapsTyped
<1>2. ASSUME run' = run PROVE (InsertRuns' <=> InsertRuns) /\ (ChangeRuns' <=> ChangeRuns)
  <2>1. RunningOn(run.root)' <=> RunningOn(run.root)
    BY <1>2, SameMaps DEF RunningOn
  <2>2. InsertRuns' <=> InsertRuns
    BY <1>2, <2>1 DEF InsertRuns
  <2>3. ChangeRuns' <=> ChangeRuns
    BY <1>2, SameMaps DEF ChangeRuns
  <2> QED
    BY <2>2, <2>3
<1> QED
  BY <1>1, <1>2 DEF EngineInv, Idle

-----------------------------------------------------------------------------
(* Rows and their bytes: tuple_serialize and tuple_deserialize *)

\* The places where parts of these sizes begin, one after the other.
Sums(at, size, k) ==
  /\ at \in [0 .. k -> Nat] /\ at[0] = 0
  /\ \A n \in 1 .. k : at[n] = at[n - 1] + size[n]

\* There are such places.
LEMMA SumsExist ==
  ASSUME NEW k \in Nat, NEW size \in [1 .. k -> Nat]
  PROVE  \E at : Sums(at, size, k)
<1> DEFINE step == [x \in Nat \X Nat |-> IF x[2] \in 1 .. k THEN x[1] + size[x[2]] ELSE 0]
<1>1. step \in [Nat \X Nat -> Nat]
  OBVIOUS
<1>2. \A m, n \in Nat : n \in 1 .. k => step[<<m, n>>] = m + size[n]
  OBVIOUS
<1> HIDE DEF step
<1>3. 0 \in Nat
  OBVIOUS
<1>4. PICK f \in [0 .. k -> Nat] : Recurs(f, 0, step, k)
  BY <1>1, <1>3, RecursionExists
<1>5. f[0] = 0
  BY <1>4 DEF Recurs
<1>6. ASSUME NEW n \in 1 .. k PROVE f[n] = f[n - 1] + size[n]
  <2>1. n \in Nat /\ n # 0 /\ n - 1 \in 0 .. k /\ n \in 0 .. k
    OBVIOUS
  <2>2. f[n] = step[<<f[n - 1], n>>]
    BY <1>4, <2>1 DEF Recurs
  <2> QED
    BY <1>2, <1>4, <2>1, <2>2
<1> QED
  BY <1>4, <1>5, <1>6 DEF Sums

\* A function that starts with c and goes on as the sums do.
Follows(f, c, at, size, k) ==
  f[0] = c /\ \A n \in 1 .. k : f[n - 1] = c + at[n - 1] => f[n] = f[n - 1] + size[n]

\* The places are determined by the sizes.
LEMMA SumsAgree ==
  ASSUME NEW k \in Nat, NEW size \in [1 .. k -> Nat], NEW at, Sums(at, size, k),
         NEW c \in Nat, NEW f, Follows(f, c, at, size, k)
  PROVE  \A n \in 0 .. k : f[n] = c + at[n]
<1> DEFINE S == {n \in Nat : n <= k => f[n] = c + at[n]}
<1>1. 0 \in S
  BY DEF Sums, Follows
<1>2. ASSUME NEW n \in Nat, n \in S PROVE n + 1 \in S
  <2> SUFFICES ASSUME n + 1 <= k PROVE f[n + 1] = c + at[n + 1]
    OBVIOUS
  <2>1. n + 1 \in 1 .. k /\ n \in 0 .. k /\ (n + 1) - 1 = n /\ f[n] = c + at[n]
    BY <1>2
  <2>2. at[n + 1] = at[n] + size[n + 1] /\ at[n] \in Nat /\ size[n + 1] \in Nat
    BY <2>1 DEF Sums
  <2>3. f[n + 1] = f[n] + size[n + 1]
    BY <2>1 DEF Follows
  <2> QED
    BY <2>1, <2>2, <2>3
<1> HIDE DEF S
<1>3. Nat \subseteq S
  BY <1>1, <1>2, NatsBelong
<1> QED
  BY <1>3 DEF S

\* What a concatenation consists of.
LEMMA Joined ==
  ASSUME NEW U, NEW s \in Seq(U), NEW t \in Seq(U)
  PROVE  /\ s \o t \in Seq(U) /\ Len(s \o t) = Len(s) + Len(t)
         /\ \A i \in 1 .. Len(s) : (s \o t)[i] = s[i]
         /\ \A i \in 1 .. Len(t) : (s \o t)[Len(s) + i] = t[i]
         /\ <<>> \o t = t
OBVIOUS

\* Where the parts are in a sequence flattened.
Placed(whole, parts, at) ==
  /\ Sums(at, [n \in 1 .. Len(parts) |-> Len(parts[n])], Len(parts))
  /\ Len(whole) = at[Len(parts)]
  /\ \A n \in 1 .. Len(parts) : \A i \in 1 .. Len(parts[n]) :
       at[n - 1] + i \in 1 .. Len(whole) /\ whole[at[n - 1] + i] = parts[n][i]

\* FlattenSeq lays the parts one after the other.
LEMMA Flattened ==
  ASSUME NEW U, NEW parts \in Seq(Seq(U))
  PROVE  FlattenSeq(parts) \in Seq(U) /\ \E at : Placed(FlattenSeq(parts), parts, at)
<1> DEFINE k == Len(parts)
           size == [n \in 1 .. k |-> Len(parts[n])]
<1>1. k \in Nat /\ \A n \in 1 .. k : parts[n] \in Seq(U) /\ Len(parts[n]) \in Nat
  OBVIOUS
<1>2. size \in [1 .. k -> Nat]
  BY <1>1
<1>3. PICK at : Sums(at, size, k)
  <2> HIDE DEF size, k
  <2> QED
    BY <1>1, <1>2, SumsExist
<1>4. CASE k = 0
  <2>1. FlattenSeq(parts) = <<>> /\ parts = <<>>
    BY <1>4 DEF FlattenSeq
  <2> QED
    BY <1>3, <1>4, <2>1 DEF Placed, Sums
<1>5. CASE k # 0
  <2> DEFINE flatten == CHOOSE f : f = [i \in 1 .. k |-> IF i = 1 THEN parts[i] ELSE f[i - 1] \o parts[i]]
             step == [x \in Seq(U) \X Nat |-> IF x[2] \in 1 .. k THEN x[1] \o parts[x[2]] ELSE <<>>]
  <2>1. FlattenSeq(parts) = flatten[k]
    BY <1>5 DEF FlattenSeq
  <2>2. step \in [Seq(U) \X Nat -> Seq(U)]
    <3> SUFFICES ASSUME NEW x \in Seq(U) \X Nat
                 PROVE  (IF x[2] \in 1 .. k THEN x[1] \o parts[x[2]] ELSE <<>>) \in Seq(U)
      OBVIOUS
    <3>1. x[1] \in Seq(U) /\ (x[2] \in 1 .. k => parts[x[2]] \in Seq(U))
      BY <1>1
    <3>2. \A s, t \in Seq(U) : s \o t \in Seq(U)
      OBVIOUS
    <3>3. <<>> \in Seq(U)
      OBVIOUS
    <3> QED
      BY <3>1, <3>2, <3>3
  <2>3. \A s \in Seq(U), n \in 1 .. k : step[<<s, n>>] = s \o parts[n]
    <3> TAKE s \in Seq(U), n \in 1 .. k
    <3>1. <<s, n>> \in Seq(U) \X Nat
      BY <1>1
    <3> QED
      BY <3>1
  <2> HIDE DEF step
  <2>4. PICK g \in [0 .. k -> Seq(U)] : Recurs(g, <<>>, step, k)
    <3>1. <<>> \in Seq(U)
      OBVIOUS
    <3> HIDE DEF k
    <3> QED
      BY <1>1, <2>2, <3>1, RecursionExists
  <2>5. g[0] = <<>> /\ \A n \in 1 .. k : g[n] = g[n - 1] \o parts[n] /\ g[n - 1] \in Seq(U)
    <3>1. g[0] = <<>>
      BY <1>1, <2>4 DEF Recurs
    <3>2. ASSUME NEW n \in 1 .. k PROVE g[n] = g[n - 1] \o parts[n] /\ g[n - 1] \in Seq(U)
      <4>1. n - 1 \in 0 .. k /\ n \in 0 .. k /\ n # 0
        BY <1>1
      <4>2. g[n] = step[<<g[n - 1], n>>] /\ g[n - 1] \in Seq(U)
        BY <2>4, <4>1 DEF Recurs
      <4> QED
        BY <2>3, <4>2
    <3> QED
      BY <3>1, <3>2
  <2>6. \E f : f = [i \in 1 .. k |-> IF i = 1 THEN parts[i] ELSE f[i - 1] \o parts[i]]
    <3> DEFINE h == [i \in 1 .. k |-> g[i]]
    <3>1. ASSUME NEW i \in 1 .. k PROVE h[i] = IF i = 1 THEN parts[i] ELSE h[i - 1] \o parts[i]
      <4>1. CASE i = 1
        <5>1. g[i] = g[i - 1] \o parts[i]
          BY <2>5, Zenon
        <5>4. i - 1 = 0 /\ h[i] = g[i]
          BY <4>1
        <5>2. <<>> \o parts[i] = parts[i]
          <6>1. parts[i] \in Seq(U)
            BY <1>1
          <6> QED
            BY <6>1, Joined
        <5> QED
          BY <2>5, <4>1, <5>1, <5>2, <5>4
      <4>2. CASE i # 1
        <5>1. i - 1 \in 1 .. k
          BY <1>1, <4>2
        <5>2. h[i] = g[i] /\ h[i - 1] = g[i - 1]
          BY <5>1
        <5>3. g[i] = g[i - 1] \o parts[i]
          BY <2>5, Zenon
        <5> QED
          BY <4>2, <5>2, <5>3
      <4> QED
        BY <4>1, <4>2
    <3>2. h = [i \in 1 .. k |-> IF i = 1 THEN parts[i] ELSE h[i - 1] \o parts[i]]
      BY <3>1
    <3> HIDE DEF h
    <3> QED
      BY <3>2
  <2>7. flatten = [i \in 1 .. k |-> IF i = 1 THEN parts[i] ELSE flatten[i - 1] \o parts[i]]
    BY <2>6
  <2> HIDE DEF flatten
  <2> DEFINE S == {n \in Nat : n \in 1 .. k => flatten[n] = g[n]}
  <2>8. Nat \subseteq S
    <3>1. 0 \in S
      OBVIOUS
    <3>2. ASSUME NEW n \in Nat, n \in S PROVE n + 1 \in S
      <4> SUFFICES ASSUME n + 1 \in 1 .. k PROVE flatten[n + 1] = g[n + 1]
        OBVIOUS
      <4>1. flatten[n + 1] = IF n + 1 = 1 THEN parts[n + 1] ELSE flatten[(n + 1) - 1] \o parts[n + 1]
        BY <2>7
      <4>2. g[n + 1] = g[(n + 1) - 1] \o parts[n + 1] /\ (n + 1) - 1 = n
        <5>1. n + 1 \in 1 .. k
          OBVIOUS
        <5>2. (n + 1) - 1 = n
          OBVIOUS
        <5>3. g[n + 1] = g[(n + 1) - 1] \o parts[n + 1]
          BY <2>5, <5>1, Zenon
        <5> QED
          BY <5>2, <5>3
      <4>3. CASE n = 0
        <5>1. <<>> \o parts[1] = parts[1]
          <6>1. parts[1] \in Seq(U)
            BY <1>1, <4>3
          <6> QED
            BY <6>1, Joined
        <5>2. g[1] = parts[1] /\ flatten[1] = parts[1]
          <6>1. n + 1 = 1 /\ (n + 1) - 1 = 0
            BY <4>3
          <6> QED
            BY <2>5, <4>1, <4>2, <5>1, <6>1
        <5> QED
          BY <4>3, <5>2
      <4>4. CASE n # 0
        <5>1. n \in 1 .. k /\ n + 1 # 1
          BY <1>1, <4>4
        <5>2. flatten[n] = g[n]
          BY <3>2, <5>1
        <5> QED
          BY <4>1, <4>2, <5>1, <5>2
      <4> QED
        BY <4>3, <4>4
    <3> HIDE DEF S
    <3> QED
      BY <3>1, <3>2, NatsBelong
  <2>9. FlattenSeq(parts) = g[k]
    <3>1. k \in S /\ k \in 1 .. k
      BY <1>1, <1>5, <2>8
    <3> QED
      BY <2>1, <3>1
  \* The first n parts are where they are.
  <2> DEFINE T == {n \in Nat : n <= k =>
                     /\ Len(g[n]) = at[n]
                     /\ \A m \in 1 .. n : \A i \in 1 .. Len(parts[m]) :
                          at[m - 1] + i \in 1 .. at[n] /\ g[n][at[m - 1] + i] = parts[m][i]}
  <2>10. Nat \subseteq T
    <3>1. 0 \in T
      BY <1>3, <2>5 DEF Sums
    <3>2. ASSUME NEW n \in Nat, n \in T PROVE n + 1 \in T
      <4> SUFFICES ASSUME n + 1 <= k
                   PROVE /\ Len(g[n + 1]) = at[n + 1]
                         /\ \A m \in 1 .. n + 1 : \A i \in 1 .. Len(parts[m]) :
                              at[m - 1] + i \in 1 .. at[n + 1] /\ g[n + 1][at[m - 1] + i] = parts[m][i]
        OBVIOUS
      <4>1. n + 1 \in 1 .. k /\ (n + 1) - 1 = n
        BY <1>1
      <4>2. g[n + 1] = g[n] \o parts[n + 1] /\ g[n] \in Seq(U) /\ parts[n + 1] \in Seq(U)
        BY <1>1, <2>5, <4>1
      <4>3. at[n + 1] = at[n] + Len(parts[n + 1]) /\ at[n] \in Nat /\ Len(g[n]) = at[n]
        BY <1>3, <3>2, <4>1 DEF Sums
      <4>4. Len(parts[n + 1]) \in Nat
        BY <1>1, <4>1
      <4> DEFINE u == g[n]
                 v == parts[n + 1]
      <4>7. /\ Len(u \o v) = Len(u) + Len(v) /\ \A j \in 1 .. Len(u) : (u \o v)[j] = u[j]
            /\ \A j \in 1 .. Len(v) : (u \o v)[Len(u) + j] = v[j]
        <5> HIDE DEF u, v
        <5>1. u \in Seq(U) /\ v \in Seq(U)
          BY <4>2 DEF u, v
        <5> QED
          BY <5>1, Joined
      <4>5. Len(g[n + 1]) = at[n + 1]
        BY <4>2, <4>3, <4>7
      <4>6. ASSUME NEW m \in 1 .. n + 1, NEW i \in 1 .. Len(parts[m])
            PROVE  at[m - 1] + i \in 1 .. at[n + 1] /\ g[n + 1][at[m - 1] + i] = parts[m][i]
        <5>1. CASE m = n + 1
          <6>1. at[n] + i \in 1 .. at[n + 1]
            BY <4>3, <4>4, <5>1
          <6>2. g[n + 1][at[n] + i] = parts[n + 1][i]
            BY <4>2, <4>3, <4>7, <5>1
          <6> QED
            BY <4>1, <5>1, <6>1, <6>2
        <5>2. CASE m # n + 1
          <6>1. m \in 1 .. n
            BY <5>2
          <6>2. at[m - 1] + i \in 1 .. at[n] /\ g[n][at[m - 1] + i] = parts[m][i]
            <7>1. n <= k
              BY <1>1
            <7>2. \A q \in 1 .. n : \A j \in 1 .. Len(parts[q]) :
                    at[q - 1] + j \in 1 .. at[n] /\ g[n][at[q - 1] + j] = parts[q][j]
              BY ONLY <3>2, <7>1
            <7> QED
              BY ONLY <6>1, <7>2, <4>6
          <6>3. at[m - 1] + i \in 1 .. at[n + 1]
            BY <4>3, <4>4, <6>2
          <6>4. \A j \in 1 .. at[n] : g[n + 1][j] = g[n][j]
            BY <4>2, <4>3, <4>7
          <6> QED
            BY <6>2, <6>3, <6>4
        <5> QED
          BY <5>1, <5>2
      <4> QED
        BY <4>5, <4>6
    <3> HIDE DEF T
    <3> QED
      BY <3>1, <3>2, NatsBelong
  <2>11. k \in T /\ g[k] \in Seq(U)
    <3>1. k \in Nat /\ k \in 0 .. k
      BY <1>1
    <3> HIDE DEF T, k
    <3> QED
      BY ONLY <3>1, <2>4, <2>10
  <2>12. Placed(g[k], parts, at)
    <3>1. /\ Len(g[k]) = at[k]
          /\ \A m \in 1 .. k : \A i \in 1 .. Len(parts[m]) :
               at[m - 1] + i \in 1 .. at[k] /\ g[k][at[m - 1] + i] = parts[m][i]
      BY <1>1, <2>11
    <3> QED
      BY <1>3, <3>1 DEF Placed
  <2> QED
    BY <2>9, <2>11, <2>12
<1> QED
  BY <1>4, <1>5

IsText(x) == x = Varchar(Val(x)) /\ IsSlots(Val(x))
IsSchema(schema) == IsSlots(schema) /\ schema # <<>> /\ \A i \in DOMAIN schema : schema[i].type \in ColumnTypes
Storable(tuple) == IsSlots(tuple) /\ \A i \in DOMAIN tuple : Type(tuple[i]) = "VARCHAR" => IsText(tuple[i])

\* What is read back of a row's i-th value.
StoredValue(tuple, i, type) ==
  IF is_column_null(tuple, i) THEN Null
  ELSE IF type = "VARCHAR" THEN IF Type(tuple[i]) = "VARCHAR" THEN tuple[i] ELSE Varchar(<<>>)
  ELSE IF Type(tuple[i]) = type THEN tuple[i] ELSE BitsAs(tuple[i], type)
Stored(tuple, schema) == [i \in DOMAIN schema |-> StoredValue(tuple, i, schema[i].type)]

\* Slots are numbered from 1.
LEMMA SlotsLength ==
  ASSUME NEW s, IsSlots(s)
  PROVE  Len(s) \in Nat /\ DOMAIN s = 1 .. Len(s) /\ (s # <<>> => Len(s) > 0)
BY DEF IsSlots

\* Joined, for slots of any kind.
LEMMA SlotsJoined ==
  ASSUME NEW s, NEW t, IsSlots(s), IsSlots(t)
  PROVE  /\ IsSlots(s \o t) /\ Len(s \o t) = Len(s) + Len(t)
         /\ \A i \in 1 .. Len(s) : (s \o t)[i] = s[i]
         /\ \A i \in 1 .. Len(t) : (s \o t)[Len(s) + i] = t[i]
<1>1. PICK S, T : s \in Seq(S) /\ t \in Seq(T)
  BY DEF IsSlots
<1> DEFINE U == S \cup T
<1>2. s \in Seq(U) /\ t \in Seq(U)
  <2>1. \A i \in 1 .. Len(s) : s[i] \in S
    BY <1>1
  <2>2. \A i \in 1 .. Len(t) : t[i] \in T
    BY <1>1
  <2> QED
    BY <1>1, <2>1, <2>2
<1> HIDE DEF U
<1> QED
  BY <1>2, Joined DEF IsSlots

\* Flattened, for slots of any kind.
LEMMA SlotsFlattened ==
  ASSUME NEW k \in Nat, NEW parts, DOMAIN parts = 1 .. k, parts = [n \in 1 .. k |-> parts[n]],
         \A n \in 1 .. k : IsSlots(parts[n])
  PROVE  IsSlots(FlattenSeq(parts)) /\ Len(parts) = k /\ \E at : Placed(FlattenSeq(parts), parts, at)
<1> DEFINE U == UNION {{parts[n][i] : i \in DOMAIN parts[n]} : n \in 1 .. k}
<1>1. ASSUME NEW n \in 1 .. k PROVE parts[n] \in Seq(U)
  <2>1. PICK S : parts[n] \in Seq(S)
    BY DEF IsSlots
  <2>2. \A i \in 1 .. Len(parts[n]) : parts[n][i] \in U
    BY <2>1
  <2> HIDE DEF U
  <2> QED
    BY <2>1, <2>2
<1> HIDE DEF U
<1>2. parts \in Seq(Seq(U))
  BY <1>1
<1>3. Len(parts) = k
  BY <1>2
<1> QED
  BY <1>2, <1>3, Flattened DEF IsSlots

\* The bytes of a field.
LEMMA BytesAre ==
  ASSUME NEW x, NEW size \in Nat
  PROVE  /\ IsSlots(BytesOf(x, size)) /\ Len(BytesOf(x, size)) = size
         /\ \A i \in 1 .. size : BytesOf(x, size)[i] = <<x, i>>
         /\ IsSlots(Unwritten(size)) /\ Len(Unwritten(size)) = size
<1> DEFINE U == {<<x, i>> : i \in 1 .. size}
<1>1. \A i \in 1 .. size : <<x, i>> \in U
  OBVIOUS
<1> HIDE DEF U
<1>2. BytesOf(x, size) \in Seq(U)
  BY <1>1 DEF BytesOf
<1>3. Len(BytesOf(x, size)) = size /\ \A i \in 1 .. size : BytesOf(x, size)[i] = <<x, i>>
  BY <1>2 DEF BytesOf
<1>4. Unwritten(size) \in Seq({<<>>})
  BY DEF Unwritten
<1>5. Len(Unwritten(size)) = size
  BY <1>4 DEF Unwritten
<1> QED
  BY <1>2, <1>3, <1>4, <1>5 DEF IsSlots

\* The part of a row with its fixed-length fields, and the one with its texts.
Fixed(tuple, schema) == [i \in DOMAIN schema |-> FixedField(tuple, i, schema[i].type)]
Texts(tuple, schema) ==
  [i \in DOMAIN schema |-> IF schema[i].type = "VARCHAR" THEN TextField(tuple, i) ELSE <<>>]
TextOf(tuple, i) ==
  IF is_column_null(tuple, i) \/ Type(tuple[i]) # "VARCHAR" THEN <<>> ELSE Val(tuple[i])

\* The fields of a row: their types, sizes and first bytes.
LEMMA FieldsAre ==
  ASSUME NEW schema, IsSchema(schema), NEW tuple, Storable(tuple), NEW i \in DOMAIN schema
  PROVE  /\ schema_column_fixed_size(schema[i].type) \in Nat
         /\ schema[i].type # "VARCHAR" => schema_column_fixed_size(schema[i].type) > 0
         /\ IsSlots(FixedField(tuple, i, schema[i].type))
         /\ Len(FixedField(tuple, i, schema[i].type)) = schema_column_fixed_size(schema[i].type)
         /\ schema[i].type # "VARCHAR" /\ ~is_column_null(tuple, i) =>
              FixedField(tuple, i, schema[i].type)[1] = <<StoredValue(tuple, i, schema[i].type), 1>>
         /\ IsSlots(TextOf(tuple, i)) /\ IsSlots(TextField(tuple, i))
         /\ Len(TextField(tuple, i)) = LengthPrefix + Len(TextOf(tuple, i))
         /\ TextField(tuple, i)[1] = <<Len(TextOf(tuple, i)), 1>>
         /\ \A j \in 1 .. Len(TextOf(tuple, i)) : TextField(tuple, i)[LengthPrefix + j] = TextOf(tuple, i)[j]
<1> DEFINE type == schema[i].type
           size == schema_column_fixed_size(type)
           text == TextOf(tuple, i)
<1>1. type \in ColumnTypes
  BY DEF IsSchema
<1>2. size \in Nat /\ (type # "VARCHAR" => size > 0)
  BY <1>1 DEF ColumnTypes, schema_column_fixed_size
<1>3. /\ IsSlots(FixedField(tuple, i, type)) /\ Len(FixedField(tuple, i, type)) = size
      /\ type # "VARCHAR" /\ ~is_column_null(tuple, i) =>
           FixedField(tuple, i, type)[1] = <<StoredValue(tuple, i, type), 1>>
  <2> HIDE DEF type
  <2>1. CASE is_column_null(tuple, i)
    BY <1>2, <2>1, BytesAre DEF FixedField
  <2>2. CASE ~is_column_null(tuple, i)
    <3> DEFINE x == IF Type(tuple[i]) = type THEN tuple[i] ELSE BitsAs(tuple[i], type)
    <3>1. FixedField(tuple, i, type) = BytesOf(x, size)
      BY <2>2 DEF FixedField
    <3>2. type # "VARCHAR" => x = StoredValue(tuple, i, type)
      BY <2>2 DEF StoredValue
    <3> HIDE DEF x, size
    <3> QED
      BY <1>2, <3>1, <3>2, BytesAre DEF size
  <2> QED
    BY <2>1, <2>2
<1>4. IsSlots(text)
  <2>1. IsSlots(<<>>)
    <3>1. <<>> \in Seq({})
      OBVIOUS
    <3> QED
      BY <3>1 DEF IsSlots
  <2>2. ASSUME ~is_column_null(tuple, i), Type(tuple[i]) = "VARCHAR" PROVE IsSlots(Val(tuple[i]))
    <3>1. Len(tuple) \in Nat /\ DOMAIN tuple = 1 .. Len(tuple)
      BY SlotsLength DEF Storable
    <3>2. i \in DOMAIN tuple
      <4>1. i \in Nat /\ i > 0
        BY SlotsLength DEF IsSchema
      <4> QED
        BY <2>2, <3>1, <4>1 DEF is_column_null
    <3> QED
      BY <2>2, <3>2 DEF Storable, IsText
  <2> QED
    BY <2>1, <2>2 DEF TextOf
<1>5. TextField(tuple, i) = BytesOf(Len(text), LengthPrefix) \o text
  BY DEF TextField, TextOf
<1>6. LengthPrefix \in Nat /\ LengthPrefix = 4
  BY DEF LengthPrefix
<1> DEFINE prefix == BytesOf(Len(text), LengthPrefix)
<1>7. IsSlots(prefix) /\ Len(prefix) = LengthPrefix /\ prefix[1] = <<Len(text), 1>>
  <2> HIDE DEF text
  <2>1. 1 \in 1 .. LengthPrefix
    BY <1>6
  <2>2. \A j \in 1 .. LengthPrefix : prefix[j] = <<Len(text), j>>
    BY <1>6, BytesAre
  <2>3. IsSlots(prefix) /\ Len(prefix) = LengthPrefix
    BY <1>6, BytesAre
  <2> HIDE DEF prefix
  <2> QED
    BY <2>1, <2>2, <2>3
<1> HIDE DEF text, prefix
<1>9. 1 \in 1 .. Len(prefix) /\ Len(text) \in Nat
  BY <1>4, <1>6, <1>7, SlotsLength
<1>8. /\ IsSlots(prefix \o text) /\ Len(prefix \o text) = LengthPrefix + Len(text)
      /\ (prefix \o text)[1] = <<Len(text), 1>>
      /\ \A j \in 1 .. Len(text) : (prefix \o text)[LengthPrefix + j] = text[j]
  <2>1. /\ IsSlots(prefix \o text) /\ Len(prefix \o text) = Len(prefix) + Len(text)
        /\ \A j \in 1 .. Len(prefix) : (prefix \o text)[j] = prefix[j]
        /\ \A j \in 1 .. Len(text) : (prefix \o text)[Len(prefix) + j] = text[j]
    BY <1>4, <1>7, SlotsJoined
  <2>2. (prefix \o text)[1] = prefix[1]
    BY <1>9, <2>1
  <2> QED
    BY <1>7, <2>1, <2>2
<1> QED
  BY <1>2, <1>3, <1>4, <1>5, <1>8 DEF text, prefix

\* The bitmap has a bit for each column, set when the column is NULL.
LEMMA BitmapIs ==
  ASSUME NEW schema, IsSchema(schema), NEW tuple
  PROVE  /\ IsSlots(Bitmap(tuple, schema)) /\ null_bitmap_size(schema) \in Nat \ {0}
         /\ Len(Bitmap(tuple, schema)) = null_bitmap_size(schema)
         /\ \A i \in DOMAIN schema :
              /\ (i - 1) \div BitsPerByte + 1 \in 1 .. null_bitmap_size(schema)
              /\ i \in Bitmap(tuple, schema)[(i - 1) \div BitsPerByte + 1] <=> is_column_null(tuple, i)
<1> DEFINE B == null_bitmap_size(schema)
           Bits(b) == {i \in DOMAIN schema : (i - 1) \div BitsPerByte = b - 1 /\ is_column_null(tuple, i)}
<1>1. Len(schema) \in Nat /\ DOMAIN schema = 1 .. Len(schema) /\ Len(schema) > 0
  BY SlotsLength DEF IsSchema
<1>2. B \in Nat /\ B > 0
  <2>1. B = (Len(schema) + 7) \div 8
    BY <1>1 DEF null_bitmap_size, BitsPerByte
  <2> HIDE DEF B
  <2> QED
    BY <1>1, <2>1
<1>3. ASSUME NEW i \in DOMAIN schema PROVE (i - 1) \div BitsPerByte + 1 \in 1 .. B
  <2>1. B = (Len(schema) + 7) \div 8 /\ BitsPerByte = 8
    BY <1>1 DEF null_bitmap_size, BitsPerByte
  <2> HIDE DEF B
  <2> QED
    BY <1>1, <2>1
<1>4. Bitmap(tuple, schema) = [b \in 1 .. B |-> Bits(b)]
  BY DEF Bitmap
<1> HIDE DEF Bits, B
<1>5. Bitmap(tuple, schema) \in Seq({Bits(b) : b \in 1 .. B}) /\ Len(Bitmap(tuple, schema)) = B
  BY <1>2, <1>4
<1>6. ASSUME NEW i \in DOMAIN schema
      PROVE  i \in Bitmap(tuple, schema)[(i - 1) \div BitsPerByte + 1] <=> is_column_null(tuple, i)
  <2> DEFINE b == (i - 1) \div BitsPerByte + 1
  <2>1. Bitmap(tuple, schema)[b] = Bits(b)
    BY <1>3, <1>4
  <2>2. (i - 1) \div BitsPerByte = b - 1
    <3>1. (i - 1) \div 8 \in Int
      BY <1>1
    <3> QED
      BY <3>1 DEF BitsPerByte
  <2> QED
    BY <2>1, <2>2 DEF Bits
<1> QED
  BY <1>2, <1>3, <1>5, <1>6 DEF B, IsSlots

\* Where the fixed-length fields of a schema begin, and where the area ends.
LEMMA OffsetsAre ==
  ASSUME NEW schema, IsSchema(schema), NEW size, NEW at, Sums(at, size, Len(schema)),
         size \in [1 .. Len(schema) -> Nat],
         \A i \in 1 .. Len(schema) : size[i] = schema_column_fixed_size(schema[i].type)
  PROVE  \A i \in 1 .. Len(schema) + 1 : fixed_offset(schema, i) = at[i - 1]
<1> DEFINE L == Len(schema)
           Field(n) == schema_column_fixed_size(schema[n].type)
           before == CHOOSE f : f = [n \in 0 .. L |-> IF n = 0 THEN 0 ELSE f[n - 1] + Field(n)]
<1>1. \A i : fixed_offset(schema, i) = before[i - 1]
  BY DEF fixed_offset
<1>2. L \in Nat
  BY SlotsLength DEF IsSchema
<1> HIDE DEF L, Field
<1>3. at = [n \in 0 .. L |-> IF n = 0 THEN 0 ELSE at[n - 1] + Field(n)]
  <2>1. at = [n \in 0 .. L |-> at[n]] /\ at[0] = 0 /\ \A n \in 1 .. L : at[n] = at[n - 1] + size[n]
    BY DEF Sums, L
  <2>2. \A n \in 1 .. L : size[n] = Field(n)
    BY DEF L, Field
  <2>3. \A n \in 0 .. L : at[n] = IF n = 0 THEN 0 ELSE at[n - 1] + Field(n)
    <3>1. \A n \in 0 .. L : n # 0 => n \in 1 .. L
      BY <1>2
    <3> QED
      BY <2>1, <2>2, <3>1
  <2> QED
    BY <2>1, <2>3
<1>4. before = [n \in 0 .. L |-> IF n = 0 THEN 0 ELSE before[n - 1] + Field(n)]
  BY <1>3
<1> HIDE DEF before
<1>5. \A n \in 0 .. L : before[n] = 0 + at[n]
  <2>1. before[0] = 0
    BY <1>2, <1>4
  <2>2. \A n \in 1 .. L : before[n] = before[n - 1] + size[n]
    <3> TAKE n \in 1 .. L
    <3>1. n \in 0 .. L /\ n # 0
      BY <1>2
    <3> QED
      BY <1>4, <3>1 DEF L, Field
  <2>3. size \in [1 .. L -> Nat] /\ Sums(at, size, L) /\ 0 \in Nat
    BY DEF L
  <2>4. Follows(before, 0, at, size, L)
    BY <2>1, <2>2 DEF Follows
  <2> QED
    BY <1>2, <2>3, <2>4, SumsAgree
<1> SUFFICES ASSUME NEW i \in 1 .. Len(schema) + 1 PROVE fixed_offset(schema, i) = at[i - 1]
  OBVIOUS
<1>6. i - 1 \in 0 .. L /\ at[i - 1] \in Nat
  <2>1. at \in [0 .. L -> Nat]
    BY DEF L, Sums
  <2>2. i - 1 \in 0 .. L
    BY <1>2 DEF L
  <2> QED
    BY ONLY <2>1, <2>2
<1> QED
  BY <1>1, <1>5, <1>6

\* A row as it is stored.
Rows(tuple, schema) == Bitmap(tuple, schema) \o FlattenSeq(Fixed(tuple, schema)) \o FlattenSeq(Texts(tuple, schema))

\* Where the parts of a stored row are.
Laid(tuple, schema, buf, atF, atT) ==
  LET B == null_bitmap_size(schema)
      L == Len(schema)
      F == atF[L]
  IN /\ IsSlots(buf) /\ Len(buf) = B + F + atT[L]
     /\ Sums(atF, [i \in 1 .. L |-> schema_column_fixed_size(schema[i].type)], L)
     /\ Sums(atT, [i \in 1 .. L |-> Len(Texts(tuple, schema)[i])], L)
     /\ \A b \in 1 .. B : buf[b] = Bitmap(tuple, schema)[b]
     /\ \A n \in 1 .. L : \A i \in 1 .. Len(Fixed(tuple, schema)[n]) :
          buf[B + atF[n - 1] + i] = Fixed(tuple, schema)[n][i]
     /\ \A n \in 1 .. L : \A i \in 1 .. Len(Texts(tuple, schema)[n]) :
          /\ buf[B + F + atT[n - 1] + i] = Texts(tuple, schema)[n][i]
          /\ atT[n - 1] + i \in 1 .. atT[L]

\* tuple_serialize lays out bitmap, fixed-length fields and texts.
LEMMA RowLaid ==
  ASSUME NEW schema, IsSchema(schema), NEW tuple, Storable(tuple)
  PROVE  \E atF, atT : Laid(tuple, schema, tuple_serialize(tuple, schema), atF, atT)
<1> DEFINE L == Len(schema)
           fixed == Fixed(tuple, schema)
           texts == Texts(tuple, schema)
           bits == Bitmap(tuple, schema)
           FF == FlattenSeq(fixed)
           TT == FlattenSeq(texts)
           B == null_bitmap_size(schema)
<1>1. L \in Nat /\ DOMAIN schema = 1 .. L
  BY SlotsLength DEF IsSchema
<1>2. /\ DOMAIN fixed = 1 .. L /\ fixed = [n \in 1 .. L |-> fixed[n]]
      /\ \A n \in 1 .. L : IsSlots(fixed[n]) /\ Len(fixed[n]) = schema_column_fixed_size(schema[n].type)
  <2>1. fixed = [i \in 1 .. L |-> FixedField(tuple, i, schema[i].type)]
    BY <1>1 DEF Fixed
  <2> HIDE DEF fixed
  <2>2. \A n \in 1 .. L : fixed[n] = FixedField(tuple, n, schema[n].type)
    BY <2>1
  <2>3. \A n \in 1 .. L : IsSlots(fixed[n]) /\ Len(fixed[n]) = schema_column_fixed_size(schema[n].type)
    BY <1>1, <2>2, FieldsAre
  <2> QED
    BY <2>1, <2>3
<1>3. /\ DOMAIN texts = 1 .. L /\ texts = [n \in 1 .. L |-> texts[n]]
      /\ \A n \in 1 .. L : IsSlots(texts[n])
  <2>1. texts = [i \in 1 .. L |-> IF schema[i].type = "VARCHAR" THEN TextField(tuple, i) ELSE <<>>]
    BY <1>1 DEF Texts
  <2>2. IsSlots(<<>>)
    <3>1. <<>> \in Seq({})
      OBVIOUS
    <3> QED
      BY <3>1 DEF IsSlots
  <2> HIDE DEF texts
  <2>3. \A n \in 1 .. L : texts[n] = IF schema[n].type = "VARCHAR" THEN TextField(tuple, n) ELSE <<>>
    BY <2>1
  <2>4. \A n \in 1 .. L : IsSlots(texts[n])
    BY <1>1, <2>2, <2>3, FieldsAre
  <2> QED
    BY <2>1, <2>4
<1>4. IsSlots(bits) /\ Len(bits) = B /\ B \in Nat
  BY BitmapIs
<1> HIDE DEF L, fixed, texts, bits, B
<1>5. IsSlots(FF) /\ Len(fixed) = L /\ \E at : Placed(FF, fixed, at)
  BY <1>1, <1>2, SlotsFlattened
<1>6. IsSlots(TT) /\ Len(texts) = L /\ \E at : Placed(TT, texts, at)
  BY <1>1, <1>3, SlotsFlattened
<1>7. PICK atF : Placed(FF, fixed, atF)
  BY <1>5
<1>8. PICK atT : Placed(TT, texts, atT)
  BY <1>6
<1>9. tuple_serialize(tuple, schema) = (bits \o FF) \o TT
  BY DEF tuple_serialize, bits, fixed, texts, Fixed, Texts
<1> HIDE DEF FF, TT
<1> DEFINE head == bits \o FF
           buf == head \o TT
<1>10. /\ IsSlots(head) /\ Len(head) = B + Len(FF)
       /\ \A i \in 1 .. B : head[i] = bits[i]
       /\ \A i \in 1 .. Len(FF) : head[B + i] = FF[i]
  BY <1>4, <1>5, SlotsJoined
<1> HIDE DEF head
<1>11. /\ IsSlots(buf) /\ Len(buf) = Len(head) + Len(TT)
       /\ \A i \in 1 .. Len(head) : buf[i] = head[i]
       /\ \A i \in 1 .. Len(TT) : buf[Len(head) + i] = TT[i]
  BY <1>6, <1>10, SlotsJoined
<1> HIDE DEF buf
<1>12. /\ Sums(atF, [n \in 1 .. L |-> Len(fixed[n])], L) /\ Len(FF) = atF[L]
       /\ \A n \in 1 .. L : \A i \in 1 .. Len(fixed[n]) :
            atF[n - 1] + i \in 1 .. Len(FF) /\ FF[atF[n - 1] + i] = fixed[n][i]
  BY <1>5, <1>7 DEF Placed
<1>13. /\ Sums(atT, [n \in 1 .. L |-> Len(texts[n])], L) /\ Len(TT) = atT[L]
       /\ \A n \in 1 .. L : \A i \in 1 .. Len(texts[n]) :
            atT[n - 1] + i \in 1 .. Len(TT) /\ TT[atT[n - 1] + i] = texts[n][i]
  BY <1>6, <1>8 DEF Placed
<1>14. Len(FF) \in Nat /\ Len(TT) \in Nat
  BY <1>5, <1>6, SlotsLength
<1>15. [n \in 1 .. L |-> Len(fixed[n])] = [i \in 1 .. L |-> schema_column_fixed_size(schema[i].type)]
  BY <1>2
<1>16. \A b \in 1 .. B : buf[b] = bits[b]
  BY <1>4, <1>10, <1>11, <1>14
<1>17. ASSUME NEW n \in 1 .. L, NEW i \in 1 .. Len(fixed[n]) PROVE buf[B + atF[n - 1] + i] = fixed[n][i]
  <2>1. atF[n - 1] + i \in 1 .. Len(FF) /\ FF[atF[n - 1] + i] = fixed[n][i]
    BY <1>12
  <2>2. atF[n - 1] \in Nat /\ i \in Nat
    <3>1. n - 1 \in 0 .. L
      BY <1>1
    <3>2. Len(fixed[n]) \in Nat
      BY <1>2, SlotsLength
    <3> QED
      BY <1>12, <3>1, <3>2 DEF Sums
  <2>3. B + (atF[n - 1] + i) \in 1 .. Len(head) /\ B + (atF[n - 1] + i) = B + atF[n - 1] + i
    <3> DEFINE p == atF[n - 1]
    <3>1. p \in Nat /\ i \in Nat /\ p + i \in 1 .. Len(FF)
      BY <2>1, <2>2
    <3> HIDE DEF p
    <3>2. B + (p + i) \in 1 .. Len(head) /\ B + (p + i) = B + p + i
      BY <1>4, <1>10, <1>14, <3>1
    <3> QED
      BY <3>2 DEF p
  <2>4. head[B + (atF[n - 1] + i)] = FF[atF[n - 1] + i]
    BY <1>10, <2>1
  <2> QED
    BY <1>11, <2>1, <2>3, <2>4
<1>18. ASSUME NEW n \in 1 .. L, NEW i \in 1 .. Len(texts[n])
       PROVE  buf[B + atF[L] + atT[n - 1] + i] = texts[n][i] /\ atT[n - 1] + i \in 1 .. atT[L]
  <2>1. atT[n - 1] + i \in 1 .. Len(TT) /\ TT[atT[n - 1] + i] = texts[n][i]
    BY <1>13
  <2>2. atT[n - 1] \in Nat /\ i \in Nat
    <3>1. n - 1 \in 0 .. L
      BY <1>1
    <3>2. Len(texts[n]) \in Nat
      BY <1>3, SlotsLength
    <3> QED
      BY <1>13, <3>1, <3>2 DEF Sums
  <2>3. Len(head) + (atT[n - 1] + i) = B + atF[L] + atT[n - 1] + i
    BY <1>4, <1>10, <1>12, <1>14, <2>1, <2>2
  <2> QED
    BY <1>11, <1>13, <2>1, <2>3
<1>19. Len(buf) = B + atF[L] + atT[L]
  BY <1>10, <1>11, <1>12, <1>13
<1>20. Laid(tuple, schema, buf, atF, atT)
  BY <1>11, <1>12, <1>13, <1>15, <1>16, <1>17, <1>18, <1>19 DEF Laid, L, B, fixed, texts, bits
<1>21. buf = tuple_serialize(tuple, schema)
  BY <1>9 DEF buf, head
<1> QED
  BY <1>20, <1>21

\* Where the texts of a stored row begin, as tuple_deserialize finds it.
LEMMA TextsAt ==
  ASSUME NEW schema, IsSchema(schema), NEW tuple, Storable(tuple), NEW buf, NEW atF, NEW atT,
         Laid(tuple, schema, buf, atF, atT)
  PROVE  \A i \in 1 .. Len(schema) : TextAt(buf, schema, i) = null_bitmap_size(schema) + atF[Len(schema)] + atT[i - 1] + 1
<1> DEFINE L == Len(schema)
           Next(p, n) == IF schema[n].type # "VARCHAR" THEN p ELSE p + LengthPrefix + buf[p + 1][1]
           c == null_bitmap_size(schema) + fixed_size(schema)
           start == CHOOSE f : f = [n \in 0 .. L |-> IF n = 0 THEN c ELSE Next(f[n - 1], n)]
           size == [i \in 1 .. L |-> Len(Texts(tuple, schema)[i])]
<1>1. \A i : TextAt(buf, schema, i) = start[i - 1] + 1
  <2>1. \A f : [n \in 0 .. L |-> IF n = 0 THEN c ELSE Next(f[n - 1], n)]
               = [n \in 0 .. L |-> IF n = 0 THEN null_bitmap_size(schema) + fixed_size(schema)
                                   ELSE IF schema[n].type # "VARCHAR" THEN f[n - 1]
                                   ELSE f[n - 1] + LengthPrefix + buf[f[n - 1] + 1][1]]
    OBVIOUS
  <2> QED
    BY DEF TextAt
<1>2. L \in Nat /\ DOMAIN schema = 1 .. L
  BY SlotsLength DEF IsSchema
<1>3. ASSUME NEW n \in 1 .. L
      PROVE  /\ IsSlots(Texts(tuple, schema)[n])
             /\ schema[n].type # "VARCHAR" => size[n] = 0
             /\ schema[n].type = "VARCHAR" =>
                  /\ size[n] = LengthPrefix + Len(TextOf(tuple, n)) /\ Len(TextOf(tuple, n)) \in Nat
                  /\ Texts(tuple, schema)[n][1] = <<Len(TextOf(tuple, n)), 1>>
  <2>1. n \in DOMAIN schema
    BY <1>2
  <2>2. Texts(tuple, schema)[n] = IF schema[n].type = "VARCHAR" THEN TextField(tuple, n) ELSE <<>>
    BY <2>1 DEF Texts
  <2>3. size[n] = Len(Texts(tuple, schema)[n])
    OBVIOUS
  <2>4. IsSlots(<<>>) /\ Len(<<>>) = 0
    <3>1. <<>> \in Seq({})
      OBVIOUS
    <3> QED
      BY <3>1 DEF IsSlots
  <2> HIDE DEF size
  <2>5. /\ IsSlots(TextOf(tuple, n)) /\ IsSlots(TextField(tuple, n))
        /\ Len(TextField(tuple, n)) = LengthPrefix + Len(TextOf(tuple, n))
        /\ TextField(tuple, n)[1] = <<Len(TextOf(tuple, n)), 1>>
    BY <2>1, FieldsAre
  <2>6. Len(TextOf(tuple, n)) \in Nat
    BY <2>5, SlotsLength
  <2> QED
    BY <2>2, <2>3, <2>4, <2>5, <2>6
<1>4. size \in [1 .. L -> Nat]
  <2>1. \A n \in 1 .. L : Len(Texts(tuple, schema)[n]) \in Nat
    BY <1>3, SlotsLength
  <2> QED
    BY <2>1
<1>5. c = null_bitmap_size(schema) + atF[L] /\ atF[L] \in Nat /\ null_bitmap_size(schema) \in Nat
  <2>1. null_bitmap_size(schema) \in Nat
    BY BitmapIs
  <2> DEFINE sizeF == [i \in 1 .. L |-> schema_column_fixed_size(schema[i].type)]
  <2>2. Sums(atF, sizeF, Len(schema))
    BY DEF Laid
  <2>3. sizeF \in [1 .. Len(schema) -> Nat]
        /\ \A i \in 1 .. Len(schema) : sizeF[i] = schema_column_fixed_size(schema[i].type)
    BY <1>2, FieldsAre
  <2> HIDE DEF sizeF
  <2>4. fixed_offset(schema, L + 1) = atF[(L + 1) - 1] /\ (L + 1) - 1 = L
    BY <1>2, <2>2, <2>3, OffsetsAre
  <2>5. atF[L] \in Nat
    BY <1>2, <2>2 DEF Sums
  <2> QED
    BY <2>1, <2>4, <2>5 DEF fixed_size
<1>6. /\ Sums(atT, size, L)
      /\ \A n \in 1 .. L : \A i \in 1 .. size[n] : buf[c + atT[n - 1] + i] = Texts(tuple, schema)[n][i]
  <2>1. \A n \in 1 .. L : size[n] = Len(Texts(tuple, schema)[n])
    OBVIOUS
  <2> QED
    BY <1>5, <2>1 DEF Laid
<1>7. ASSUME NEW n \in 1 .. L PROVE Next(c + atT[n - 1], n) = c + atT[n]
  <2>1. atT[n] = atT[n - 1] + size[n] /\ atT[n - 1] \in Nat
    BY <1>2, <1>6 DEF Sums
  <2>2. CASE schema[n].type # "VARCHAR"
    <3>1. size[n] = 0
      BY <1>3, <2>2
    <3> HIDE DEF c, size
    <3> QED
      BY <2>1, <2>2, <3>1
  <2>3. CASE schema[n].type = "VARCHAR"
    <3> DEFINE len == Len(TextOf(tuple, n))
    <3>1. size[n] = LengthPrefix + len /\ len \in Nat /\ Texts(tuple, schema)[n][1] = <<len, 1>>
      BY <1>3, <2>3
    <3> HIDE DEF len, size
    <3>2. 1 \in 1 .. size[n] /\ LengthPrefix \in Nat
      BY <3>1 DEF LengthPrefix
    <3>3. buf[c + atT[n - 1] + 1] = <<len, 1>>
      BY <1>6, <3>1, <3>2
    <3>4. Next(c + atT[n - 1], n) = c + atT[n - 1] + LengthPrefix + len
      BY <2>3, <3>3
    <3>5. c \in Nat
      BY <1>5
    <3> HIDE DEF c, Next
    <3> QED
      BY <2>1, <3>1, <3>2, <3>4, <3>5
  <2> QED
    BY <2>2, <2>3
<1>8. c \in Nat
  BY <1>5
<1> HIDE DEF L, c, Next, size
<1>9. \E f : f = [n \in 0 .. L |-> IF n = 0 THEN c ELSE Next(f[n - 1], n)]
  <2> DEFINE g == [n \in 0 .. L |-> c + atT[n]]
  <2>1. ASSUME NEW n \in 0 .. L PROVE g[n] = IF n = 0 THEN c ELSE Next(g[n - 1], n)
    <3>1. CASE n = 0
      BY <1>6, <1>8, <3>1 DEF Sums
    <3>2. CASE n # 0
      <4>1. n \in 1 .. L /\ n - 1 \in 0 .. L
        BY <1>2, <3>2
      <4>2. g[n] = c + atT[n] /\ g[n - 1] = c + atT[n - 1]
        BY <4>1
      <4> HIDE DEF g
      <4> QED
        BY <1>7, <3>2, <4>1, <4>2
    <3> QED
      BY <3>1, <3>2
  <2>2. g = [n \in 0 .. L |-> IF n = 0 THEN c ELSE Next(g[n - 1], n)]
    BY <2>1
  <2> HIDE DEF g
  <2> QED
    BY <2>2
<1>10. start = [n \in 0 .. L |-> IF n = 0 THEN c ELSE Next(start[n - 1], n)]
  BY <1>9
<1> HIDE DEF start
<1>11. Follows(start, c, atT, size, L)
  <2>1. start[0] = c
    BY <1>2, <1>10
  <2>2. ASSUME NEW n \in 1 .. L, start[n - 1] = c + atT[n - 1] PROVE start[n] = start[n - 1] + size[n]
    <3>1. n \in 0 .. L /\ n # 0 /\ n - 1 \in 0 .. L
      BY <1>2
    <3>2. start[n] = c + atT[n]
      BY <1>7, <1>10, <2>2, <3>1
    <3>3. atT[n] = atT[n - 1] + size[n] /\ atT[n - 1] \in Nat /\ size[n] \in Nat
      BY <1>4, <1>6, <3>1 DEF Sums
    <3> QED
      BY <1>8, <2>2, <3>2, <3>3
  <2> QED
    BY <2>1, <2>2 DEF Follows
<1>12. \A n \in 0 .. L : start[n] = c + atT[n]
  BY <1>2, <1>4, <1>6, <1>8, <1>11, SumsAgree
<1> SUFFICES ASSUME NEW i \in 1 .. L
             PROVE  TextAt(buf, schema, i) = null_bitmap_size(schema) + atF[L] + atT[i - 1] + 1
  BY DEF L
<1>13. i - 1 \in 0 .. L
  BY <1>2
<1> QED
  BY <1>1, <1>5, <1>12, <1>13

\* A piece of a sequence that holds a given sequence is that sequence.
LEMMA PieceIs ==
  ASSUME NEW buf, IsSlots(buf), NEW text, IsSlots(text), NEW p \in Nat, p + Len(text) <= Len(buf),
         \A j \in 1 .. Len(text) : buf[p + j] = text[j]
  PROVE  SubSeq(buf, p + 1, p + 1 + Len(text) - 1) = text
<1>1. PICK S, T : buf \in Seq(S) /\ text \in Seq(T)
  BY DEF IsSlots
<1> DEFINE l == Len(text)
<1>2. l \in Nat /\ Len(buf) \in Nat /\ p + 1 + l - 1 = p + l /\ text = [j \in 1 .. l |-> text[j]]
  BY <1>1
<1>3. SubSeq(buf, p + 1, p + l) = [j \in 1 .. l |-> buf[p + j]]
  <2> HIDE DEF l
  <2>1. SubSeq(buf, p + 1, p + l) = [j \in 1 .. (1 + (p + l) - (p + 1)) |-> buf[(p + 1) + j - 1]]
    <3>1. p + 1 \in Int /\ p + l \in Int
      BY <1>2
    <3> QED
      BY <1>1, <3>1, SMTT(30)
  <2>2. 1 + (p + l) - (p + 1) = l /\ \A j \in 1 .. l : (p + 1) + j - 1 = p + j
    BY <1>2
  <2>3. [j \in 1 .. l |-> buf[(p + 1) + j - 1]] = [j \in 1 .. l |-> buf[p + j]]
    BY <2>2
  <2> QED
    BY <2>1, <2>2, <2>3
<1>4. [j \in 1 .. l |-> buf[p + j]] = [j \in 1 .. l |-> text[j]]
  OBVIOUS
<1> HIDE DEF l
<1> QED
  BY <1>2, <1>3, <1>4 DEF l

\* A row that was written is read again: tuple_serialize, tuple_deserialize.
LEMMA ReadsBack ==
  ASSUME NEW schema, IsSchema(schema), NEW tuple, Storable(tuple)
  PROVE  /\ tuple_deserialize(tuple_serialize(tuple, schema), schema) = Stored(tuple, schema)
         /\ IsSlots(tuple_serialize(tuple, schema)) /\ tuple_serialize(tuple, schema) # <<>>
<1> DEFINE buf == tuple_serialize(tuple, schema)
           B == null_bitmap_size(schema)
           L == Len(schema)
<1>1. PICK atF, atT : Laid(tuple, schema, buf, atF, atT)
  BY RowLaid
<1> HIDE DEF buf
<1> DEFINE F == atF[L]
<1>2. L \in Nat /\ DOMAIN schema = 1 .. L
  BY SlotsLength DEF IsSchema
<1>3. B \in Nat \ {0}
  BY BitmapIs
<1> DEFINE sizeF == [i \in 1 .. L |-> schema_column_fixed_size(schema[i].type)]
           sizeT == [i \in 1 .. L |-> Len(Texts(tuple, schema)[i])]
<1>4. sizeF \in [1 .. L -> Nat] /\ \A i \in 1 .. L : sizeF[i] = schema_column_fixed_size(schema[i].type)
  BY <1>2, FieldsAre
<1>5. Sums(atF, sizeF, L) /\ Sums(atT, sizeT, L)
  BY <1>1 DEF Laid
<1>6. F \in Nat /\ atT[L] \in Nat
  BY <1>2, <1>5 DEF Sums
<1>7. IsSlots(buf) /\ Len(buf) = B + F + atT[L]
  BY <1>1 DEF Laid
<1>8. buf # <<>>
  BY <1>3, <1>6, <1>7
<1>9. ASSUME NEW i \in DOMAIN schema PROVE ReadField(buf, schema, i) = StoredValue(tuple, i, schema[i].type)
  <2>1. i \in 1 .. L /\ i - 1 \in 0 .. L
    BY <1>2
  <2>2. IsSetNull(buf, i) <=> is_column_null(tuple, i)
    <3>1. (i - 1) \div BitsPerByte + 1 \in 1 .. B
      BY BitmapIs
    <3>2. buf[(i - 1) \div BitsPerByte + 1] = Bitmap(tuple, schema)[(i - 1) \div BitsPerByte + 1]
      BY <1>1, <3>1 DEF Laid
    <3>3. i \in Bitmap(tuple, schema)[(i - 1) \div BitsPerByte + 1] <=> is_column_null(tuple, i)
      BY BitmapIs
    <3> QED
      BY <3>2, <3>3 DEF IsSetNull
  <2>3. CASE is_column_null(tuple, i)
    BY <2>2, <2>3 DEF ReadField, StoredValue
  <2>4. CASE ~is_column_null(tuple, i) /\ schema[i].type # "VARCHAR"
    <3> DEFINE field == FixedField(tuple, i, schema[i].type)
    <3>1. field[1] = <<StoredValue(tuple, i, schema[i].type), 1>> /\ Len(field) > 0
      <4>1. field[1] = <<StoredValue(tuple, i, schema[i].type), 1>>
        BY <2>4, FieldsAre, SMTT(30)
      <4>2. Len(field) = schema_column_fixed_size(schema[i].type)
        BY FieldsAre
      <4>3. schema_column_fixed_size(schema[i].type) > 0
        BY <2>4, FieldsAre
      <4> HIDE DEF field
      <4> QED
        BY <4>1, <4>2, <4>3
    <3>2. Fixed(tuple, schema)[i] = field
      BY DEF Fixed
    <3>3. IsSlots(field)
      BY FieldsAre
    <3> HIDE DEF field
    <3>4. 1 \in 1 .. Len(field)
      BY <3>1, <3>3, SlotsLength
    <3>5. buf[B + atF[i - 1] + 1] = field[1]
      BY <1>1, <2>1, <3>2, <3>4 DEF Laid
    <3>6. fixed_offset(schema, i) = atF[i - 1]
      <4>1. i \in 1 .. Len(schema) + 1
        BY <1>2
      <4> HIDE DEF sizeF
      <4> QED
        BY <1>4, <1>5, <4>1, OffsetsAre
    <3>7. ReadField(buf, schema, i) = buf[B + fixed_offset(schema, i) + 1][1]
      BY <2>2, <2>4 DEF ReadField
    <3> QED
      BY <3>1, <3>5, <3>6, <3>7
  <2>5. CASE ~is_column_null(tuple, i) /\ schema[i].type = "VARCHAR"
    <3> DEFINE text == TextOf(tuple, i)
               field == TextField(tuple, i)
               p == B + F + atT[i - 1]
               at == p + 1
    <3>1. /\ IsSlots(text) /\ IsSlots(field) /\ Len(field) = LengthPrefix + Len(text)
          /\ field[1] = <<Len(text), 1>>
          /\ \A j \in 1 .. Len(text) : field[LengthPrefix + j] = text[j]
      BY FieldsAre
    <3>2. Texts(tuple, schema)[i] = field
      BY <2>5 DEF Texts
    <3>3. TextAt(buf, schema, i) = at
      BY <1>1, <2>1, TextsAt
    <3>4. Len(text) \in Nat
      BY <3>1, SlotsLength
    <3> HIDE DEF text, field
    <3>5. \A j \in 1 .. Len(field) : buf[p + j] = field[j] /\ atT[i - 1] + j \in 1 .. atT[L]
      BY <1>1, <2>1, <3>2 DEF Laid
    <3>6. LengthPrefix = 4
      BY DEF LengthPrefix
    <3>7. atT[i - 1] \in Nat
      BY <1>5, <2>1 DEF Sums
    <3>8. p \in Nat /\ p + Len(field) <= Len(buf)
      <4>1. Len(field) \in 1 .. Len(field)
        BY <3>1, <3>4, <3>6
      <4>2. atT[i - 1] + Len(field) <= atT[L]
        BY <1>6, <3>5, <3>7, <4>1
      <4> HIDE DEF B, F
      <4> QED
        BY <1>3, <1>6, <1>7, <3>1, <3>4, <3>6, <3>7, <4>2
    <3> HIDE DEF p
    <3>9. buf[at] = <<Len(text), 1>>
      BY <3>1, <3>4, <3>5, <3>6
    <3> DEFINE q == p + LengthPrefix
    <3>10. q \in Nat /\ q + Len(text) <= Len(buf) /\ \A j \in 1 .. Len(text) : buf[q + j] = text[j]
      <4>1. q \in Nat /\ q + Len(text) <= Len(buf)
        BY <3>1, <3>4, <3>6, <3>8, <1>7, SlotsLength
      <4>2. ASSUME NEW j \in 1 .. Len(text) PROVE buf[q + j] = text[j]
        <5>1. LengthPrefix + j \in 1 .. Len(field) /\ p + (LengthPrefix + j) = q + j
          BY <3>1, <3>4, <3>6, <3>8
        <5>2. field[LengthPrefix + j] = text[j]
          BY <3>1
        <5>3. buf[p + (LengthPrefix + j)] = field[LengthPrefix + j]
          BY <3>5, <5>1
        <5> QED
          BY <5>1, <5>2, <5>3
      <4> QED
        BY <4>1, <4>2
    <3>11. at + LengthPrefix = q + 1
      BY <3>6, <3>8
    <3> HIDE DEF q
    <3>12. SubSeq(buf, q + 1, q + 1 + Len(text) - 1) = text
      BY <1>7, <3>1, <3>10, PieceIs
    <3>13. ReadField(buf, schema, i) = Varchar(SubSeq(buf, at + LengthPrefix, at + LengthPrefix + buf[at][1] - 1))
      BY <2>2, <2>5, <3>3 DEF ReadField
    <3>14. ReadField(buf, schema, i) = Varchar(text)
      <4>1. buf[at][1] = Len(text)
        BY <3>9
      <4>2. at + LengthPrefix + buf[at][1] - 1 = q + 1 + Len(text) - 1
        BY <3>4, <3>10, <3>11, <4>1
      <4> HIDE DEF at
      <4> QED
        BY <3>11, <3>12, <3>13, <4>2
    <3>15. Varchar(text) = StoredValue(tuple, i, "VARCHAR")
      <4>1. CASE Type(tuple[i]) = "VARCHAR"
        <5>1. i \in DOMAIN tuple
          <6>1. Len(tuple) \in Nat /\ DOMAIN tuple = 1 .. Len(tuple)
            BY SlotsLength DEF Storable
          <6> QED
            BY <2>1, <2>5, <6>1 DEF is_column_null
        <5> QED
          BY <2>5, <4>1, <5>1 DEF StoredValue, text, TextOf, Storable, IsText
      <4>2. CASE Type(tuple[i]) # "VARCHAR"
        BY <2>5, <4>2 DEF StoredValue, text, TextOf
      <4> QED
        BY <4>1, <4>2
    <3> QED
      BY <2>5, <3>14, <3>15
  <2> QED
    BY <2>3, <2>4, <2>5
<1>10. tuple_deserialize(buf, schema) = Stored(tuple, schema)
  BY <1>9 DEF tuple_deserialize, Stored
<1> QED
  BY <1>7, <1>8, <1>10 DEF buf

\* Rows with the same values, a value that is missing being NULL, are stored
\* the same.
SameFields(t, u, schema) ==
  \A i \in DOMAIN schema :
    /\ is_column_null(t, i) <=> is_column_null(u, i)
    /\ ~is_column_null(t, i) => t[i] = u[i]

\* So they have the same bytes.
LEMMA StoredTheSame ==
  ASSUME NEW schema, NEW t, NEW u, SameFields(t, u, schema)
  PROVE  tuple_serialize(t, schema) = tuple_serialize(u, schema)
<1>1. Bitmap(t, schema) = Bitmap(u, schema)
  <2>1. \A b : {i \in DOMAIN schema : (i - 1) \div BitsPerByte = b - 1 /\ is_column_null(t, i)}
             = {i \in DOMAIN schema : (i - 1) \div BitsPerByte = b - 1 /\ is_column_null(u, i)}
    BY DEF SameFields
  <2> QED
    BY <2>1 DEF Bitmap
<1>2. \A i \in DOMAIN schema : FixedField(t, i, schema[i].type) = FixedField(u, i, schema[i].type)
  BY DEF SameFields, FixedField
<1>3. \A i \in DOMAIN schema : TextField(t, i) = TextField(u, i)
  BY DEF SameFields, TextField
<1>4. Fixed(t, schema) = Fixed(u, schema)
  BY <1>2 DEF Fixed
<1>5. Texts(t, schema) = Texts(u, schema)
  BY <1>3 DEF Texts
<1>6. /\ tuple_serialize(t, schema) = Rows(t, schema)
      /\ tuple_serialize(u, schema) = Rows(u, schema)
  BY DEF tuple_serialize, Rows, Fixed, Texts
<1> QED
  BY <1>1, <1>4, <1>5, <1>6 DEF Rows

-----------------------------------------------------------------------------
(* Numbers and their texts: value_cast_to *)

\* A function on the numbers up to k that goes back from each number that is
\* not below the first ones to a smaller one.
Goes(f, first, base, step, pred, k) ==
  f = [n \in 0 .. k |-> IF n < first THEN base[n] ELSE step[<<f[pred[n]], n>>]]

Descends(f, first, base, step, pred) ==
  \A n \in Nat : f[n] = IF n < first THEN base[n] ELSE step[<<f[pred[n]], n>>]

\* There is a function that satisfies the equation of such a recursion.
LEMMA DescentExists ==
  ASSUME NEW S, NEW first \in Nat, NEW base \in [Nat -> S], NEW step \in [S \X Nat -> S],
         NEW pred \in [Nat -> Nat], \A n \in Nat : n >= first => pred[n] < n
  PROVE  \E f \in [Nat -> S] : Descends(f, first, base, step, pred)
<1> DEFINE G(g, k) == g \in [0 .. k -> S] /\ Goes(g, first, base, step, pred, k)
<1>1. ASSUME NEW k \in Nat, NEW g, G(g, k), NEW n \in 0 .. k
      PROVE  g[n] = IF n < first THEN base[n] ELSE step[<<g[pred[n]], n>>]
  BY <1>1 DEF Goes
<1>2. ASSUME NEW k \in Nat, NEW g, G(g, k), NEW l \in Nat, NEW h, G(h, l)
      PROVE  \A n \in Nat : n <= k /\ n <= l => g[n] = h[n]
  <2> DEFINE T == {n \in Nat : n <= k /\ n <= l /\ g[n] # h[n]}
  <2> SUFFICES ASSUME T # {} PROVE FALSE
    OBVIOUS
  <2>1. PICK n \in T : \A m \in T : n <= m
    <3> HIDE DEF T
    <3>1. T \subseteq Nat
      BY DEF T
    <3> QED
      BY <3>1, LeastNatural
  <2>2. n \in Nat /\ n \in 0 .. k /\ n \in 0 .. l /\ g[n] # h[n]
    OBVIOUS
  <2> HIDE DEF G
  <2>3. /\ g[n] = IF n < first THEN base[n] ELSE step[<<g[pred[n]], n>>]
        /\ h[n] = IF n < first THEN base[n] ELSE step[<<h[pred[n]], n>>]
    BY <1>1, <1>2, <2>2
  <2>4. n >= first /\ g[pred[n]] # h[pred[n]]
    BY <2>2, <2>3
  <2>5. pred[n] < n /\ pred[n] \in Nat
    BY <2>2, <2>4
  <2>6. pred[n] \in T
    BY <2>2, <2>4, <2>5
  <2> HIDE DEF T
  <2>7. n <= pred[n]
    BY <2>1, <2>6
  <2> QED
    BY <2>2, <2>5, <2>7
<1> DEFINE Good == {k \in Nat : \E g : G(g, k)}
<1>3. 0 \in Good
  <2> DEFINE g == [i \in 0 .. 0 |-> base[0]]
  <2>1. 0 < first
    <3>1. 0 \in Nat
      OBVIOUS
    <3> QED
      BY <3>1
  <2>2. g \in [0 .. 0 -> S]
    OBVIOUS
  <2>3. \A n \in 0 .. 0 : g[n] = IF n < first THEN base[n] ELSE step[<<g[pred[n]], n>>]
    BY <2>1
  <2>4. g = [n \in 0 .. 0 |-> IF n < first THEN base[n] ELSE step[<<g[pred[n]], n>>]]
    BY <2>3
  <2> HIDE DEF g
  <2>5. G(g, 0)
    BY <2>2, <2>4 DEF Goes
  <2> QED
    BY <2>5
<1>4. ASSUME NEW k \in Nat, k \in Good PROVE k + 1 \in Good
  <2>1. PICK g : G(g, k)
    BY <1>4
  <2> DEFINE h == [n \in 0 .. k + 1 |-> IF n <= k THEN g[n]
                                        ELSE IF n < first THEN base[n] ELSE step[<<g[pred[n]], n>>]]
  <2>2. ASSUME NEW n \in 0 .. k + 1, n >= first
        PROVE  pred[n] \in 0 .. k /\ pred[n] \in 0 .. k + 1 /\ <<g[pred[n]], n>> \in S \X Nat
    <3>1. n \in Nat /\ pred[n] \in Nat /\ pred[n] < n
      BY <2>2
    <3>2. pred[n] \in 0 .. k /\ pred[n] \in 0 .. k + 1
      BY <3>1
    <3> QED
      BY <2>1, <3>1, <3>2
  <2>3. h \in [0 .. k + 1 -> S]
    <3>1. ASSUME NEW n \in 0 .. k + 1
          PROVE  (IF n <= k THEN g[n] ELSE IF n < first THEN base[n] ELSE step[<<g[pred[n]], n>>]) \in S
      <4>1. n \in Nat /\ (n <= k => n \in 0 .. k)
        OBVIOUS
      <4>2. n <= k => g[n] \in S
        BY <2>1, <4>1
      <4>3. base[n] \in S
        BY <4>1
      <4>4. n >= first => step[<<g[pred[n]], n>>] \in S
        BY <2>2
      <4> QED
        BY <4>1, <4>2, <4>3, <4>4
    <3> QED
      BY <3>1
  <2>4. ASSUME NEW n \in 0 .. k + 1
        PROVE  h[n] = IF n < first THEN base[n] ELSE step[<<h[pred[n]], n>>]
    <3>1. n >= first => h[pred[n]] = g[pred[n]]
      <4> SUFFICES ASSUME n >= first PROVE h[pred[n]] = g[pred[n]]
        OBVIOUS
      <4> DEFINE m == pred[n]
      <4>1. m \in 0 .. k + 1 /\ m <= k
        BY <2>2
      <4> HIDE DEF m
      <4>2. h[m] = g[m]
        BY <4>1
      <4> QED
        BY <4>2 DEF m
    <3>2. CASE n <= k
      <4>1. n \in 0 .. k
        BY <3>2
      <4>2. g[n] = IF n < first THEN base[n] ELSE step[<<g[pred[n]], n>>]
        <5> HIDE DEF G
        <5> QED
          BY <1>1, <2>1, <4>1
      <4>3. h[n] = g[n]
        BY <3>2
      <4> HIDE DEF h, G
      <4> QED
        BY <3>1, <4>2, <4>3
    <3>3. CASE ~(n <= k)
      <4>1. h[n] = IF n < first THEN base[n] ELSE step[<<g[pred[n]], n>>]
        BY <3>3
      <4> HIDE DEF h, G
      <4> QED
        BY <3>1, <4>1
    <3> QED
      BY <3>2, <3>3
  <2>5. h = [n \in 0 .. k + 1 |-> IF n < first THEN base[n] ELSE step[<<h[pred[n]], n>>]]
    BY <2>4
  <2> HIDE DEF h
  <2>6. G(h, k + 1)
    BY <2>3, <2>5 DEF Goes
  <2> QED
    BY <2>6
<1>5. Nat \subseteq Good
  <2> HIDE DEF Good
  <2> QED
    BY <1>3, <1>4, NatsBelong
<1> DEFINE to(k) == CHOOSE g : G(g, k)
           f == [n \in Nat |-> to(n)[n]]
<1>6. \A k \in Nat : G(to(k), k)
  <2> TAKE k \in Nat
  <2>1. \E g : G(g, k)
    BY <1>5
  <2> HIDE DEF G
  <2> QED
    BY <2>1
<1> HIDE DEF G, to
<1>7. f \in [Nat -> S]
  <2>1. \A n \in Nat : to(n)[n] \in S
    BY <1>6 DEF G
  <2> QED
    BY <2>1
<1>8. ASSUME NEW n \in Nat PROVE f[n] = IF n < first THEN base[n] ELSE step[<<f[pred[n]], n>>]
  <2>1. to(n)[n] = IF n < first THEN base[n] ELSE step[<<to(n)[pred[n]], n>>]
    <3>1. n \in 0 .. n
      OBVIOUS
    <3> QED
      BY <1>1, <1>6, <3>1
  <2>2. n >= first => to(n)[pred[n]] = to(pred[n])[pred[n]]
    <3> SUFFICES ASSUME n >= first PROVE to(n)[pred[n]] = to(pred[n])[pred[n]]
      OBVIOUS
    <3>1. pred[n] \in Nat /\ pred[n] <= n /\ pred[n] <= pred[n]
      OBVIOUS
    <3> QED
      BY <1>2, <1>6, <3>1
  <2> HIDE DEF to
  <2>3. f[n] = to(n)[n] /\ (n >= first => f[pred[n]] = to(pred[n])[pred[n]])
    OBVIOUS
  <2> HIDE DEF f
  <2> QED
    BY <2>1, <2>2, <2>3
<1> HIDE DEF f
<1> QED
  BY <1>7, <1>8 DEF Descends

\* Power2 satisfies the equation that defines it.
LEMMA PowersExist ==
  /\ Power2 \in [Nat -> Nat] /\ Power2[0] = 1
  /\ \A k \in Nat : Power2[k + 1] = 2 * Power2[k]
<1> DEFINE base == [n \in Nat |-> 1]
           step == [x \in Nat \X Nat |-> 2 * x[1]]
           pred == [n \in Nat |-> IF n = 0 THEN 0 ELSE n - 1]
<1>1. base \in [Nat -> Nat] /\ step \in [Nat \X Nat -> Nat] /\ pred \in [Nat -> Nat]
      /\ \A n \in Nat : n >= 1 => pred[n] < n
  OBVIOUS
<1>2. \A n \in Nat : base[n] = 1 /\ (n # 0 => pred[n] = n - 1) /\ \A m \in Nat : step[<<m, n>>] = 2 * m
  OBVIOUS
<1>3. 1 \in Nat
  OBVIOUS
<1> HIDE DEF base, step, pred
<1>4. PICK f \in [Nat -> Nat] : Descends(f, 1, base, step, pred)
  BY <1>1, <1>3, DescentExists
<1>5. \A n \in Nat : f[n] = IF n = 0 THEN 1 ELSE 2 * f[n - 1]
  <2> TAKE n \in Nat
  <2>0. f[n] = IF n < 1 THEN base[n] ELSE step[<<f[pred[n]], n>>]
    BY <1>4 DEF Descends
  <2>1. CASE n = 0
    BY <1>2, <2>0, <2>1
  <2>2. CASE n # 0
    <3>1. n - 1 \in Nat /\ ~(n < 1) /\ pred[n] = n - 1
      BY <1>2, <2>2
    <3>2. f[n] = step[<<f[n - 1], n>>] /\ f[n - 1] \in Nat
      BY <2>0, <3>1
    <3> QED
      BY <1>2, <2>2, <3>2
  <2> QED
    BY <2>1, <2>2
<1>6. f = [k \in Nat |-> IF k = 0 THEN 1 ELSE 2 * f[k - 1]]
  BY <1>5
<1>7. Power2 = [k \in Nat |-> IF k = 0 THEN 1 ELSE 2 * Power2[k - 1]]
  BY <1>6 DEF Power2
<1>8. Power2[0] = 1 /\ \A k \in Nat : Power2[k + 1] = 2 * Power2[k]
  <2>1. \A k \in Nat : k + 1 \in Nat /\ k + 1 # 0 /\ (k + 1) - 1 = k
    OBVIOUS
  <2> QED
    BY <1>7, <2>1
<1>9. \A k \in Nat : Power2[k] \in Nat
  <2> DEFINE T == {k \in Nat : Power2[k] \in Nat}
  <2>1. 0 \in T /\ \A k \in Nat : k \in T => k + 1 \in T
    BY <1>8
  <2> HIDE DEF T
  <2>2. Nat \subseteq T
    BY <2>1, NatsBelong
  <2> QED
    BY <2>2 DEF T
<1> QED
  BY <1>7, <1>8, <1>9

\* Powers of two: positive, doubling, and a product for a sum.
LEMMA PowersAre ==
  /\ \A k \in Nat : Power2[k] \in Nat \ {0}
  /\ \A k \in Nat : Power2[k + 1] = 2 * Power2[k] /\ Power2[k + 1] \div 2 = Power2[k]
  /\ \A j, k \in Nat : Power2[j + k] = Power2[j] * Power2[k]
  /\ \A j, k \in Nat : j <= k => Power2[j] <= Power2[k]
<1>1. Power2[0] = 1 /\ \A k \in Nat : Power2[k] \in Nat /\ Power2[k + 1] = 2 * Power2[k]
  BY PowersExist
<1>2. \A k \in Nat : Power2[k] \in Nat \ {0}
  <2> DEFINE T == {k \in Nat : Power2[k] # 0}
  <2>1. 0 \in T
    BY <1>1
  <2>2. ASSUME NEW k \in Nat, k \in T PROVE k + 1 \in T
    BY <1>1, <2>2
  <2> HIDE DEF T
  <2>3. Nat \subseteq T
    BY <2>1, <2>2, NatsBelong
  <2> QED
    BY <1>1, <2>3 DEF T
<1>3. \A k \in Nat : Power2[k + 1] \div 2 = Power2[k]
  <2> TAKE k \in Nat
  <2> DEFINE p == Power2[k]
  <2>1. p \in Nat /\ Power2[k + 1] = 2 * p
    BY <1>1
  <2> HIDE DEF p
  <2>2. (2 * p) \div 2 = p
    BY <2>1
  <2> QED
    BY <2>1, <2>2 DEF p
<1>4. ASSUME NEW j \in Nat
      PROVE  \A k \in Nat : Power2[j + k] = Power2[j] * Power2[k] /\ Power2[j] <= Power2[j + k]
  <2> DEFINE T == {k \in Nat : Power2[j + k] = Power2[j] * Power2[k] /\ Power2[j] <= Power2[j + k]}
  <2>1. 0 \in T
    <3>1. j + 0 = j
      OBVIOUS
    <3> QED
      BY <1>1, <3>1
  <2>2. ASSUME NEW k \in Nat, k \in T PROVE k + 1 \in T
    <3> DEFINE p == Power2[j]
               q == Power2[k]
               r == Power2[j + k]
    <3>1. p \in Nat /\ q \in Nat /\ r \in Nat /\ r = p * q /\ p <= r
      BY <1>1, <2>2
    <3>2. Power2[j + (k + 1)] = 2 * r /\ Power2[k + 1] = 2 * q
      <4>1. j + (k + 1) = (j + k) + 1 /\ j + k \in Nat
        OBVIOUS
      <4> QED
        BY <1>1, <4>1
    <3> HIDE DEF p, q, r
    <3>3. 2 * r = p * (2 * q) /\ p <= 2 * r
      BY <3>1
    <3> QED
      BY <3>2, <3>3 DEF p
  <2> HIDE DEF T
  <2>3. Nat \subseteq T
    BY <2>1, <2>2, NatsBelong
  <2> QED
    BY <2>3 DEF T
<1>5. \A j, k \in Nat : j <= k => Power2[j] <= Power2[k]
  <2> TAKE j \in Nat, k \in Nat
  <2>1. j <= k => k - j \in Nat /\ j + (k - j) = k
    OBVIOUS
  <2> QED
    BY <1>4, <2>1
<1> QED
  BY <1>1, <1>2, <1>3, <1>4, <1>5

\* DigitsOf satisfies the equation that defines it and yields digits.
LEMMA DigitsAre ==
  /\ \A n \in Nat : DigitsOf[n] \in Seq(Digits)
  /\ \A n \in Nat : DigitsOf[n] = IF n < 10 THEN <<48 + n>> ELSE Append(DigitsOf[n \div 10], 48 + (n % 10))
<1> DEFINE base == [n \in Nat |-> IF n < 10 THEN <<48 + n>> ELSE <<>>]
           step == [x \in Seq(Digits) \X Nat |-> Append(x[1], 48 + (x[2] % 10))]
           pred == [n \in Nat |-> n \div 10]
<1>1. base \in [Nat -> Seq(Digits)]
  <2>1. \A n \in Nat : n < 10 => 48 + n \in Digits
    BY DEF Digits
  <2>2. \A n \in Nat : (IF n < 10 THEN <<48 + n>> ELSE <<>>) \in Seq(Digits)
    BY <2>1
  <2> QED
    BY <2>2
<1>2. step \in [Seq(Digits) \X Nat -> Seq(Digits)]
  <2> SUFFICES ASSUME NEW x \in Seq(Digits) \X Nat PROVE Append(x[1], 48 + (x[2] % 10)) \in Seq(Digits)
    OBVIOUS
  <2>1. x[1] \in Seq(Digits) /\ x[2] \in Nat
    OBVIOUS
  <2>2. x[2] % 10 \in 0 .. 9
    BY <2>1
  <2>3. \A d \in 0 .. 9 : 48 + d \in Digits
    BY DEF Digits
  <2>4. 48 + (x[2] % 10) \in Digits
    BY ONLY <2>2, <2>3
  <2> QED
    BY <2>1, <2>4
<1>3. pred \in [Nat -> Nat] /\ \A n \in Nat : n >= 10 => pred[n] < n
  <2>1. \A n \in Nat : n \div 10 \in Nat /\ (n >= 10 => n \div 10 < n)
    OBVIOUS
  <2> QED
    BY <2>1
<1>4. /\ \A n \in Nat : pred[n] = n \div 10 /\ (n < 10 => base[n] = <<48 + n>>)
      /\ \A s \in Seq(Digits), n \in Nat : step[<<s, n>>] = Append(s, 48 + (n % 10))
  <2>1. \A s \in Seq(Digits), n \in Nat : <<s, n>> \in Seq(Digits) \X Nat
    OBVIOUS
  <2> QED
    BY <2>1
<1>5. 10 \in Nat
  OBVIOUS
<1> HIDE DEF base, step, pred
<1>6. PICK f \in [Nat -> Seq(Digits)] : Descends(f, 10, base, step, pred)
  BY <1>1, <1>2, <1>3, <1>5, DescentExists
<1>7. \A n \in Nat : f[n] = IF n < 10 THEN <<48 + n>> ELSE Append(f[n \div 10], 48 + (n % 10))
  <2> TAKE n \in Nat
  <2>1. f[n] = IF n < 10 THEN base[n] ELSE step[<<f[pred[n]], n>>]
    BY <1>6 DEF Descends
  <2>2. pred[n] = n \div 10 /\ pred[n] \in Nat /\ f[pred[n]] \in Seq(Digits)
    BY <1>3, <1>4
  <2>3. step[<<f[pred[n]], n>>] = Append(f[n \div 10], 48 + (n % 10))
    BY <1>4, <2>2
  <2> QED
    BY <1>4, <2>1, <2>3
<1>8. f = [n \in Nat |-> IF n < 10 THEN <<48 + n>> ELSE Append(f[n \div 10], 48 + (n % 10))]
  BY <1>7
<1>9. DigitsOf = [n \in Nat |-> IF n < 10 THEN <<48 + n>> ELSE Append(DigitsOf[n \div 10], 48 + (n % 10))]
  BY <1>8 DEF DigitsOf
<1>10. \A n \in Nat : DigitsOf[n] = IF n < 10 THEN <<48 + n>> ELSE Append(DigitsOf[n \div 10], 48 + (n % 10))
  BY <1>9
<1>11. \A n \in Nat : DigitsOf[n] \in Seq(Digits)
  <2> DEFINE T == {n \in Nat : DigitsOf[n] \notin Seq(Digits)}
  <2> SUFFICES ASSUME T # {} PROVE FALSE
    OBVIOUS
  <2>1. PICK n \in T : \A m \in T : n <= m
    <3> HIDE DEF T
    <3>1. T \subseteq Nat
      BY DEF T
    <3> QED
      BY <3>1, LeastNatural
  <2>2. n \in Nat /\ DigitsOf[n] \notin Seq(Digits)
    OBVIOUS
  <2>3. CASE n < 10
    <3>1. 48 + n \in Digits
      BY <2>2, <2>3 DEF Digits
    <3>2. DigitsOf[n] = <<48 + n>>
      BY <1>10, <2>2, <2>3, Zenon
    <3>3. <<48 + n>> \in Seq(Digits)
      BY <3>1
    <3> QED
      BY <2>2, <3>2, <3>3
  <2>4. CASE n >= 10
    <3>1. n \div 10 \in Nat /\ n \div 10 < n /\ n % 10 \in 0 .. 9
      BY <2>2, <2>4
    <3>2. n \div 10 \notin T
      <4> HIDE DEF T
      <4> QED
        BY <2>1, <2>2, <3>1
    <3>3. DigitsOf[n \div 10] \in Seq(Digits) /\ 48 + (n % 10) \in Digits
      BY <3>1, <3>2 DEF Digits
    <3>5. ~(n < 10)
      BY <2>2, <2>4
    <3>4. DigitsOf[n] = Append(DigitsOf[n \div 10], 48 + (n % 10))
      BY <1>10, <2>2, <3>5, Zenon
    <3> QED
      BY <2>2, <3>3, <3>4
  <2> QED
    BY <2>2, <2>3, <2>4
<1> QED
  BY <1>10, <1>11

\* The text is read from o on: what NumberOf adds up.
State == Nat \X (Nat \ {0}) \X BOOLEAN
More(p, c) == <<10 * p[1] + (c - 48), IF p[3] THEN 10 * p[2] ELSE p[2], p[3]>>
AddsUp(f, text, o) ==
  /\ f[o] = <<0, 1, FALSE>>
  /\ \A j \in 1 .. Len(text) : f[o + j] = More(f[o + j - 1], text[j])

\* A digit more, before a decimal point.
LEMMA MoreDigits ==
  \A h, c : More(<<h, 1, FALSE>>, c) = <<10 * h + (c - 48), 1, FALSE>>
BY DEF More

\* The digits of n add up to n.
LEMMA DigitsAddUp ==
  ASSUME NEW n \in Nat, NEW f, NEW o \in Nat, AddsUp(f, DigitsOf[n], o)
  PROVE  f[o + Len(DigitsOf[n])] = <<n, 1, FALSE>>
<1> DEFINE Bad == {m \in Nat : AddsUp(f, DigitsOf[m], o) /\ f[o + Len(DigitsOf[m])] # <<m, 1, FALSE>>}
<1> SUFFICES ASSUME Bad # {} PROVE FALSE
  OBVIOUS
<1>1. PICK k \in Bad : \A m \in Bad : k <= m
  <2> HIDE DEF Bad
  <2>1. Bad \subseteq Nat
    BY DEF Bad
  <2> QED
    BY <2>1, LeastNatural
<1>2. k \in Nat /\ AddsUp(f, DigitsOf[k], o) /\ f[o + Len(DigitsOf[k])] # <<k, 1, FALSE>>
  OBVIOUS
<1> HIDE DEF Bad
<1>3. CASE k < 10
  <2>1. DigitsOf[k] = <<48 + k>>
    BY <1>2, <1>3, DigitsAre
  <2>2. Len(DigitsOf[k]) = 1 /\ DigitsOf[k][1] = 48 + k
    BY <2>1
  <2>3. f[o + 1] = More(f[o + 1 - 1], 48 + k) /\ o + 1 - 1 = o
    BY <1>2, <2>2 DEF AddsUp
  <2>4. f[o] = <<0, 1, FALSE>>
    BY <1>2 DEF AddsUp
  <2>5. f[o + 1] = <<k, 1, FALSE>>
    <3> DEFINE c == 48 + k
    <3>1. f[o + 1] = More(<<0, 1, FALSE>>, c)
      BY <2>3, <2>4
    <3>2. 10 * 0 + (c - 48) = k
      BY <1>2
    <3> HIDE DEF c
    <3>3. More(<<0, 1, FALSE>>, c) = <<10 * 0 + (c - 48), 1, FALSE>>
      BY MoreDigits
    <3> QED
      BY <3>1, <3>2, <3>3, Zenon
  <2> QED
    BY <1>2, <2>2, <2>5
<1>4. CASE k >= 10
  <2> DEFINE h == k \div 10
             s == DigitsOf[h]
             l == Len(s)
  <2>1. h \in Nat /\ h < k /\ k % 10 \in 0 .. 9 /\ k = 10 * h + (k % 10)
    BY <1>2, <1>4
  <2>0. ~(k < 10)
    BY <1>2, <1>4
  <2>2. DigitsOf[k] = Append(s, 48 + (k % 10)) /\ s \in Seq(Digits)
    BY <1>2, <2>0, <2>1, DigitsAre, Zenon
  <2>3. l \in Nat /\ Len(DigitsOf[k]) = l + 1
    BY <2>2
  <2>4. /\ DigitsOf[k][l + 1] = 48 + (k % 10)
        /\ \A j \in 1 .. l : DigitsOf[k][j] = s[j]
    BY <2>2
  <2> HIDE DEF s, l, h
  <2>5. AddsUp(f, s, o)
    <3>1. \A j \in 1 .. l : j \in 1 .. Len(DigitsOf[k])
      BY <2>3
    <3> QED
      BY <1>2, <2>4, <3>1 DEF AddsUp, l
  <2>6. f[o + l] = <<h, 1, FALSE>>
    <3>1. h \notin Bad
      BY <1>1, <1>2, <2>1
    <3> QED
      BY <2>1, <2>5, <3>1 DEF Bad, s, l
  <2>7. f[o + (l + 1)] = More(f[o + (l + 1) - 1], DigitsOf[k][l + 1])
    <3>1. l + 1 \in 1 .. Len(DigitsOf[k])
      BY <2>3
    <3> QED
      BY <1>2, <3>1 DEF AddsUp
  <2>8. o + (l + 1) - 1 = o + l
    BY <2>3
  <2>9. f[o + (l + 1)] = More(<<h, 1, FALSE>>, 48 + (k % 10))
    BY <2>4, <2>6, <2>7, <2>8
  <2>10. 10 * h + (48 + (k % 10) - 48) = k
    BY <2>1
  <2>11. f[o + (l + 1)] = <<k, 1, FALSE>>
    <3> DEFINE c == 48 + (k % 10)
    <3>1. f[o + (l + 1)] = More(<<h, 1, FALSE>>, c)
      BY <2>9
    <3>2. 10 * h + (c - 48) = k
      BY <2>1
    <3> HIDE DEF c
    <3>3. More(<<h, 1, FALSE>>, c) = <<10 * h + (c - 48), 1, FALSE>>
      BY MoreDigits
    <3> QED
      BY <3>1, <3>2, <3>3, Zenon
  <2> QED
    BY <1>2, <2>3, <2>11
<1> QED
  BY <1>2, <1>3, <1>4

NumberChars == Digits \cup {Minus, Dot}

\* A set of numbers up to a bound has a greatest member.
LEMMA GreatestNatural ==
  ASSUME NEW k \in Nat, NEW T, T \subseteq 0 .. k, T # {}
  PROVE  \E n \in T : \A m \in T : m <= n
<1> DEFINE R == {k - m : m \in T}
<1>1. R \subseteq Nat /\ R # {}
  <2>1. \A m \in T : m \in 0 .. k
    OBVIOUS
  <2>2. \A m \in T : k - m \in Nat
    BY <2>1
  <2> QED
    BY <2>2
<1>2. PICK r \in R : \A q \in R : r <= q
  <2> HIDE DEF R
  <2> QED
    BY <1>1, LeastNatural
<1>3. PICK n \in T : r = k - n
  OBVIOUS
<1>4. ASSUME NEW m \in T PROVE m <= n
  <2>1. k - m \in R
    OBVIOUS
  <2> HIDE DEF R
  <2>2. k - n <= k - m
    BY <1>2, <1>3, <2>1
  <2> QED
    BY <2>2
<1> QED
  BY <1>4

\* What is read of a text: the characters of a number; all of it, when it is one.
LEMMA ReadIs ==
  ASSUME NEW s, IsSlots(s), NEW fraction
  PROVE  /\ Read(s, fraction) \in Seq(NumberChars)
         /\ (LET start == IF s # <<>> /\ s[1] = Minus THEN 2 ELSE 1
             IN start <= Len(s) /\ \A i \in start .. Len(s) : s[i] \in Digits) => Read(s, fraction) = s
<1> DEFINE start == IF s # <<>> /\ s[1] = Minus THEN 2 ELSE 1
           IsNumber(n) == /\ \E i \in start .. n : s[i] \in Digits
                          /\ \A i \in start .. n : s[i] \in Digits \/ (fraction /\ s[i] = Dot)
                          /\ \A i, j \in start .. n : s[i] = Dot /\ s[j] = Dot => i = j
           ends == {n \in start .. Len(s) : IsNumber(n)}
           end == CHOOSE n \in ends : \A m \in ends : m <= n
<1>1. Read(s, fraction) = IF ends = {} THEN <<>> ELSE SubSeq(s, 1, end)
  BY DEF Read
<1>2. PICK S : s \in Seq(S)
  BY DEF IsSlots
<1>3. Len(s) \in Nat /\ start \in 1 .. 2 /\ (start = 2 => s # <<>> /\ s[1] = Minus)
  BY <1>2
<1>4. ends \subseteq 0 .. Len(s)
  BY <1>3
<1>5. ends # {} => end \in ends /\ \A m \in ends : m <= end
  <2> SUFFICES ASSUME ends # {} PROVE end \in ends /\ \A m \in ends : m <= end
    OBVIOUS
  <2> HIDE DEF ends
  <2>1. \E n \in ends : \A m \in ends : m <= n
    BY <1>3, <1>4, GreatestNatural
  <2> QED
    BY <2>1
<1> HIDE DEF end
<1>6. Read(s, fraction) \in Seq(NumberChars)
  <2>1. CASE ends = {}
    BY <1>1, <2>1
  <2>2. CASE ends # {}
    <3>1. end \in start .. Len(s) /\ \A i \in start .. end : s[i] \in Digits \/ s[i] = Dot
      BY <1>5, <2>2
    <3> HIDE DEF ends, start
    <3>2. \A i \in 1 .. end : s[i] \in NumberChars
      <4> TAKE i \in 1 .. end
      <4>1. i \in start .. end \/ (i = 1 /\ start = 2)
        BY <1>3, <3>1
      <4> QED
        BY <1>3, <3>1, <4>1 DEF NumberChars
    <3>3. end \in Nat /\ end <= Len(s)
      BY <1>3, <3>1
    <3>4. SubSeq(s, 1, end) \in Seq(NumberChars)
      <4>1. SubSeq(s, 1, end) = [i \in 1 .. end |-> s[i]]
        <5>1. SubSeq(s, 1, end) = [i \in 1 .. (1 + end - 1) |-> s[1 + i - 1]]
          BY <1>2, <3>3
        <5>2. 1 + end - 1 = end /\ \A i \in 1 .. end : 1 + i - 1 = i
          BY <3>3
        <5>3. [i \in 1 .. end |-> s[1 + i - 1]] = [i \in 1 .. end |-> s[i]]
          BY <5>2
        <5> QED
          BY <5>1, <5>2, <5>3
      <4>2. [i \in 1 .. end |-> s[i]] \in Seq(NumberChars)
        BY <3>2, <3>3
      <4> QED
        BY <4>1, <4>2
    <3> QED
      BY <1>1, <2>2, <3>4
  <2> QED
    BY <2>1, <2>2
<1>7. ASSUME start <= Len(s), \A i \in start .. Len(s) : s[i] \in Digits
      PROVE  Read(s, fraction) = s
  <2>1. \A i \in start .. Len(s) : s[i] # Dot
    BY <1>7 DEF Digits, Dot
  <2>2. Len(s) \in start .. Len(s)
    BY <1>3, <1>7
  <2>3. Len(s) \in ends
    BY <1>7, <2>1, <2>2
  <2>4. end = Len(s)
    <3> HIDE DEF ends, start
    <3>1. end \in 0 .. Len(s) /\ Len(s) <= end
      BY <1>4, <1>5, <2>3
    <3> QED
      BY <1>3, <3>1
  <2>5. SubSeq(s, 1, Len(s)) = s
    BY <1>2
  <2> HIDE DEF ends
  <2> QED
    BY <1>1, <2>3, <2>4, <2>5
<1> QED
  BY <1>6, <1>7

\* One character more of a number that is read.
Reading(s, p, n) ==
  IF s[n] = Minus THEN p
  ELSE IF s[n] = Dot THEN <<p[1], p[2], TRUE>>
  ELSE More(p, s[n])

Parts(f, s) ==
  /\ f \in [0 .. Len(s) -> State] /\ f[0] = <<0, 1, FALSE>>
  /\ \A n \in 1 .. Len(s) : f[n] = Reading(s, f[n - 1], n)

\* The triples of State.
LEMMA Triples ==
  ASSUME NEW a \in Nat, NEW b \in Nat \ {0}, NEW c \in BOOLEAN
  PROVE  <<a, b, c>> \in State
BY DEF State

\* A character more of a number leaves a State.
LEMMA ReadingType ==
  ASSUME NEW s \in Seq(NumberChars), NEW p \in State, NEW n \in 1 .. Len(s)
  PROVE  Reading(s, p, n) \in State
<1>1. PICK a \in Nat, b \in Nat \ {0}, c \in BOOLEAN : p = <<a, b, c>>
  BY DEF State
<1>2. s[n] \in NumberChars
  OBVIOUS
<1>3. CASE s[n] = Minus
  BY <1>3 DEF Reading
<1>4. CASE s[n] # Minus /\ s[n] = Dot
  <2>1. Reading(s, p, n) = <<a, b, TRUE>>
    BY <1>1, <1>4 DEF Reading
  <2>2. TRUE \in BOOLEAN
    OBVIOUS
  <2> QED
    BY <1>1, <2>1, <2>2, Triples
<1>5. CASE s[n] # Minus /\ s[n] # Dot
  <2> DEFINE d == s[n] - 48
  <2>1. d \in Nat
    BY <1>2, <1>5 DEF NumberChars, Digits
  <2>2. Reading(s, p, n) = <<10 * p[1] + d, IF p[3] THEN 10 * p[2] ELSE p[2], p[3]>>
    BY <1>5 DEF Reading, More
  <2> HIDE DEF d
  <2>3. p[1] = a /\ p[2] = b /\ p[3] \in BOOLEAN
    BY <1>1
  <2>4. 10 * p[1] + d \in Nat /\ (IF p[3] THEN 10 * p[2] ELSE p[2]) \in Nat \ {0}
    BY <2>1, <2>3
  <2> DEFINE u == 10 * p[1] + d
             v == IF p[3] THEN 10 * p[2] ELSE p[2]
             w == p[3]
  <2>5. Reading(s, p, n) = <<u, v, w>> /\ u \in Nat /\ v \in Nat \ {0} /\ w \in BOOLEAN
    BY <2>2, <2>3, <2>4
  <2> HIDE DEF u, v, w
  <2>6. CASE w
    <3>1. <<u, v, w>> = <<u, v, TRUE>>
      BY <2>6
    <3> QED
      BY <2>5, <3>1, Triples
  <2>7. CASE ~w
    <3>1. <<u, v, w>> = <<u, v, FALSE>>
      BY <2>5, <2>7
    <3> QED
      BY <2>5, <3>1, Triples
  <2> QED
    BY <2>6, <2>7
<1> QED
  BY <1>3, <1>4, <1>5

\* NumberOf adds up the characters one by one.
LEMMA NumberIs ==
  ASSUME NEW s \in Seq(NumberChars)
  PROVE  \E f : /\ Parts(f, s)
                /\ NumberOf(s) = <<IF s # <<>> /\ s[1] = Minus THEN -f[Len(s)][1] ELSE f[Len(s)][1], f[Len(s)][2]>>
<1> DEFINE L == Len(s)
           zero == <<0, 1, FALSE>>
           step == [x \in State \X Nat |-> IF x[2] \in 1 .. L THEN Reading(s, x[1], x[2]) ELSE x[1]]
           part == CHOOSE f : f = [n \in 0 .. L |-> IF n = 0 THEN zero ELSE Reading(s, f[n - 1], n)]
<1>1. L \in Nat /\ zero \in State
  <2>1. 0 \in Nat /\ 1 \in Nat \ {0} /\ FALSE \in BOOLEAN
    OBVIOUS
  <2>2. zero \in State
    BY <2>1, Triples
  <2> QED
    BY <2>2
<1>2. step \in [State \X Nat -> State]
  <2> SUFFICES ASSUME NEW x \in State \X Nat
               PROVE  (IF x[2] \in 1 .. L THEN Reading(s, x[1], x[2]) ELSE x[1]) \in State
    OBVIOUS
  <2>1. x[1] \in State
    OBVIOUS
  <2> QED
    BY <2>1, ReadingType
<1>3. \A p \in State, n \in 1 .. L : step[<<p, n>>] = Reading(s, p, n)
  <2> TAKE p \in State, n \in 1 .. L
  <2>1. <<p, n>> \in State \X Nat
    BY <1>1
  <2> QED
    BY <2>1
<1> HIDE DEF step, L, zero
<1>4. PICK g \in [0 .. L -> State] : Recurs(g, zero, step, L)
  BY <1>1, <1>2, RecursionExists
<1>5. ASSUME NEW n \in 0 .. L PROVE g[n] = IF n = 0 THEN zero ELSE Reading(s, g[n - 1], n)
  <2>1. g[n] = IF n = 0 THEN zero ELSE step[<<g[n - 1], n>>]
    BY <1>4 DEF Recurs
  <2>2. n # 0 => n \in 1 .. L /\ n - 1 \in 0 .. L
    BY <1>1
  <2>3. n # 0 => g[n - 1] \in State
    BY <2>2
  <2> QED
    BY <1>3, <2>1, <2>2, <2>3
<1>6. g = [n \in 0 .. L |-> IF n = 0 THEN zero ELSE Reading(s, g[n - 1], n)]
  BY <1>5
<1>7. part = [n \in 0 .. L |-> IF n = 0 THEN zero ELSE Reading(s, part[n - 1], n)]
  BY <1>6
<1>8. NumberOf(s) = <<IF s # <<>> /\ s[1] = Minus THEN -part[L][1] ELSE part[L][1], part[L][2]>>
  BY DEF NumberOf, part, Reading, More, L, zero
<1> HIDE DEF part
<1>9. Parts(part, s)
  <2>1. part[0] = zero /\ \A n \in 1 .. L : part[n] = Reading(s, part[n - 1], n)
    <3>1. part[0] = zero
      BY <1>1, <1>7
    <3>2. ASSUME NEW n \in 1 .. L PROVE part[n] = Reading(s, part[n - 1], n)
      <4>1. n \in 0 .. L /\ n # 0
        BY <1>1
      <4> QED
        BY <1>7, <4>1
    <3> QED
      BY <3>1, <3>2
  <2> DEFINE T == {n \in Nat : n <= L => part[n] \in State}
  <2>2. 0 \in T
    BY <1>1, <2>1
  <2>3. ASSUME NEW n \in Nat, n \in T PROVE n + 1 \in T
    <3> SUFFICES ASSUME n + 1 <= L PROVE part[n + 1] \in State
      OBVIOUS
    <3>1. n + 1 \in 1 .. L /\ (n + 1) - 1 = n /\ part[n] \in State
      BY <1>1, <2>3
    <3>2. part[n + 1] = Reading(s, part[n], n + 1)
      BY <2>1, <3>1
    <3> QED
      BY <3>1, <3>2, ReadingType DEF L
  <2> HIDE DEF T
  <2>4. Nat \subseteq T
    BY <2>2, <2>3, NatsBelong
  <2>5. \A n \in 0 .. L : part[n] \in State
    BY <1>1, <2>4 DEF T
  <2>6. part \in [0 .. L -> State]
    BY <1>7, <2>5
  <2> QED
    BY <2>1, <2>6 DEF Parts, L, zero
<1> QED
  BY <1>8, <1>9 DEF L

\* The range of the integers.
LEMMA WidthIs ==
  /\ MaxInt \in Int /\ MinInt \in Int /\ MinInt = -(MaxInt + 1) /\ MaxInt >= 1
  /\ Power2[IntBits] = 2 * (MaxInt + 1) /\ Power2[0] = 1
  /\ Power2[IntBits - Mantissa] * Power2[Mantissa] >= MaxInt + 1
<1> DEFINE p == Power2[IntBits - 1]
<1>1. IntBits - 1 \in Nat /\ Mantissa \in Nat /\ IntBits \in Nat /\ IntBits - Mantissa \in Nat /\ 0 \in Nat
      /\ 1 \in Nat /\ 1 <= IntBits - 1 /\ (IntBits - 1) + 1 = IntBits
      /\ (IntBits - Mantissa) + Mantissa = IntBits /\ 0 + 1 = 1
  BY ValuesAssumption
<1>2. Power2[IntBits] = 2 * p /\ p \in Nat
  BY <1>1, PowersAre
<1>3. Power2[0] = 1 /\ Power2[1] = 2 * Power2[0] /\ Power2[1] <= p
  BY <1>1, PowersExist, PowersAre
<1>4. Power2[IntBits - Mantissa] * Power2[Mantissa] = Power2[IntBits]
  BY <1>1, PowersAre
<1>5. MaxInt = p - 1 /\ MinInt = -p
  BY DEF MaxInt, MinInt
<1> HIDE DEF p
<1> QED
  BY <1>2, <1>3, <1>4, <1>5

\* A number is its sign times its size.
LEMMA AbsIs ==
  ASSUME NEW n \in Int
  PROVE  Abs(n) \in Nat /\ Sign(n) \in -1 .. 1 /\ n = Sign(n) * Abs(n)
         /\ (n < 0 => Abs(n) = -n /\ Sign(n) = -1) /\ (n >= 0 => Abs(n) = n) /\ (n > 0 => Sign(n) = 1)
         /\ (n = 0 => Sign(n) = 0)
BY DEF Abs, Sign

\* A gap between doubles is positive; there is none between integers that
\* are exact doubles.
LEMMA GapIs ==
  ASSUME NEW n \in MinInt .. MaxInt
  PROVE  Gap(n) \in Nat \ {0} /\ (Exact(n) => Gap(n) = 1)
<1> DEFINE M == Power2[Mantissa]
           K == IntBits - Mantissa
           T == {k \in 0 .. K : Abs(n) <= Power2[k] * M}
           G == {Power2[k] : k \in 0 .. K}
           IsGap(g) == Abs(n) <= g * M /\ (g = 1 \/ Abs(n) > (g \div 2) * M)
<1>1. K \in Nat /\ M \in Nat \ {0} /\ n \in Int /\ Abs(n) \in Nat
  <2>1. n \in Int
    BY WidthIs
  <2>2. K \in Nat /\ Mantissa \in Nat
    BY ValuesAssumption
  <2> QED
    BY <2>1, <2>2, PowersAre, AbsIs
<1>2. K \in T
  <2>1. Abs(n) <= MaxInt + 1
    BY <1>1, WidthIs DEF Abs
  <2>2. Abs(n) <= Power2[K] * M
    <3>1. Power2[K] \in Nat
      BY <1>1, PowersAre
    <3> HIDE DEF M, K
    <3> QED
      BY <1>1, <2>1, <3>1, WidthIs DEF M, K
  <2> HIDE DEF M, K
  <2> QED
    BY <1>1, <2>2
<1>3. PICK k \in T : \A m \in T : k <= m
  <2> HIDE DEF T
  <2>1. T \subseteq Nat
    BY <1>1 DEF T
  <2> QED
    BY <1>2, <2>1, LeastNatural
<1>4. k \in 0 .. K /\ Abs(n) <= Power2[k] * M
  OBVIOUS
<1>5. IsGap(Power2[k])
  <2>1. CASE k = 0
    BY <1>4, <2>1, WidthIs
  <2>2. CASE k # 0
    <3>1. k - 1 \in 0 .. K /\ k - 1 \in Nat /\ (k - 1) + 1 = k
      BY <1>1, <1>4, <2>2
    <3>2. Power2[k] \div 2 = Power2[k - 1] /\ Power2[k - 1] \in Nat
      BY <3>1, PowersAre
    <3>3. k - 1 \notin T
      <4> HIDE DEF T
      <4> QED
        BY <1>1, <1>3, <1>4, <3>1
    <3>4. ~(Abs(n) <= Power2[k - 1] * M)
      BY <3>1, <3>3
    <3> HIDE DEF M
    <3>5. Abs(n) > Power2[k - 1] * M
      BY <1>1, <3>2, <3>4
    <3> QED
      BY <1>4, <3>2, <3>5
  <2> QED
    BY <2>1, <2>2
<1>6. Gap(n) = CHOOSE g \in G : IsGap(g)
  BY DEF Gap
<1>7. Power2[k] \in G
  BY <1>4
<1>8. Gap(n) \in G /\ IsGap(Gap(n))
  <2> HIDE DEF G, IsGap
  <2> QED
    BY <1>5, <1>6, <1>7
<1>9. \A g \in G : g \in Nat \ {0}
  <2> TAKE g \in G
  <2>1. PICK j \in 0 .. K : g = Power2[j]
    OBVIOUS
  <2>2. j \in Nat
    BY <1>1
  <2> HIDE DEF G
  <2> QED
    BY <2>1, <2>2, PowersAre
<1>10. ASSUME Exact(n) PROVE Gap(n) = 1
  <2> DEFINE g == Gap(n)
  <2>1. Abs(n) <= M
    BY <1>10 DEF Exact
  <2> SUFFICES ASSUME g # 1 PROVE FALSE
    OBVIOUS
  <2>2. Abs(n) > (g \div 2) * M
    BY <1>8
  <2>3. g \in Nat \ {0}
    BY <1>8, <1>9
  <2> HIDE DEF g, M
  <2>4. g \div 2 >= 1 /\ g \div 2 \in Nat
    BY <2>3
  <2> DEFINE h == g \div 2
  <2> HIDE DEF h
  <2>5. h >= 1 /\ h \in Nat /\ Abs(n) > h * M
    BY <2>2, <2>4 DEF h
  <2>6. h * M >= M
    <3>1. h - 1 \in Nat
      BY <2>5
    <3>2. (h - 1) * M \in Nat /\ h * M = (h - 1) * M + M
      BY <1>1, <2>5, <3>1
    <3> QED
      BY <1>1, <2>5, <3>2
  <2> QED
    BY <1>1, <2>1, <2>5, <2>6
<1> QED
  BY <1>8, <1>9, <1>10

\* A conversion to a double yields an integer, the same when it is exact.
LEMMA ToDoubleIs ==
  ASSUME NEW n \in MinInt .. MaxInt
  PROVE  ToDouble(n) \in Int /\ (Exact(n) => ToDouble(n) = n /\ Converted(ToDouble(n)) = n)
<1> DEFINE g == Gap(n)
<1>1. g \in Nat \ {0} /\ n \in Int /\ (Exact(n) => g = 1)
  BY GapIs, WidthIs
<1>2. ToDouble(n) = NearestMultiple(n, g)
  BY DEF ToDouble
<1> HIDE DEF g
<1>3. NearestMultiple(n, g) \in Int
  <2> DEFINE up == IF 2 * (n % g) > g \/ (2 * (n % g) = g /\ (n \div g) % 2 = 1) THEN 1 ELSE 0
             q == n \div g
  <2>1. up \in Int
    OBVIOUS
  <2>2. q \in Int
    BY <1>1
  <2>3. NearestMultiple(n, g) = g * (q + up)
    BY DEF NearestMultiple
  <2> HIDE DEF up, q
  <2> QED
    BY <1>1, <2>1, <2>2, <2>3
<1>4. g = 1 => NearestMultiple(n, g) = n
  <2> SUFFICES ASSUME g = 1 PROVE NearestMultiple(n, 1) = n
    OBVIOUS
  <2>1. n % 1 = 0 /\ n \div 1 = n
    BY <1>1
  <2>2. NearestMultiple(n, 1) = 1 * (n + 0)
    BY <2>1 DEF NearestMultiple
  <2> QED
    BY <1>1, <2>2
<1> QED
  BY <1>1, <1>2, <1>3, <1>4 DEF Converted

Characters == 1 .. 255

\* What is cut down to the width of the integers fits it.
LEMMA IntegersFit ==
  \A n \in Int : Converted(n) \in MinInt .. MaxInt /\ Saturated(n) \in MinInt .. MaxInt
                 /\ Wrapped(n) \in MinInt .. MaxInt
<1> TAKE n \in Int
<1> DEFINE w == Power2[IntBits]
<1>1. w \in Nat \ {0} /\ w = 2 * (MaxInt + 1)
  BY WidthIs
<1> HIDE DEF w
<1>2. (n - MinInt) % w \in 0 .. w - 1
  BY <1>1, WidthIs
<1>3. Wrapped(n) = ((n - MinInt) % w) + MinInt
  BY DEF Wrapped, w
<1> HIDE DEF MaxInt, MinInt
<1>4. Wrapped(n) \in MinInt .. MaxInt
  <2> DEFINE r == (n - MinInt) % w
  <2> HIDE DEF r
  <2>1. r \in 0 .. w - 1 /\ Wrapped(n) = r + MinInt
    BY <1>2, <1>3 DEF r
  <2> QED
    BY <1>1, <2>1, WidthIs
<1> QED
  BY <1>4, WidthIs DEF Converted, Saturated

\* Division of C by a positive number.
LEMMA QuotientIs ==
  ASSUME NEW n \in Int, NEW d \in Nat \ {0}
  PROVE  Quot(n, d) \in Int /\ (d = 1 => Quot(n, d) = n) /\ Abs(n) \div d \in Nat
<1> DEFINE a == Abs(n)
           q == a \div d
<1>1. a \in Nat /\ Abs(d) = d /\ Sign(d) = 1 /\ Sign(n) \in Int /\ n = Sign(n) * a
  BY AbsIs
<1> HIDE DEF a
<1>2. q \in Nat /\ (d = 1 => q = a)
  BY <1>1
<1>3. Quot(n, d) = Sign(n) * 1 * q
  BY <1>1 DEF Quot, a
<1> HIDE DEF q
<1> QED
  BY <1>1, <1>2, <1>3 DEF a, q

\* The texts numbers are cast to hold characters.
LEMMA TextsOfNumbers ==
  ASSUME NEW n \in Int
  PROVE  /\ DigitsOf[Abs(n)] \in Seq(Digits) /\ DigitsOf[Abs(n)] # <<>>
         /\ DecimalText(n) \in Seq(Characters) /\ IsText(Varchar(DecimalText(n)))
         /\ \A d \in Nat \ {0} : FloatText(n, d) \in Seq(Characters)
<1>1. \A m \in Nat : DigitsOf[m] \in Seq(Digits)
  BY DigitsAre
<1>2. Digits \subseteq Characters /\ Minus \in Characters /\ Dot \in Characters /\ 53 \in Characters
  BY DEF Digits, Minus, Dot, Characters
<1>3. \A m \in Nat : DigitsOf[m] \in Seq(Characters)
  BY <1>1, <1>2
<1>4. \A s \in Seq(Characters) : Signed(n, s) \in Seq(Characters)
  BY <1>2 DEF Signed
<1>5. Abs(n) \in Nat
  BY AbsIs
<1>6. ASSUME NEW m \in Nat PROVE DigitsOf[m] # <<>>
  <2>1. DigitsOf[m] = IF m < 10 THEN <<48 + m>> ELSE Append(DigitsOf[m \div 10], 48 + (m % 10))
    BY DigitsAre, Zenon
  <2>2. m \div 10 \in Nat
    OBVIOUS
  <2>3. CASE m < 10
    BY <2>1, <2>3
  <2>4. CASE ~(m < 10)
    <3> DEFINE s == DigitsOf[m \div 10]
               c == 48 + (m % 10)
    <3>1. s \in Seq(Characters) /\ DigitsOf[m] = Append(s, c)
      BY <1>3, <2>1, <2>2, <2>4
    <3> HIDE DEF s, c
    <3>2. Append(s, c) # <<>>
      BY <3>1
    <3> QED
      BY <3>1, <3>2
  <2> QED
    BY <2>3, <2>4
<1>7. DecimalText(n) \in Seq(Characters)
  BY <1>3, <1>4, <1>5 DEF DecimalText
<1>8. ASSUME NEW d \in Nat \ {0} PROVE FloatText(n, d) \in Seq(Characters)
  <2> DEFINE rest == IF Abs(n) % d = 0 THEN <<>> ELSE <<Dot, 53>>
             whole == DigitsOf[Abs(n) \div d]
  <2>1. rest \in Seq(Characters)
    BY <1>2
  <2>2. whole \in Seq(Characters)
    BY <1>3, QuotientIs
  <2> HIDE DEF rest, whole
  <2>3. whole \o rest \in Seq(Characters)
    BY <2>1, <2>2
  <2>4. FloatText(n, d) = Signed(n, whole \o rest)
    BY DEF FloatText, rest, whole
  <2> QED
    BY <1>4, <2>3, <2>4
<1>9. IsText(Varchar(DecimalText(n)))
  BY <1>7 DEF IsText, IsSlots, Varchar, Val
<1> QED
  BY <1>1, <1>5, <1>6, <1>7, <1>8, <1>9, Zenon

\* A text read as a number is a fraction.
LEMMA NumbersRead ==
  ASSUME NEW s, IsSlots(s), NEW fraction
  PROVE  LET n == NumberOf(Read(s, fraction)) IN n[1] \in Int /\ n[2] \in Nat \ {0}
<1> DEFINE r == Read(s, fraction)
<1>1. r \in Seq(NumberChars)
  BY ReadIs
<1> HIDE DEF r
<1>2. PICK f : /\ Parts(f, r)
               /\ NumberOf(r) = <<IF r # <<>> /\ r[1] = Minus THEN -f[Len(r)][1] ELSE f[Len(r)][1], f[Len(r)][2]>>
  BY <1>1, NumberIs
<1>3. f[Len(r)] \in State
  <2>1. Len(r) \in Nat
    BY <1>1
  <2>2. Len(r) \in 0 .. Len(r)
    BY <2>1
  <2> QED
    BY <1>2, <2>2 DEF Parts
<1>4. f[Len(r)][1] \in Nat /\ f[Len(r)][2] \in Nat \ {0}
  BY <1>3 DEF State
<1> QED
  BY <1>2, <1>4 DEF r

\* The values there are, by type.
LEMMA AllValuesAre ==
  /\ \A n \in MinInt .. MaxInt : Integer(n) \in AllValues
  /\ \A n \in Int, d \in Nat \ {0} : Float(n, d) \in AllValues
  /\ \A s \in Seq(Characters) : Varchar(s) \in AllValues
  /\ \A b \in BOOLEAN : Boolean(b) \in AllValues
  /\ Null \in AllValues
  /\ \A x \in AllValues :
       \/ Type(x) = "INTEGER" /\ Val(x) \in MinInt .. MaxInt /\ x = Integer(Val(x))
       \/ Type(x) = "FLOAT" /\ Val(x)[1] \in Int /\ Val(x)[2] \in Nat \ {0} /\ x = Float(Val(x)[1], Val(x)[2])
       \/ Type(x) = "VARCHAR" /\ Val(x) \in Seq(Characters) /\ x = Varchar(Val(x))
       \/ Type(x) = "BOOLEAN" /\ Val(x) \in BOOLEAN /\ x = Boolean(Val(x))
       \/ Type(x) = "NULL" /\ x = Null
<1> HIDE DEF MaxInt, MinInt
<1>1. \A n \in MinInt .. MaxInt : Integer(n) \in AllValues
  BY DEF Integer, AllValues
<1>2. \A n \in Int, d \in Nat \ {0} : Float(n, d) \in AllValues
  BY DEF Float, AllValues
<1>3. \A s \in Seq(Characters) : Varchar(s) \in AllValues
  BY DEF Varchar, AllValues, Characters
<1>4. \A b \in BOOLEAN : Boolean(b) \in AllValues
  BY Zenon DEF Boolean, AllValues
<1>5. Null \in AllValues
  BY DEF AllValues
<1>6. ASSUME NEW x \in AllValues
      PROVE  \/ Type(x) = "INTEGER" /\ Val(x) \in MinInt .. MaxInt /\ x = Integer(Val(x))
             \/ Type(x) = "FLOAT" /\ Val(x)[1] \in Int /\ Val(x)[2] \in Nat \ {0} /\ x = Float(Val(x)[1], Val(x)[2])
             \/ Type(x) = "VARCHAR" /\ Val(x) \in Seq(Characters) /\ x = Varchar(Val(x))
             \/ Type(x) = "BOOLEAN" /\ Val(x) \in BOOLEAN /\ x = Boolean(Val(x))
             \/ Type(x) = "NULL" /\ x = Null
  <2>1. CASE x \in {"INTEGER"} \X (MinInt .. MaxInt)
    BY <2>1 DEF Type, Val, Integer
  <2>2. CASE x \in {"FLOAT"} \X (Int \X (Nat \ {0}))
    BY <2>2 DEF Type, Val, Float
  <2>3. CASE x \in {"VARCHAR"} \X Seq(1 .. 255)
    BY <2>3 DEF Type, Val, Varchar, Characters
  <2>4. CASE x \in {"BOOLEAN"} \X BOOLEAN
    BY <2>4 DEF Type, Val, Boolean
  <2>5. CASE x = Null
    BY <2>5 DEF Type, Null
  <2> QED
    BY <2>1, <2>2, <2>3, <2>4, <2>5 DEF AllValues
<1> QED
  BY <1>1, <1>2, <1>3, <1>4, <1>5, <1>6

\* What a text is cast to.
LEMMA TextCasts ==
  ASSUME NEW s \in Seq(Characters)
  PROVE  /\ Fails(TextToInteger(s)) \/ (TextToInteger(s) \in AllValues /\ Type(TextToInteger(s)) = "INTEGER")
         /\ Fails(TextToFloat(s)) \/ (TextToFloat(s) \in AllValues /\ Type(TextToFloat(s)) = "FLOAT")
<1>1. IsSlots(s)
  BY DEF IsSlots
<1>2. Fails(TextToInteger(s)) \/ (TextToInteger(s) \in AllValues /\ Type(TextToInteger(s)) = "INTEGER")
  <2> DEFINE n == Saturated(NumberOf(Read(s, FALSE))[1])
  <2>1. NumberOf(Read(s, FALSE))[1] \in Int
    BY <1>1, NumbersRead
  <2>2. n \in MinInt .. MaxInt
    BY <2>1, IntegersFit
  <2>3. TextToInteger(s) \in {Integer(n), Error(DB_TYPE_MISMATCH)}
    BY DEF TextToInteger
  <2> HIDE DEF n
  <2>4. Integer(n) \in AllValues
    BY <2>2, AllValuesAre
  <2> QED
    BY <2>3, <2>4 DEF Fails, Type, Error, Integer
<1>3. Fails(TextToFloat(s)) \/ (TextToFloat(s) \in AllValues /\ Type(TextToFloat(s)) = "FLOAT")
  <2>1. CASE Read(s, TRUE) = s
    <3> DEFINE a == NumberOf(s)[1]
               b == NumberOf(s)[2]
    <3>1. a \in Int /\ b \in Nat \ {0}
      BY <1>1, <2>1, NumbersRead
    <3>2. TextToFloat(s) = Float(a, b)
      BY <2>1 DEF TextToFloat
    <3> HIDE DEF a, b
    <3>3. Float(a, b) \in AllValues
      BY <3>1, AllValuesAre
    <3> QED
      BY <3>2, <3>3 DEF Type, Float
  <2>2. CASE Read(s, TRUE) # s
    BY <2>2 DEF TextToFloat, Fails, Type, Error
  <2> QED
    BY <2>1, <2>2
<1> QED
  BY <1>2, <1>3

\* A cast fails or yields a value of the type, or NULL.
LEMMA CastIs ==
  ASSUME NEW x \in AllValues, NEW type \in ColumnTypes
  PROVE  \/ Fails(value_cast_to(x, type))
         \/ value_cast_to(x, type) \in AllValues /\ Type(value_cast_to(x, type)) \in {type, "NULL"}
<1> DEFINE v == value_cast_to(x, type)
           Good(u) == Fails(u) \/ (u \in AllValues /\ Type(u) \in {type, "NULL"})
<1>0. type \in {"INTEGER", "FLOAT", "VARCHAR", "BOOLEAN"}
  BY DEF ColumnTypes
<1>1. CASE Type(x) \in {type, "NULL"}
  <2>1. v = x
    BY <1>0, <1>1 DEF value_cast_to
  <2> QED
    BY <1>1, <2>1
<1>2. CASE Type(x) = "INTEGER" /\ Type(x) # type
  <2>1. Val(x) \in MinInt .. MaxInt /\ Val(x) \in Int
    BY <1>2, AllValuesAre, WidthIs
  <2>2. CASE type = "FLOAT"
    <3>1. v = Float(ToDouble(Val(x)), 1)
      BY <1>2, <2>2 DEF value_cast_to
    <3>2. v \in AllValues
      BY <2>1, <3>1, ToDoubleIs, AllValuesAre
    <3> QED
      BY <2>2, <3>1, <3>2 DEF Float, Type
  <2>3. CASE type = "VARCHAR"
    <3>1. v = Varchar(DecimalText(Val(x)))
      BY <1>2, <2>3 DEF value_cast_to
    <3>2. v \in AllValues
      BY <2>1, <3>1, TextsOfNumbers, AllValuesAre
    <3> QED
      BY <2>3, <3>1, <3>2 DEF Varchar, Type
  <2>4. CASE type = "BOOLEAN"
    <3>1. v = Boolean(Val(x) # 0)
      BY <1>2, <2>4 DEF value_cast_to
    <3>2. (Val(x) # 0) \in BOOLEAN
      OBVIOUS
    <3>3. v \in AllValues
      BY <3>1, <3>2, AllValuesAre
    <3> QED
      BY <2>4, <3>1, <3>3 DEF Boolean, Type
  <2> QED
    BY <1>0, <1>2, <2>2, <2>3, <2>4
<1>3. CASE Type(x) = "FLOAT" /\ Type(x) # type
  <2> DEFINE a == Val(x)[1]
             b == Val(x)[2]
  <2>1. a \in Int /\ b \in Nat \ {0}
    BY <1>3, AllValuesAre
  <2>2. CASE type = "INTEGER"
    <3>1. v = Integer(Converted(Quot(a, b)))
      BY <1>3, <2>2 DEF value_cast_to
    <3>2. Converted(Quot(a, b)) \in MinInt .. MaxInt
      <4> HIDE DEF a, b
      <4> QED
        BY <2>1, QuotientIs, IntegersFit
    <3>3. v \in AllValues
      BY <3>1, <3>2, AllValuesAre
    <3> QED
      BY <2>2, <3>1, <3>3 DEF Integer, Type
  <2>3. CASE type = "VARCHAR"
    <3>1. v = Varchar(FloatText(a, b))
      BY <1>3, <2>3 DEF value_cast_to
    <3>2. FloatText(a, b) \in Seq(Characters)
      <4> HIDE DEF a, b
      <4> QED
        BY <2>1, TextsOfNumbers
    <3>3. v \in AllValues
      BY <3>1, <3>2, AllValuesAre
    <3> QED
      BY <2>3, <3>1, <3>3 DEF Varchar, Type
  <2>4. CASE type = "BOOLEAN"
    <3>1. v = Boolean(a # 0)
      BY <1>3, <2>4 DEF value_cast_to
    <3>2. (a # 0) \in BOOLEAN
      OBVIOUS
    <3>3. v \in AllValues
      BY <3>1, <3>2, AllValuesAre
    <3> QED
      BY <2>4, <3>1, <3>3 DEF Boolean, Type
  <2> QED
    BY <1>0, <1>3, <2>2, <2>3, <2>4
<1>4. CASE Type(x) = "VARCHAR" /\ Type(x) # type
  <2>1. Val(x) \in Seq(Characters)
    BY <1>4, AllValuesAre
  <2>2. CASE type = "INTEGER"
    <3>1. v = TextToInteger(Val(x))
      BY <1>4, <2>2 DEF value_cast_to
    <3> QED
      BY <2>1, <2>2, <3>1, TextCasts
  <2>3. CASE type = "FLOAT"
    <3>1. v = TextToFloat(Val(x))
      BY <1>4, <2>3 DEF value_cast_to
    <3> QED
      BY <2>1, <2>3, <3>1, TextCasts
  <2>4. CASE type = "BOOLEAN"
    BY <1>4, <2>4 DEF value_cast_to, Fails, Error, Type
  <2> QED
    BY <1>0, <1>4, <2>2, <2>3, <2>4
<1>5. CASE Type(x) = "BOOLEAN" /\ Type(x) # type
  <2> DEFINE n == IF Val(x) THEN 1 ELSE 0
             s == IF Val(x) THEN <<116, 114, 117, 101>> ELSE <<102, 97, 108, 115, 101>>
  <2>1. n \in MinInt .. MaxInt /\ n \in Int
    BY WidthIs
  <2>2. s \in Seq(Characters)
    <3>1. <<116, 114, 117, 101>> \in Seq(Characters) /\ <<102, 97, 108, 115, 101>> \in Seq(Characters)
      BY DEF Characters
    <3> QED
      BY <3>1
  <2>3. CASE type = "INTEGER"
    <3>1. v = Integer(n)
      BY <1>5, <2>3 DEF value_cast_to
    <3> HIDE DEF n
    <3>2. v \in AllValues
      BY <2>1, <3>1, AllValuesAre
    <3> QED
      BY <2>3, <3>1, <3>2 DEF Integer, Type
  <2>4. CASE type = "FLOAT"
    <3>1. v = Float(n, 1)
      BY <1>5, <2>4 DEF value_cast_to
    <3> HIDE DEF n
    <3>2. v \in AllValues
      BY <2>1, <3>1, AllValuesAre
    <3> QED
      BY <2>4, <3>1, <3>2 DEF Float, Type
  <2>5. CASE type = "VARCHAR"
    <3>1. v = Varchar(s)
      BY <1>5, <2>5 DEF value_cast_to
    <3> HIDE DEF s
    <3>2. v \in AllValues
      BY <2>2, <3>1, AllValuesAre
    <3> QED
      BY <2>5, <3>1, <3>2 DEF Varchar, Type
  <2> QED
    BY <1>0, <1>5, <2>3, <2>4, <2>5
<1>6. Type(x) \in {"INTEGER", "FLOAT", "VARCHAR", "BOOLEAN", "NULL"}
  BY AllValuesAre
<1> QED
  BY <1>1, <1>2, <1>3, <1>4, <1>5, <1>6

-----------------------------------------------------------------------------
(* INSERT row by row *)

\* The heap with one row more, slot by slot.
Inserted(slots, k, image) == SubSeq(slots, 1, k) \o <<image>> \o SubSeq(slots, k + 1, Len(slots))
GoesIn(new, slots, k, image) ==
         /\ DOMAIN new = 1 .. Len(slots) + 1 /\ Len(slots) \in Nat /\ DOMAIN slots = 1 .. Len(slots)
         /\ \A i \in 1 .. k : new[i] = slots[i]
         /\ new[k + 1] = image
         /\ \A i \in k + 1 .. Len(slots) : new[i + 1] = slots[i]

\* HeapsWith moves the slots behind the new one up.
LEMMA InsertedSlots ==
  ASSUME NEW slots, IsSlots(slots), NEW k \in 0 .. Len(slots), NEW image
  PROVE  GoesIn(Inserted(slots, k, image), slots, k, image)
<1> DEFINE new == Inserted(slots, k, image)
<1>1. PICK S : slots \in Seq(S)
  BY DEF IsSlots
<1> DEFINE T == S \cup {image}
           L == Len(slots)
           a == SubSeq(slots, 1, k)
           b == SubSeq(slots, k + 1, L)
<1>2. slots \in Seq(T) /\ L \in Nat /\ DOMAIN slots = 1 .. L /\ image \in T
  <2>1. \A i \in 1 .. Len(slots) : slots[i] \in T
    BY <1>1
  <2> QED
    BY <1>1, <2>1
<1> HIDE DEF T
<1>3. a \in Seq(T) /\ Len(a) = k /\ \A i \in 1 .. k : a[i] = slots[i]
  BY <1>2
<1>4. b \in Seq(T) /\ Len(b) = L - k /\ \A i \in 1 .. L - k : b[i] = slots[k + i]
  <2>1. k + 1 \in Int /\ L \in Int /\ k \in 0 .. L /\ \A i \in k + 1 .. L : slots[i] \in T
    BY <1>2
  <2>2. /\ b \in Seq(T) /\ Len(b) = (IF k + 1 <= L THEN L - (k + 1) + 1 ELSE 0)
        /\ \A i \in 1 .. L - (k + 1) + 1 : b[i] = slots[k + 1 + i - 1]
    <3> HIDE DEF L
    <3> QED
      BY <2>1, SubSeqProperties
  <2> HIDE DEF b, L
  <2>3. L - (k + 1) + 1 = L - k /\ (~(k + 1 <= L) => L - k = 0)
    BY <1>2, <2>1
  <2>4. \A i \in 1 .. L - k : k + 1 + i - 1 = k + i
    BY <1>2, <2>1
  <2> QED
    BY <2>2, <2>3, <2>4
<1> HIDE DEF a, b
<1> DEFINE c == a \o <<image>>
<1>5. c \in Seq(T) /\ Len(c) = k + 1 /\ c[k + 1] = image /\ \A i \in 1 .. k : c[i] = a[i]
  BY <1>2, <1>3
<1>6. new = c \o b
  BY DEF a, b, Inserted
<1> HIDE DEF c, L, new
<1>7. /\ DOMAIN new = 1 .. L + 1
      /\ \A i \in 1 .. k + 1 : new[i] = c[i]
      /\ \A i \in 1 .. L - k : new[k + 1 + i] = b[i]
  <2>1. new \in Seq(T) /\ Len(new) = k + 1 + (L - k)
        /\ (\A i \in 1 .. k + 1 : new[i] = c[i]) /\ \A i \in 1 .. L - k : new[k + 1 + i] = b[i]
    <3>1. /\ c \o b \in Seq(T) /\ Len(c \o b) = Len(c) + Len(b)
          /\ \A i \in 1 .. Len(c) : (c \o b)[i] = c[i]
          /\ \A i \in 1 .. Len(b) : (c \o b)[Len(c) + i] = b[i]
      <4>1. c \in Seq(T) /\ b \in Seq(T)
        BY <1>4, <1>5
      <4> QED
        BY <4>1, Joined
    <3> QED
      BY <1>4, <1>5, <1>6, <3>1, Zenon
  <2>2. k + 1 + (L - k) = L + 1 /\ DOMAIN new = 1 .. Len(new)
    BY <1>2, <2>1 DEF L
  <2> QED
    BY <2>1, <2>2
<1>8. \A i \in 1 .. k : new[i] = slots[i]
  <2> TAKE i \in 1 .. k
  <2>1. i \in 1 .. k + 1 /\ a[i] = slots[i] /\ c[i] = a[i]
    BY <1>3, <1>5
  <2> QED
    BY <1>7, <2>1
<1>9. new[k + 1] = image
  <2>1. k + 1 \in 1 .. k + 1
    BY <1>2
  <2> QED
    BY <1>5, <1>7, <2>1
<1>10. ASSUME NEW i \in k + 1 .. L PROVE new[i + 1] = slots[i]
  <2>1. k + 1 + (i - k) = i + 1 /\ i - k \in 1 .. L - k /\ k + (i - k) = i
    BY <1>2
  <2> DEFINE j == i - k
  <2> HIDE DEF j
  <2>2. j \in 1 .. L - k /\ k + 1 + j = i + 1 /\ k + j = i
    BY <2>1 DEF j
  <2> QED
    BY <1>4, <1>7, <2>2
<1> QED
  BY <1>2, <1>7, <1>8, <1>9, <1>10 DEF L, new, GoesIn

\* The slots that hold a row.
Holding(row, slots, schema) == {i \in RowSlots(slots) : tuple_deserialize(slots[i], schema) = row}

\* Rows are counted in finite sets of slots.
LEMMA HoldingFinite ==
  ASSUME NEW slots, IsSlots(slots), NEW row, NEW schema
  PROVE  IsFiniteSet(Holding(row, slots, schema)) /\ Count(row, slots, schema) = Cardinality(Holding(row, slots, schema))
         /\ Count(row, slots, schema) \in Nat
<1>1. Len(slots) \in Int /\ 1 \in Int /\ DOMAIN slots = 1 .. Len(slots)
  BY SlotsLength
<1>2. IsFiniteSet(1 .. Len(slots))
  BY <1>1, FS_Interval
<1>3. Holding(row, slots, schema) \in SUBSET (1 .. Len(slots))
  BY <1>1 DEF Holding, RowSlots
<1>4. IsFiniteSet(Holding(row, slots, schema))
  BY <1>2, <1>3, FS_Subset
<1>5. Count(row, slots, schema) = Cardinality(Holding(row, slots, schema))
  BY DEF Count, Holding
<1> QED
  BY <1>4, <1>5, FS_CardinalityType

\* A row more counts once.
LEMMA CountInserted ==
  ASSUME NEW slots, IsSlots(slots), NEW k \in 0 .. Len(slots), NEW image, image # Gone, NEW row, NEW schema
  PROVE  Count(row, Inserted(slots, k, image), schema) =
           Count(row, slots, schema) + (IF tuple_deserialize(image, schema) = row THEN 1 ELSE 0)
<1> DEFINE new == Inserted(slots, k, image)
           A == Holding(row, slots, schema)
           B == Holding(row, new, schema)
           C == {i \in B : i # k + 1}
           L == Len(slots)
           f == [i \in A |-> IF i <= k THEN i ELSE i + 1]
<1>1. /\ DOMAIN new = 1 .. L + 1 /\ L \in Nat /\ DOMAIN slots = 1 .. L /\ k \in 0 .. L
      /\ \A i \in 1 .. k : new[i] = slots[i]
      /\ new[k + 1] = image
      /\ \A i \in k + 1 .. L : new[i + 1] = slots[i]
  BY InsertedSlots DEF GoesIn
<1> HIDE DEF L, new
<1>2. \A i : i \in A <=> i \in 1 .. L /\ slots[i] # Gone /\ tuple_deserialize(slots[i], schema) = row
  BY <1>1 DEF Holding, RowSlots
<1>3. \A i : i \in B <=> i \in 1 .. L + 1 /\ new[i] # Gone /\ tuple_deserialize(new[i], schema) = row
  BY <1>1 DEF Holding, RowSlots
<1>4. IsFiniteSet(A) /\ Count(row, slots, schema) = Cardinality(A) /\ Cardinality(A) \in Nat
  BY HoldingFinite
<1>5. Count(row, new, schema) = Cardinality(B)
  BY DEF Count, Holding
<1> HIDE DEF A, B
<1>6. ASSUME NEW i \in A PROVE f[i] \in C
  <2>1. i \in 1 .. L /\ f[i] = IF i <= k THEN i ELSE i + 1
    BY <1>2
  <2>2. CASE i <= k
    <3>1. i \in 1 .. k /\ i \in 1 .. L + 1 /\ i # k + 1 /\ f[i] = i
      BY <1>1, <2>1, <2>2
    <3>2. i \in B
      BY <1>1, <1>2, <1>3, <3>1
    <3> QED
      BY <3>1, <3>2
  <2>3. CASE ~(i <= k)
    <3>1. i \in k + 1 .. L /\ i + 1 \in 1 .. L + 1 /\ i + 1 # k + 1 /\ f[i] = i + 1
      BY <1>1, <2>1, <2>3
    <3>2. i + 1 \in B
      BY <1>1, <1>2, <1>3, <3>1
    <3> QED
      BY <3>1, <3>2
  <2> QED
    BY <2>2, <2>3
<1>7. ASSUME NEW i \in A, NEW j \in A, f[i] = f[j] PROVE i = j
  <2>1. i \in Nat /\ j \in Nat /\ k \in Nat
    BY <1>1, <1>2
  <2> QED
    BY <1>7, <2>1
<1>8. ASSUME NEW j \in C PROVE \E i \in A : f[i] = j
  <2>1. j \in 1 .. L + 1 /\ j # k + 1 /\ new[j] # Gone /\ tuple_deserialize(new[j], schema) = row
    BY <1>3
  <2>2. CASE j <= k
    <3>1. j \in 1 .. k /\ j \in 1 .. L
      BY <1>1, <2>1, <2>2
    <3>2. j \in A
      BY <1>1, <1>2, <2>1, <3>1
    <3> QED
      BY <2>2, <3>2
  <2>3. CASE ~(j <= k)
    <3> DEFINE i == j - 1
    <3>1. i \in k + 1 .. L /\ i + 1 = j /\ i \in 1 .. L /\ ~(i <= k)
      BY <1>1, <2>1, <2>3
    <3> HIDE DEF i
    <3>2. i \in A
      BY <1>1, <1>2, <2>1, <3>1
    <3>3. f[i] = j
      BY <3>1, <3>2
    <3> QED
      BY <3>2, <3>3
  <2> QED
    BY <2>2, <2>3
<1>9. f \in Bijection(A, C)
  <2>1. f \in [A -> C]
    <3>1. f = [i \in A |-> f[i]]
      OBVIOUS
    <3> HIDE DEF f, C
    <3> QED
      BY <1>6, <3>1
  <2> HIDE DEF f, C
  <2>2. \A i, j \in A : f[i] = f[j] => i = j
    BY <1>7
  <2>3. \A j \in C : \E i \in A : f[i] = j
    BY <1>8
  <2>4. f \in Injection(A, C) /\ f \in Surjection(A, C)
    BY <2>1, <2>2, <2>3 DEF Injection, IsInjective, Surjection
  <2> QED
    BY <2>4 DEF Bijection
<1>10. IsFiniteSet(C) /\ Cardinality(C) = Cardinality(A)
  <2> HIDE DEF f, C
  <2> QED
    BY <1>4, <1>9, FS_Bijection DEF ExistsBijection
<1>11. k + 1 \in B <=> tuple_deserialize(image, schema) = row
  <2>1. k + 1 \in 1 .. L + 1
    BY <1>1
  <2> QED
    BY <1>1, <1>3, <2>1
<1>12. CASE tuple_deserialize(image, schema) = row
  <2>1. B = C \cup {k + 1} /\ k + 1 \notin C
    BY <1>11, <1>12
  <2> HIDE DEF C
  <2>2. Cardinality(B) = Cardinality(A) + 1
    BY <1>10, <2>1, FS_AddElement
  <2> QED
    BY <1>4, <1>5, <1>12, <2>2 DEF new
<1>13. CASE tuple_deserialize(image, schema) # row
  <2>1. B = C
    BY <1>11, <1>13
  <2> HIDE DEF C
  <2> QED
    BY <1>4, <1>5, <1>10, <1>13, <2>1 DEF new
<1> QED
  BY <1>12, <1>13

Due(row) == Cardinality({k \in 1 .. run.row : GivenRow(k) = row})
Fits(row) == Len(tuple_serialize(row, Columns)) <= RowRoom

\* InsertExact for any row, and that a row has no more values than columns.
InsertTold ==
  /\ \A k \in DOMAIN run.rows : Len(run.rows[k]) <= Len(Columns)
  /\ \A row : Fits(row) => Count(row, Slots(run.root), Columns) = Count(row, run.before, Columns) + Due(row)

\* The columns of the table an INSERT runs on.
LEMMA ColumnsAre ==
  ASSUME EngineInv, InsertRuns
  PROVE  /\ IsSlots(Columns) /\ Len(Columns) \in Nat /\ DOMAIN Columns = 1 .. Len(Columns)
         /\ \A i \in DOMAIN Columns : Columns[i].type \in ColumnTypes
<1> DEFINE C == [name : ColumnNames, type : ColumnTypes, max_length : Nat]
<1>1. Columns \in Seq(C)
  <2>1. Columns \in Schemas
    BY HasSchemaNamed DEF Columns, EngineInv, InsertRuns, RunningOn
  <2> QED
    BY <2>1, CatalogAssumption
<1>2. \A c \in C : c.type \in ColumnTypes
  OBVIOUS
<1> HIDE DEF C
<1> QED
  BY <1>1, <1>2 DEF IsSlots

\* The rows of the statement hold expressions with a value, or that fail.
LEMMA RowsGiven ==
  ASSUME EngineInv, InsertRuns, NEW k \in DOMAIN run.rows
  PROVE  LET exprs == run.rows[k]
         IN /\ IsSlots(exprs) /\ Len(exprs) \in Nat \ {0} /\ DOMAIN exprs = 1 .. Len(exprs)
            /\ \A i \in DOMAIN exprs : LET v == Evaluate(exprs[i], NoTuple, NoSchema) IN v \in AllValues \/ Fails(v)
<1>1. PICK s \in Statements : s.op = "INSERT" /\ s.rows = run.rows
  BY DEF InsertRuns
<1> DEFINE exprs == UNION {ToSet(s.rows[j]) : j \in DOMAIN s.rows}
<1>2. /\ s.rows \in Seq(Seq(exprs) \ {<<>>})
      /\ \A e \in exprs : LET v == Evaluate(e, NoTuple, NoSchema) IN v \in AllValues \/ Fails(v)
  BY <1>1, StatementsAssumption
<1> HIDE DEF exprs
<1>3. run.rows[k] \in Seq(exprs) \ {<<>>}
  BY <1>1, <1>2
<1> QED
  BY <1>2, <1>3 DEF IsSlots

\* A row of VALUES all of whose values can be had: it is stored as it is given.
Taken(k) == RowValues(run.rows[k], Columns)

\* insert_executor_next casts a value to the type of its column, or fails.
LEMMA ValueGiven ==
  ASSUME EngineInv, InsertRuns, InsertTold, NEW k \in DOMAIN run.rows, NEW i \in DOMAIN run.rows[k]
  PROVE  LET v == InsertValue(run.rows[k][i], Columns[i].type)
         IN Fails(v) \/ (v \in AllValues /\ Type(v) \in {Columns[i].type, "NULL"} /\ v = GivenRow(k)[i])
<1> DEFINE e == Evaluate(run.rows[k][i], NoTuple, NoSchema)
           type == Columns[i].type
           v == InsertValue(run.rows[k][i], type)
<1>1. e \in AllValues \/ Fails(e)
  BY RowsGiven
<1>2. i \in 1 .. Len(run.rows[k]) /\ i \in DOMAIN Columns
  <2>1. Len(run.rows[k]) <= Len(Columns)
    BY DEF InsertTold
  <2> QED
    BY <2>1, ColumnsAre, RowsGiven
<1>3. type \in ColumnTypes
  BY <1>2, ColumnsAre
<1>4. ~(i > Len(run.rows[k]))
  BY <1>2, RowsGiven
<1>5. GivenRow(k)[i] = value_cast_to(e, type)
  BY <1>2, <1>4 DEF GivenRow
<1>6. CASE Fails(e)
  BY <1>6 DEF InsertValue
<1>7. CASE ~Fails(e)
  <2>1. v = value_cast_to(e, type)
    BY <1>7 DEF InsertValue
  <2> HIDE DEF e, type, v
  <2> QED
    BY <1>1, <1>3, <1>5, <1>7, <2>1, CastIs DEF v, type
<1> QED
  BY <1>6, <1>7

\* A row whose values all are there: what is stored of it is what was given.
LEMMA RowTaken ==
  ASSUME EngineInv, InsertRuns, InsertTold, NEW k \in DOMAIN run.rows, ~Fails(Last(Taken(k)))
  PROVE  /\ IsSchema(Columns) /\ Storable(Taken(k))
         /\ Stored(Taken(k), Columns) = GivenRow(k) /\ SameFields(Taken(k), GivenRow(k), Columns)
         /\ Taken(k) \in Seq(AllValues)
<1> DEFINE exprs == run.rows[k]
           L == Len(exprs)
           given == [i \in DOMAIN exprs |-> InsertValue(exprs[i], Columns[i].type)]
           failing == {i \in DOMAIN given : Fails(given[i])}
           first == CHOOSE i \in failing : \A j \in failing : i <= j
<1>1. L \in Nat \ {0} /\ DOMAIN exprs = 1 .. L /\ L <= Len(Columns)
  BY RowsGiven DEF InsertTold
<1>2. Taken(k) = IF failing = {} THEN given ELSE SubSeq(given, 1, first)
  BY DEF Taken, RowValues
<1>3. \A i \in 1 .. L : Fails(given[i]) \/ /\ given[i] \in AllValues
                                            /\ Type(given[i]) \in {Columns[i].type, "NULL"}
                                            /\ given[i] = GivenRow(k)[i]
  BY <1>1, ValueGiven
<1> DEFINE V == {given[i] : i \in 1 .. L}
<1>4. given \in Seq(V) /\ Len(given) = L /\ DOMAIN given = 1 .. L
  <2>1. given \in [1 .. L -> V]
    BY <1>1
  <2> HIDE DEF given, V
  <2> QED
    BY <1>1, <2>1
<1> HIDE DEF given, exprs, L, V
<1>5. failing = {}
  <2> SUFFICES ASSUME failing # {} PROVE FALSE
    OBVIOUS
  <2>1. failing \subseteq Nat
    BY <1>1, <1>4
  <2>2. first \in failing
    <3> HIDE DEF failing
    <3>1. \E i \in failing : \A j \in failing : i <= j
      BY <2>1, LeastNatural
    <3> QED
      BY <3>1
  <2>3. first \in 1 .. L /\ Fails(given[first])
    BY <1>4, <2>2
  <2>4. Taken(k) = SubSeq(given, 1, first)
    BY <1>2
  <2> HIDE DEF first, failing
  <2>5. Last(SubSeq(given, 1, first)) = given[first]
    <3>1. 1 \in Int /\ first \in Int /\ (\A i \in 1 .. first : given[i] \in V) /\ 1 <= first
          /\ first - 1 + 1 = first /\ first \in 1 .. first - 1 + 1 /\ 1 + first - 1 = first
      BY <1>1, <1>4, <2>3
    <3>2. Len(SubSeq(given, 1, first)) = first /\ SubSeq(given, 1, first)[first] = given[first]
      BY <3>1, SubSeqProperties
    <3> QED
      BY <3>2 DEF Last
  <2> QED
    BY <2>3, <2>4, <2>5
<1>6. Taken(k) = given
  BY <1>2, <1>5
<1>7. \A i \in 1 .. L : ~Fails(given[i])
  BY <1>4, <1>5
<1> HIDE DEF failing, first
<1>8. \A i \in 1 .. L : /\ given[i] \in AllValues
                        /\ Type(given[i]) \in {Columns[i].type, "NULL"}
                        /\ given[i] = GivenRow(k)[i]
  BY <1>3, <1>7
<1>9. IsSchema(Columns)
  <2>1. Columns # <<>>
    <3>1. Len(Columns) # 0
      BY <1>1, ColumnsAre
    <3> QED
      BY <3>1
  <2> QED
    BY <2>1, ColumnsAre DEF IsSchema
<1>10. Storable(given)
  <2>1. ASSUME NEW i \in 1 .. L, Type(given[i]) = "VARCHAR" PROVE IsText(given[i])
    <3>1. Val(given[i]) \in Seq(Characters) /\ given[i] = Varchar(Val(given[i]))
      BY <1>8, <2>1, AllValuesAre
    <3> QED
      BY <3>1 DEF IsText, IsSlots
  <2> QED
    BY <1>4, <2>1 DEF Storable, IsSlots
<1>11. DOMAIN GivenRow(k) = 1 .. Len(Columns) /\ Len(GivenRow(k)) = Len(Columns)
  BY ColumnsAre DEF GivenRow
<1>12. \A i \in 1 .. Len(Columns) : i > L => GivenRow(k)[i] = Null
  BY ColumnsAre DEF GivenRow, L, exprs
<1>13. ASSUME NEW i \in 1 .. Len(Columns)
       PROVE  /\ StoredValue(given, i, Columns[i].type) = GivenRow(k)[i]
              /\ is_column_null(given, i) <=> is_column_null(GivenRow(k), i)
              /\ ~is_column_null(given, i) => given[i] = GivenRow(k)[i]
  <2>1. ~(i > Len(Columns))
    BY ColumnsAre
  <2>2. is_column_null(GivenRow(k), i) <=> Type(GivenRow(k)[i]) = "NULL"
    BY <1>11, <2>1 DEF is_column_null
  <2>3. CASE i > L
    BY <1>4, <1>12, <2>2, <2>3 DEF is_column_null, StoredValue, Type, Null
  <2>4. CASE ~(i > L)
    <3>1. i \in 1 .. L
      BY <1>1, <2>4
    <3>2. is_column_null(given, i) <=> Type(given[i]) = "NULL"
      BY <1>4, <2>4 DEF is_column_null
    <3>3. Type(given[i]) = "NULL" => given[i] = Null
      BY <1>8, <3>1, AllValuesAre
    <3>4. StoredValue(given, i, Columns[i].type) = given[i]
      BY <1>8, <3>1, <3>2, <3>3 DEF StoredValue
    <3> QED
      BY <1>8, <2>2, <3>1, <3>2, <3>4
  <2> QED
    BY <2>3, <2>4
<1>14. Stored(given, Columns) = GivenRow(k)
  <2>1. DOMAIN Columns = 1 .. Len(Columns)
    BY ColumnsAre
  <2>2. GivenRow(k) = [i \in DOMAIN Columns |-> GivenRow(k)[i]]
    BY DEF GivenRow
  <2> QED
    BY <1>13, <2>1, <2>2 DEF Stored
<1>15. SameFields(given, GivenRow(k), Columns)
  BY <1>13, ColumnsAre DEF SameFields
<1>16. given \in Seq(AllValues)
  <2>1. given = [i \in 1 .. L |-> given[i]]
    BY <1>4
  <2>2. given \in [1 .. L -> AllValues]
    BY <1>8, <2>1
  <2> QED
    BY <1>1, <2>2
<1> QED
  BY <1>6, <1>9, <1>10, <1>14, <1>15, <1>16

\* The same statement over the same table: what is given and what is due.
LEMMA SameInsert ==
  ASSUME UNCHANGED mapVars, run'.table = run.table, run'.rows = run.rows
  PROVE  /\ Columns' = Columns /\ \A k : GivenRow(k)' = GivenRow(k)
         /\ \A row : Fits(row)' <=> Fits(row)
<1>1. Columns' = Columns
  BY SameMaps DEF Columns, mapVars
<1>2. \A k : GivenRow(k)' = GivenRow(k)
  BY <1>1 DEF GivenRow
<1>3. \A row : Fits(row)' <=> Fits(row)
  BY <1>1 DEF Fits
<1> QED
  BY <1>1, <1>2, <1>3

\* A row more is due once.
LEMMA DueGrows ==
  ASSUME NEW row, run.row \in Nat, run'.row = run.row + 1, \A k : GivenRow(k)' = GivenRow(k)
  PROVE  /\ Due(row) \in Nat
         /\ Due(row)' = Due(row) + (IF GivenRow(run.row + 1) = row THEN 1 ELSE 0)
<1> DEFINE D == {k \in 1 .. run.row : GivenRow(k) = row}
           E == {k \in 1 .. run.row + 1 : GivenRow(k) = row}
<1>1. 1 \in Int /\ run.row \in Int
  OBVIOUS
<1>2. IsFiniteSet(1 .. run.row)
  BY <1>1, FS_Interval
<1>3. IsFiniteSet(D) /\ Cardinality(D) \in Nat
  <2>1. D \in SUBSET (1 .. run.row)
    OBVIOUS
  <2> HIDE DEF D
  <2> QED
    BY <1>2, <2>1, FS_Subset, FS_CardinalityType
<1>4. Due(row) = Cardinality(D)
  BY DEF Due
<1>5. Due(row)' = Cardinality(E)
  BY DEF Due
<1>6. CASE GivenRow(run.row + 1) = row
  <2>1. E = D \cup {run.row + 1} /\ run.row + 1 \notin D
    BY <1>1, <1>6
  <2> HIDE DEF D, E
  <2>2. Cardinality(E) = Cardinality(D) + 1
    BY <1>3, <2>1, FS_AddElement
  <2> QED
    BY <1>3, <1>4, <1>5, <1>6, <2>2
<1>7. CASE GivenRow(run.row + 1) # row
  <2>1. E = D
    BY <1>1, <1>7
  <2> HIDE DEF D, E
  <2> QED
    BY <1>3, <1>4, <1>5, <1>7, <2>1
<1> QED
  BY <1>6, <1>7

\* The row an INSERT is about to store.
LEMMA NextTaken ==
  ASSUME EngineInv, InsertRuns, NextInserts
  PROVE  /\ run.row \in Nat /\ run.row + 1 \in DOMAIN run.rows
         /\ NextValues = Taken(run.row + 1) /\ ~Fails(Last(Taken(run.row + 1)))
<1>1. run.rows = [k \in 1 .. Len(run.rows) |-> run.rows[k]] /\ Len(run.rows) \in Nat
  <2>1. PICK s \in Statements : s.op = "INSERT" /\ s.rows = run.rows
    BY DEF InsertRuns
  <2> DEFINE exprs == UNION {ToSet(s.rows[j]) : j \in DOMAIN s.rows}
  <2>2. s.rows \in Seq(Seq(exprs) \ {<<>>})
    BY <2>1, StatementsAssumption
  <2> HIDE DEF exprs
  <2> QED
    BY <2>1, <2>2
<1>2. run.row \in Nat /\ run.row < Len(run.rows)
  BY DEF NextInserts, InsertRuns
<1> QED
  BY <1>1, <1>2 DEF NextValues, Taken, NextInserts

\* insert_executor_next adds the row it counts, and no other.
LEMMA InsertRowTold ==
  ASSUME EngineInv, CatalogInv', InsertTold, InsertRow
  PROVE  InsertTold'
<1>1. InsertRuns /\ UNCHANGED mapVars /\ NextInserts
  BY RunKinds DEF InsertRow, NextInserts, EngineInv
<1>2. PICK page \in FirstPages :
       /\ allocated' = allocated \cup {page}
       /\ \E new \in HeapsWith(Slots(run.root), tuple_serialize(NextValues, Columns)) :
            heaps' = hashmap_put(heaps, page, new)
       /\ run' = [run EXCEPT !.root = page, !.row = @ + 1, !.affected = @ + 1]
  BY DEF InsertRow
<1> DEFINE image == tuple_serialize(NextValues, Columns)
           old == Slots(run.root)
<1>3. PICK new \in HeapsWith(old, image) : heaps' = hashmap_put(heaps, page, new)
  BY <1>2
<1>4. IsSlots(old)
  BY <1>1, TableSlots DEF EngineInv, InsertRuns
<1>5. IsSlots(new)
  BY <1>4, SlotsWith
<1>6. heaps'[page] = new
  BY <1>1, <1>2, <1>3, <1>5, PutHeap
<1>7. /\ run'.table = run.table /\ run'.rows = run.rows /\ run'.root = page
      /\ run'.row = run.row + 1 /\ run'.before = run.before
  BY <1>1, <1>2 DEF InsertRuns, Record, InsertFields
<1>8. Slots(run.root)' = new
  BY <1>1, <1>6, <1>7, FirstPagesFresh DEF Slots
<1>9. Columns' = Columns /\ (\A k : GivenRow(k)' = GivenRow(k)) /\ \A row : Fits(row)' <=> Fits(row)
  BY <1>1, <1>7, SameInsert
<1> DEFINE n == run.row + 1
<1>10. run.row \in Nat /\ n \in DOMAIN run.rows
  BY <1>1, NextTaken
<1>11. NextValues = Taken(n) /\ ~Fails(Last(Taken(n)))
  BY <1>1, NextTaken
<1> HIDE DEF n
<1>12. /\ IsSchema(Columns) /\ Storable(Taken(n))
       /\ Stored(Taken(n), Columns) = GivenRow(n) /\ SameFields(Taken(n), GivenRow(n), Columns)
  BY <1>1, <1>10, <1>11, RowTaken
<1>13. image = tuple_serialize(GivenRow(n), Columns)
  BY <1>11, <1>12, StoredTheSame
<1>14. tuple_deserialize(image, Columns) = GivenRow(n) /\ image # Gone
  BY <1>11, <1>12, ReadsBack DEF Gone
<1> HIDE DEF image, old
<1>15. ASSUME NEW row, Fits(row)
       PROVE  Count(row, new, Columns) = Count(row, old, Columns) + (IF GivenRow(n) = row THEN 1 ELSE 0)
  <2>1. CASE Len(image) > RowRoom
    <3>1. new = old
      BY <1>3, <2>1 DEF HeapsWith
    <3>2. GivenRow(n) # row
      <4>1. ~(Len(image) <= RowRoom)
        <5>1. Len(image) \in Nat
          BY <1>11, <1>12, ReadsBack, SlotsLength DEF image
        <5> QED
          BY <2>1, <5>1, RoomAssumption
      <4> QED
        BY <1>13, <1>15, <4>1 DEF Fits
    <3>3. Count(row, old, Columns) \in Nat
      BY <1>4, HoldingFinite
    <3> QED
      BY <3>1, <3>2, <3>3
  <2>2. CASE ~(Len(image) > RowRoom)
    <3>1. PICK k \in 0 .. Len(old) : new = Inserted(old, k, image)
      BY <1>3, <2>2 DEF HeapsWith, Inserted
    <3>2. Count(row, new, Columns) =
            Count(row, old, Columns) + (IF tuple_deserialize(image, Columns) = row THEN 1 ELSE 0)
      BY <1>4, <1>14, <3>1, CountInserted
    <3> QED
      BY <1>14, <3>2
  <2> QED
    BY <2>1, <2>2
<1>16. ASSUME NEW row, Fits(row)
       PROVE  Count(row, new, Columns) = Count(row, run.before, Columns) + Due(row)'
  <2> DEFINE more == IF GivenRow(n) = row THEN 1 ELSE 0
             was == Count(row, run.before, Columns)
             is == Count(row, old, Columns)
  <2>1. Due(row) \in Nat /\ Due(row)' = Due(row) + more
    BY <1>7, <1>9, <1>10, DueGrows DEF n
  <2>2. is = was + Due(row)
    BY <1>16 DEF InsertTold, old
  <2>3. was \in Nat
    BY <1>1, HoldingFinite DEF InsertRuns
  <2>4. Count(row, new, Columns) = is + more
    BY <1>15, <1>16
  <2>5. more \in Nat
    OBVIOUS
  <2> DEFINE d == Due(row)
             e == Due(row)'
  <2>6. d \in Nat /\ e = d + more /\ is = was + d
    BY <2>1, <2>2
  <2> HIDE DEF more, was, is, d, e
  <2>7. is + more = was + e
    BY <2>3, <2>5, <2>6
  <2> QED
    BY <2>4, <2>7 DEF was, e
<1>17. \A row : /\ Count(row, Slots(run.root), Columns)' = Count(row, new, Columns)
                /\ Count(row, run.before, Columns)' = Count(row, run.before, Columns)
  BY <1>7, <1>8, <1>9 DEF Count, RowSlots
<1> QED
  BY <1>7, <1>9, <1>16, <1>17 DEF InsertTold

-----------------------------------------------------------------------------
(* The engine keeps its invariant *)

\* The invariant with ChangeExact and InsertExact in it.
TellingInv == EngineInv /\ (ChangeRuns => ChangeTold) /\ (InsertRuns => InsertTold)

\* An INSERT starts with nothing due.
LEMMA StartsInsert ==
  ASSUME EngineInv, NEW s \in Statements, Execute(s), EngineInv', InsertRuns'
  PROVE  InsertTold'
<1>0. run = Idle
  BY DEF Execute, Ready
<1>1. run' # run /\ run' # Idle /\ run'.op = "INSERT"
  BY <1>0, RunKinds DEF Idle, InsertRuns
<1>2. StartInsert(s)
  <2>1. ~(s.op \in {"UPDATE", "DELETE"} /\ StartChange(s))
    <3> SUFFICES ASSUME s.op \in {"UPDATE", "DELETE"}, StartChange(s) PROVE FALSE
      OBVIOUS
    <3> DEFINE first == TableRoot(TableId(s.table))
    <3>1. PICK plan : /\ run' # run /\ run' # Idle
                      /\ run' = [op |-> s.op, table |-> s.table, root |-> first, slot |-> 0,
                                 set |-> IF s.op = "UPDATE" THEN s.set ELSE <<>>,
                                 predicate |-> plan.children[1].arg.predicate,
                                 before |-> Slots(first), affected |-> 0]
      BY <1>1 DEF StartChange, Refuse, Die
    <3> HIDE DEF first
    <3>2. run'.op = s.op
      BY <3>1
    <3> QED
      BY <1>1, <3>2
  <2> QED
    BY <1>1, <2>1 DEF Execute, Defines, Refuse
<1> DEFINE root == TableRoot(TableId(s.table))
<1>3. /\ HasSchema(s.table) /\ UNCHANGED <<mapVars, allocated, heaps>>
      /\ \A k \in DOMAIN s.rows : Len(s.rows[k]) <= Len(schema_cache[TableId(s.table)])
      /\ run'.table = s.table /\ run'.rows = s.rows /\ run'.root = root /\ run'.row = 0
      /\ run'.before = Slots(root)
  <2>1. /\ HasSchema(s.table) /\ UNCHANGED <<mapVars, allocated, heaps>>
        /\ \A k \in DOMAIN s.rows : Len(s.rows[k]) <= Len(schema_cache[TableId(s.table)])
        /\ run' = [op |-> "INSERT", table |-> s.table, rows |-> s.rows, row |-> 0, failed |-> FALSE,
                   root |-> root, before |-> Slots(root), affected |-> 0]
    BY <1>1, <1>2 DEF StartInsert, Refuse
  <2> HIDE DEF root
  <2> QED
    BY <2>1
<1>4. IsSlots(Slots(root))
  BY <1>3, RootSlots
<1>5. Columns' = schema_cache[TableId(s.table)]
  BY <1>3, SameMaps DEF Columns, mapVars
<1>6. Slots(run.root)' = Slots(root)
  <2>1. run'.root = root /\ heaps' = heaps
    BY <1>3
  <2> HIDE DEF root
  <2> QED
    BY <2>1 DEF Slots
<1> HIDE DEF root
<1>7. \A row : Due(row)' = 0
  <2>1. Cardinality({}) = 0
    BY FS_EmptySet
  <2>2. \A row : {k \in 1 .. run'.row : GivenRow(k)' = row} = {}
    BY <1>3
  <2> QED
    BY <2>1, <2>2 DEF Due
<1>8. ASSUME NEW row
      PROVE  Count(row, Slots(run.root), Columns)' = Count(row, run.before, Columns)' + Due(row)'
  <2>1. Count(row, Slots(root), Columns') \in Nat
    BY <1>4, HoldingFinite
  <2>2. /\ Count(row, Slots(run.root), Columns)' = Count(row, Slots(root), Columns')
        /\ Count(row, run.before, Columns)' = Count(row, Slots(root), Columns')
    BY <1>3, <1>6 DEF Count, RowSlots
  <2> DEFINE n == Count(row, Slots(root), Columns')
  <2>3. n \in Nat
    BY <2>1
  <2> HIDE DEF n
  <2>4. n = n + 0
    BY <2>3
  <2> QED
    BY <1>7, <2>2, <2>4 DEF n
<1> QED
  BY <1>3, <1>5, <1>8 DEF InsertTold

\* An INSERT goes on with as many rows, over the same slots.
LEMMA InsertStays ==
  ASSUME InsertTold, UNCHANGED mapVars, run'.table = run.table, run'.rows = run.rows, run'.row = run.row,
         run'.before = run.before, Slots(run.root)' = Slots(run.root)
  PROVE  InsertTold'
<1>1. Columns' = Columns /\ (\A k : GivenRow(k)' = GivenRow(k)) /\ \A row : Fits(row)' <=> Fits(row)
  BY SameInsert
<1>2. \A row : Due(row)' = Due(row)
  BY <1>1 DEF Due
<1>3. \A row : /\ Count(row, Slots(run.root), Columns)' = Count(row, Slots(run.root), Columns)
               /\ Count(row, run.before, Columns)' = Count(row, run.before, Columns)
  BY <1>1 DEF Count, RowSlots
<1> QED
  BY <1>1, <1>2, <1>3 DEF InsertTold

\* A process that ends leaves everything as it was told.
LEMMA StillsTelling ==
  ASSUME TellingInv, UNCHANGED <<mapVars, allocated, heaps, run>>, CatalogInv'
  PROVE  TellingInv'
<1>2. EngineInv' /\ (ChangeRuns' <=> ChangeRuns)
  BY StillsInv DEF TellingInv
<1>4. InsertRuns' <=> InsertRuns
  BY StillsInv DEF TellingInv
<1>5. InsertTold => InsertTold'
  BY InsertStays DEF Slots
<1>3. ChangeTold' <=> ChangeTold
  <2>1. \A j : (Chosen(j)' <=> Chosen(j)) /\ Target(j)' = Target(j)
    BY SameStatement
  <2>2. Slots(run.root)' = Slots(run.root)
    BY DEF Slots
  <2>3. \A j : Untouched(j)' <=> Untouched(j)
    BY <2>2 DEF Untouched
  <2>4. /\ {j \in 1 .. run.slot : Chosen(j)}' = {j \in 1 .. run.slot : Chosen(j)}
        /\ {j \in 1 .. run.slot : ~Untouched(j)}' = {j \in 1 .. run.slot : ~Untouched(j)}
    BY <2>1, <2>3
  <2> QED
    BY <2>1, <2>2, <2>3, <2>4 DEF ChangeTold
<1> QED
  BY <1>2, <1>3, <1>4, <1>5 DEF TellingInv

\* Every step of the engine keeps the invariant, action by action.
LEMMA NextTelling ==
  ASSUME TellingInv, EngineNext, CatalogInv'
  PROVE  TellingInv'
<1>0. EngineInv
  BY DEF TellingInv
<1>1. ASSUME NEW s \in Statements, Execute(s) PROVE TellingInv'
  <2>1. EngineInv'
    BY <1>0, <1>1, ExecuteInv
  <2> QED
    BY <1>0, <1>1, <2>1, StartsUntouched, StartsInsert DEF TellingInv
<1>2. CASE InsertRow
  <2>1. EngineInv' /\ InsertRuns'
    BY <1>0, <1>2, InsertRowInv
  <2>2. ~ChangeRuns'
    BY <2>1 DEF InsertRuns, ChangeRuns
  <2>3. InsertTold'
    <3>1. InsertRuns
      BY <1>0, <1>2, RunKinds DEF InsertRow, NextInserts, EngineInv
    <3> QED
      BY <1>0, <1>2, <3>1, InsertRowTold DEF TellingInv
  <2> QED
    BY <2>1, <2>2, <2>3 DEF TellingInv
<1>3. CASE InsertFails
  <2>1. EngineInv' /\ InsertRuns'
    BY <1>0, <1>3, InsertFailsInv
  <2>2. ~ChangeRuns'
    BY <2>1 DEF InsertRuns, ChangeRuns
  <2>3. InsertTold'
    <3>1. InsertRuns /\ UNCHANGED mapVars
      BY <1>0, <1>3, RunKinds DEF InsertFails, NextInserts, EngineInv
    <3>2. /\ run'.row = run.row /\ run'.rows = run.rows /\ run'.before = run.before /\ run'.table = run.table
          /\ Slots(run.root)' = Slots(run.root)
      BY <1>0, <1>3, InsertFailsInv
    <3> QED
      BY <3>1, <3>2, InsertStays DEF TellingInv
  <2> QED
    BY <2>1, <2>2, <2>3 DEF TellingInv
<1>4. CASE InsertEnds
  <2>1. EngineInv'
    BY <1>0, <1>4, InsertEndsInv
  <2>2. run'.op = "NONE"
    BY <1>4 DEF InsertEnds, Finish, Idle
  <2> QED
    BY <2>1, <2>2 DEF TellingInv, ChangeRuns, InsertRuns
<1>5. CASE InsertDies \/ ChangeDies
  <2>1. UNCHANGED <<mapVars, allocated, heaps, run>>
    BY <1>5 DEF InsertDies, ChangeDies, Die
  <2> QED
    BY <2>1, StillsTelling
<1>6. CASE DeleteRow \/ UpdateRow \/ UpdatePasses
  <2>1. run.op \in {"UPDATE", "DELETE"}
    BY <1>6 DEF DeleteRow, UpdateRow, UpdatePasses
  <2>2. ChangeRuns /\ ChangeTold
    BY <1>0, <2>1, RunKinds DEF TellingInv, EngineInv
  <2>3. HeapsTyped' /\ ChangeRuns' /\ ChangeTold'
    BY <1>0, <1>6, <2>2, DeleteRowDone, UpdateRowDone, UpdatePassesDone
  <2>4. ~InsertRuns'
    BY <2>3 DEF InsertRuns, ChangeRuns
  <2> QED
    BY <2>3, <2>4, <1>0 DEF TellingInv, EngineInv
<1>7. CASE ChangeEnds
  <2>1. UNCHANGED <<mapVars, allocated, heaps>> /\ run' = Idle
    BY <1>7 DEF ChangeEnds, Finish
  <2>2. EngineInv'
    BY <1>0, <2>1, StillsInv
  <2>3. ~ChangeRuns' /\ ~InsertRuns'
    BY <2>1 DEF ChangeRuns, InsertRuns, Idle
  <2> QED
    BY <2>2, <2>3 DEF TellingInv
<1> QED
  BY <1>1, <1>2, <1>3, <1>4, <1>5, <1>6, <1>7 DEF EngineNext

\* The invariant of the engine: heaps start on pages that were handed out and
\* every table with rows has one; a statement under way works on the table it
\* names; what INSERT, UPDATE and DELETE have done so far is what ChangeExact
\* and InsertExact tell (execution_engine.c, the three DML executors).
THEOREM EngineKeepsInvariant == EngineSpec => []TellingInv
<1>1. EngineInit => TellingInv
  <2>1. EngineInit => ~ChangeRuns /\ ~InsertRuns
    BY DEF EngineInit, ChangeRuns, InsertRuns, Idle
  <2> QED
    BY <2>1, InitEngineInv DEF TellingInv
<1>2. TellingInv /\ [EngineNext]_engineVars => TellingInv'
  <2> SUFFICES ASSUME TellingInv, [EngineNext]_engineVars PROVE TellingInv'
    OBVIOUS
  <2>1. CASE EngineNext
    <3>1. CatalogInv'
      BY <2>1, EngineUsesCatalog, NextCatalogInv DEF TellingInv, EngineInv
    <3> QED
      BY <2>1, <3>1, NextTelling
  <2>2. CASE UNCHANGED engineVars
    <3>1. UNCHANGED <<mapVars, allocated, heaps, run, alive>>
      BY <2>2 DEF engineVars, catalogVars
    <3>2. CatalogInv'
      BY <3>1, NextCatalogInv DEF TellingInv, EngineInv
    <3> QED
      BY <3>1, <3>2, StillsTelling
  <2> QED
    BY <2>1, <2>2
<1> QED
  BY <1>1, <1>2, PTL DEF EngineSpec

\* Each step of the engine, an INSERT that gives a table its first page in the
\* catalog (bpm_heap_insert, catalog_update_root_page) included, is a step of
\* module Catalog or leaves the catalog alone; so the catalog stays consistent
\* under the engine too.
THEOREM EngineUsesTheCatalog == EngineSpec => UsesCatalog
<1>1. TellingInv /\ [EngineNext]_engineVars => [CatalogNext]_<<mapVars, allocated>>
  <2> SUFFICES ASSUME TellingInv, [EngineNext]_engineVars PROVE [CatalogNext]_<<mapVars, allocated>>
    OBVIOUS
  <2>1. CASE EngineNext
    BY <2>1, EngineUsesCatalog DEF TellingInv
  <2>2. CASE UNCHANGED engineVars
    BY <2>2 DEF engineVars, catalogVars
  <2> QED
    BY <2>1, <2>2
<1>2. EngineInit => CatalogInit
  BY DEF EngineInit
<1> QED
  BY <1>1, <1>2, EngineKeepsInvariant, PTL DEF EngineSpec, UsesCatalog, CatalogSpec

\* UPDATE and DELETE change each row their condition chooses exactly once, from
\* what it was before the statement, although the scan of seq_scan_executor.c
\* reads the heap they write to, for any statements, schemas, rows and any
\* evaluator and planner.
THEOREM ChangesAreExact == EngineSpec => []ChangeExact
<1>1. TellingInv => ChangeExact
  <2> SUFFICES ASSUME TellingInv, run.op \in {"UPDATE", "DELETE"} PROVE ChangeTold
    BY ChangeParts
  <2>1. ChangeRuns
    BY RunKinds DEF TellingInv, EngineInv
  <2> QED
    BY <2>1 DEF TellingInv
<1> QED
  BY <1>1, EngineKeepsInvariant, PTL

\* INSERT adds each row of VALUES once, its values cast to the types of the
\* columns, whichever slots bpm_heap_insert finds for it, and the rows that
\* tuple_deserialize reads back are those that were given: for any schema of
\* columns, any width of integers and any expressions.
THEOREM InsertsAreExact == EngineSpec => []InsertExact
<1>1. TellingInv => InsertExact
  <2> SUFFICES ASSUME TellingInv, run.op = "INSERT"
               PROVE  LET now == Slots(run.root)
                          due(row) == Cardinality({k \in 1 .. run.row : GivenRow(k) = row})
                          rows == RowsIn(now, Columns) \cup RowsIn(run.before, Columns) \cup {GivenRow(k) : k \in 1 .. run.row}
                      IN /\ run.affected = run.row
                         /\ \A row \in rows :
                              Len(tuple_serialize(row, Columns)) <= RowRoom =>
                                Count(row, now, Columns) = Count(row, run.before, Columns) + due(row)
    BY DEF InsertExact
  <2>1. InsertRuns
    BY RunKinds DEF TellingInv, EngineInv
  <2>2. run.affected = run.row /\ InsertTold
    BY <2>1 DEF TellingInv, InsertRuns
  <2> QED
    BY <2>2 DEF InsertTold, Fits, Due
<1> QED
  BY <1>1, EngineKeepsInvariant, PTL

-----------------------------------------------------------------------------
(* Arithmetic and casts *)

\* Integers that are exact as doubles are added, subtracted and multiplied
\* without a rounding: value_add, value_sub, value_mul.
LEMMA ArithmeticIs ==
  ASSUME NEW m \in MinInt .. MaxInt, NEW n \in MinInt .. MaxInt, Exact(m), Exact(n)
  PROVE  /\ value_add(Integer(m), Integer(n)) = Integer(Wrapped(m + n))
         /\ value_sub(Integer(m), Integer(n)) = Integer(Wrapped(m - n))
         /\ value_mul(Integer(m), Integer(n)) = Integer(Wrapped(m * n))
<1>1. Rounded(Integer(m)) = m /\ Rounded(Integer(n)) = n
  BY ToDoubleIs DEF Rounded, Integer, Val
<1>2. Coercible(Integer(m), Integer(n)) /\ Integers(Integer(m), Integer(n))
  BY DEF Coercible, Integers, Numeric, Integer, Type
<1> QED
  BY <1>1, <1>2 DEF value_add, value_sub, value_mul

\* The text of an integer is read as the integer: value_cast_to there and back.
LEMMA TextOfInteger ==
  ASSUME NEW n \in MinInt .. MaxInt
  PROVE  TextToInteger(DecimalText(n)) = Integer(n)
<1> DEFINE a == Abs(n)
           digits == DigitsOf[a]
           s == DecimalText(n)
           o == IF n < 0 THEN 1 ELSE 0
           L == Len(digits)
<1>1. n \in Int /\ a \in Nat /\ (n < 0 => n = -a) /\ (~(n < 0) => n = a)
  BY WidthIs, AbsIs
<1>2. digits \in Seq(Digits) /\ digits # <<>>
  BY <1>1, TextsOfNumbers
<1>3. \A c \in Digits : c # Minus /\ c # Dot
  BY DEF Digits, Minus, Dot
<1>4. s = IF n < 0 THEN <<Minus>> \o digits ELSE digits
  BY DEF DecimalText, Signed
<1> HIDE DEF a, digits, s
<1>5. L \in Nat \ {0} /\ \A j \in 1 .. L : digits[j] \in Digits
  BY <1>2
<1>6. Digits \subseteq NumberChars /\ Minus \in NumberChars
  BY DEF NumberChars
<1>7. s \in Seq(NumberChars) /\ Len(s) = o + L /\ (\A j \in 1 .. L : s[o + j] = digits[j])
      /\ (n < 0 <=> s[1] = Minus) /\ s # <<>>
  <2>1. CASE n < 0
    <3>1. <<Minus>> \in Seq(NumberChars) /\ digits \in Seq(NumberChars)
      BY <1>2, <1>6
    <3>2. /\ s \in Seq(NumberChars) /\ Len(s) = Len(<<Minus>>) + Len(digits)
          /\ \A j \in 1 .. Len(<<Minus>>) : s[j] = <<Minus>>[j]
          /\ \A j \in 1 .. Len(digits) : s[Len(<<Minus>>) + j] = digits[j]
      BY <1>4, <2>1, <3>1, Joined
    <3>3. Len(<<Minus>>) = 1 /\ <<Minus>>[1] = Minus /\ 1 \in 1 .. 1
      OBVIOUS
    <3>4. Len(s) = 1 + L /\ s[1] = Minus /\ (\A j \in 1 .. L : s[1 + j] = digits[j])
      BY <3>2, <3>3
    <3>5. s # <<>>
      BY <1>5, <3>2, <3>4
    <3> QED
      BY <2>1, <3>2, <3>4, <3>5
  <2>2. CASE ~(n < 0)
    <3>1. s = digits /\ o = 0 /\ digits \in Seq(NumberChars)
      BY <1>2, <1>4, <1>6, <2>2
    <3>2. 1 \in 1 .. L /\ digits[1] # Minus
      BY <1>3, <1>5
    <3> QED
      BY <1>2, <1>5, <2>2, <3>1, <3>2
  <2> QED
    BY <2>1, <2>2
<1>8. Read(s, FALSE) = s
  <2> DEFINE start == IF s # <<>> /\ s[1] = Minus THEN 2 ELSE 1
  <2>1. start = o + 1
    BY <1>7
  <2>2. \A i \in start .. Len(s) : s[i] \in Digits
    <3> TAKE i \in start .. Len(s)
    <3> DEFINE j == i - o
    <3>1. j \in 1 .. L /\ i = o + j
      BY <1>5, <1>7, <2>1
    <3> HIDE DEF j, o
    <3> QED
      BY <1>5, <1>7, <3>1
  <2>3. start <= Len(s)
    BY <1>5, <1>7, <2>1
  <2>4. IsSlots(s)
    BY <1>7 DEF IsSlots
  <2> QED
    BY <2>2, <2>3, <2>4, ReadIs
<1>9. PICK f : /\ Parts(f, s)
               /\ NumberOf(s) = <<IF s # <<>> /\ s[1] = Minus THEN -f[Len(s)][1] ELSE f[Len(s)][1], f[Len(s)][2]>>
  BY <1>7, NumberIs
<1>10. o \in Nat /\ Len(s) \in Nat
  BY <1>5, <1>7
<1>11. AddsUp(f, digits, o)
  <2>1. f[o] = <<0, 1, FALSE>>
    <3>1. CASE n < 0
      <4>1. 1 \in 1 .. Len(s) /\ 1 - 1 = 0
        BY <1>5, <1>7, <3>1
      <4>2. f[1] = Reading(s, f[0], 1)
        BY <1>9, <4>1 DEF Parts
      <4>3. f[0] = <<0, 1, FALSE>> /\ s[1] = Minus
        BY <1>7, <1>9, <3>1 DEF Parts
      <4> QED
        BY <3>1, <4>2, <4>3 DEF Reading
    <3>2. CASE ~(n < 0)
      BY <1>9, <3>2 DEF Parts
    <3> QED
      BY <3>1, <3>2
  <2>2. ASSUME NEW j \in 1 .. L PROVE f[o + j] = More(f[o + j - 1], digits[j])
    <3> DEFINE i == o + j
    <3>1. i \in 1 .. Len(s) /\ s[i] = digits[j] /\ s[i] # Minus /\ s[i] # Dot
      BY <1>3, <1>5, <1>7, <1>10
    <3> HIDE DEF i
    <3>2. f[i] = Reading(s, f[i - 1], i)
      BY <1>9, <3>1 DEF Parts
    <3>3. f[i] = More(f[i - 1], digits[j])
      BY <3>1, <3>2 DEF Reading
    <3> QED
      BY <3>3 DEF i
  <2> QED
    BY <2>1, <2>2 DEF AddsUp
<1>12. f[o + L] = <<a, 1, FALSE>>
  BY <1>1, <1>10, <1>11, DigitsAddUp DEF digits
<1>13. NumberOf(s)[1] = n
  BY <1>1, <1>7, <1>9, <1>12
<1>14. Saturated(n) = n
  BY <1>1, WidthIs DEF Saturated
<1> QED
  BY <1>8, <1>13, <1>14 DEF TextToInteger, s

\* value_add, value_sub and value_mul are exact on integers that doubles hold,
\* and value_cast_to takes back what it has cast, for any width of integers
\* and doubles and any values.
THEOREM ValuesAreExact == ValuesSpec => []ValuesExact
<1> DEFINE Given == values = <<>> \/ values \in Samples \X Samples \X Samples
<1>1. ValuesInit => Given
  BY DEF ValuesInit
<1>2. Given /\ [Hand]_values => Given'
  BY DEF Hand
<1>3. Given => ValuesExact
  <2> SUFFICES ASSUME values \in Samples \X Samples \X Samples, values # <<>>
               PROVE  IntegersAddExactly /\ CastsBack
    BY DEF ValuesExact, IntegersAddExactly, CastsBack
  <2> DEFINE u == values[1]
             v == values[2]
  <2>1. u \in AllValues /\ v \in AllValues
    BY SamplesAssumption
  <2> HIDE DEF u, v
  <2>2. IntegersAddExactly
    <3> SUFFICES ASSUME Type(u) = "INTEGER", Type(v) = "INTEGER", Exact(Val(u)), Exact(Val(v))
                 PROVE  /\ value_add(u, v) = Integer(Wrapped(Val(u) + Val(v)))
                        /\ value_sub(u, v) = Integer(Wrapped(Val(u) - Val(v)))
                        /\ value_mul(u, v) = Integer(Wrapped(Val(u) * Val(v)))
      BY DEF IntegersAddExactly, u, v
    <3>1. /\ Val(u) \in MinInt .. MaxInt /\ u = Integer(Val(u))
          /\ Val(v) \in MinInt .. MaxInt /\ v = Integer(Val(v))
      BY <2>1, AllValuesAre
    <3> QED
      BY <3>1, ArithmeticIs
  <2>3. Type(u) = "INTEGER" => value_cast_to(value_cast_to(u, "VARCHAR"), "INTEGER") = u
    <3> SUFFICES ASSUME Type(u) = "INTEGER"
                 PROVE  value_cast_to(value_cast_to(u, "VARCHAR"), "INTEGER") = u
      OBVIOUS
    <3>1. Val(u) \in MinInt .. MaxInt /\ u = Integer(Val(u))
      BY <2>1, AllValuesAre
    <3> DEFINE t == Varchar(DecimalText(Val(u)))
    <3>2. value_cast_to(u, "VARCHAR") = t
      BY DEF value_cast_to
    <3>3. Type(t) = "VARCHAR" /\ Val(t) = DecimalText(Val(u))
      BY DEF Type, Val, Varchar
    <3> HIDE DEF t
    <3>4. value_cast_to(t, "INTEGER") = TextToInteger(Val(t))
      BY <3>3 DEF value_cast_to
    <3> QED
      BY <3>1, <3>2, <3>3, <3>4, TextOfInteger
  <2>4. Type(u) = "INTEGER" /\ Exact(Val(u)) => value_cast_to(value_cast_to(u, "FLOAT"), "INTEGER") = u
    <3> SUFFICES ASSUME Type(u) = "INTEGER", Exact(Val(u))
                 PROVE  value_cast_to(value_cast_to(u, "FLOAT"), "INTEGER") = u
      OBVIOUS
    <3>1. Val(u) \in MinInt .. MaxInt /\ u = Integer(Val(u)) /\ Val(u) \in Int
      BY <2>1, AllValuesAre, WidthIs
    <3> DEFINE t == Float(ToDouble(Val(u)), 1)
    <3>2. value_cast_to(u, "FLOAT") = t
      BY DEF value_cast_to
    <3>3. Type(t) = "FLOAT" /\ Val(t)[1] = Val(u) /\ Val(t)[2] = 1
      BY <3>1, ToDoubleIs DEF Type, Val, Float
    <3> HIDE DEF t
    <3>4. value_cast_to(t, "INTEGER") = Integer(Converted(Quot(Val(u), 1)))
      BY <3>3 DEF value_cast_to
    <3>5. Quot(Val(u), 1) = Val(u)
      BY <3>1, QuotientIs
    <3>6. Converted(Val(u)) = Val(u)
      BY <3>1 DEF Converted
    <3> QED
      BY <3>1, <3>2, <3>4, <3>5, <3>6
  <2>5. Type(u) = "BOOLEAN" => value_cast_to(value_cast_to(u, "INTEGER"), "BOOLEAN") = u
    <3> SUFFICES ASSUME Type(u) = "BOOLEAN"
                 PROVE  value_cast_to(value_cast_to(u, "INTEGER"), "BOOLEAN") = u
      OBVIOUS
    <3>1. Val(u) \in BOOLEAN /\ u = Boolean(Val(u))
      BY <2>1, AllValuesAre
    <3> DEFINE t == Integer(IF Val(u) THEN 1 ELSE 0)
    <3>2. value_cast_to(u, "INTEGER") = t
      BY DEF value_cast_to
    <3>3. Type(t) = "INTEGER" /\ (Val(t) # 0 <=> Val(u))
      BY DEF Type, Val, Integer
    <3> HIDE DEF t
    <3>4. value_cast_to(t, "BOOLEAN") = Boolean(Val(t) # 0)
      BY <3>3 DEF value_cast_to
    <3>5. (Val(t) # 0) = Val(u)
      BY <3>1, <3>3
    <3> QED
      BY <3>1, <3>2, <3>4, <3>5
  <2>6. CastsBack
    BY <2>3, <2>4, <2>5 DEF CastsBack, u
  <2> QED
    BY <2>2, <2>6
<1> QED
  BY <1>1, <1>2, <1>3, PTL DEF ValuesSpec

-----------------------------------------------------------------------------
(* value_compare *)

Cmp(x, y) == Sign(value_compare(x, y))

\* What an order asks of three values.
InOrder(u, v, w) ==
  /\ Cmp(u, v) = -Cmp(v, u)
  /\ Cmp(u, v) <= 0 /\ Cmp(v, w) <= 0 => Cmp(u, w) <= 0
  /\ Cmp(u, v) = 0 /\ Cmp(v, w) <= 0 => Cmp(u, w) = Cmp(v, w)

\* The sign of a product with a positive factor.
LEMMA SignScaled ==
  ASSUME NEW c \in Nat \ {0}, NEW x \in Int
  PROVE  Sign(c * x) = Sign(x)
<1>1. c * x \in Int
  OBVIOUS
<1>2. CASE x = 0
  BY <1>2
<1>3. CASE x > 0
  <2>1. c * x > 0
    BY <1>3
  <2> QED
    BY <1>1, <1>3, <2>1, AbsIs
<1>4. CASE x < 0
  <2>1. c * (-x) > 0 /\ c * x = -(c * (-x))
    BY <1>4
  <2> QED
    BY <1>1, <1>4, <2>1, AbsIs
<1> QED
  BY <1>2, <1>3, <1>4

\* Fractions are compared by cross-multiplication.
Fraction == Int \X (Nat \ {0})

\* Cross-multiplication is an order of fractions.
LEMMA FractionsInOrder ==
  ASSUME NEW p \in Fraction, NEW q \in Fraction, NEW r \in Fraction
  PROVE  LET c(x, y) == Sign(CompareDoubles(x, y))
         IN /\ c(p, q) = -c(q, p)
            /\ c(p, q) <= 0 /\ c(q, r) <= 0 => c(p, r) <= 0
            /\ c(p, q) = 0 /\ c(q, r) <= 0 => c(p, r) = c(q, r)
<1> DEFINE X == p[1] * q[2] - q[1] * p[2]
           Y == q[1] * r[2] - r[1] * q[2]
           Z == p[1] * r[2] - r[1] * p[2]
           W == q[1] * p[2] - p[1] * q[2]
           a == p[2]
           b == q[2]
           c == r[2]
<1>1. /\ p[1] \in Int /\ q[1] \in Int /\ r[1] \in Int
      /\ a \in Nat \ {0} /\ b \in Nat \ {0} /\ c \in Nat \ {0}
  BY DEF Fraction
<1>2. X \in Int /\ Y \in Int /\ Z \in Int /\ W \in Int
  BY <1>1
<1>3. W = -X
  <2> DEFINE s == p[1] * q[2]
             t == q[1] * p[2]
  <2>1. s \in Int /\ t \in Int
    BY <1>1
  <2> HIDE DEF s, t
  <2> QED
    BY <2>1 DEF s, t
<1>4. b * Z = c * X + a * Y
  <2> DEFINE p1 == p[1]
             q1 == q[1]
             r1 == r[1]
  <2>1. p1 \in Int /\ q1 \in Int /\ r1 \in Int
    BY <1>1
  <2> HIDE DEF p1, q1, r1, a, b, c
  <2>2. b * (p1 * c - r1 * a) = c * (p1 * b - q1 * a) + a * (q1 * c - r1 * b)
    BY <1>1, <2>1
  <2> QED
    BY <2>2 DEF p1, q1, r1, a, b, c
<1>5. /\ Sign(CompareDoubles(p, q)) = Sign(Sign(X)) /\ Sign(CompareDoubles(q, p)) = Sign(Sign(W))
      /\ Sign(CompareDoubles(q, r)) = Sign(Sign(Y)) /\ Sign(CompareDoubles(p, r)) = Sign(Sign(Z))
  BY DEF CompareDoubles
<1> HIDE DEF X, Y, Z, W, a, b, c
<1>6. \A n \in Int : Sign(Sign(n)) = Sign(n)
  BY DEF Sign
<1>7. Sign(X) = -Sign(W)
  BY <1>2, <1>3 DEF Sign
<1>8. Sign(Z) = Sign(c * X + a * Y)
  BY <1>1, <1>2, <1>4, SignScaled
<1>9. c * X \in Int /\ a * Y \in Int /\ Sign(c * X) = Sign(X) /\ Sign(a * Y) = Sign(Y)
  <2>1. c * X \in Int /\ a * Y \in Int
    BY <1>1, <1>2
  <2>2. Sign(c * X) = Sign(X)
    BY <1>1, <1>2, SignScaled
  <2>3. Sign(a * Y) = Sign(Y)
    BY <1>1, <1>2, SignScaled
  <2> QED
    BY <2>1, <2>2, <2>3
<1>10. Sign(X) <= 0 /\ Sign(Y) <= 0 => Sign(Z) <= 0
  <2> DEFINE s == c * X
             t == a * Y
  <2>1. s \in Int /\ t \in Int /\ Sign(s) = Sign(X) /\ Sign(t) = Sign(Y) /\ Sign(Z) = Sign(s + t)
    BY <1>8, <1>9
  <2> HIDE DEF s, t
  <2>2. Sign(s) <= 0 /\ Sign(t) <= 0 => Sign(s + t) <= 0
    BY <2>1 DEF Sign
  <2> QED
    BY <2>1, <2>2
<1>11. Sign(X) = 0 => Sign(Z) = Sign(Y)
  <2> DEFINE s == c * X
             t == a * Y
  <2>1. s \in Int /\ t \in Int /\ Sign(s) = Sign(X) /\ Sign(t) = Sign(Y) /\ Sign(Z) = Sign(s + t)
    BY <1>8, <1>9
  <2> HIDE DEF s, t
  <2>2. Sign(s) = 0 => s = 0
    BY <2>1 DEF Sign
  <2>3. s = 0 => s + t = t
    BY <2>1
  <2> QED
    BY <2>1, <2>2, <2>3
<1> QED
  BY <1>2, <1>5, <1>6, <1>7, <1>10, <1>11

\* A number as a fraction, when it is exact.
AsNumber(x) == IF Type(x) = "INTEGER" THEN <<Val(x), 1>> ELSE Val(x)

\* value_compare of two numbers compares them as fractions.
LEMMA NumbersCompared ==
  ASSUME NEW u \in AllValues, NEW v \in AllValues, Numeric(u), Numeric(v), Ordered(u, v)
  PROVE  AsNumber(u) \in Fraction /\ Cmp(u, v) = Sign(CompareDoubles(AsNumber(u), AsNumber(v)))
<1>1. \A x \in {u, v} : /\ Type(x) \in {"INTEGER", "FLOAT"}
                        /\ Type(x) = "INTEGER" => Val(x) \in MinInt .. MaxInt /\ Val(x) \in Int
                        /\ Type(x) = "FLOAT" => Val(x) \in Fraction
  <2>1. ASSUME NEW x \in {u, v}
        PROVE  /\ Type(x) \in {"INTEGER", "FLOAT"}
               /\ Type(x) = "INTEGER" => Val(x) \in MinInt .. MaxInt /\ Val(x) \in Int
               /\ Type(x) = "FLOAT" => Val(x) \in Fraction
    <3>1. x \in AllValues /\ Type(x) \in {"INTEGER", "FLOAT"}
      BY DEF Numeric
    <3>2. Type(x) = "INTEGER" => Val(x) \in MinInt .. MaxInt /\ Val(x) \in Int
      BY <3>1, AllValuesAre, WidthIs
    <3>3. Type(x) = "FLOAT" => Val(x) \in Fraction
      <4> SUFFICES ASSUME Type(x) = "FLOAT" PROVE Val(x) \in Fraction
        OBVIOUS
      <4>1. Val(x)[1] \in Int /\ Val(x)[2] \in Nat \ {0} /\ x = Float(Val(x)[1], Val(x)[2])
        BY <3>1, AllValuesAre
      <4>2. Val(x) = <<Val(x)[1], Val(x)[2]>>
        BY <4>1 DEF Float, Val
      <4> QED
        BY <4>1, <4>2 DEF Fraction
    <3> QED
      BY <3>1, <3>2, <3>3
  <2> QED
    BY <2>1
<1>2. AsNumber(u) \in Fraction
  <2>1. \A n \in Int : <<n, 1>> \in Fraction
    BY DEF Fraction
  <2> QED
    BY <1>1, <2>1 DEF AsNumber
<1>3. CASE Type(u) = "INTEGER" /\ Type(v) = "INTEGER"
  <2>1. value_compare(u, v) = Sign(Val(u) - Val(v))
    BY <1>3 DEF value_compare
  <2>2. CompareDoubles(AsNumber(u), AsNumber(v)) = Sign(Val(u) * 1 - Val(v) * 1)
    BY <1>3 DEF CompareDoubles, AsNumber
  <2>3. Val(u) * 1 - Val(v) * 1 = Val(u) - Val(v)
    BY <1>1, <1>3
  <2> QED
    BY <1>2, <2>1, <2>2, <2>3 DEF Cmp
<1>4. CASE "FLOAT" \in {Type(u), Type(v)}
  <2>1. value_compare(u, v) = CompareDoubles(AsDouble(u), AsDouble(v))
    BY <1>1, <1>4 DEF value_compare, Numeric
  <2>2. \A x \in {u, v} : Type(x) = "INTEGER" => ToDouble(Val(x)) = Val(x)
    <3>1. ASSUME NEW x \in {u, v}, Type(x) = "INTEGER" PROVE ToDouble(Val(x)) = Val(x)
      <4>1. Exact(Val(x))
        BY <1>4, <3>1 DEF Ordered
      <4> QED
        BY <1>1, <3>1, <4>1, ToDoubleIs
    <3> QED
      BY <3>1
  <2>3. AsDouble(u) = AsNumber(u) /\ AsDouble(v) = AsNumber(v)
    BY <2>2 DEF AsDouble, AsNumber
  <2> QED
    BY <1>2, <2>1, <2>3 DEF Cmp
<1> QED
  BY <1>1, <1>3, <1>4

\* Numbers are in order.
LEMMA NumbersInOrder ==
  ASSUME NEW u \in AllValues, NEW v \in AllValues, NEW w \in AllValues,
         Numeric(u), Numeric(v), Numeric(w), Ordered(u, v), Ordered(v, w), Ordered(u, w)
  PROVE  InOrder(u, v, w)
<1>1. Ordered(v, u)
  BY DEF Ordered, Comparable
<1>2. Ordered(w, v)
  BY DEF Ordered, Comparable
<1>3. AsNumber(u) \in Fraction /\ AsNumber(v) \in Fraction /\ AsNumber(w) \in Fraction
  BY <1>2, NumbersCompared
<1>4. /\ Cmp(u, v) = Sign(CompareDoubles(AsNumber(u), AsNumber(v)))
      /\ Cmp(v, u) = Sign(CompareDoubles(AsNumber(v), AsNumber(u)))
      /\ Cmp(v, w) = Sign(CompareDoubles(AsNumber(v), AsNumber(w)))
      /\ Cmp(u, w) = Sign(CompareDoubles(AsNumber(u), AsNumber(w)))
  BY <1>1, NumbersCompared
<1> QED
  BY <1>3, <1>4, FractionsInOrder DEF InOrder

\* The characters strcmp compares, and the first that differs.
At(s, i) == IF i <= Len(s) THEN s[i] ELSE 0
Differ(s, t, d) == d \in Nat \ {0} /\ At(s, d) # At(t, d) /\ \A i \in 1 .. d - 1 : At(s, i) = At(t, i)

\* No character of a text is 0, which ends it.
EndsWith0(s) ==
  /\ Len(s) \in Nat
  /\ \A i \in Nat \ {0} : /\ At(s, i) \in Nat
                          /\ At(s, i) = 0 <=> i > Len(s)
                          /\ i <= Len(s) => At(s, i) = s[i]

\* strcmp reads the end of a text as 0, and nothing else.
LEMMA CharactersAre ==
  ASSUME NEW s \in Seq(Characters)
  PROVE  EndsWith0(s)
<1>1. Len(s) \in Nat /\ \A i \in 1 .. Len(s) : s[i] \in Characters
  OBVIOUS
<1>2. \A c \in Characters : c \in Nat \ {0}
  BY DEF Characters
<1>3. \A i \in Nat \ {0} : i <= Len(s) => i \in 1 .. Len(s)
  BY <1>1
<1>4. ASSUME NEW i \in Nat \ {0}
      PROVE  At(s, i) \in Nat /\ (At(s, i) = 0 <=> i > Len(s)) /\ (i <= Len(s) => At(s, i) = s[i])
  <2>1. CASE i <= Len(s)
    BY <1>1, <1>2, <1>3, <2>1 DEF At
  <2>2. CASE ~(i <= Len(s))
    BY <1>1, <2>2 DEF At
  <2> QED
    BY <2>1, <2>2
<1> QED
  BY <1>1, <1>4 DEF EndsWith0

\* strcmp is the difference of the first characters that differ.
LEMMA FirstDiffers ==
  ASSUME NEW s \in Seq(Characters), NEW t \in Seq(Characters)
  PROVE  \/ s = t /\ strcmp(s, t) = 0
         \/ \E d : Differ(s, t, d) /\ strcmp(s, t) = At(s, d) - At(t, d)
<1> DEFINE D == {i \in 1 .. Len(s) + 1 : At(s, i) # At(t, i)}
           d == CHOOSE k \in D : \A j \in D : k <= j
<1>1. strcmp(s, t) = IF D = {} THEN 0 ELSE At(s, d) - At(t, d)
  BY DEF strcmp, At
<1>2. Len(s) \in Nat /\ Len(t) \in Nat
  BY CharactersAre DEF EndsWith0
<1>3. CASE D = {}
  <2>1. \A i \in 1 .. Len(s) + 1 : At(s, i) = At(t, i)
    BY <1>3
  <2> HIDE DEF D
  <2>2. At(s, Len(s) + 1) = 0 /\ At(t, Len(t) + 1) = 0
    <3>1. Len(s) + 1 \in Nat \ {0} /\ Len(s) + 1 > Len(s) /\ Len(t) + 1 \in Nat \ {0} /\ Len(t) + 1 > Len(t)
      BY <1>2
    <3> QED
      BY <3>1, CharactersAre DEF EndsWith0
  <2>3. Len(t) <= Len(s)
    <3>1. Len(s) + 1 \in 1 .. Len(s) + 1 /\ Len(s) + 1 \in Nat \ {0}
      BY <1>2
    <3>2. Len(s) + 1 > Len(t)
      BY <2>1, <2>2, <3>1, CharactersAre DEF EndsWith0
    <3> QED
      BY <1>2, <3>2
  <2>4. Len(s) <= Len(t)
    <3> SUFFICES ASSUME Len(t) < Len(s) PROVE FALSE
      BY <1>2
    <3>1. Len(t) + 1 \in 1 .. Len(s) + 1 /\ Len(t) + 1 \in Nat \ {0} /\ ~(Len(t) + 1 > Len(s))
      BY <1>2
    <3> QED
      BY <2>1, <2>2, <3>1, CharactersAre DEF EndsWith0
  <2>5. ASSUME NEW i \in 1 .. Len(s) PROVE s[i] = t[i]
    <3>1. i \in 1 .. Len(s) + 1 /\ i \in Nat \ {0} /\ i <= Len(s) /\ i <= Len(t)
      BY <1>2, <2>3, <2>4
    <3> QED
      BY <2>1, <3>1, CharactersAre DEF EndsWith0
  <2>6. s = t
    BY <1>2, <2>3, <2>4, <2>5
  <2> QED
    BY <1>1, <1>3, <2>6
<1>4. CASE D # {}
  <2>1. D \subseteq Nat
    BY <1>2
  <2>2. d \in D /\ \A j \in D : d <= j
    <3> HIDE DEF D
    <3>1. \E k \in D : \A j \in D : k <= j
      BY <1>4, <2>1, LeastNatural
    <3> QED
      BY <3>1
  <2>3. d \in 1 .. Len(s) + 1 /\ At(s, d) # At(t, d)
    BY <2>2
  <2>4. strcmp(s, t) = At(s, d) - At(t, d)
    BY <1>1, <1>4
  <2> HIDE DEF d
  <2>5. ASSUME NEW i \in 1 .. d - 1 PROVE At(s, i) = At(t, i)
    <3>1. i \in 1 .. Len(s) + 1 /\ ~(d <= i)
      BY <1>2, <2>3
    <3> QED
      BY <2>2, <3>1
  <2>6. Differ(s, t, d)
    BY <1>2, <2>3, <2>5 DEF Differ
  <2> QED
    BY <2>4, <2>6
<1> QED
  BY <1>3, <1>4

\* The first difference tells which of two texts is less.
Less0(s, t, d) == Differ(s, t, d) /\ At(s, d) < At(t, d)

\* strcmp is 0 for equal texts only, and antisymmetric.
LEMMA TextsCompared ==
  ASSUME NEW s \in Seq(Characters), NEW t \in Seq(Characters)
  PROVE  /\ Sign(strcmp(s, t)) \in Int
         /\ Sign(strcmp(s, t)) = 0 <=> s = t
         /\ Sign(strcmp(s, t)) < 0 => \E d : Less0(s, t, d)
         /\ \A d : Less0(s, t, d) => Sign(strcmp(s, t)) < 0
         /\ Sign(strcmp(s, t)) = -Sign(strcmp(t, s))
<1>1. ASSUME NEW d, NEW e, Differ(s, t, d), Differ(s, t, e) \/ Differ(t, s, e) PROVE d = e
  <2>1. d \in Nat \ {0} /\ e \in Nat \ {0} /\ At(s, e) # At(t, e) /\ At(s, d) # At(t, d)
        /\ (\A i \in 1 .. d - 1 : At(s, i) = At(t, i)) /\ (\A i \in 1 .. e - 1 : At(s, i) = At(t, i))
    BY <1>1 DEF Differ
  <2>2. ~(d < e)
    <3>1. d < e => d \in 1 .. e - 1
      BY <2>1
    <3> QED
      BY <2>1, <3>1
  <2>3. ~(e < d)
    <3>1. e < d => e \in 1 .. d - 1
      BY <2>1
    <3> QED
      BY <2>1, <3>1
  <2> QED
    BY <2>1, <2>2, <2>3
<1>2. \A d : Differ(s, t, d) => At(s, d) \in Nat /\ At(t, d) \in Nat /\ At(s, d) # At(t, d) /\ s # t
  BY CharactersAre DEF EndsWith0, Differ
<1>3. \A d : Differ(t, s, d) => Differ(s, t, d)
  BY DEF Differ
<1>4. CASE s = t
  <2>1. \A d : ~Differ(s, t, d) /\ ~Differ(t, s, d)
    BY <1>4 DEF Differ
  <2>2. strcmp(s, t) = 0 /\ strcmp(t, s) = 0
    BY <2>1, FirstDiffers
  <2> DEFINE x == Sign(strcmp(s, t))
             y == Sign(strcmp(t, s))
  <2>3. x = 0 /\ y = 0
    BY <2>2 DEF Sign
  <2> HIDE DEF x, y
  <2>4. x \in Int /\ x = -y /\ ~(x < 0)
    <3>1. x \in Int /\ y \in Int
      BY <2>3
    <3>2. x = -y
      <4>1. x + y = 0
        BY <2>3
      <4> QED
        BY <3>1, <4>1
    <3>3. ~(x < 0)
      BY <2>3, <3>1
    <3> QED
      BY <3>1, <3>2, <3>3
  <2> QED
    BY <1>4, <2>1, <2>3, <2>4 DEF Less0, x, y
<1>5. CASE s # t
  <2>1. PICK d : Differ(s, t, d) /\ strcmp(s, t) = At(s, d) - At(t, d)
    BY <1>5, FirstDiffers
  <2>2. PICK e : Differ(t, s, e) /\ strcmp(t, s) = At(t, e) - At(s, e)
    BY <1>5, FirstDiffers
  <2>3. d = e
    BY <1>1, <2>1, <2>2
  <2> DEFINE a == At(s, d)
             b == At(t, d)
  <2>4. a \in Nat /\ b \in Nat /\ a # b /\ strcmp(s, t) = a - b /\ strcmp(t, s) = b - a
    BY <1>2, <2>1, <2>2, <2>3
  <2>5. ASSUME NEW k, Less0(s, t, k) PROVE a < b
    BY <1>1, <2>1, <2>5 DEF Less0
  <2>6. a < b => Less0(s, t, d)
    BY <2>1 DEF Less0
  <2> HIDE DEF a, b
  <2>7. /\ Sign(a - b) \in Int /\ Sign(a - b) # 0 /\ Sign(a - b) = -Sign(b - a)
        /\ Sign(a - b) < 0 <=> a < b
    BY <2>4 DEF Sign
  <2> QED
    BY <1>5, <2>4, <2>5, <2>6, <2>7
<1> QED
  BY <1>4, <1>5

\* strcmp is transitive.
LEMMA TextsInOrder ==
  ASSUME NEW s \in Seq(Characters), NEW t \in Seq(Characters), NEW u \in Seq(Characters)
  PROVE  Sign(strcmp(s, t)) < 0 /\ Sign(strcmp(t, u)) < 0 => Sign(strcmp(s, u)) < 0
<1> SUFFICES ASSUME Sign(strcmp(s, t)) < 0, Sign(strcmp(t, u)) < 0 PROVE Sign(strcmp(s, u)) < 0
  OBVIOUS
<1>1. PICK d : Less0(s, t, d)
  BY TextsCompared
<1>2. PICK e : Less0(t, u, e)
  BY TextsCompared
<1>3. d \in Nat \ {0} /\ e \in Nat \ {0} /\ At(s, d) < At(t, d) /\ At(t, e) < At(u, e)
      /\ (\A i \in 1 .. d - 1 : At(s, i) = At(t, i)) /\ (\A i \in 1 .. e - 1 : At(t, i) = At(u, i))
  BY <1>1, <1>2 DEF Less0, Differ
<1>4. \A i \in Nat \ {0} : At(s, i) \in Nat /\ At(t, i) \in Nat /\ At(u, i) \in Nat
  BY CharactersAre DEF EndsWith0
<1>5. ASSUME NEW m \in Nat \ {0}, m <= d, m <= e, At(s, m) < At(u, m) PROVE Less0(s, u, m)
  <2>1. \A i \in 1 .. m - 1 : i \in 1 .. d - 1 /\ i \in 1 .. e - 1
    BY <1>3, <1>5
  <2>2. \A i \in 1 .. m - 1 : At(s, i) = At(u, i)
    BY <1>3, <2>1
  <2>3. At(s, m) # At(u, m)
    BY <1>4, <1>5
  <2> QED
    BY <1>5, <2>2, <2>3 DEF Less0, Differ
<1>6. CASE d < e
  <2>1. d \in 1 .. e - 1
    BY <1>3, <1>6
  <2>2. At(s, d) < At(u, d) /\ d <= d /\ d <= e
    BY <1>3, <1>6, <2>1
  <2> QED
    BY <1>3, <1>5, <2>2, TextsCompared
<1>7. CASE e < d
  <2>1. e \in 1 .. d - 1
    BY <1>3, <1>7
  <2>2. At(s, e) < At(u, e) /\ e <= d /\ e <= e
    BY <1>3, <1>7, <2>1
  <2> QED
    BY <1>3, <1>5, <2>2, TextsCompared
<1>8. CASE d = e
  <2>1. At(s, d) < At(u, d) /\ d <= d /\ d <= e
    BY <1>3, <1>4, <1>8
  <2> QED
    BY <1>3, <1>5, <2>1, TextsCompared
<1> QED
  BY <1>3, <1>6, <1>7, <1>8

\* Texts are in order.
LEMMA StringsInOrder ==
  ASSUME NEW u \in AllValues, NEW v \in AllValues, NEW w \in AllValues,
         Type(u) = "VARCHAR", Type(v) = "VARCHAR", Type(w) = "VARCHAR"
  PROVE  InOrder(u, v, w)
<1>1. Val(u) \in Seq(Characters) /\ Val(v) \in Seq(Characters) /\ Val(w) \in Seq(Characters)
  BY AllValuesAre
<1> DEFINE c(x, y) == Sign(strcmp(Val(x), Val(y)))
<1>2. Cmp(u, v) = c(u, v) /\ Cmp(v, u) = c(v, u) /\ Cmp(v, w) = c(v, w) /\ Cmp(u, w) = c(u, w)
  BY DEF Cmp, value_compare
<1>3. c(u, v) \in Int /\ c(v, w) \in Int /\ c(u, w) \in Int /\ c(u, v) = -c(v, u)
      /\ (c(u, v) = 0 <=> Val(u) = Val(v)) /\ (c(v, w) = 0 <=> Val(v) = Val(w))
      /\ (c(u, v) < 0 /\ c(v, w) < 0 => c(u, w) < 0)
  BY <1>1, TextsCompared, TextsInOrder
<1>4. /\ Val(u) = Val(v) => c(u, w) = c(v, w)
      /\ Val(v) = Val(w) => c(u, w) = c(u, v)
  OBVIOUS
<1> HIDE DEF c
<1> QED
  BY <1>2, <1>3, <1>4 DEF InOrder

\* Booleans are in order, FALSE before TRUE.
LEMMA BooleansInOrder ==
  ASSUME NEW u \in AllValues, NEW v \in AllValues, NEW w \in AllValues,
         Type(u) = "BOOLEAN", Type(v) = "BOOLEAN", Type(w) = "BOOLEAN"
  PROVE  InOrder(u, v, w)
<1> DEFINE n(x) == IF Val(x) THEN 1 ELSE 0
<1>1. Val(u) \in BOOLEAN /\ Val(v) \in BOOLEAN /\ Val(w) \in BOOLEAN
  BY AllValuesAre
<1>2. ASSUME NEW x \in {u, v, w}, NEW y \in {u, v, w} PROVE Cmp(x, y) = n(x) - n(y)
  <2>1. Type(x) = "BOOLEAN" /\ Type(y) = "BOOLEAN" /\ Val(x) \in BOOLEAN /\ Val(y) \in BOOLEAN
    BY <1>1
  <2>2. value_compare(x, y) = IF Val(x) = Val(y) THEN 0 ELSE IF Val(x) THEN 1 ELSE -1
    BY <2>1 DEF value_compare
  <2>3. CASE Val(x) /\ Val(y)
    BY <2>2, <2>3 DEF Cmp, Sign
  <2>4. CASE Val(x) /\ ~Val(y)
    <3>1. value_compare(x, y) = 1
      BY <2>2, <2>4
    <3> QED
      BY <2>4, <3>1 DEF Cmp, Sign
  <2>5. CASE ~Val(x) /\ Val(y)
    <3>1. value_compare(x, y) = -1
      BY <2>2, <2>5
    <3> QED
      BY <2>5, <3>1 DEF Cmp, Sign
  <2>6. CASE ~Val(x) /\ ~Val(y)
    <3>1. Val(x) = Val(y)
      BY <2>1, <2>6
    <3> QED
      BY <2>2, <2>6, <3>1 DEF Cmp, Sign
  <2> QED
    BY <2>3, <2>4, <2>5, <2>6
<1>3. n(u) \in Int /\ n(v) \in Int /\ n(w) \in Int
  OBVIOUS
<1>4. Cmp(u, v) = n(u) - n(v) /\ Cmp(v, u) = n(v) - n(u) /\ Cmp(v, w) = n(v) - n(w) /\ Cmp(u, w) = n(u) - n(w)
  BY <1>2
<1> HIDE DEF n
<1> QED
  BY <1>3, <1>4 DEF InOrder

\* Values other than NULL of types that go together: all of one type, or numbers.
LEMMA KindsInOrder ==
  ASSUME NEW u \in AllValues, NEW v \in AllValues, NEW w \in AllValues,
         Type(u) # "NULL", Type(v) # "NULL", Type(w) # "NULL",
         Ordered(u, v), Ordered(v, w), Ordered(u, w)
  PROVE  InOrder(u, v, w)
<1>1. \A x \in AllValues : Type(x) \in {"INTEGER", "FLOAT", "VARCHAR", "BOOLEAN", "NULL"}
                          /\ (x = Null => Type(x) = "NULL")
  BY AllValuesAre DEF Type, Null
<1>2. /\ Type(u) = Type(v) \/ (Numeric(u) /\ Numeric(v))
      /\ Type(v) = Type(w) \/ (Numeric(v) /\ Numeric(w))
  BY <1>1 DEF Ordered, Comparable
<1>3. CASE Numeric(v)
  <2>1. Numeric(u) /\ Numeric(w)
    BY <1>2, <1>3 DEF Numeric
  <2> QED
    BY <1>3, <2>1, NumbersInOrder
<1>4. CASE ~Numeric(v)
  <2>1. Type(u) = Type(v) /\ Type(w) = Type(v) /\ Type(v) \in {"VARCHAR", "BOOLEAN"}
    BY <1>1, <1>2, <1>4 DEF Numeric
  <2> QED
    BY <2>1, StringsInOrder, BooleansInOrder
<1> QED
  BY <1>3, <1>4

\* NULL comes before every other value.
LEMMA NullIsLeast ==
  ASSUME NEW x, NEW y
  PROVE  /\ Type(x) = "NULL" /\ Type(y) = "NULL" => Cmp(x, y) = 0
         /\ Type(x) = "NULL" /\ Type(y) # "NULL" => Cmp(x, y) = -1
         /\ Type(x) # "NULL" /\ Type(y) = "NULL" => Cmp(x, y) = 1
<1>1. /\ Type(x) = "NULL" /\ Type(y) = "NULL" => value_compare(x, y) = 0
      /\ Type(x) = "NULL" /\ Type(y) # "NULL" => value_compare(x, y) = -1
      /\ Type(x) # "NULL" /\ Type(y) = "NULL" => value_compare(x, y) = 1
  BY DEF value_compare, Numeric
<1>2. Sign(0) = 0 /\ Sign(-1) = -1 /\ Sign(1) = 1
  BY DEF Sign
<1> QED
  BY <1>1, <1>2 DEF Cmp

\* Values of types that go together are in order.
LEMMA ValuesInOrder ==
  ASSUME NEW u \in AllValues, NEW v \in AllValues, NEW w \in AllValues,
         Ordered(u, v), Ordered(v, w), Ordered(u, w)
  PROVE  InOrder(u, v, w)
<1> DEFINE a == Cmp(u, v)
           b == Cmp(v, u)
           c == Cmp(v, w)
           d == Cmp(u, w)
           U == Type(u) = "NULL"
           V == Type(v) = "NULL"
           W == Type(w) = "NULL"
<1>1. CASE ~U /\ ~V /\ ~W
  BY <1>1, KindsInOrder
<1>2. CASE U \/ V \/ W
  <2>1. /\ U /\ V => a = 0 /\ b = 0
        /\ U /\ ~V => a = -1 /\ b = 1
        /\ ~U /\ V => a = 1 /\ b = -1
    BY NullIsLeast
  <2>2. /\ V /\ W => c = 0
        /\ V /\ ~W => c = -1
        /\ ~V /\ W => c = 1
        /\ U /\ W => d = 0
        /\ U /\ ~W => d = -1
        /\ ~U /\ W => d = 1
    BY NullIsLeast
  <2>3. ~U /\ ~V => a = -b
    <3> SUFFICES ASSUME ~U, ~V PROVE a = -b
      OBVIOUS
    <3>1. Ordered(v, v)
      BY DEF Ordered, Comparable
    <3> QED
      BY <3>1, KindsInOrder DEF InOrder
  <2> HIDE DEF a, b, c, d, U, V, W
  <2>4. /\ a = -b
        /\ a <= 0 /\ c <= 0 => d <= 0
        /\ a = 0 /\ c <= 0 => d = c
    BY <1>2, <2>1, <2>2, <2>3
  <2> QED
    BY <2>4 DEF InOrder, a, b, c, d
<1> QED
  BY <1>1, <1>2

\* value_compare orders values as sort, MIN and MAX and the B+ tree keys rely
\* on, for any width of integers and doubles and any values and texts.
THEOREM ComparisonIsAnOrder == ValuesSpec => []ComparesInOrder
<1> DEFINE Given == values = <<>> \/ values \in Samples \X Samples \X Samples
<1>1. ValuesInit => Given
  BY DEF ValuesInit
<1>2. Given /\ [Hand]_values => Given'
  BY DEF Hand
<1>3. Given => ComparesInOrder
  <2> SUFFICES ASSUME values \in Samples \X Samples \X Samples, values # <<>>,
                      Ordered(values[1], values[2]), Ordered(values[2], values[3]), Ordered(values[1], values[3])
               PROVE  InOrder(values[1], values[2], values[3])
    BY DEF ComparesInOrder, InOrder, Cmp
  <2>1. values[1] \in AllValues /\ values[2] \in AllValues /\ values[3] \in AllValues
    BY SamplesAssumption
  <2> QED
    BY <2>1, ValuesInOrder
<1> QED
  BY <1>1, <1>2, <1>3, PTL DEF ValuesSpec

-----------------------------------------------------------------------------
(* The tables the engine keeps: SqlTables *)

\* The rows of a table.
RowsOf(schema) == {row \in Seq(AllValues) : Len(row) = Len(schema)}

\* What the bytes of a value mean as another type's is a value of that type,
\* and an assignment over a row yields a value or fails, as expr_evaluate does.
BitsTyped ==
  \A x \in AllValues, type \in ColumnTypes \ {"VARCHAR"} :
    Type(x) # type => BitsAs(x, type) \in AllValues /\ Type(BitsAs(x, type)) = type
SetTyped(set) ==
  /\ IsSlots(set)
  /\ \A k \in DOMAIN set : \A schema \in Schemas : \A row \in RowsOf(schema) :
       LET v == Evaluate(set[k].value, row, schema) IN v \in AllValues \/ Fails(v)
SetsTyped == \A s \in Statements : s.op = "UPDATE" => SetTyped(s.set)

\* What CREATE TABLE makes a schema of.
LEMMA SchemaIs ==
  ASSUME NEW schema \in Schemas
  PROVE  /\ IsSchema(schema) /\ Len(schema) \in Nat \ {0} /\ DOMAIN schema = 1 .. Len(schema)
         /\ schema \in Seq([name : ColumnNames, type : ColumnTypes, max_length : Nat])
<1>1. schema \in Seq([name : ColumnNames, type : ColumnTypes, max_length : Nat]) /\ schema # <<>>
  BY CatalogAssumption DEF NoSchema
<1> DEFINE U == [name : ColumnNames, type : ColumnTypes, max_length : Nat]
<1>2. \A c \in U : c.type \in ColumnTypes
  OBVIOUS
<1> HIDE DEF U
<1>3. schema \in Seq(U)
  BY <1>1 DEF U
<1>4. Len(schema) \in Nat /\ DOMAIN schema = 1 .. Len(schema) /\ Len(schema) # 0
  BY <1>1, <1>3
<1>5. \A i \in DOMAIN schema : schema[i].type \in ColumnTypes
  BY <1>2, <1>3
<1> QED
  BY <1>1, <1>3, <1>4, <1>5 DEF IsSchema, IsSlots

\* tuple_serialize takes any row of values.
LEMMA StorableRows ==
  ASSUME NEW row \in Seq(AllValues)
  PROVE  Storable(row)
<1>1. ASSUME NEW i \in DOMAIN row, Type(row[i]) = "VARCHAR" PROVE IsText(row[i])
  <2>1. row[i] \in AllValues
    OBVIOUS
  <2>2. Val(row[i]) \in Seq(Characters) /\ row[i] = Varchar(Val(row[i]))
    BY <1>1, <2>1, AllValuesAre
  <2> QED
    BY <2>2 DEF IsText, IsSlots
<1> QED
  BY <1>1 DEF Storable, IsSlots

\* What is read back of a row of values fits the table it was written to.
LEMMA RowReadBack ==
  ASSUME BitsTyped, NEW schema \in Schemas, NEW row \in Seq(AllValues),
         NEW back, back = tuple_deserialize(tuple_serialize(row, schema), schema)
  PROVE  /\ tuple_serialize(row, schema) # Gone
         /\ back \in Seq(AllValues) /\ Len(back) = Len(schema)
         /\ Tables!Fits(back, schema)
<1>1. IsSchema(schema) /\ Len(schema) \in Nat /\ DOMAIN schema = 1 .. Len(schema)
  BY SchemaIs
<1>2. back = Stored(row, schema) /\ tuple_serialize(row, schema) # <<>>
  BY <1>1, StorableRows, ReadsBack
<1>3. ASSUME NEW i \in DOMAIN schema
      PROVE  LET v == StoredValue(row, i, schema[i].type)
             IN v \in AllValues /\ Type(v) \in {schema[i].type, "NULL"}
  <2> DEFINE type == schema[i].type
             v == StoredValue(row, i, type)
  <2>1. type \in ColumnTypes
    BY <1>1 DEF IsSchema
  <2> HIDE DEF type
  <2>2. CASE is_column_null(row, i)
    <3>1. v = Null
      BY <2>2 DEF StoredValue
    <3>2. Type(Null) = "NULL"
      BY DEF Type, Null
    <3> QED
      BY <3>1, <3>2, AllValuesAre DEF type
  <2>3. CASE ~is_column_null(row, i)
    <3>1. row[i] \in AllValues
      <4>1. i \in DOMAIN row
        BY <1>1, <2>3 DEF is_column_null
      <4> QED
        BY <4>1
    <3>2. CASE type = "VARCHAR"
      <4>1. v = IF Type(row[i]) = "VARCHAR" THEN row[i] ELSE Varchar(<<>>)
        BY <2>3, <3>2 DEF StoredValue
      <4>2. Varchar(<<>>) \in AllValues /\ Type(Varchar(<<>>)) = "VARCHAR"
        <5>1. <<>> \in Seq(Characters)
          OBVIOUS
        <5> QED
          BY <5>1, AllValuesAre DEF Type, Varchar
      <4> QED
        BY <3>1, <3>2, <4>1, <4>2 DEF type
    <3>3. CASE type # "VARCHAR"
      <4>1. v = IF Type(row[i]) = type THEN row[i] ELSE BitsAs(row[i], type)
        BY <2>3, <3>3 DEF StoredValue
      <4>2. Type(row[i]) # type => BitsAs(row[i], type) \in AllValues /\ Type(BitsAs(row[i], type)) = type
        BY <2>1, <3>1, <3>3 DEF BitsTyped
      <4> QED
        BY <3>1, <4>1, <4>2 DEF type
    <3> QED
      BY <3>2, <3>3
  <2> QED
    BY <2>2, <2>3 DEF type
<1>4. back = [i \in 1 .. Len(schema) |-> back[i]] /\ \A i \in 1 .. Len(schema) : back[i] = StoredValue(row, i, schema[i].type)
  BY <1>1, <1>2 DEF Stored
<1>5. \A i \in 1 .. Len(schema) : back[i] \in AllValues /\ Type(back[i]) \in {schema[i].type, "NULL"}
  BY <1>1, <1>3, <1>4
<1>6. back \in [1 .. Len(schema) -> AllValues]
  BY <1>4, <1>5
<1>7. back \in Seq(AllValues) /\ Len(back) = Len(schema) /\ DOMAIN back = DOMAIN schema
  BY <1>1, <1>6
<1> QED
  BY <1>1, <1>2, <1>5, <1>7 DEF Gone, Tables!Fits, Type

\* A row with assignments applied is a row of the table, unless one fails.
LEMMA AssignedIs ==
  ASSUME NEW schema \in Schemas, NEW set, SetTyped(set), NEW old \in RowsOf(schema)
  PROVE  Fails(Last(Assigned(set, schema, old))) \/ Assigned(set, schema, old) \in RowsOf(schema)
<1> DEFINE N == Len(set)
           R == RowsOf(schema)
           column(k) == schema_find_column(schema, set[k].column)
           value(k) == IF column(k) = 0 THEN Error(DB_UNKNOWN_COLUMN) ELSE Evaluate(set[k].value, old, schema)
           S == R \cup {<<value(k)>> : k \in {j \in 1 .. N : Fails(value(j))}}
           After(row, k) ==
             IF Fails(Last(row)) THEN row
             ELSE IF Fails(value(k)) THEN <<value(k)>>
             ELSE [row EXCEPT ![column(k)] = value(k)]
           step == [x \in S \X Nat |-> IF x[2] \in 1 .. N THEN After(x[1], x[2]) ELSE x[1]]
           new == CHOOSE f : f = [k \in 0 .. N |-> IF k = 0 THEN old ELSE After(f[k - 1], k)]
<1>1. N \in Nat /\ DOMAIN set = 1 .. N
  BY SlotsLength DEF SetTyped
<1>2. Assigned(set, schema, old) = new[N]
  BY DEF Assigned
<1>3. ASSUME NEW k \in 1 .. N
      PROVE  column(k) \in {0} \cup DOMAIN schema /\ (Fails(value(k)) \/ (column(k) # 0 /\ value(k) \in AllValues))
  <2>1. column(k) \in {0} \cup DOMAIN schema
    BY SchemaIs, FoundInSchema
  <2>2. CASE column(k) = 0
    <3>1. Fails(Error(DB_UNKNOWN_COLUMN))
      BY DEF Fails, Error, Type
    <3> QED
      BY <2>1, <2>2, <3>1
  <2>3. CASE column(k) # 0
    <3>2. k \in DOMAIN set
      BY <1>1
    <3>3. Evaluate(set[k].value, old, schema) \in AllValues \/ Fails(Evaluate(set[k].value, old, schema))
      BY <3>2 DEF SetTyped
    <3> QED
      BY <2>1, <2>3, <3>3
  <2> QED
    BY <2>2, <2>3
<1> HIDE DEF N, column, value
<1>4. ASSUME NEW row \in S, NEW k \in 1 .. N PROVE After(row, k) \in S
  <2>1. CASE Fails(Last(row))
    BY <2>1
  <2>2. CASE ~Fails(Last(row)) /\ Fails(value(k))
    BY <2>2
  <2>3. CASE ~Fails(Last(row)) /\ ~Fails(value(k))
    <3>1. column(k) \in DOMAIN schema /\ value(k) \in AllValues
      BY <1>3, <2>3
    <3>2. row \in R
      <4> SUFFICES ASSUME NEW j \in 1 .. N, Fails(value(j)), row = <<value(j)>> PROVE FALSE
        OBVIOUS
      <4>1. Last(row) = value(j)
        BY DEF Last
      <4> QED
        BY <2>3, <4>1
    <3>3. row \in Seq(AllValues) /\ Len(row) = Len(schema)
      BY <3>2 DEF RowsOf
    <3>4. column(k) \in 1 .. Len(row)
      BY <3>1, <3>3, SchemaIs
    <3>5. [row EXCEPT ![column(k)] = value(k)] \in Seq(AllValues)
          /\ Len([row EXCEPT ![column(k)] = value(k)]) = Len(row)
      BY <3>1, <3>3, <3>4
    <3>6. [row EXCEPT ![column(k)] = value(k)] \in R
      BY <3>3, <3>5 DEF RowsOf
    <3> QED
      BY <2>3, <3>6
  <2> QED
    BY <2>1, <2>2, <2>3
<1>5. old \in S
  OBVIOUS
<1> HIDE DEF S, After, R
<1>6. step \in [S \X Nat -> S]
  BY <1>4
<1>7. PICK g \in [0 .. N -> S] : Recurs(g, old, step, N)
  <2> HIDE DEF step
  <2> QED
    BY <1>1, <1>5, <1>6, RecursionExists
<1>15. g[0] = old /\ \A k \in 1 .. N : g[k] = step[<<g[k - 1], k>>]
  <2> HIDE DEF step
  <2>1. \A k \in 0 .. N : g[k] = IF k = 0 THEN old ELSE step[<<g[k - 1], k>>]
    BY <1>7 DEF Recurs
  <2>2. 0 \in 0 .. N /\ \A k \in 1 .. N : k \in 0 .. N /\ k # 0
    BY <1>1
  <2> QED
    BY <2>1, <2>2
<1>8. g = [k \in 0 .. N |-> IF k = 0 THEN old ELSE After(g[k - 1], k)]
  <2>1. \A k \in 0 .. N : g[k] = IF k = 0 THEN old ELSE After(g[k - 1], k)
    <3>1. g[0] = old
      BY <1>15
    <3>2. ASSUME NEW k \in 1 .. N PROVE g[k] = After(g[k - 1], k)
      <4>1. g[k] = step[<<g[k - 1], k>>]
        BY <1>15, <3>2
      <4>2. k - 1 \in 0 .. N /\ k \in Nat
        BY <1>1
      <4>3. g[k - 1] \in S
        BY <1>7, <4>2
      <4> QED
        BY <4>1, <4>2, <4>3
    <3>3. \A k \in 0 .. N : k # 0 => k \in 1 .. N
      BY <1>1
    <3> QED
      BY <3>1, <3>2, <3>3
  <2>2. g = [k \in 0 .. N |-> g[k]]
    BY <1>7
  <2> QED
    BY <2>1, <2>2
<1>9. new = [k \in 0 .. N |-> IF k = 0 THEN old ELSE After(new[k - 1], k)]
  BY <1>8
<1> HIDE DEF new
<1> DEFINE T == {k \in Nat : k \in 0 .. N => new[k] \in S}
<1>10. 0 \in T
  BY <1>1, <1>5, <1>9
<1>11. ASSUME NEW k \in Nat, k \in T PROVE k + 1 \in T
  <2> SUFFICES ASSUME k + 1 \in 0 .. N PROVE new[k + 1] \in S
    OBVIOUS
  <2>1. k \in 0 .. N /\ k + 1 \in 1 .. N /\ k + 1 # 0 /\ k + 1 - 1 = k
    BY <1>1
  <2>2. new[k + 1] = After(new[k], k + 1)
    BY <1>9, <2>1
  <2> QED
    BY <1>4, <1>11, <2>1, <2>2
<1>12. new[N] \in S
  <2>1. Nat \subseteq T
    <3> HIDE DEF T
    <3> QED
      BY <1>10, <1>11, NatsBelong
  <2> QED
    BY <1>1, <2>1
<1>13. CASE new[N] \in R
  BY <1>2, <1>13 DEF R
<1>14. CASE \E k \in 1 .. N : Fails(value(k)) /\ new[N] = <<value(k)>>
  <2>1. PICK k \in 1 .. N : Fails(value(k)) /\ new[N] = <<value(k)>>
    BY <1>14
  <2>2. Last(<<value(k)>>) = value(k)
    BY DEF Last
  <2> QED
    BY <1>2, <2>1, <2>2
<1> QED
  BY <1>12, <1>13, <1>14 DEF S

\* A slot that is overwritten counts for the new row, not the old one.
LEMMA CountSet ==
  ASSUME NEW slots, IsSlots(slots), NEW i \in 1 .. Len(slots), slots[i] # Gone, NEW image, NEW schema, NEW row
  PROVE  Count(row, [slots EXCEPT ![i] = image], schema) =
           Count(row, slots, schema) - (IF tuple_deserialize(slots[i], schema) = row THEN 1 ELSE 0)
             + (IF image # Gone /\ tuple_deserialize(image, schema) = row THEN 1 ELSE 0)
<1> DEFINE new == [slots EXCEPT ![i] = image]
           A == Holding(row, slots, schema)
           B == Holding(row, new, schema)
           C == A \ {i}
           was == tuple_deserialize(slots[i], schema) = row
           is == image # Gone /\ tuple_deserialize(image, schema) = row
<1>1. IsSlots(new)
  BY SlotsSet
<1>2. /\ IsFiniteSet(A) /\ Count(row, slots, schema) = Cardinality(A) /\ Cardinality(A) \in Nat
      /\ IsFiniteSet(B) /\ Count(row, new, schema) = Cardinality(B) /\ Cardinality(B) \in Nat
  <2> HIDE DEF new
  <2> QED
    BY <1>1, HoldingFinite
<1>3. DOMAIN slots = 1 .. Len(slots) /\ DOMAIN new = 1 .. Len(slots)
  BY SlotsLength
<1>4. new[i] = image /\ \A j \in 1 .. Len(slots) : j # i => new[j] = slots[j]
  BY <1>3
<1>5. i \in A <=> was
  BY <1>3 DEF Holding, RowSlots
<1>6. i \in B <=> is
  BY <1>3, <1>4 DEF Holding, RowSlots
<1>7. C = B \ {i}
  BY <1>3, <1>4 DEF Holding, RowSlots
<1> HIDE DEF A, B, new, was, is
<1>8. Cardinality(C) = Cardinality(A) - (IF was THEN 1 ELSE 0)
  <2>1. Cardinality(A \ {i}) = IF i \in A THEN Cardinality(A) - 1 ELSE Cardinality(A)
    BY <1>2, FS_RemoveElement
  <2> QED
    BY <1>2, <1>5, <2>1
<1>9. Cardinality(C) = Cardinality(B) - (IF is THEN 1 ELSE 0)
  <2>1. Cardinality(B \ {i}) = IF i \in B THEN Cardinality(B) - 1 ELSE Cardinality(B)
    BY <1>2, FS_RemoveElement
  <2>2. Cardinality(C) = Cardinality(B \ {i})
    BY <1>7
  <2> HIDE DEF C
  <2> QED
    BY <1>2, <1>6, <2>1, <2>2
<1>10. Cardinality(C) \in Nat
  BY <1>2, FS_RemoveElement, FS_CardinalityType
<1> HIDE DEF C
<1>11. Count(row, new, schema) = Count(row, slots, schema) - (IF was THEN 1 ELSE 0) + (IF is THEN 1 ELSE 0)
  BY <1>2, <1>8, <1>9, <1>10
<1> QED
  BY <1>11 DEF new, was, is

\* A row is in the bag when it counts at least once.
LEMMA InBag ==
  ASSUME NEW slots, IsSlots(slots), NEW schema
  PROVE  /\ BagOf(slots, schema) = [row \in RowsIn(slots, schema) |-> Count(row, slots, schema)]
         /\ \A row : Count(row, slots, schema) \in Nat
         /\ \A row : row \in RowsIn(slots, schema) <=> Count(row, slots, schema) > 0
<1>1. \A row : Count(row, slots, schema) \in Nat
  BY HoldingFinite
<1>2. ASSUME NEW row PROVE row \in RowsIn(slots, schema) <=> Count(row, slots, schema) > 0
  <2> DEFINE H == Holding(row, slots, schema)
  <2>1. IsFiniteSet(H) /\ Count(row, slots, schema) = Cardinality(H) /\ Cardinality(H) \in Nat
    BY HoldingFinite
  <2>2. row \in RowsIn(slots, schema) <=> H # {}
    BY DEF Holding, RowsIn
  <2> HIDE DEF H
  <2>3. H = {} <=> Cardinality(H) = 0
    BY <2>1, FS_EmptySet
  <2> QED
    BY <2>1, <2>2, <2>3
<1> QED
  BY <1>1, <1>2 DEF BagOf

\* One row less and one more, or only one of it, or neither.
LEMMA BagsDiffer ==
  ASSUME NEW slots, IsSlots(slots), NEW later, IsSlots(later), NEW schema,
         NEW L, NEW G, L = {} \/ \E row \in RowsIn(slots, schema) : L = {row},
         G = {} \/ \E row \in RowsIn(later, schema) : G = {row},
         \A row : Count(row, later, schema) =
                    Count(row, slots, schema) - (IF row \in L THEN 1 ELSE 0) + (IF row \in G THEN 1 ELSE 0),
         \A row \in G : Tables!Fits(row, schema)
  PROVE  Tables!OneRow(BagOf(slots, schema), BagOf(later, schema), schema)
<1> DEFINE before == BagOf(slots, schema)
           after == BagOf(later, schema)
           B == RowsIn(slots, schema)
           A == RowsIn(later, schema)
           b(row) == Count(row, slots, schema)
           a(row) == Count(row, later, schema)
           minus == [row \in {d \in B : b(d) - (IF d \in L THEN 1 ELSE 0) > 0} |-> b(row) - (IF row \in L THEN 1 ELSE 0)]
<1>1. /\ before = [row \in B |-> b(row)] /\ after = [row \in A |-> a(row)]
      /\ \A row : b(row) \in Nat /\ a(row) \in Nat
      /\ \A row : (row \in B <=> b(row) > 0) /\ (row \in A <=> a(row) > 0)
  BY InBag
<1>2. L \subseteq B /\ G \subseteq A
  OBVIOUS
<1>3. \A row : a(row) = b(row) - (IF row \in L THEN 1 ELSE 0) + (IF row \in G THEN 1 ELSE 0)
  OBVIOUS
<1>4. Tables!SetToBag(L) \in Tables!AtMostOne(before) /\ Tables!SetToBag(G) \in Tables!AtMostOne(after)
  BY <1>1 DEF Tables!AtMostOne, Tables!SetToBag, Tables!EmptyBag, Tables!BagToSet
<1> HIDE DEF before, after, A, B, a, b
<1>5. Tables!(-)(before, Tables!SetToBag(L)) = minus
  BY <1>1 DEF Tables!(-), Tables!SetToBag
<1>6. Tables!(+)(minus, Tables!SetToBag(G)) = after
  BY <1>1, <1>2, <1>3 DEF Tables!(+), Tables!SetToBag
<1>7. Tables!BagToSet(Tables!SetToBag(G)) = G
  BY DEF Tables!BagToSet, Tables!SetToBag
<1>8. Tables!OneRow(before, after, schema)
  BY <1>4, <1>5, <1>6, <1>7 DEF Tables!OneRow
<1> QED
  BY <1>8 DEF before, after

HoldsRows(slots, schema) ==
  \A i \in DOMAIN slots : slots[i] # Gone => \E row \in Seq(AllValues) : slots[i] = tuple_serialize(row, schema)

\* Whatever is in a table was written as a row of values.
RowsHeld == \A n : HoldsRows(SlotsOf(n), TableSchema(n))

SetGiven == run.op = "UPDATE" => \E s \in Statements : s.op = "UPDATE" /\ run.set = s.set

\* A step that no table shows, and one that only the rows of a table show.
Quiet == name_to_id' = name_to_id /\ \A n : SlotsOf(n)' = SlotsOf(n) /\ TableSchema(n)' = TableSchema(n)
OneChanges(t) ==
  /\ name_to_id' = name_to_id
  /\ \A n : TableSchema(n)' = TableSchema(n) /\ (n # t => SlotsOf(n)' = SlotsOf(n))

\* What no table shows leaves what is held, and that rows of values are.
LEMMA QuietHolds ==
  ASSUME Quiet
  PROVE  Held' = Held /\ (RowsHeld => RowsHeld')
BY DEF Quiet, Held, RowsHeld, BagOf, RowsIn, Count, RowSlots

\* A table that loses or gains a row changes as SqlTables has it.
LEMMA OneHolds ==
  ASSUME NEW t \in DOMAIN name_to_id, OneChanges(t),
         Tables!OneRow(BagOf(SlotsOf(t), TableSchema(t)), BagOf(SlotsOf(t)', TableSchema(t)), TableSchema(t))
  PROVE  /\ Tables!ChangeRow(Held, Held')
         /\ RowsHeld /\ HoldsRows(SlotsOf(t)', TableSchema(t)) => RowsHeld'
<1> DEFINE bag == BagOf(SlotsOf(t)', TableSchema(t))
<1>1. name_to_id' = name_to_id /\ \A n : TableSchema(n)' = TableSchema(n) /\ (n # t => SlotsOf(n)' = SlotsOf(n))
  BY DEF OneChanges
<1>2. DOMAIN Held = DOMAIN name_to_id /\ DOMAIN Held' = DOMAIN name_to_id
  BY <1>1 DEF Held
<1>3. \A n \in DOMAIN name_to_id : Held[n] = [columns |-> TableSchema(n), rows |-> BagOf(SlotsOf(n), TableSchema(n))]
  BY DEF Held
<1>4. ASSUME NEW n \in DOMAIN name_to_id
      PROVE  Held'[n] = [columns |-> TableSchema(n), rows |-> IF n = t THEN bag ELSE BagOf(SlotsOf(n), TableSchema(n))]
  <2>1. Held'[n] = [columns |-> TableSchema(n)', rows |-> BagOf(SlotsOf(n)', TableSchema(n)')]
    BY <1>1 DEF Held, BagOf, RowsIn, Count, RowSlots
  <2>2. CASE n = t
    BY <1>1, <2>1, <2>2
  <2>3. CASE n # t
    BY <1>1, <2>1, <2>3
  <2> QED
    BY <2>2, <2>3
<1> HIDE DEF bag
<1> DEFINE was == Held[t]
           is == Held'[t]
           columns == TableSchema(t)
           rows == BagOf(SlotsOf(t), TableSchema(t))
<1>10. was = [columns |-> columns, rows |-> rows] /\ is = [columns |-> columns, rows |-> bag]
  BY <1>3, <1>4
<1>11. was.rows = rows /\ is.rows = bag /\ was.columns = columns /\ is = [was EXCEPT !.rows = is.rows]
  <2> HIDE DEF was, is, columns, rows
  <2> QED
    BY <1>10
<1>5. Held' = [Held EXCEPT ![t].rows = Held'[t].rows]
  <2>1. Held' = [n \in DOMAIN name_to_id |-> Held'[n]] /\ Held = [n \in DOMAIN name_to_id |-> Held[n]]
    BY <1>1 DEF Held
  <2>2. \A n \in DOMAIN name_to_id : n # t => Held'[n] = Held[n]
    BY <1>3, <1>4
  <2>3. Held'[t] = [Held[t] EXCEPT !.rows = Held'[t].rows]
    BY <1>11
  <2> QED
    BY <2>1, <2>2, <2>3
<1>6. Held[t].rows = BagOf(SlotsOf(t), TableSchema(t)) /\ Held'[t].rows = bag /\ Held[t].columns = TableSchema(t)
  BY <1>11
<1>7. Tables!OneRow(Held[t].rows, Held'[t].rows, Held[t].columns)
  BY <1>6 DEF bag
<1>8. Tables!ChangeRow(Held, Held')
  BY <1>2, <1>5, <1>7 DEF Tables!ChangeRow
<1>9. RowsHeld /\ HoldsRows(SlotsOf(t)', TableSchema(t)) => RowsHeld'
  <2> SUFFICES ASSUME RowsHeld, HoldsRows(SlotsOf(t)', TableSchema(t)), NEW n
               PROVE  HoldsRows(SlotsOf(n)', TableSchema(n)')
    BY DEF RowsHeld, HoldsRows
  <2>1. CASE n = t
    BY <1>1, <2>1
  <2>2. CASE n # t
    BY <1>1, <2>2 DEF RowsHeld
  <2> QED
    BY <2>1, <2>2
<1> QED
  BY <1>8, <1>9

\* Tables with rows start on different pages.
LEMMA TablesApart ==
  ASSUME EngineInv, NEW n, HasSchema(n), NEW m, HasSchema(m), m # n, TableRoot(TableId(n)) # INVALID_PAGE_ID
  PROVE  /\ TableRoot(TableId(n)) # TableRoot(TableId(m))
         /\ TableRoot(TableId(n)) \in Roots /\ TableRoot(TableId(n)) \in DOMAIN heaps
         /\ TableRoot(TableId(n)) \in allocated
<1>1. CatalogInv
  BY DEF EngineInv
<1>2. /\ TableId(n) \in DOMAIN table_cache /\ table_cache[TableId(n)].name = n
      /\ TableId(m) \in DOMAIN table_cache /\ table_cache[TableId(m)].name = m
  BY <1>1, HasSchemaNamed
<1>3. TableId(n) # TableId(m) /\ TableId(n) \in Rooted
  BY <1>2 DEF Rooted
<1>4. TableRoot(TableId(n)) # TableRoot(TableId(m))
  <2>1. CASE TableId(m) \in Rooted
    BY <1>1, <1>3, <2>1 DEF CatalogInv, RootsApart
  <2>2. CASE TableId(m) \notin Rooted
    BY <1>2, <2>2 DEF Rooted
  <2> QED
    BY <2>1, <2>2
<1>5. TableRoot(TableId(n)) \in Roots
  BY <1>3 DEF Roots
<1> QED
  BY <1>1, <1>4, <1>5, RootSlots DEF CatalogInv, RootsApart

\* No other table starts where the rows of a statement are.
LEMMA OthersApart ==
  ASSUME EngineInv, InsertRuns \/ ChangeRuns, NEW n, HasSchema(n), n # run.table,
         TableRoot(TableId(n)) # INVALID_PAGE_ID
  PROVE  TableRoot(TableId(n)) # run.root /\ TableRoot(TableId(n)) \in DOMAIN heaps /\ TableRoot(TableId(n)) \in allocated
<1>1. HasSchema(run.table)
  BY DEF InsertRuns, ChangeRuns, RunningOn
<1>2. /\ TableRoot(TableId(n)) # TableRoot(TableId(run.table)) /\ TableRoot(TableId(n)) \in Roots
      /\ TableRoot(TableId(n)) \in DOMAIN heaps /\ TableRoot(TableId(n)) \in allocated
  BY <1>1, TablesApart
<1>3. run.root \notin Roots \/ run.root = TableRoot(TableId(run.table))
  BY DEF InsertRuns, ChangeRuns, RunningOn
<1> QED
  BY <1>2, <1>3

\* What the maps say of a table while those of tables do not change.
LEMMA SchemasStay ==
  ASSUME UNCHANGED <<name_to_id, table_cache, schema_cache>>
  PROVE  \A n : /\ (HasSchema(n)' <=> HasSchema(n)) /\ TableSchema(n)' = TableSchema(n)
                /\ TableId(n)' = TableId(n) /\ TableRoot(TableId(n))' = TableRoot(TableId(n))
BY DEF HasSchema, Known, TableId, TableSchema, TableRoot

\* Tables show nothing while they start where they did and heaps stay.
LEMMA StillQuiet ==
  ASSUME UNCHANGED <<name_to_id, table_cache, schema_cache, heaps>>,
         \A n : HasSchema(n) => RootOf(n)' = RootOf(n)
  PROVE  Quiet
<1>1. ASSUME NEW n PROVE SlotsOf(n)' = SlotsOf(n)
  <2>1. HasSchema(n)' <=> HasSchema(n)
    BY SchemasStay
  <2> QED
    BY <2>1 DEF SlotsOf, Slots
<1> QED
  BY <1>1, SchemasStay DEF Quiet

\* Between statements, and while one runs that is no INSERT, tables start
\* where the catalog says.
LEMMA RootsInCatalog ==
  ASSUME NEW n
  PROVE  /\ run.op # "INSERT" => RootOf(n) = TableRoot(TableId(n))
         /\ run'.op # "INSERT" => RootOf(n)' = TableRoot(TableId(n))'
BY DEF RootOf

\* INSERT, UPDATE and DELETE start, or are refused, and no table shows it.
LEMMA StartsQuietly ==
  ASSUME EngineInv, run = Idle, NEW s \in Statements,
         \/ s.op = "INSERT" /\ StartInsert(s)
         \/ s.op \in {"UPDATE", "DELETE"} /\ StartChange(s)
         \/ Refuse("DB_OK") /\ UNCHANGED <<mapVars, allocated, heaps>>
  PROVE  Quiet /\ SetGiven'
<1>1. run.op = "NONE"
  BY RunKinds
<1>2. UNCHANGED <<name_to_id, table_cache, schema_cache, heaps>>
  BY DEF StartInsert, StartChange, Die, mapVars
<1>3. CASE run' = Idle
  <2>1. run'.op = "NONE"
    BY <1>3 DEF Idle
  <2> QED
    BY <1>1, <1>2, <2>1, RootsInCatalog, SchemasStay, StillQuiet DEF SetGiven
<1>4. CASE s.op = "INSERT" /\ StartInsert(s) /\ run' # Idle
  <2> DEFINE root == TableRoot(TableId(s.table))
  <2>3. run' = [op |-> "INSERT", table |-> s.table, rows |-> s.rows, row |-> 0, failed |-> FALSE,
                root |-> root, before |-> Slots(root), affected |-> 0]
    <3>1. CASE ~Known(s.table) \/ ~HasSchema(s.table)
      BY <1>4, <3>1 DEF StartInsert, Refuse
    <3>2. CASE Known(s.table) /\ HasSchema(s.table)
      BY <1>4, <3>2 DEF StartInsert
    <3> QED
      BY <3>1, <3>2
  <2>1. run'.op = "INSERT" /\ run'.table = s.table /\ run'.root = TableRoot(TableId(s.table))
    BY <2>3
  <2>2. \A n : RootOf(n)' = RootOf(n)
    BY <1>1, <1>2, <2>1, SchemasStay DEF RootOf
  <2> QED
    BY <1>2, <2>1, <2>2, StillQuiet DEF SetGiven
<1>5. CASE s.op \in {"UPDATE", "DELETE"} /\ StartChange(s) /\ run' # Idle
  <2>1. run'.op = s.op /\ (s.op = "UPDATE" => run'.set = s.set)
    BY <1>1, <1>3, <1>5 DEF StartChange, Refuse, Die, Idle
  <2> QED
    BY <1>1, <1>2, <1>5, <2>1, RootsInCatalog, SchemasStay, StillQuiet DEF SetGiven
<1> QED
  BY <1>3, <1>4, <1>5 DEF Refuse

\* A statement ends, its process or not, and no table shows it.
LEMMA EndsQuietly ==
  ASSUME UNCHANGED <<mapVars, heaps>>, run' = run \/ (run' = Idle /\ run.op # "INSERT"), SetGiven
  PROVE  Quiet /\ SetGiven'
<1>1. UNCHANGED <<name_to_id, table_cache, schema_cache, heaps>>
  BY DEF mapVars
<1>2. CASE run' = run
  BY <1>1, <1>2, StillQuiet, SchemasStay DEF RootOf, SetGiven
<1>3. CASE run' = Idle /\ run.op # "INSERT"
  <2>1. run'.op = "NONE"
    BY <1>3 DEF Idle
  <2> QED
    BY <1>1, <1>3, <2>1, RootsInCatalog, SchemasStay, StillQuiet DEF SetGiven
<1> QED
  BY <1>2, <1>3

\* A row passed over.
LEMMA PassesQuietly ==
  ASSUME EngineInv, ChangeRuns, UpdatePasses, SetGiven
  PROVE  Quiet /\ SetGiven'
<1>1. UNCHANGED <<name_to_id, table_cache, schema_cache, heaps>>
  BY DEF UpdatePasses, catalogVars, mapVars
<1>2. run'.op = run.op /\ run'.set = run.set
  BY DEF UpdatePasses, Pass, ChangeRuns, Record, ChangeFields
<1>3. run.op # "INSERT"
  BY DEF ChangeRuns
<1> QED
  BY <1>1, <1>2, <1>3, RootsInCatalog, SchemasStay, StillQuiet DEF SetGiven

\* An INSERT that fails leaves the rows where they are.
LEMMA FailsQuietly ==
  ASSUME EngineInv, CatalogInv', InsertFails
  PROVE  Quiet /\ SetGiven'
<1>1. InsertRuns
  BY RunKinds DEF EngineInv, InsertFails, NextInserts
<1>2. /\ InsertRuns' /\ run'.table = run.table /\ Slots(run.root)' = Slots(run.root)
      /\ \A p \in DOMAIN heaps : p \in DOMAIN heaps' /\ heaps'[p] = heaps[p]
  BY InsertFailsInv
<1>3. UNCHANGED <<name_to_id, table_cache, schema_cache>>
  BY DEF InsertFails, mapVars
<1>4. run.op = "INSERT" /\ run'.op = "INSERT"
  BY <1>1, <1>2 DEF InsertRuns
<1>5. ASSUME NEW n PROVE SlotsOf(n)' = SlotsOf(n)
  <2>1. (HasSchema(n)' <=> HasSchema(n)) /\ TableRoot(TableId(n))' = TableRoot(TableId(n))
    BY <1>3, SchemasStay
  <2>2. CASE ~HasSchema(n)
    BY <2>1, <2>2 DEF SlotsOf
  <2>3. CASE HasSchema(n) /\ n = run.table
    BY <1>2, <1>4, <2>1, <2>3 DEF SlotsOf, RootOf
  <2>4. CASE HasSchema(n) /\ n # run.table
    <3>1. SlotsOf(n) = Slots(TableRoot(TableId(n))) /\ SlotsOf(n)' = Slots(TableRoot(TableId(n)))'
      BY <1>2, <2>1, <2>4 DEF SlotsOf, RootOf
    <3>2. TableRoot(TableId(n)) # INVALID_PAGE_ID => TableRoot(TableId(n)) \in DOMAIN heaps
      BY <1>1, <2>4, OthersApart
    <3> QED
      BY <1>2, <2>1, <3>1, <3>2 DEF Slots
  <2> QED
    BY <2>2, <2>3, <2>4
<1> QED
  BY <1>3, <1>4, <1>5, SchemasStay DEF Quiet, SetGiven

\* At the end of an INSERT the catalog learns where the table starts.
LEMMA InsertEndsQuietly ==
  ASSUME EngineInv, InsertEnds
  PROVE  Quiet /\ SetGiven'
<1>1. InsertRuns /\ run.op = "INSERT"
  BY RunKinds DEF EngineInv, InsertEnds
<1> DEFINE t == run.table
           root == run.root
<1>2. run' = Idle /\ run'.op = "NONE" /\ heaps' = heaps
  BY DEF InsertEnds, Finish, Idle
<1>3. HasSchema(t) /\ (IF TableRoot(TableId(t)) = INVALID_PAGE_ID THEN root \notin Roots ELSE root = TableRoot(TableId(t)))
  BY <1>1 DEF InsertRuns, RunningOn
<1>4. TableId(t) \in DOMAIN table_cache /\ table_cache[TableId(t)].name = t
  BY <1>3, HasSchemaNamed DEF EngineInv
<1>5. name_to_id' = name_to_id /\ schema_cache' = schema_cache /\ DOMAIN table_cache' = DOMAIN table_cache
      /\ \A tid \in DOMAIN table_cache : tid # TableId(t) => table_cache'[tid] = table_cache[tid]
  BY DEF InsertEnds, RootSync, catalog_update_root_page, mapVars
<1>6. table_cache'[TableId(t)].root_page_id = root
  <2>1. CASE root # INVALID_PAGE_ID /\ TableRoot(TableId(t)) = INVALID_PAGE_ID
    <3>1. table_cache' = [table_cache EXCEPT ![TableId(t)].root_page_id = root]
      BY <1>4, <2>1 DEF InsertEnds, RootSync, catalog_update_root_page
    <3>2. table_cache[TableId(t)] \in TableMeta
      BY <1>4 DEF EngineInv, CatalogInv, MapsTyped
    <3> QED
      BY <1>4, <3>1, <3>2 DEF TableMeta
  <2>2. CASE ~(root # INVALID_PAGE_ID /\ TableRoot(TableId(t)) = INVALID_PAGE_ID)
    <3>1. table_cache' = table_cache
      BY <2>2 DEF InsertEnds, RootSync, mapVars
    <3>2. TableRoot(TableId(t)) = root
      BY <1>3, <2>2
    <3> QED
      BY <3>1, <3>2 DEF TableRoot
  <2> QED
    BY <2>1, <2>2
<1>7. ASSUME NEW n PROVE SlotsOf(n)' = SlotsOf(n) /\ TableSchema(n)' = TableSchema(n)
  <2>1. HasSchema(n)' <=> HasSchema(n)
    BY <1>5 DEF HasSchema, Known, TableId
  <2>2. TableSchema(n)' = TableSchema(n)
    BY <1>5, <2>1 DEF TableSchema, TableId
  <2>3. CASE ~HasSchema(n)
    BY <2>1, <2>2, <2>3 DEF SlotsOf
  <2>4. CASE HasSchema(n)
    <3>1. RootOf(n)' = TableRoot(TableId(n))' /\ TableId(n)' = TableId(n)
      BY <1>2, <1>5 DEF RootOf, TableId
    <3>2. n = t => RootOf(n)' = RootOf(n)
      BY <1>1, <1>6, <3>1 DEF RootOf, TableRoot
    <3>3. n # t => RootOf(n)' = RootOf(n)
      <4> SUFFICES ASSUME n # t PROVE RootOf(n)' = RootOf(n)
        OBVIOUS
      <4>1. TableId(n) \in DOMAIN table_cache /\ table_cache[TableId(n)].name = n
        BY <2>4, HasSchemaNamed DEF EngineInv
      <4>2. TableRoot(TableId(n))' = TableRoot(TableId(n))
        BY <1>4, <1>5, <3>1, <4>1 DEF TableRoot
      <4> QED
        BY <1>1, <3>1, <4>2 DEF RootOf
    <3>5. SlotsOf(n)' = SlotsOf(n)
      BY <1>2, <2>1, <2>4, <3>2, <3>3 DEF SlotsOf, Slots
    <3> QED
      BY <2>2, <3>5
  <2> QED
    BY <2>3, <2>4
<1> QED
  BY <1>2, <1>5, <1>7 DEF Quiet, SetGiven

\* A row goes into the heap of an INSERT.
LEMMA InsertChangesOne ==
  ASSUME EngineInv, InsertRuns, NEW page \in FirstPages, NEW slots, IsSlots(slots),
         heaps' = hashmap_put(heaps, page, slots), allocated' = allocated \cup {page}, UNCHANGED mapVars,
         NEW t, run.table = t, run'.op = "INSERT", run'.table = t, run'.root = page
  PROVE  /\ OneChanges(t) /\ t \in DOMAIN name_to_id
         /\ SlotsOf(t) = Slots(run.root) /\ SlotsOf(t)' = slots
         /\ TableSchema(t) = Columns /\ Columns \in Schemas
<1>1. HasSchema(t) /\ run.op = "INSERT"
  BY DEF InsertRuns, RunningOn
<1>2. t \in DOMAIN name_to_id /\ schema_cache[TableId(t)] \in Schemas
  BY <1>1, HasSchemaNamed DEF EngineInv
<1>3. UNCHANGED <<name_to_id, table_cache, schema_cache>>
  BY DEF mapVars
<1>4. heaps'[page] = slots /\ \A p \in DOMAIN heaps \ {page} : heaps'[p] = heaps[p]
  BY PutHeap
<1>5. page # INVALID_PAGE_ID /\ (run.root # INVALID_PAGE_ID => page = run.root)
      /\ (run.root = INVALID_PAGE_ID => page \notin DOMAIN heaps)
  BY FirstPagesFresh
<1>6. SlotsOf(t) = Slots(run.root) /\ TableSchema(t) = Columns
  BY <1>1 DEF SlotsOf, RootOf, TableSchema, Columns
<1>7. SlotsOf(t)' = slots
  <2>1. HasSchema(t)'
    BY <1>1, <1>3, SchemasStay
  <2> QED
    BY <1>4, <1>5, <2>1 DEF SlotsOf, RootOf, Slots
<1>8. ASSUME NEW n, n # t PROVE SlotsOf(n)' = SlotsOf(n)
  <2>1. (HasSchema(n)' <=> HasSchema(n)) /\ TableRoot(TableId(n))' = TableRoot(TableId(n))
    BY <1>3, SchemasStay
  <2>2. CASE ~HasSchema(n)
    BY <2>1, <2>2 DEF SlotsOf
  <2>3. CASE HasSchema(n)
    <3>1. SlotsOf(n) = Slots(TableRoot(TableId(n))) /\ SlotsOf(n)' = Slots(TableRoot(TableId(n)))'
      BY <1>8, <2>1, <2>3 DEF SlotsOf, RootOf
    <3>2. TableRoot(TableId(n)) # INVALID_PAGE_ID =>
            TableRoot(TableId(n)) # run.root /\ TableRoot(TableId(n)) \in DOMAIN heaps
      BY <1>8, <2>3, OthersApart
    <3>3. TableRoot(TableId(n)) # INVALID_PAGE_ID => TableRoot(TableId(n)) # page
      BY <1>5, <3>2
    <3> QED
      BY <1>4, <2>1, <3>1, <3>2, <3>3 DEF Slots
  <2> QED
    BY <2>2, <2>3
<1> QED
  BY <1>2, <1>3, <1>6, <1>7, <1>8, SchemasStay DEF OneChanges, Columns

\* A slot changes in the heap of an UPDATE or DELETE.
LEMMA ChangeChangesOne ==
  ASSUME EngineInv, ChangeRuns, NEW i \in NextMatch, NEW image,
         heaps' = [heaps EXCEPT ![run.root][i] = image], UNCHANGED mapVars, run'.op = run.op,
         NEW t, run.table = t
  PROVE  /\ OneChanges(t) /\ t \in DOMAIN name_to_id
         /\ SlotsOf(t) = heaps[run.root] /\ SlotsOf(t)' = [heaps[run.root] EXCEPT ![i] = image]
         /\ TableSchema(t) = Columns /\ Columns \in Schemas
<1>1. HasSchema(t) /\ run.op # "INSERT" /\ run.root = TableRoot(TableId(t))
  BY DEF ChangeRuns
<1>2. t \in DOMAIN name_to_id /\ schema_cache[TableId(t)] \in Schemas
  BY <1>1, HasSchemaNamed DEF EngineInv
<1>3. UNCHANGED <<name_to_id, table_cache, schema_cache>>
  BY DEF mapVars
<1>4. run.root \in DOMAIN heaps
  BY NextMatchFacts
<1>5. run.root # INVALID_PAGE_ID
  <2>1. allocated \subseteq PageIds /\ DOMAIN heaps \subseteq allocated
    BY DEF EngineInv, CatalogInv, MapsTyped, HeapsTyped
  <2> QED
    BY <1>4, <2>1, CatalogAssumption DEF INVALID_PAGE_ID
<1>6. heaps'[run.root] = [heaps[run.root] EXCEPT ![i] = image] /\ \A p \in DOMAIN heaps \ {run.root} : heaps'[p] = heaps[p]
  BY <1>4 DEF EngineInv, HeapsTyped
<1>7. SlotsOf(t) = heaps[run.root] /\ TableSchema(t) = Columns
  BY <1>1, <1>5 DEF SlotsOf, RootOf, TableSchema, Columns, Slots
<1>8. SlotsOf(t)' = heaps'[run.root]
  <2>1. HasSchema(t)' /\ TableRoot(TableId(t))' = run.root
    BY <1>1, <1>3, SchemasStay
  <2>2. SlotsOf(t)' = Slots(TableRoot(TableId(t)))'
    BY <1>1, <2>1 DEF SlotsOf, RootOf
  <2> QED
    BY <1>5, <2>1, <2>2 DEF Slots
<1>9. ASSUME NEW n, n # t PROVE SlotsOf(n)' = SlotsOf(n)
  <2>1. (HasSchema(n)' <=> HasSchema(n)) /\ TableRoot(TableId(n))' = TableRoot(TableId(n))
    BY <1>3, SchemasStay
  <2>2. CASE ~HasSchema(n)
    BY <2>1, <2>2 DEF SlotsOf
  <2>3. CASE HasSchema(n)
    <3>1. SlotsOf(n) = Slots(TableRoot(TableId(n))) /\ SlotsOf(n)' = Slots(TableRoot(TableId(n)))'
      BY <1>1, <2>1, <2>3 DEF SlotsOf, RootOf
    <3>2. TableRoot(TableId(n)) # INVALID_PAGE_ID =>
            TableRoot(TableId(n)) # run.root /\ TableRoot(TableId(n)) \in DOMAIN heaps
      BY <1>9, <2>3, OthersApart
    <3> QED
      BY <1>6, <2>1, <3>1, <3>2 DEF Slots
  <2> QED
    BY <2>2, <2>3
<1> QED
  BY <1>2, <1>3, <1>6, <1>7, <1>8, <1>9, SchemasStay DEF OneChanges, Columns

\* An INSERT gains a row of the table's types, or a row too long is left out.
LEMMA InsertRowShows ==
  ASSUME BitsTyped, TellingInv, CatalogInv', RowsHeld, InsertRow
  PROVE  Tables!ChangeRow(Held, Held') /\ RowsHeld' /\ SetGiven'
<1>1. EngineInv /\ InsertRuns /\ InsertTold /\ UNCHANGED mapVars /\ NextInserts
  BY RunKinds DEF InsertRow, NextInserts, EngineInv, TellingInv
<1>2. PICK page \in FirstPages :
       /\ allocated' = allocated \cup {page}
       /\ \E new \in HeapsWith(Slots(run.root), tuple_serialize(NextValues, Columns)) :
            heaps' = hashmap_put(heaps, page, new)
       /\ run' = [run EXCEPT !.root = page, !.row = @ + 1, !.affected = @ + 1]
  BY DEF InsertRow
<1> DEFINE image == tuple_serialize(NextValues, Columns)
           old == Slots(run.root)
           schema == Columns
           back == tuple_deserialize(image, schema)
<1>3. PICK new \in HeapsWith(old, image) : heaps' = hashmap_put(heaps, page, new)
  BY <1>2
<1>4. IsSlots(old)
  BY <1>1, TableSlots DEF EngineInv, InsertRuns
<1>5. IsSlots(new)
  BY <1>4, SlotsWith
<1>6. PICK t : t = run.table
  OBVIOUS
<1>7. run'.op = "INSERT" /\ run'.table = t /\ run'.root = page
  BY <1>1, <1>2, <1>6 DEF InsertRuns, Record, InsertFields
<1>8. /\ OneChanges(t) /\ t \in DOMAIN name_to_id
      /\ SlotsOf(t) = old /\ SlotsOf(t)' = new /\ TableSchema(t) = schema /\ schema \in Schemas
  BY <1>1, <1>2, <1>3, <1>5, <1>6, <1>7, InsertChangesOne
<1>9. NextValues \in Seq(AllValues)
  BY <1>1, NextTaken, RowTaken
<1>10. image # Gone /\ Tables!Fits(back, schema)
  BY <1>8, <1>9, RowReadBack
<1>11. HoldsRows(old, schema)
  BY <1>8 DEF RowsHeld
<1>12. Tables!OneRow(BagOf(old, schema), BagOf(new, schema), schema) /\ HoldsRows(new, schema)
  <2>1. \E row \in Seq(AllValues) : image = tuple_serialize(row, schema)
    BY <1>9
  <2> HIDE DEF image, old, schema, back
  <2>2. \A row : Count(row, old, schema) \in Nat
    BY <1>4, InBag
  <2>3. CASE new = old
    <3>1. Tables!OneRow(BagOf(old, schema), BagOf(new, schema), schema)
      <4>1. \A row : Count(row, new, schema) =
                    Count(row, old, schema) - (IF row \in {} THEN 1 ELSE 0) + (IF row \in {} THEN 1 ELSE 0)
        BY <2>2, <2>3
      <4> QED
        BY <1>4, <1>5, <4>1, BagsDiffer
    <3> QED
      BY <1>11, <2>3, <3>1
  <2>4. CASE \E k \in 0 .. Len(old) : new = Inserted(old, k, image)
    <3>1. PICK k \in 0 .. Len(old) : new = Inserted(old, k, image)
      BY <2>4
    <3>2. \A row : Count(row, new, schema) = Count(row, old, schema) + (IF back = row THEN 1 ELSE 0)
      BY <1>4, <1>10, <3>1, CountInserted DEF back
    <3>3. GoesIn(new, old, k, image)
      BY <1>4, <3>1, InsertedSlots
    <3>4. back \in RowsIn(new, schema)
      <4>1. Count(back, new, schema) > 0
        BY <2>2, <3>2
      <4> QED
        BY <1>5, <4>1, InBag
    <3>5. \A row : Count(row, new, schema) =
                    Count(row, old, schema) - (IF row \in {} THEN 1 ELSE 0) + (IF row \in {back} THEN 1 ELSE 0)
      BY <2>2, <3>2
    <3>6. Tables!OneRow(BagOf(old, schema), BagOf(new, schema), schema)
      BY <1>4, <1>5, <1>10, <3>4, <3>5, BagsDiffer
    <3>7. HoldsRows(new, schema)
      <4> SUFFICES ASSUME NEW i \in DOMAIN new, new[i] # Gone
                   PROVE  \E row \in Seq(AllValues) : new[i] = tuple_serialize(row, schema)
        BY DEF HoldsRows
      <4>1. i \in 1 .. k \/ i = k + 1 \/ (i - 1 \in k + 1 .. Len(old) /\ i - 1 + 1 = i)
        BY <3>3 DEF GoesIn
      <4>2. CASE i \in 1 .. k
        BY <1>11, <3>3, <4>2 DEF GoesIn, HoldsRows
      <4>3. CASE i = k + 1
        BY <2>1, <3>3, <4>3 DEF GoesIn
      <4>4. CASE i - 1 \in k + 1 .. Len(old) /\ i - 1 + 1 = i
        <5>1. new[i] = old[i - 1] /\ i - 1 \in DOMAIN old
          BY <3>3, <4>4 DEF GoesIn
        <5> QED
          BY <1>11, <5>1 DEF HoldsRows
      <4> QED
        BY <4>1, <4>2, <4>3, <4>4
    <3> QED
      BY <3>6, <3>7
  <2> QED
    BY <1>3, <2>3, <2>4 DEF HeapsWith, Inserted
<1> HIDE DEF image, old, schema, back
<1>13. Tables!ChangeRow(Held, Held') /\ RowsHeld'
  BY <1>8, <1>12, OneHolds
<1> QED
  BY <1>7, <1>13 DEF SetGiven

\* A slot of a table gets another row, or none.
LEMMA SlotShows ==
  ASSUME NEW slots, IsSlots(slots), NEW i \in 1 .. Len(slots), slots[i] # Gone, NEW image, NEW schema,
         HoldsRows(slots, schema),
         image # Gone => /\ Tables!Fits(tuple_deserialize(image, schema), schema)
                         /\ \E row \in Seq(AllValues) : image = tuple_serialize(row, schema)
  PROVE  LET new == [slots EXCEPT ![i] = image]
         IN Tables!OneRow(BagOf(slots, schema), BagOf(new, schema), schema) /\ HoldsRows(new, schema)
<1> DEFINE new == [slots EXCEPT ![i] = image]
           was == tuple_deserialize(slots[i], schema)
           is == tuple_deserialize(image, schema)
           L == {was}
           G == IF image = Gone THEN {} ELSE {is}
<1>1. IsSlots(new)
  BY SlotsSet
<1>2. DOMAIN slots = 1 .. Len(slots) /\ DOMAIN new = 1 .. Len(slots)
  BY SlotsLength
<1>3. new[i] = image /\ \A j \in 1 .. Len(slots) : j # i => new[j] = slots[j]
  BY <1>2
<1>4. was \in RowsIn(slots, schema)
  BY <1>2 DEF RowsIn, RowSlots
<1>5. image # Gone => is \in RowsIn(new, schema)
  BY <1>2, <1>3 DEF RowsIn, RowSlots
<1>6. \A row : Count(row, new, schema) =
                 Count(row, slots, schema) - (IF row \in L THEN 1 ELSE 0) + (IF row \in G THEN 1 ELSE 0)
  <2> TAKE row
  <2>1. Count(row, new, schema) =
           Count(row, slots, schema) - (IF was = row THEN 1 ELSE 0) + (IF image # Gone /\ is = row THEN 1 ELSE 0)
    BY CountSet
  <2>2. (was = row <=> row \in L) /\ (image # Gone /\ is = row <=> row \in G)
    OBVIOUS
  <2> HIDE DEF L, G, was, is, new
  <2> QED
    BY <2>1, <2>2
<1>7. HoldsRows(new, schema)
  BY <1>2, <1>3 DEF HoldsRows
<1> HIDE DEF new
<1>8. (L = {} \/ \E row \in RowsIn(slots, schema) : L = {row}) /\ (G = {} \/ \E row \in RowsIn(new, schema) : G = {row})
      /\ \A row \in G : Tables!Fits(row, schema)
  BY <1>4, <1>5
<1> HIDE DEF was, is, L, G
<1>9. Tables!OneRow(BagOf(slots, schema), BagOf(new, schema), schema)
  BY <1>1, <1>6, <1>8, BagsDiffer
<1> QED
  BY <1>7, <1>9 DEF new

\* The slot a scan stops at holds a row of the table.
LEMMA MatchHolds ==
  ASSUME BitsTyped, EngineInv, ChangeRuns, RowsHeld, NEW i \in NextMatch
  PROVE  LET slots == heaps[run.root]
         IN /\ IsSlots(slots) /\ i \in 1 .. Len(slots) /\ slots[i] # Gone /\ HoldsRows(slots, Columns)
            /\ Columns \in Schemas /\ tuple_deserialize(slots[i], Columns) \in RowsOf(Columns)
<1> DEFINE slots == heaps[run.root]
<1>1. IsSlots(slots) /\ i \in 1 .. Len(slots) /\ Passing(slots[i]) = Boolean(TRUE) /\ run.root \in DOMAIN heaps
  BY NextMatchFacts
<1>2. slots[i] # Gone
  <2>1. Boolean(TRUE) # Boolean(FALSE)
    BY DEF Boolean
  <2> QED
    BY <1>1, <2>1 DEF Passing, Passes
<1>3. HasSchema(run.table) /\ run.op # "INSERT" /\ run.root = TableRoot(TableId(run.table))
  BY DEF ChangeRuns
<1>4. run.root # INVALID_PAGE_ID
  <2>1. allocated \subseteq PageIds /\ DOMAIN heaps \subseteq allocated
    BY DEF EngineInv, CatalogInv, MapsTyped, HeapsTyped
  <2> QED
    BY <1>1, <2>1, CatalogAssumption DEF INVALID_PAGE_ID
<1>5. Columns \in Schemas
  BY <1>3, HasSchemaNamed DEF EngineInv, Columns
<1>6. SlotsOf(run.table) = slots /\ TableSchema(run.table) = Columns
  BY <1>3, <1>4 DEF SlotsOf, TableSchema, RootOf, Slots, Columns
<1>7. HoldsRows(slots, Columns)
  BY <1>6 DEF RowsHeld
<1>8. i \in DOMAIN slots
  BY <1>1, SlotsLength
<1>9. PICK row \in Seq(AllValues) : slots[i] = tuple_serialize(row, Columns)
  BY <1>2, <1>7, <1>8 DEF HoldsRows
<1>10. tuple_deserialize(slots[i], Columns) \in RowsOf(Columns)
  BY <1>5, <1>9, RowReadBack DEF RowsOf
<1> QED
  BY <1>1, <1>2, <1>5, <1>7, <1>10

\* A DELETE loses a row.
LEMMA DeleteRowShows ==
  ASSUME BitsTyped, TellingInv, RowsHeld, DeleteRow
  PROVE  Tables!ChangeRow(Held, Held') /\ RowsHeld' /\ SetGiven'
<1>1. EngineInv /\ ChangeRuns /\ UNCHANGED mapVars
  BY RunKinds DEF DeleteRow, EngineInv, TellingInv, catalogVars
<1>2. PICK i \in NextMatch : heaps' = [heaps EXCEPT ![run.root][i] = Gone] /\ Pass(i, 1)
  BY DEF DeleteRow
<1>3. run.op = "DELETE" /\ run'.op = "DELETE"
  BY <1>1, <1>2 DEF DeleteRow, Pass, ChangeRuns, Record, ChangeFields
<1>4. PICK t : run.table = t
  OBVIOUS
<1>5. /\ OneChanges(t) /\ t \in DOMAIN name_to_id
      /\ SlotsOf(t) = heaps[run.root] /\ SlotsOf(t)' = [heaps[run.root] EXCEPT ![i] = Gone]
      /\ TableSchema(t) = Columns
  BY <1>1, <1>2, <1>3, <1>4, ChangeChangesOne
<1>6. LET slots == heaps[run.root]
      IN IsSlots(slots) /\ i \in 1 .. Len(slots) /\ slots[i] # Gone /\ HoldsRows(slots, Columns)
  BY <1>1, MatchHolds
<1>7. LET slots == heaps[run.root]
          new == [slots EXCEPT ![i] = Gone]
      IN Tables!OneRow(BagOf(slots, Columns), BagOf(new, Columns), Columns) /\ HoldsRows(new, Columns)
  BY <1>6, SlotShows
<1>8. Tables!ChangeRow(Held, Held') /\ RowsHeld'
  BY <1>5, <1>7, OneHolds
<1> QED
  BY <1>3, <1>8 DEF SetGiven

\* An UPDATE loses a row and gains one of the table's types.
LEMMA UpdateRowShows ==
  ASSUME BitsTyped, SetsTyped, TellingInv, RowsHeld, SetGiven, UpdateRow
  PROVE  Tables!ChangeRow(Held, Held') /\ RowsHeld' /\ SetGiven'
<1>1. EngineInv /\ ChangeRuns /\ UNCHANGED mapVars
  BY RunKinds DEF UpdateRow, EngineInv, TellingInv, catalogVars
<1>2. PICK i \in NextMatch :
        /\ ~Fails(Last(NewRow(i)))
        /\ heaps' = [heaps EXCEPT ![run.root][i] = tuple_serialize(NewRow(i), Columns)]
        /\ Pass(i, 1)
  BY DEF UpdateRow
<1> DEFINE image == tuple_serialize(NewRow(i), Columns)
<1>3. run.op = "UPDATE" /\ run'.op = "UPDATE" /\ run'.set = run.set
  BY <1>1, <1>2 DEF UpdateRow, Pass, ChangeRuns, Record, ChangeFields
<1>4. PICK t : run.table = t
  OBVIOUS
<1>5. /\ OneChanges(t) /\ t \in DOMAIN name_to_id
      /\ SlotsOf(t) = heaps[run.root] /\ SlotsOf(t)' = [heaps[run.root] EXCEPT ![i] = image]
      /\ TableSchema(t) = Columns
  BY <1>1, <1>2, <1>3, <1>4, ChangeChangesOne
<1>6. LET slots == heaps[run.root]
      IN /\ IsSlots(slots) /\ i \in 1 .. Len(slots) /\ slots[i] # Gone /\ HoldsRows(slots, Columns)
         /\ Columns \in Schemas /\ tuple_deserialize(slots[i], Columns) \in RowsOf(Columns)
  BY <1>1, MatchHolds
<1>7. NewRow(i) \in Seq(AllValues)
  <2>1. SetTyped(run.set)
    BY <1>3 DEF SetGiven, SetsTyped
  <2>2. NewRow(i) = Assigned(run.set, Columns, tuple_deserialize(heaps[run.root][i], Columns))
    BY DEF NewRow, NewRowOf
  <2>3. NewRow(i) \in RowsOf(Columns)
    BY <1>2, <1>6, <2>1, <2>2, AssignedIs
  <2> QED
    BY <2>3 DEF RowsOf
<1>8. image # Gone /\ Tables!Fits(tuple_deserialize(image, Columns), Columns)
      /\ \E row \in Seq(AllValues) : image = tuple_serialize(row, Columns)
  BY <1>6, <1>7, RowReadBack
<1> HIDE DEF image
<1>9. LET slots == heaps[run.root]
          new == [slots EXCEPT ![i] = image]
      IN Tables!OneRow(BagOf(slots, Columns), BagOf(new, Columns), Columns) /\ HoldsRows(new, Columns)
  BY <1>6, <1>8, SlotShows
<1>10. Tables!ChangeRow(Held, Held') /\ RowsHeld'
  BY <1>5, <1>9, OneHolds
<1> QED
  BY <1>3, <1>10 DEF SetGiven

\* What is there of a table while the maps and the heaps are as they were for it.
LEMMA NameStays ==
  ASSUME run = Idle, run' = Idle, NEW n, HasSchema(n)' <=> HasSchema(n),
         HasSchema(n) => /\ name_to_id'[n] = name_to_id[n]
                         /\ schema_cache'[name_to_id[n]] = schema_cache[name_to_id[n]]
                         /\ table_cache'[name_to_id[n]] = table_cache[name_to_id[n]]
                         /\ TableRoot(TableId(n)) # INVALID_PAGE_ID =>
                              heaps'[TableRoot(TableId(n))] = heaps[TableRoot(TableId(n))]
  PROVE  SlotsOf(n)' = SlotsOf(n) /\ TableSchema(n)' = TableSchema(n)
<1>1. RootOf(n) = TableRoot(TableId(n)) /\ RootOf(n)' = TableRoot(TableId(n))'
  BY DEF RootOf, Idle
<1>2. CASE ~HasSchema(n)
  BY <1>2 DEF SlotsOf, TableSchema
<1>3. CASE HasSchema(n)
  <2>1. TableId(n)' = TableId(n) /\ TableRoot(TableId(n))' = TableRoot(TableId(n))
    BY <1>3 DEF TableId, TableRoot
  <2>2. TableSchema(n)' = TableSchema(n)
    BY <1>3, <2>1 DEF TableSchema, TableId
  <2>3. Slots(RootOf(n))' = Slots(RootOf(n))
    BY <1>1, <1>3, <2>1 DEF Slots
  <2> QED
    BY <1>3, <2>2, <2>3 DEF SlotsOf
<1> QED
  BY <1>2, <1>3

\* A table of which everything stays is held as before.
LEMMA HeldStays ==
  ASSUME NEW n, n \in DOMAIN name_to_id, n \in DOMAIN name_to_id',
         SlotsOf(n)' = SlotsOf(n), TableSchema(n)' = TableSchema(n)
  PROVE  Held'[n] = Held[n]
<1>1. Held[n] = [columns |-> TableSchema(n), rows |-> BagOf(SlotsOf(n), TableSchema(n))]
  BY DEF Held
<1>2. Held'[n] = [columns |-> TableSchema(n)', rows |-> BagOf(SlotsOf(n)', TableSchema(n)')]
  BY DEF Held, BagOf, RowsIn, Count, RowSlots
<1> QED
  BY <1>1, <1>2

\* CREATE TABLE adds an empty table, or none.
LEMMA CreateShows ==
  ASSUME EngineInv, run = Idle, RowsHeld, NEW name \in Names, NEW schema \in Schemas,
         CreateTable(name, schema), UNCHANGED <<heaps, run>>
  PROVE  Quiet \/ (Tables!Create(Held, Held') /\ RowsHeld')
<1>1. CASE UNCHANGED mapVars
  BY <1>1, RunKinds, RootsInCatalog, SchemasStay, StillQuiet DEF mapVars
<1>2. CASE ~UNCHANGED mapVars
  <2> DEFINE tid == id_gen.table
  <2>1. name \notin DOMAIN name_to_id /\ catalog_create_table(name, schema)
    BY <1>2 DEF CreateTable
  <2>2. tid \notin DOMAIN table_cache /\ tid \notin DOMAIN schema_cache
    BY DEF EngineInv, CatalogInv, IdsBelow, MapsTyped, MapsAgree
  <2>3. /\ DOMAIN name_to_id' = DOMAIN name_to_id \cup {name} /\ name_to_id'[name] = tid
        /\ DOMAIN table_cache' = DOMAIN table_cache \cup {tid}
        /\ DOMAIN schema_cache' = DOMAIN schema_cache \cup {tid} /\ schema_cache'[tid] = schema
        /\ table_cache'[tid].root_page_id = INVALID_PAGE_ID
        /\ \A n \in DOMAIN name_to_id : name_to_id'[n] = name_to_id[n]
        /\ \A t \in DOMAIN table_cache : table_cache'[t] = table_cache[t]
        /\ \A t \in DOMAIN schema_cache : schema_cache'[t] = schema_cache[t]
    BY <2>1, <2>2 DEF catalog_create_table, hashmap_put
  <2>4. \A n \in DOMAIN name_to_id : name_to_id[n] \in DOMAIN table_cache
    BY DEF EngineInv, CatalogInv, MapsAgree
  <2> HIDE DEF tid
  <2>5. ASSUME NEW n, n # name PROVE SlotsOf(n)' = SlotsOf(n) /\ TableSchema(n)' = TableSchema(n)
    <3>1. HasSchema(n)' <=> HasSchema(n)
      BY <2>2, <2>3, <2>4, <2>5 DEF HasSchema, Known, TableId
    <3>2. HasSchema(n) => n \in DOMAIN name_to_id /\ name_to_id[n] \in DOMAIN table_cache /\ name_to_id[n] \in DOMAIN schema_cache
      BY DEF HasSchema, Known, TableId
    <3> QED
      BY <2>3, <3>1, <3>2, NameStays
  <2>6. SlotsOf(name)' = <<>> /\ TableSchema(name)' = schema
    <3>1. HasSchema(name)' /\ TableId(name)' = tid
      BY <2>3 DEF HasSchema, Known, TableId
    <3>2. RootOf(name)' = INVALID_PAGE_ID
      BY <2>3, <3>1 DEF RootOf, Idle, TableRoot
    <3> QED
      BY <2>3, <3>1, <3>2 DEF SlotsOf, TableSchema, Slots
  <2>7. RowsHeld'
    <3> SUFFICES ASSUME NEW n PROVE HoldsRows(SlotsOf(n)', TableSchema(n)')
      BY DEF RowsHeld, HoldsRows
    <3>1. HoldsRows(<<>>, TableSchema(n)')
      BY DEF HoldsRows
    <3>2. n # name => HoldsRows(SlotsOf(n)', TableSchema(n)')
      BY <2>5 DEF RowsHeld
    <3> QED
      BY <2>6, <3>1, <3>2
  <2>8. \A n \in DOMAIN name_to_id : Held'[n] = Held[n]
    BY <2>1, <2>3, <2>5, HeldStays
  <2>9. DOMAIN Held = DOMAIN name_to_id /\ DOMAIN Held' = DOMAIN name_to_id \cup {name}
    BY <2>3 DEF Held
  <2>10. Held'[name] = [columns |-> schema, rows |-> BagOf(<<>>, schema)]
    BY <2>3, <2>6 DEF Held, BagOf, RowsIn, Count, RowSlots
  <2>11. BagOf(<<>>, schema) = Tables!EmptyBag
    BY DEF BagOf, RowsIn, RowSlots, Tables!EmptyBag, Tables!SetToBag
  <2>12. schema # <<>>
    BY CatalogAssumption DEF NoSchema
  <2>13. Held'[name].columns # <<>> /\ Held'[name].rows = Tables!EmptyBag
    BY <2>10, <2>11, <2>12
  <2>14. Tables!Create(Held, Held')
    BY <2>1, <2>8, <2>9, <2>13 DEF Tables!Create
  <2> QED
    BY <2>7, <2>14
<1> QED
  BY <1>1, <1>2

\* DROP TABLE removes a table and its rows, or none.
LEMMA DropShows ==
  ASSUME EngineInv, run = Idle, RowsHeld, NEW name, DropTable(name), Forget, UNCHANGED run
  PROVE  Quiet \/ (Tables!Drop(Held, Held') /\ RowsHeld')
<1>1. \A p \in DOMAIN heaps \cap Roots' : heaps'[p] = heaps[p]
  BY DEF Forget, hashmap_remove
<1>2. ASSUME NEW n, HasSchema(n), TableRoot(TableId(n)) # INVALID_PAGE_ID
      PROVE  TableRoot(TableId(n)) \in DOMAIN heaps
  BY <1>2, RootSlots
<1>3. CASE UNCHANGED mapVars
  <2>1. Roots' = Roots
    BY <1>3, SameMaps
  <2>2. ASSUME NEW n PROVE SlotsOf(n)' = SlotsOf(n) /\ TableSchema(n)' = TableSchema(n)
    <3>1. HasSchema(n)' <=> HasSchema(n)
      BY <1>3, SameMaps
    <3>2. HasSchema(n) /\ TableRoot(TableId(n)) # INVALID_PAGE_ID => TableRoot(TableId(n)) \in Roots
      BY DEF Roots, Rooted, HasSchema, Known, TableId
    <3> QED
      BY <1>1, <1>2, <1>3, <2>1, <3>1, <3>2, NameStays DEF mapVars
  <2> QED
    BY <1>3, <2>2 DEF Quiet, mapVars
<1>4. CASE ~UNCHANGED mapVars
  <2> DEFINE tid == TableId(name)
  <2>1. name \in DOMAIN name_to_id /\ catalog_drop_table(name)
    BY <1>4 DEF DropTable
  <2>2. /\ DOMAIN name_to_id' = DOMAIN name_to_id \ {name}
        /\ DOMAIN table_cache' = DOMAIN table_cache \ {tid}
        /\ DOMAIN schema_cache' = DOMAIN schema_cache \ {tid}
        /\ \A n \in DOMAIN name_to_id \ {name} : name_to_id'[n] = name_to_id[n]
        /\ \A t \in DOMAIN table_cache \ {tid} : table_cache'[t] = table_cache[t]
        /\ \A t \in DOMAIN schema_cache \ {tid} : schema_cache'[t] = schema_cache[t]
    BY <2>1 DEF catalog_drop_table, hashmap_remove
  <2>3. \A n \in DOMAIN name_to_id : name_to_id[n] \in DOMAIN table_cache /\ (n # name => name_to_id[n] # tid)
    <3>1. \A n \in DOMAIN name_to_id : \E t \in DOMAIN table_cache : table_cache[t].name = n /\ name_to_id[n] = t
      BY DEF EngineInv, CatalogInv, MapsAgree
    <3> QED
      BY <2>1, <3>1 DEF TableId
  <2> HIDE DEF tid
  <2>4. ASSUME NEW n, n # name PROVE SlotsOf(n)' = SlotsOf(n) /\ TableSchema(n)' = TableSchema(n)
    <3>1. HasSchema(n)' <=> HasSchema(n)
      BY <2>2, <2>3, <2>4 DEF HasSchema, Known, TableId
    <3>2. HasSchema(n) => /\ n \in DOMAIN name_to_id \ {name} /\ name_to_id[n] \in DOMAIN table_cache \ {tid}
                          /\ name_to_id[n] \in DOMAIN schema_cache \ {tid}
      BY <2>3, <2>4 DEF HasSchema, Known, TableId
    <3>3. HasSchema(n) => table_cache'[name_to_id[n]] = table_cache[name_to_id[n]]
      BY <2>2, <3>2
    <3>4. HasSchema(n) /\ TableRoot(TableId(n)) # INVALID_PAGE_ID => TableRoot(TableId(n)) \in Roots'
      BY <2>2, <3>2, <3>3 DEF Roots, Rooted, TableRoot, TableId
    <3>5. HasSchema(n) /\ TableRoot(TableId(n)) # INVALID_PAGE_ID =>
            heaps'[TableRoot(TableId(n))] = heaps[TableRoot(TableId(n))]
      BY <1>1, <1>2, <3>4
    <3> QED
      BY <2>2, <3>1, <3>2, <3>3, <3>5, NameStays
  <2>5. SlotsOf(name)' = <<>>
    BY <2>2 DEF SlotsOf, HasSchema, Known
  <2>6. RowsHeld'
    <3> SUFFICES ASSUME NEW n PROVE HoldsRows(SlotsOf(n)', TableSchema(n)')
      BY DEF RowsHeld, HoldsRows
    <3>1. HoldsRows(<<>>, TableSchema(n)')
      BY DEF HoldsRows
    <3>2. n # name => HoldsRows(SlotsOf(n)', TableSchema(n)')
      BY <2>4 DEF RowsHeld
    <3> QED
      BY <2>5, <3>1, <3>2
  <2>7. \A n \in DOMAIN name_to_id \ {name} : Held'[n] = Held[n]
    BY <2>2, <2>4, HeldStays
  <2>8. DOMAIN Held = DOMAIN name_to_id /\ Held' = [n \in DOMAIN name_to_id \ {name} |-> Held'[n]]
    BY <2>2 DEF Held
  <2>9. Tables!Drop(Held, Held')
    BY <2>1, <2>7, <2>8 DEF Tables!Drop
  <2> QED
    BY <2>6, <2>9
<1> QED
  BY <1>3, <1>4

\* The invariant with what is in the tables, and in the statement that runs.
TypedInv == TellingInv /\ RowsHeld /\ SetGiven

\* A step that changes tables as SqlTables has it, or that no table shows.
Shown == Held' = Held \/ Tables!Create(Held, Held') \/ Tables!Drop(Held, Held') \/ Tables!ChangeRow(Held, Held')

\* A step that no table shows is one of the first kind.
LEMMA QuietShown ==
  ASSUME Quiet, SetGiven', RowsHeld
  PROVE  Shown /\ RowsHeld' /\ SetGiven'
BY QuietHolds DEF Shown

\* execution_engine_execute: a definition changes the tables, a start shows nothing.
LEMMA ExecuteShows ==
  ASSUME TypedInv, NEW s \in Statements, Execute(s)
  PROVE  Shown /\ RowsHeld' /\ SetGiven'
<1>1. run = Idle /\ EngineInv /\ RowsHeld
  BY DEF Execute, Ready, TypedInv, TellingInv
<1>2. run' = run => SetGiven'
  BY <1>1 DEF Idle, SetGiven
<1>3. CASE s.op = "CREATE TABLE" /\ Defines(CreateTable(s.table, s.columns))
  <2>1. s.table \in Names /\ s.columns \in Schemas
    BY <1>3, StatementsAssumption
  <2>2. Quiet \/ (Tables!Create(Held, Held') /\ RowsHeld')
    BY <1>1, <1>3, <2>1, CreateShows DEF Defines
  <2> QED
    BY <1>1, <1>2, <1>3, <2>2, QuietShown DEF Shown, Defines
<1>4. CASE DropTable(s.table) /\ Forget /\ UNCHANGED <<run, alive>>
  <2>1. Quiet \/ (Tables!Drop(Held, Held') /\ RowsHeld')
    BY <1>1, <1>4, DropShows
  <2> QED
    BY <1>1, <1>2, <1>4, <2>1, QuietShown DEF Shown
<1>5. CASE Defines(CreateIndex(s.index, s.table, s.column)) \/ Defines(DropIndex(s.index))
  <2>1. UNCHANGED <<name_to_id, table_cache, schema_cache, heaps, run>>
    BY <1>5 DEF Defines, CreateIndex, DropIndex, catalog_create_index, catalog_drop_index, mapVars
  <2>2. Quiet
    BY <1>1, <2>1, RunKinds, RootsInCatalog, SchemasStay, StillQuiet
  <2> QED
    BY <1>1, <1>2, <2>1, <2>2, QuietShown
<1>6. CASE \/ s.op = "INSERT" /\ StartInsert(s)
           \/ s.op \in {"UPDATE", "DELETE"} /\ StartChange(s)
           \/ Refuse("DB_OK") /\ UNCHANGED <<mapVars, allocated, heaps>>
  BY <1>1, <1>6, StartsQuietly, QuietShown
<1> QED
  BY <1>3, <1>4, <1>5, <1>6 DEF Execute

\* Every step of the engine, action by action.
LEMMA NextShows ==
  ASSUME BitsTyped, SetsTyped, TypedInv, CatalogInv', EngineNext
  PROVE  Shown /\ RowsHeld' /\ SetGiven'
<1>1. TellingInv /\ EngineInv /\ RowsHeld /\ SetGiven
  BY DEF TypedInv, TellingInv
<1>2. CASE \E s \in Statements : Execute(s)
  BY <1>2, ExecuteShows
<1>3. CASE InsertRow
  BY <1>1, <1>3, InsertRowShows DEF Shown
<1>4. CASE InsertEnds
  BY <1>1, <1>4, InsertEndsQuietly, QuietShown
<1>5. CASE InsertFails
  BY <1>1, <1>5, FailsQuietly, QuietShown
<1>6. CASE InsertDies \/ ChangeDies
  BY <1>1, <1>6, EndsQuietly, QuietShown DEF InsertDies, ChangeDies, Die
<1>7. CASE DeleteRow
  BY <1>1, <1>7, DeleteRowShows DEF Shown
<1>8. CASE UpdateRow
  BY <1>1, <1>8, UpdateRowShows DEF Shown
<1>9. CASE UpdatePasses
  <2>1. ChangeRuns
    BY <1>1, <1>9, RunKinds DEF UpdatePasses, EngineInv
  <2> QED
    BY <1>1, <1>9, <2>1, PassesQuietly, QuietShown
<1>10. CASE ChangeEnds
  <2>1. UNCHANGED <<mapVars, heaps>> /\ run' = Idle /\ run.op # "INSERT"
    BY <1>10 DEF ChangeEnds, Finish
  <2> QED
    BY <1>1, <2>1, EndsQuietly, QuietShown
<1> QED
  BY <1>2, <1>3, <1>4, <1>5, <1>6, <1>7, <1>8, <1>9, <1>10 DEF EngineNext

\* Rows of values are all that tables ever hold.
LEMMA RowsOnly ==
  ASSUME BitsTyped, SetsTyped
  PROVE  EngineSpec => []TypedInv
<1>1. EngineInit => RowsHeld /\ SetGiven
  <2> SUFFICES ASSUME EngineInit PROVE RowsHeld /\ SetGiven
    OBVIOUS
  <2>1. \A n : SlotsOf(n) = <<>>
    BY DEF EngineInit, CatalogInit, catalog_init, SlotsOf, HasSchema
  <2>2. SetGiven
    BY DEF EngineInit, Idle, SetGiven
  <2> QED
    BY <2>1, <2>2 DEF RowsHeld, HoldsRows
<1>2. TellingInv /\ TellingInv' /\ RowsHeld /\ SetGiven /\ [EngineNext]_engineVars => (RowsHeld /\ SetGiven)'
  <2> SUFFICES ASSUME TellingInv, TellingInv', RowsHeld, SetGiven, [EngineNext]_engineVars
               PROVE  RowsHeld' /\ SetGiven'
    OBVIOUS
  <2>1. CASE EngineNext
    BY <2>1, NextShows DEF TypedInv, TellingInv, EngineInv
  <2>2. CASE UNCHANGED engineVars
    <3>1. UNCHANGED <<mapVars, heaps>> /\ run' = run
      BY <2>2 DEF engineVars, catalogVars
    <3> QED
      BY <3>1, EndsQuietly, QuietShown
  <2> QED
    BY <2>1, <2>2
<1> QED
  BY <1>1, <1>2, EngineKeepsInvariant, PTL DEF EngineSpec, TypedInv

\* The catalog, the heaps, the bytes of the rows and execution_engine_execute
\* together are what SqlTables promises: each step creates an empty table, drops
\* one with its rows, takes away a row or adds one whose values have the types
\* of its columns, or shows nothing; for any statements, schemas, pages,
\* integers and planner, and any evaluator that yields values or fails.
THEOREM EngineKeepsTables ==
  ASSUME BitsTyped, SetsTyped
  PROVE  EngineSpec => ImplementsTables
<1>1. EngineInit => Tables!TablesInit
  <2> SUFFICES ASSUME EngineInit PROVE Tables!TablesInit
    OBVIOUS
  <2>1. \A n : SlotsOf(n) = <<>> /\ TableSchema(n) = NoSchema
    BY DEF EngineInit, CatalogInit, catalog_init, SlotsOf, TableSchema, HasSchema
  <2>2. BagOf(<<>>, NoSchema) = Tables!EmptyBag
    BY DEF BagOf, RowsIn, RowSlots, Tables!EmptyBag, Tables!SetToBag
  <2>3. DOMAIN name_to_id = SystemTables
    BY DEF EngineInit, CatalogInit, catalog_init, SystemId
  <2> QED
    BY <2>1, <2>2, <2>3 DEF Tables!TablesInit, Held, NoSchema
<1>2. TypedInv /\ TypedInv' /\ [EngineNext]_engineVars => [Tables!TablesNext]_Held
  <2> SUFFICES ASSUME TypedInv, TypedInv', [EngineNext]_engineVars PROVE [Tables!TablesNext]_Held
    OBVIOUS
  <2>1. Shown
    <3>1. CASE EngineNext
      BY <3>1, NextShows DEF TypedInv, TellingInv, EngineInv
    <3>2. CASE UNCHANGED engineVars
      <4>1. UNCHANGED <<mapVars, heaps>> /\ run' = run
        BY <3>2 DEF engineVars, catalogVars
      <4> QED
        BY <4>1, EndsQuietly, QuietShown DEF TypedInv
    <3> QED
      BY <3>1, <3>2
  <2> QED
    BY <2>1 DEF Shown, Tables!TablesNext
<1> QED
  BY <1>1, <1>2, RowsOnly, PTL DEF EngineSpec, ImplementsTables, Tables!TablesSpec
=============================================================================
