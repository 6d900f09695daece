------------------------------ MODULE Catalog ------------------------------
(***************************************************************************)
(* The catalog of src/catalog/catalog.c, kept in memory only, and the      *)
(* statements that define: CREATE and DROP of tables and indexes           *)
(* (execute_ddl of src/executor/execution_engine.c).  The four hash maps   *)
(* are partial functions.  Of the pages it is known which were handed out  *)
(* by bpm_new_page; nothing gives one back.                                *)
(***************************************************************************)
EXTENDS Schema, FiniteSets

CONSTANTS
  Names,         \* names of tables
  IndexNames,
  ColumnNames,   \* the columns of CREATE INDEX
  Schemas,       \* the schemas of CREATE TABLE
  PageIds,       \* the pages there can be
  MaxTableId,    \* bounds: the ids given out
  MaxIndexId

INVALID_PAGE_ID == -1

SystemTables == {"__tables", "__columns", "__indexes"}
SystemId == [n \in SystemTables |->
               CASE n = "__tables" -> 0 [] n = "__columns" -> 1 [] OTHER -> 2]

ASSUME CatalogAssumption ==
  /\ SystemTables \subseteq Names
  /\ NoSchema \notin Schemas
  /\ Schemas \subseteq Seq([name : ColumnNames, type : ColumnTypes, max_length : Nat])
  /\ PageIds \subseteq Nat
  /\ MaxTableId \in Nat /\ MaxIndexId \in Nat

VARIABLES
  name_to_id,    \* name -> table id
  table_cache,   \* table id -> [name, root_page_id, type]
  schema_cache,  \* table id -> schema
  index_cache,   \* index id -> [name, table_id, column_id, root_page_id]
  id_gen,        \* [table, index]: the next ids
  allocated,     \* the pages handed out
  answer         \* [rc, affected] of the last statement

mapVars == <<name_to_id, table_cache, schema_cache, index_cache, id_gen>>
catalogVars == <<mapVars, allocated, answer>>

Said(rc) == [rc |-> rc, affected |-> 0]

-----------------------------------------------------------------------------
(* hashmap.c *)

hashmap_put(map, key, value) ==
  [k \in DOMAIN map \cup {key} |-> IF k = key THEN value ELSE map[k]]
hashmap_remove(map, keys) == [k \in DOMAIN map \ keys |-> map[k]]

-----------------------------------------------------------------------------
(* Lookups *)

\* catalog_get_table, catalog_get_schema of a name.
Known(name) == name \in DOMAIN name_to_id /\ name_to_id[name] \in DOMAIN table_cache
TableId(name) == name_to_id[name]
HasSchema(name) == Known(name) /\ TableId(name) \in DOMAIN schema_cache

catalog_get_table_indexes(tid) == {iid \in DOMAIN index_cache : index_cache[iid].table_id = tid}
IndexesNamed(name) == {iid \in DOMAIN index_cache : index_cache[iid].name = name}

-----------------------------------------------------------------------------
(* Changes *)

catalog_init ==
  /\ name_to_id = SystemId
  /\ table_cache = [tid \in 0 .. 2 |->
       [name |-> CHOOSE n \in SystemTables : SystemId[n] = tid,
        root_page_id |-> INVALID_PAGE_ID, type |-> "system"]]
  /\ schema_cache = [tid \in {} |-> NoSchema]
  /\ index_cache = [iid \in {} |-> 0]
  /\ id_gen = [table |-> 3, index |-> 1]

catalog_create_table(name, schema) ==
  LET tid == id_gen.table
  IN /\ name_to_id' = hashmap_put(name_to_id, name, tid)
     /\ table_cache' = hashmap_put(table_cache, tid,
          [name |-> name, root_page_id |-> INVALID_PAGE_ID, type |-> "user"])
     /\ schema_cache' = hashmap_put(schema_cache, tid, schema)
     /\ id_gen' = [id_gen EXCEPT !.table = tid + 1]
     /\ UNCHANGED index_cache

\* Mutant of the next definition: the indexes of the table are left.
catalog_drop_table_KeepsIndexes(name) ==
  /\ table_cache' = hashmap_remove(table_cache, {TableId(name)})
  /\ name_to_id' = hashmap_remove(name_to_id, {name})
  /\ schema_cache' = hashmap_remove(schema_cache, {TableId(name)})
  /\ UNCHANGED <<index_cache, id_gen>>

\* The pages of the table and of its indexes stay where they are.
catalog_drop_table(name) ==
  LET tid == TableId(name)
  IN /\ index_cache' = hashmap_remove(index_cache, catalog_get_table_indexes(tid))
     /\ table_cache' = hashmap_remove(table_cache, {tid})
     /\ name_to_id' = hashmap_remove(name_to_id, {name})
     /\ schema_cache' = hashmap_remove(schema_cache, {tid})
     /\ UNCHANGED id_gen

catalog_update_root_page(tid, page) ==
  /\ table_cache' = IF tid \in DOMAIN table_cache
                    THEN [table_cache EXCEPT ![tid].root_page_id = page] ELSE table_cache
  /\ UNCHANGED <<name_to_id, schema_cache, index_cache, id_gen>>

catalog_create_index(name, tid, column, page) ==
  LET iid == id_gen.index
  IN /\ index_cache' = hashmap_put(index_cache, iid,
          [name |-> name, table_id |-> tid, column_id |-> column, root_page_id |-> page])
     /\ id_gen' = [id_gen EXCEPT !.index = iid + 1]
     /\ UNCHANGED <<name_to_id, table_cache, schema_cache>>

catalog_drop_index(iid) ==
  /\ index_cache' = hashmap_remove(index_cache, {iid})
  /\ UNCHANGED <<name_to_id, table_cache, schema_cache, id_gen>>

-----------------------------------------------------------------------------
(* execute_ddl *)

CreateTable(name, schema) ==
  \/ /\ name \in DOMAIN name_to_id
     /\ answer' = Said("DB_DUPLICATE_KEY")
     /\ UNCHANGED <<mapVars, allocated>>
  \/ /\ name \notin DOMAIN name_to_id
     /\ id_gen.table <= MaxTableId
     /\ catalog_create_table(name, schema)
     /\ answer' = Said("DB_OK")
     /\ UNCHANGED allocated

\* A system table can be dropped, and its name then be taken.
DropTable(name) ==
  \/ /\ name \notin DOMAIN name_to_id
     /\ answer' = Said("DB_UNKNOWN_TABLE")
     /\ UNCHANGED <<mapVars, allocated>>
  \/ /\ name \in DOMAIN name_to_id
     /\ catalog_drop_table(name)
     /\ answer' = Said("DB_OK")
     /\ UNCHANGED allocated

\* The first reason to refuse a CREATE INDEX, "DB_OK" when there is none.
IndexVerdict(index, table, column) ==
  IF ~HasSchema(table) THEN "DB_UNKNOWN_TABLE"
  ELSE IF schema_find_column(schema_cache[TableId(table)], column) = 0 THEN "DB_UNKNOWN_COLUMN"
  ELSE IF IndexesNamed(index) # {} THEN "DB_DUPLICATE_KEY"
  ELSE "DB_OK"

\* The page comes first, and is lost when the rest fails.  It is left as it
\* came; no row ever goes into the index.
CreateIndex(index, table, column) ==
  \/ /\ allocated = PageIds
     /\ answer' = Said("DB_OUT_OF_MEMORY")
     /\ UNCHANGED <<mapVars, allocated>>
  \/ \E page \in PageIds \ allocated :
       /\ allocated' = allocated \cup {page}
       /\ answer' = Said(IndexVerdict(index, table, column))
       /\ \/ /\ IndexVerdict(index, table, column) # "DB_OK"
             /\ UNCHANGED mapVars
          \/ /\ IndexVerdict(index, table, column) = "DB_OK"
             /\ id_gen.index <= MaxIndexId
             /\ catalog_create_index(index, TableId(table),
                  schema_find_column(schema_cache[TableId(table)], column), page)

DropIndex(index) ==
  \/ /\ IndexesNamed(index) = {}
     /\ answer' = Said("DB_UNKNOWN_TABLE")
     /\ UNCHANGED <<mapVars, allocated>>
  \/ \E iid \in IndexesNamed(index) :
       /\ catalog_drop_index(iid)
       /\ answer' = Said("DB_OK")
       /\ UNCHANGED allocated

\* A heap takes its first page while an INSERT runs.
FirstPage ==
  \E page \in PageIds \ allocated :
    /\ allocated' = allocated \cup {page}
    /\ UNCHANGED <<mapVars, answer>>

\* The pages the catalog says something starts on, and what does.
TableRoot(tid) == table_cache[tid].root_page_id
Rooted == {tid \in DOMAIN table_cache : TableRoot(tid) # INVALID_PAGE_ID}
Roots == {TableRoot(tid) : tid \in Rooted} \cup {index_cache[iid].root_page_id : iid \in DOMAIN index_cache}

\* At the end of the INSERT the page goes into the catalog.
RootSynced(name) ==
  /\ HasSchema(name) /\ TableRoot(TableId(name)) = INVALID_PAGE_ID
  /\ \E page \in allocated \ Roots : catalog_update_root_page(TableId(name), page)
  /\ answer' \in [rc : {"DB_OK"}, affected : Nat]
  /\ UNCHANGED allocated

CatalogInit == catalog_init /\ allocated = {} /\ answer = Said("DB_OK")

\* Every use made of the catalog; module Engine has the statements that read
\* and change rows.
CatalogNext ==
  \/ \E name \in Names, schema \in Schemas : CreateTable(name, schema)
  \/ \E name \in Names : DropTable(name) \/ RootSynced(name)
  \/ \E index \in IndexNames, table \in Names, column \in ColumnNames : CreateIndex(index, table, column)
  \/ \E index \in IndexNames : DropIndex(index)
  \/ FirstPage

CatalogSpec == CatalogInit /\ [][CatalogNext]_<<mapVars, allocated>>

-----------------------------------------------------------------------------
(* Properties *)

\* The four maps of catalog.c go together after any creates and drops: a name
\* leads to the table that bears it, user tables and no others have a schema,
\* an index is on a column of a table that exists, no two have one name.
MapsAgree ==
  /\ DOMAIN name_to_id = {table_cache[tid].name : tid \in DOMAIN table_cache}
  /\ \A tid \in DOMAIN table_cache : name_to_id[table_cache[tid].name] = tid
  /\ DOMAIN schema_cache = {tid \in DOMAIN table_cache : table_cache[tid].type = "user"}
  /\ \A iid \in DOMAIN index_cache :
        /\ index_cache[iid].table_id \in DOMAIN schema_cache
        /\ index_cache[iid].column_id \in DOMAIN schema_cache[index_cache[iid].table_id]
        /\ \A jid \in DOMAIN index_cache : index_cache[iid].name = index_cache[jid].name => iid = jid

\* No page is the start of two tables or indexes, whatever was dropped before.
RootsApart ==
  /\ Roots \subseteq allocated
  /\ \A tid, uid \in Rooted : TableRoot(tid) = TableRoot(uid) => tid = uid
  /\ \A iid, jid \in DOMAIN index_cache :
        index_cache[iid].root_page_id = index_cache[jid].root_page_id => iid = jid
  /\ \A tid \in Rooted, iid \in DOMAIN index_cache : TableRoot(tid) # index_cache[iid].root_page_id

CatalogConsistent == MapsAgree /\ RootsApart
=============================================================================
