------------------------------- MODULE Engine -------------------------------
(***************************************************************************)
(* The execution engine of src/executor/execution_engine.c between a       *)
(* caller and the tables: statements that define (module Catalog) and the  *)
(* INSERT, UPDATE and DELETE executors, one action for each row they       *)
(* insert, change or pass over.  A statement runs to its end before the    *)
(* next; SELECT changes nothing and is in module Query.                    *)
(*                                                                         *)
(* A heap is the sequence of its slots, in the order of a scan, under the  *)
(* page it starts on (module Heap has the pages): an insert may put a row  *)
(* anywhere in it, whether a row that has grown fits its page is open, and *)
(* an insert may fail for want of a frame or a page.                       *)
(*                                                                         *)
(* The evaluator of expressions and the planner are parameters here;       *)
(* modules Expressions and Planner have them.                              *)
(***************************************************************************)
EXTENDS Catalog, Tuples, Syntax

CONSTANTS
  Evaluate(_, _, _),    \* expr_evaluate of an expression, a tuple and a schema
  Plan(_, _, _, _),     \* the physical plan for an operation, a table, a
                        \* condition and what the planner sees of the catalog
  Statements,    \* the statements given to execution_engine_execute
  RowRoom,       \* the bytes an empty page has for one row
  MaxSlots       \* bound: slots of a heap

\* The names, schemas and columns in statements are those of the catalog; a
\* row of VALUES has at least one expression, and each has a value or fails.
ASSUME StatementsAssumption ==
  \A s \in Statements :
    /\ s.op \in {"CREATE TABLE", "DROP TABLE", "CREATE INDEX"} => s.table \in Names
    /\ s.op = "CREATE TABLE" => s.columns \in Schemas
    /\ s.op = "CREATE INDEX" => s.column \in ColumnNames
    /\ s.op \in {"CREATE INDEX", "DROP INDEX"} => s.index \in IndexNames
    /\ s.op = "UPDATE" => s.set \in Seq(ToSet(s.set))
    /\ s.op = "INSERT" =>
         LET exprs == UNION {ToSet(s.rows[k]) : k \in DOMAIN s.rows}
         IN /\ s.rows \in Seq(Seq(exprs) \ {<<>>})
            /\ \A e \in exprs : LET v == Evaluate(e, NoTuple, NoSchema) IN v \in AllValues \/ Fails(v)

ASSUME RoomAssumption == RowRoom \in Nat

VARIABLES
  heaps,         \* first page -> sequence of serialized rows or Gone, for the
                 \* pages a table starts on
  run,           \* the INSERT, UPDATE or DELETE under way, or Idle
  alive          \* the process has not ended

engineVars == <<catalogVars, heaps, run, alive>>

Gone == <<>>
Idle == [op |-> "NONE"]

Slots(root) == IF root = INVALID_PAGE_ID THEN <<>> ELSE heaps[root]
Ready == run = Idle

\* What the planner sees of the catalog.
Db ==
  [tables |-> [n \in DOMAIN name_to_id |->
                 [columns |-> IF HasSchema(n) THEN schema_cache[TableId(n)] ELSE NoSchema]],
   indexes |-> {<<table_cache[index_cache[i].table_id].name, index_cache[i].column_id>> :
                  i \in DOMAIN index_cache}]

Awaited == Said("")
Refuse(rc) == answer' = Said(rc) /\ run' = Idle /\ alive' = alive

\* The end of a statement: always DB_OK, however its executor stopped.
Finish ==
  /\ answer' = [rc |-> "DB_OK", affected |-> run.affected]
  /\ run' = Idle
  /\ UNCHANGED alive

\* The process ends in the middle of a statement and answers nothing.
Die == alive' = FALSE /\ answer' = Awaited /\ UNCHANGED <<mapVars, allocated, heaps, run>>

-----------------------------------------------------------------------------
(* INSERT: insert_executor.c and the special case of execute_dml *)

StartInsert(s) ==
  /\ IF ~Known(s.table) THEN Refuse("DB_INTERNAL_ERROR")
     ELSE IF ~HasSchema(s.table) THEN Refuse("DB_UNKNOWN_TABLE")
     ELSE LET root == TableRoot(TableId(s.table))
          IN /\ Len(Slots(root)) + Len(s.rows) <= MaxSlots
             \* A value without a column is cast to a type beyond the schema.
             /\ \A k \in DOMAIN s.rows : Len(s.rows[k]) <= Len(schema_cache[TableId(s.table)])
             /\ run' = [op |-> "INSERT", table |-> s.table, rows |-> s.rows, row |-> 0, failed |-> FALSE,
                        root |-> root, before |-> Slots(root), affected |-> 0]
             /\ answer' = Awaited /\ UNCHANGED alive
  /\ UNCHANGED <<mapVars, allocated, heaps>>

\* Mutant of the next definition: no value is cast.
InsertValue_Uncast(e, type) == Evaluate(e, NoTuple, NoSchema)

\* A value takes the type of its column; NULL stays, in a NOT NULL column too.
InsertValue(e, type) ==
  LET v == Evaluate(e, NoTuple, NoSchema)
  IN IF Fails(v) THEN v ELSE value_cast_to(v, type)

\* The values of a row up to the first that fails.  A list of columns before
\* VALUES is not looked at: values go to the columns in their order.
RowValues(exprs, schema) ==
  LET values == [i \in DOMAIN exprs |-> InsertValue(exprs[i], schema[i].type)]
      failing == {i \in DOMAIN values : Fails(values[i])}
  IN IF failing = {} THEN values
     ELSE SubSeq(values, 1, CHOOSE i \in failing : \A j \in failing : i <= j)

Columns == schema_cache[TableId(run.table)]
NextValues == RowValues(run.rows[run.row + 1], Columns)

\* The heap with one more row, as a set; bpm_heap_insert answers DB_OK for a
\* row no page holds, and does not add it.
HeapsWith(slots, image) ==
  IF Len(image) > RowRoom THEN {slots}
  ELSE {SubSeq(slots, 1, k) \o <<image>> \o SubSeq(slots, k + 1, Len(slots)) : k \in 0 .. Len(slots)}

\* Texts are as long as they like, the buffer for the row is not: whether
\* writing past its end is noticed or not is open.
Overruns(image) == Len(image) > schema_max_tuple_size(Columns)

\* Mutant of the next definition: only pages of tables count as taken.
FirstPages_OfTables ==
  IF run.root # INVALID_PAGE_ID THEN {run.root} ELSE PageIds \ {TableRoot(tid) : tid \in Rooted}

\* ensure_first_page: the pages the heap may start on.
FirstPages == IF run.root # INVALID_PAGE_ID THEN {run.root} ELSE PageIds \ allocated

\* There is a next row and its values can be had.
NextInserts ==
  run.op = "INSERT" /\ ~run.failed /\ run.row < Len(run.rows) /\ ~Fails(Last(NextValues))

InsertRow ==
  /\ NextInserts
  /\ \E page \in FirstPages :
       /\ allocated' = allocated \cup {page}
       /\ \E slots \in HeapsWith(Slots(run.root), tuple_serialize(NextValues, Columns)) :
            heaps' = hashmap_put(heaps, page, slots)
       /\ run' = [run EXCEPT !.root = page, !.row = @ + 1, !.affected = @ + 1]
  /\ UNCHANGED <<mapVars, answer, alive>>

\* bpm_heap_insert fails, the first page having been made or not.
InsertFails ==
  /\ NextInserts
  /\ \E page \in FirstPages \cup {run.root} :
       /\ allocated' = allocated \cup ({page} \ {INVALID_PAGE_ID})
       /\ heaps' = IF page = run.root THEN heaps ELSE hashmap_put(heaps, page, <<>>)
       /\ run' = [run EXCEPT !.root = page, !.failed = TRUE]
  /\ UNCHANGED <<mapVars, answer, alive>>

\* Mutant of the next definition: the first page stays out of the catalog.
RootSync_Never(root) == UNCHANGED mapVars

\* Only a table without a first page is given one.
RootSync(root) ==
  IF root # INVALID_PAGE_ID /\ TableRoot(TableId(run.table)) = INVALID_PAGE_ID
  THEN catalog_update_root_page(TableId(run.table), root)
  ELSE UNCHANGED mapVars

\* All rows are in, or the next has failed.
InsertEnds ==
  /\ run.op = "INSERT"
  /\ IF run.failed \/ run.row = Len(run.rows) THEN TRUE ELSE Type(Last(NextValues)) = "ERROR"
  /\ RootSync(run.root)
  /\ Finish
  /\ UNCHANGED <<allocated, heaps>>

InsertDies ==
  /\ run.op = "INSERT" /\ ~run.failed /\ run.row < Len(run.rows)
  /\ \/ Last(NextValues) = Dies
     \/ ~Fails(Last(NextValues)) /\ Overruns(tuple_serialize(NextValues, Columns))
  /\ Die

-----------------------------------------------------------------------------
(* UPDATE and DELETE: update_executor.c, delete_executor.c over a scan *)

\* A lookup in an index has no executor: the one above it runs without a child
\* and ends the process.
StartChange(s) ==
  \E plan \in {Plan(s.op, s.table, s.where, Db)} :
    IF plan = NoPlan \/ ~HasSchema(s.table)
    THEN Refuse("DB_INTERNAL_ERROR") /\ UNCHANGED <<mapVars, allocated, heaps>>
    ELSE IF plan.children[1].op # "SEQ_SCAN" THEN Die
    ELSE LET root == TableRoot(TableId(s.table))
         IN /\ run' = [op |-> s.op, table |-> s.table, root |-> root, slot |-> 0,
                       set |-> IF s.op = "UPDATE" THEN s.set ELSE <<>>,
                       predicate |-> plan.children[1].arg.predicate,
                       before |-> Slots(root), affected |-> 0]
            /\ answer' = Awaited /\ UNCHANGED <<mapVars, allocated, heaps, alive>>

\* seq_scan_next: the verdict of the predicate on a slot.
Passes(predicate, schema, image) ==
  IF image = Gone THEN Boolean(FALSE)
  ELSE IF predicate = NoExpr THEN Boolean(TRUE)
  ELSE Evaluate(predicate, tuple_deserialize(image, schema), schema)
Passing(image) == Passes(run.predicate, Columns, image)

\* The slot the scan stops at next: the first that passes, or is fatal.
NextSlot ==
  LET stops == {i \in run.slot + 1 .. Len(Slots(run.root)) :
                  Passing(heaps[run.root][i]) \in {Boolean(TRUE), Dies}}
  IN {i \in stops : \A j \in stops : i <= j}
NextMatch == {i \in NextSlot : Passing(heaps[run.root][i]) # Dies}

\* The row with the assignments applied: each is evaluated over the old row and
\* none is cast; it ends at the first that fails.
Assigned(set, schema, old) ==
  LET column(k) == schema_find_column(schema, set[k].column)
      value(k) == IF column(k) = 0 THEN Error(DB_UNKNOWN_COLUMN) ELSE Evaluate(set[k].value, old, schema)
      new[k \in 0 .. Len(set)] ==
        IF k = 0 THEN old
        ELSE IF Fails(Last(new[k - 1])) THEN new[k - 1]
        ELSE IF Fails(value(k)) THEN <<value(k)>>
        ELSE [new[k - 1] EXCEPT ![column(k)] = value(k)]
  IN new[Len(set)]
NewRowOf(image) == Assigned(run.set, Columns, tuple_deserialize(image, Columns))
NewRow(i) == NewRowOf(heaps[run.root][i])

Pass(i, count) == run' = [run EXCEPT !.slot = i, !.affected = @ + count]

\* Mutant of the next definition: the slots after a deleted one move up.
DeleteRow_Compacts ==
  /\ run.op = "DELETE"
  /\ \E i \in NextMatch :
       /\ heaps' = [heaps EXCEPT ![run.root] = SubSeq(@, 1, i - 1) \o SubSeq(@, i + 1, Len(@))]
       /\ Pass(i, 1)
  /\ UNCHANGED <<catalogVars, alive>>

\* The slot stays, empty.
DeleteRow ==
  /\ run.op = "DELETE"
  /\ \E i \in NextMatch : heaps' = [heaps EXCEPT ![run.root][i] = Gone] /\ Pass(i, 1)
  /\ UNCHANGED <<catalogVars, alive>>

UpdateRow ==
  /\ run.op = "UPDATE"
  /\ \E i \in NextMatch : \E new \in {NewRow(i)} :
       /\ ~Fails(Last(new))
       /\ \E image \in {tuple_serialize(new, Columns)} :
            /\ Len(image) <= Len(heaps[run.root][i]) \/ Len(image) <= RowRoom
            /\ heaps' = [heaps EXCEPT ![run.root][i] = image]
       /\ Pass(i, 1)
  /\ UNCHANGED <<catalogVars, alive>>

\* A row that has grown and does not fit its page is passed over.
UpdatePasses ==
  /\ run.op = "UPDATE"
  /\ \E i \in NextMatch : \E new \in {NewRow(i)} :
       /\ ~Fails(Last(new))
       /\ Len(tuple_serialize(new, Columns)) > Len(heaps[run.root][i])
       /\ Pass(i, 0)
  /\ UNCHANGED <<catalogVars, heaps, alive>>

\* No row is left, or an assignment fails.
ChangeEnds ==
  /\ run.op \in {"UPDATE", "DELETE"}
  /\ \/ NextSlot = {}
     \/ \E i \in NextMatch : Type(Last(NewRow(i))) = "ERROR"
  /\ Finish
  /\ UNCHANGED <<mapVars, allocated, heaps>>

ChangeDies ==
  /\ run.op \in {"UPDATE", "DELETE"}
  /\ \/ NextSlot # NextMatch
     \/ \E i \in NextMatch : \E new \in {NewRow(i)} :
          IF Fails(Last(new)) THEN Last(new) = Dies
          ELSE run.op = "UPDATE" /\ Overruns(tuple_serialize(new, Columns))
  /\ Die

-----------------------------------------------------------------------------
(* execution_engine_execute *)

Defines(ddl) == ddl /\ UNCHANGED <<heaps, run, alive>>

\* The rows of a dropped table stay in pages that nothing leads to any more.
Forget == heaps' = hashmap_remove(heaps, DOMAIN heaps \ Roots')

Execute(s) ==
  /\ Ready
  /\ \/ s.op = "CREATE TABLE" /\ Defines(CreateTable(s.table, s.columns))
     \/ s.op = "DROP TABLE" /\ DropTable(s.table) /\ Forget /\ UNCHANGED <<run, alive>>
     \/ s.op = "CREATE INDEX" /\ Defines(CreateIndex(s.index, s.table, s.column))
     \/ s.op = "DROP INDEX" /\ Defines(DropIndex(s.index))
     \/ s.op = "INSERT" /\ StartInsert(s)
     \/ s.op \in {"UPDATE", "DELETE"} /\ StartChange(s)
     \* BEGIN, COMMIT, ROLLBACK and SET ISOLATION do nothing.
     \/ s.op = "ROLLBACK" /\ Refuse("DB_OK") /\ UNCHANGED <<mapVars, allocated, heaps>>

EngineInit ==
  /\ CatalogInit
  /\ heaps = [p \in {} |-> <<>>]
  /\ run = Idle
  /\ alive = TRUE

EngineNext ==
  /\ alive
  /\ \/ \E s \in Statements : Execute(s)
     \/ InsertRow \/ InsertEnds \/ InsertFails \/ InsertDies
     \/ DeleteRow \/ UpdateRow \/ UpdatePasses \/ ChangeEnds \/ ChangeDies

EngineSpec == EngineInit /\ [][EngineNext]_engineVars

-----------------------------------------------------------------------------
(* Properties *)

\* The statements use the catalog as module Catalog says, so that what is
\* proved there holds of the engine.
UsesCatalog == CatalogSpec

\* The rows in a sequence of slots, and how often one is there.
RowSlots(slots) == {i \in DOMAIN slots : slots[i] # Gone}
RowsIn(slots, schema) == {tuple_deserialize(slots[i], schema) : i \in RowSlots(slots)}
Count(row, slots, schema) ==
  Cardinality({i \in RowSlots(slots) : tuple_deserialize(slots[i], schema) = row})
BagOf(slots, schema) == [row \in RowsIn(slots, schema) |-> Count(row, slots, schema)]

\* The root of a table: the one in the catalog, but for the table of a running
\* INSERT.
RootOf(n) == IF run.op = "INSERT" /\ run.table = n THEN run.root ELSE TableRoot(TableId(n))

\* What the tables hold: their columns and their rows.
TableSchema(n) == IF HasSchema(n) THEN schema_cache[TableId(n)] ELSE NoSchema
SlotsOf(n) == IF HasSchema(n) THEN Slots(RootOf(n)) ELSE <<>>
Held ==
  [n \in DOMAIN name_to_id |-> [columns |-> TableSchema(n), rows |-> BagOf(SlotsOf(n), TableSchema(n))]]

\* The engine keeps tables of rows as SQL has them, through catalog, heaps and
\* the bytes rows are stored in: a statement adds, changes or removes rows of
\* the table it names, one at a time, and no row appears, disappears or
\* changes its type otherwise.
Tables == INSTANCE SqlTables WITH SystemNames <- SystemTables, tables <- Held

ImplementsTables == Tables!TablesSpec

\* The row that a row of VALUES stands for: its values cast to the types of
\* the columns, and NULL where there is none.
GivenRow(k) ==
  [i \in DOMAIN Columns |->
     IF i > Len(run.rows[k]) THEN Null
     ELSE value_cast_to(Evaluate(run.rows[k][i], NoTuple, NoSchema), Columns[i].type)]

\* While an INSERT runs, the table holds what it held and the rows given so
\* far, each as given, whatever the slots they went to and the bytes they are
\* stored in; the rows are counted.  (A row too long for a page is counted as
\* well.)
InsertExact ==
  run.op = "INSERT" =>
    LET now == Slots(run.root)
        due(row) == Cardinality({k \in 1 .. run.row : GivenRow(k) = row})
        rows == RowsIn(now, Columns) \cup RowsIn(run.before, Columns) \cup {GivenRow(k) : k \in 1 .. run.row}
    IN /\ run.affected = run.row
       /\ \A row \in rows :
            Len(tuple_serialize(row, Columns)) <= RowRoom =>
              Count(row, now, Columns) = Count(row, run.before, Columns) + due(row)

\* While an UPDATE or DELETE runs, each row behind the scan that the condition
\* chooses has been changed once, from what it was before the statement, and
\* the others not at all, though the scan reads the pages being changed; only
\* rows that grow may have been passed over.  The changes are counted.
ChangeExact ==
  run.op \in {"UPDATE", "DELETE"} =>
    LET slots == Slots(run.root)
        chosen(i) == Passing(run.before[i]) = Boolean(TRUE)
        target(i) == IF run.op = "DELETE" THEN Gone ELSE tuple_serialize(NewRowOf(run.before[i]), Columns)
        untouched(i) == slots[i] = run.before[i]
    IN /\ DOMAIN slots = DOMAIN run.before
       /\ \A i \in DOMAIN slots :
            IF i > run.slot \/ ~chosen(i) THEN untouched(i)
            ELSE slots[i] = target(i) \/ (untouched(i) /\ Len(target(i)) > Len(slots[i]))
       /\ run.affected <= Cardinality({i \in 1 .. run.slot : chosen(i)})
       /\ run.affected >= Cardinality({i \in 1 .. run.slot : ~untouched(i)})
=============================================================================
