------------------------------ MODULE Planner ------------------------------
(***************************************************************************)
(* src/planner: the logical plan of a statement, its translation to a      *)
(* physical plan and the one optimisation, an index lookup for an equality *)
(* with an integer.  A plan is a tree of nodes [op, arg, children].        *)
(*                                                                         *)
(* db is what the planner sees of the catalog: db.tables, a function from  *)
(* the names of tables to [columns, rows, ...] with no columns for a table *)
(* without a schema, and db.indexes, a set of pairs <<table, position of   *)
(* the column>>.                                                           *)
(***************************************************************************)
EXTENDS Expressions, SequencesExt

NoLimit == -1

Scan(table) == Node("SCAN", [table |-> table, predicate |-> NoExpr], <<>>)

\* The columns of a plan's table; none when the catalog has no schema for it.
ColumnsOf(db, table) == IF table \in DOMAIN db.tables THEN db.tables[table].columns ELSE NoSchema

-----------------------------------------------------------------------------
(* plan_select *)

Star == <<Column("*")>>
Calls(list) == SelectSeq(list, LAMBDA e : e.kind = "FUNCTION_CALL")

TablesOf(q) == [i \in DOMAIN q.from |-> q.from[i]] \o [i \in DOMAIN q.joins |-> q.joins[i].table]

\* The tables of FROM and of the joins, from left to right: first the joins,
\* whose kind is kept in no plan an executor reads, then the other tables.
plan_from(q) ==
  IF q.from = <<>> THEN Scan("")
  ELSE LET joined == FoldLeft(LAMBDA p, j : Node("JOIN", j.condition, <<p, Scan(j.table)>>),
                              Scan(q.from[1]), q.joins)
       IN FoldLeft(LAMBDA p, t : Node("JOIN", NoExpr, <<p, Scan(t)>>), joined, Tail(q.from))

FilterOn(expr, p) == IF expr = NoExpr THEN p ELSE Node("FILTER", expr, <<p>>)

\* Mutant of the next definition: the limit is applied below the sort.
plan_select_LimitFirst(q, db) ==
  IF \E i \in DOMAIN TablesOf(q) : TablesOf(q)[i] \notin DOMAIN db.tables THEN NoPlan
  ELSE LET filtered == FilterOn(q.where, plan_from(q))
           limited == IF q.limit = NoLimit THEN filtered
                      ELSE Node("LIMIT", [limit |-> q.limit, offset |-> q.offset], <<filtered>>)
           projected == IF q.list = Star THEN limited ELSE Node("PROJECT", q.list, <<limited>>)
       IN IF q.order = <<>> THEN projected ELSE Node("SORT", q.order, <<projected>>)

\* OFFSET without LIMIT plans no LIMIT node, and is lost.
plan_select(q, db) ==
  LET filtered == FilterOn(q.where, plan_from(q))
      grouped == IF q.group = <<>> /\ Calls(q.list) = <<>> THEN filtered
                 ELSE Node("AGGREGATE", [group |-> q.group, calls |-> Calls(q.list)], <<filtered>>)
      having == FilterOn(q.having, grouped)
      projected == IF q.list = Star THEN having ELSE Node("PROJECT", q.list, <<having>>)
      sorted == IF q.order = <<>> THEN projected ELSE Node("SORT", q.order, <<projected>>)
  IN IF \E i \in DOMAIN TablesOf(q) : TablesOf(q)[i] \notin DOMAIN db.tables THEN NoPlan
     ELSE IF q.limit = NoLimit THEN sorted
     ELSE Node("LIMIT", [limit |-> q.limit, offset |-> q.offset], <<sorted>>)

\* UPDATE and DELETE read the rows they change through a scan of their own.
plan_change(op, table, where, db) ==
  IF table \notin DOMAIN db.tables THEN NoPlan
  ELSE Node(op, table, <<FilterOn(where, Scan(table))>>)

-----------------------------------------------------------------------------
(* planner_plan_physical *)

\* Mutant of the next definition: a filter is never merged.
convert_filter_Kept(expr, child) == Node("FILTER", expr, <<child>>)

\* A filter right above a scan becomes the predicate of the scan.
convert_filter(expr, child) ==
  IF child.op = "SEQ_SCAN" /\ child.arg.predicate = NoExpr
  THEN [child EXCEPT !.arg.predicate = expr]
  ELSE Node("FILTER", expr, <<child>>)

RECURSIVE convert_logical(_)
convert_logical(p) ==
  LET children == [i \in DOMAIN p.children |-> convert_logical(p.children[i])]
  IN CASE p.op = "SCAN" -> [p EXCEPT !.op = "SEQ_SCAN"]
       [] p.op = "FILTER" -> convert_filter(p.arg, children[1])
       [] OTHER -> [p EXCEPT !.children = children]

\* expr compares, for equality, a column with an integer literal.
KeyLookup(expr, columns, position) ==
  /\ expr.kind = "BINARY" /\ expr.op = "="
  /\ \E sides \in {<<expr.left, expr.right>>, <<expr.right, expr.left>>} :
       /\ sides[1].kind = "COLUMN_REF" /\ sides[2].kind = "LITERAL"
       /\ Type(sides[2].value) = "INTEGER"
       /\ schema_find_column(columns, sides[1].column) = position

RECURSIVE optimize_match_index(_, _)
optimize_match_index(p, db) ==
  IF p.op = "SEQ_SCAN"
  THEN IF /\ p.arg.predicate # NoExpr
          /\ \E index \in db.indexes :
               /\ index[1] = p.arg.table
               /\ KeyLookup(p.arg.predicate, ColumnsOf(db, p.arg.table), index[2])
       THEN [p EXCEPT !.op = "INDEX_SCAN"] ELSE p
  ELSE [p EXCEPT !.children = [i \in DOMAIN p.children |-> optimize_match_index(p.children[i], db)]]

planner_plan_physical(p, db) ==
  IF p = NoPlan THEN NoPlan ELSE optimize_match_index(convert_logical(p), db)
=============================================================================
