----------------------------- MODULE Executors -----------------------------
(***************************************************************************)
(* The query operators of src/executor and build_executor of               *)
(* execution_engine.c.  An operator is a stream: the rows its next answers *)
(* in turn, up to the end.  A row whose evaluation ends the process is     *)
(* Death, the last of its stream; an operator that stops earlier never     *)
(* gets there.                                                             *)
(***************************************************************************)
EXTENDS Planner, FiniteSets, TLC

Death == <<Dies>>

\* A stream that ends with the first Death in it.
Cut(s) ==
  LET deaths == {i \in DOMAIN s : s[i] = Death}
  IN IF deaths = {} THEN s ELSE SubSeq(s, 1, CHOOSE i \in deaths : \A j \in deaths : i <= j)

\* The rows for which these verdicts are TRUE.
Kept(s, verdicts) ==
  LET seen == Cut([i \in DOMAIN s |-> IF s[i] = Death \/ verdicts[i] = Dies THEN Death ELSE s[i]])
      kept == SelectSeq([i \in DOMAIN seen |-> i],
                        LAMBDA i : seen[i] = Death \/ verdicts[i] = Boolean(TRUE))
  IN [n \in DOMAIN kept |-> seen[kept[n]]]

\* The rows of a stream for which a condition is TRUE.
Filtered(s, expr, schema) ==
  IF expr = NoExpr THEN s
  ELSE Kept(s, [i \in DOMAIN s |-> IF s[i] = Death THEN Dies ELSE expr_evaluate(expr, s[i], schema)])

-----------------------------------------------------------------------------
(* build_executor *)

\* No executor for an index scan, nor for a table that is unknown or has no
\* schema; the operators above inherit that.
RECURSIVE Buildable(_, _)
Buildable(p, db) ==
  CASE p.op = "SEQ_SCAN" -> p.arg.table \in DOMAIN db.tables /\ ColumnsOf(db, p.arg.table) # NoSchema
    [] p.op = "INDEX_SCAN" -> FALSE
    [] OTHER -> \A i \in DOMAIN p.children : Buildable(p.children[i], db)

\* A projected column keeps its name; a computed one is called after its place.
ProjectedName(list, i) ==
  IF list[i].kind = "COLUMN_REF" THEN list[i].column ELSE "col" \o ToString(i - 1)
ProjectedType(list, i, schema) ==
  LET k == IF list[i].kind = "COLUMN_REF" THEN schema_find_column(schema, list[i].column) ELSE 0
  IN IF k = 0 THEN "INTEGER" ELSE schema[k].type

\* The output schema; the one of an aggregate is NULL.
RECURSIVE SchemaOf(_, _)
SchemaOf(p, db) ==
  CASE p.op = "SEQ_SCAN" -> ColumnsOf(db, p.arg.table)
    [] p.op = "PROJECT" ->
         [i \in DOMAIN p.arg |->
            [name |-> ProjectedName(p.arg, i),
             type |-> ProjectedType(p.arg, i, SchemaOf(p.children[1], db))]]
    [] p.op = "JOIN" -> SchemaOf(p.children[1], db) \o SchemaOf(p.children[2], db)
    [] p.op = "AGGREGATE" -> NoSchema
    [] OTHER -> SchemaOf(p.children[1], db)

-----------------------------------------------------------------------------
(* project_executor, limit_executor, nl_join_executor *)

\* An expression that fails leaves NULL.
ValueOr(v) == IF Type(v) = "ERROR" THEN Null ELSE v

Projected(s, list, schema) ==
  LET row(r) == IF r = Death THEN <<Dies>>
                ELSE [i \in DOMAIN list |-> ValueOr(expr_evaluate(list[i], r, schema))]
      rows == [k \in DOMAIN s |-> row(s[k])]
  IN Cut([k \in DOMAIN rows |-> IF Dies \in ToSet(rows[k]) THEN Death ELSE rows[k]])

\* Nothing is read once limit rows are out.
Limited(s, limit, offset) ==
  LET read == SubSeq(s, 1, IF limit + offset < Len(s) THEN limit + offset ELSE Len(s))
  IN IF limit = 0 THEN <<>>
     ELSE IF read # <<>> /\ read[Len(read)] = Death /\ Len(read) <= offset THEN <<Death>>
     ELSE SubSeq(read, offset + 1, Len(read))

\* Mutant of the next definition: the inner side is not rewound.
NestedLoops_Once(outer, inner, expr, schema) ==
  IF outer = <<>> THEN <<>>
  ELSE Filtered([i \in DOMAIN inner |-> outer[1] \o inner[i]], expr, schema)

\* Every row of the outer side with every row of the inner, which is opened
\* again for each.  Outer, left and right joins are all inner joins.
NestedLoops(outer, inner, expr, schema) ==
  LET with(r) == IF r = Death THEN <<Death>>
                 ELSE Filtered([i \in DOMAIN inner |-> IF inner[i] = Death THEN Death ELSE r \o inner[i]],
                               expr, schema)
  IN Cut(FlattenSeq([k \in DOMAIN outer |-> with(outer[k])]))

-----------------------------------------------------------------------------
(* sort_executor *)

\* Compares the keys of two rows: NULL is last, or first when descending.
CompareKeys(v, w) ==
  IF Type(v) = "NULL" \/ Type(w) = "NULL"
  THEN (IF Type(v) = "NULL" THEN 1 ELSE 0) - (IF Type(w) = "NULL" THEN 1 ELSE 0)
  ELSE value_compare(v, w)

sort_compare(items, ks, ls) ==
  LET cmp == [i \in DOMAIN items |-> CompareKeys(ks[i], ls[i])]
      unequal == {i \in DOMAIN items : cmp[i] # 0}
  IN IF unequal = {} THEN 0
     ELSE LET i == CHOOSE k \in unequal : \A j \in unequal : k <= j
          IN IF items[i].ascending THEN cmp[i] ELSE -cmp[i]

\* The streams s can become, its rows having these keys: qsort leaves the order
\* of equal rows open.  A key may end the process when two rows are compared by it.
SortedBy(s, items, keys) ==
  {[i \in DOMAIN s |-> s[order[i]]] :
     order \in {f \in [DOMAIN s -> DOMAIN s] :
                  \A i, j \in DOMAIN s : i < j =>
                    f[i] # f[j] /\ sort_compare(items, keys[f[i]], keys[f[j]]) <= 0}}
  \cup IF Len(s) > 1 /\ \E k \in DOMAIN s : Dies \in ToSet(keys[k]) THEN {<<Death>>} ELSE {}
Sorted(s, items, schema) ==
  IF Death \in ToSet(s) THEN {<<Death>>}
  ELSE SortedBy(s, items, [k \in DOMAIN s |->
         [i \in DOMAIN items |-> ValueOr(expr_evaluate(items[i].expr, s[k], schema))]])

-----------------------------------------------------------------------------
(* hash_agg_executor *)

\* The state of one aggregate: rows counted and, of the values that are not
\* NULL, the sum, the least and the greatest.
NoAggregate == [count |-> 0, has_value |-> FALSE, sum |-> Null, min |-> Null, max |-> Null]


\* COUNT counts NULL too, whatever its argument, and so does the divisor of AVG.
update_agg(agg, v, kind) ==
  LET counted == [agg EXCEPT !.count = @ + 1]
  IN IF Type(v) = "NULL" THEN counted
     ELSE IF ~agg.has_value
     THEN [counted EXCEPT !.has_value = TRUE, !.sum = v, !.min = v, !.max = v]
     ELSE [counted EXCEPT
            !.min = IF kind # "COUNT" /\ value_compare(v, @) < 0 THEN v ELSE @,
            !.max = IF kind # "COUNT" /\ value_compare(v, @) > 0 THEN v ELSE @,
            !.sum = IF kind \in {"SUM", "AVG"} THEN ValueOr(value_add(@, v)) ELSE @]

\* A function it does not know is a COUNT.
get_agg_kind(call) == IF call.name \in {"SUM", "AVG", "MIN", "MAX"} THEN call.name ELSE "COUNT"

AggregateResult(agg, kind) ==
  CASE kind = "COUNT" -> Integer(agg.count)
    [] kind = "SUM" -> agg.sum
    [] kind = "MIN" -> agg.min
    [] kind = "MAX" -> agg.max
    [] kind = "AVG" /\ Numeric(agg.sum) ->
         LET s == AsDouble(agg.sum) IN Float(s[1], s[2] * agg.count)
    [] OTHER -> Null

\* "*" and a call without arguments.
AggregateInput(call, row, schema) ==
  IF call.args = <<>> THEN (IF get_agg_kind(call) = "COUNT" THEN Integer(1) ELSE Null)
  ELSE ValueOr(expr_evaluate(call.args[1], row, schema))

\* One row for each group, in the order the groups are first met: its key,
\* then its aggregates.  No row, no group, not even without GROUP BY.
Groups(keys, inputs, kinds) ==
  LET first == SelectSeq([k \in DOMAIN keys |-> k], LAMBDA k : \A j \in 1 .. k - 1 : keys[j] # keys[k])
      members(k) == SelectSeq([j \in DOMAIN keys |-> j], LAMBDA j : keys[j] = keys[k])
      state(c, k) == FoldLeft(LAMBDA agg, j : update_agg(agg, inputs[j][c], kinds[c]), NoAggregate, members(k))
  IN IF \E k \in DOMAIN keys : Dies \in ToSet(keys[k]) \cup ToSet(inputs[k]) THEN <<Death>>
     ELSE [n \in DOMAIN first |->
             keys[first[n]] \o [c \in DOMAIN kinds |-> AggregateResult(state(c, first[n]), kinds[c])]]
Aggregated(s, group, calls, schema) ==
  IF Death \in ToSet(s) THEN <<Death>>
  ELSE Groups([k \in DOMAIN s |-> [i \in DOMAIN group |-> ValueOr(expr_evaluate(group[i], s[k], schema))]],
              [k \in DOMAIN s |-> [c \in DOMAIN calls |-> AggregateInput(calls[c], s[k], schema)]],
              [c \in DOMAIN calls |-> get_agg_kind(calls[c])])

-----------------------------------------------------------------------------
(* Running a plan *)

\* The streams a plan can be: more than one only where qsort decides.
RECURSIVE Streams(_, _)
Streams(p, db) ==
  LET below == SchemaOf(p.children[1], db)
      inputs == Streams(p.children[1], db)
  IN CASE p.op = "SEQ_SCAN" ->
            {Filtered(db.tables[p.arg.table].rows, p.arg.predicate, ColumnsOf(db, p.arg.table))}
       [] p.op = "FILTER" -> {Filtered(s, p.arg, below) : s \in inputs}
       [] p.op = "PROJECT" -> {Projected(s, p.arg, below) : s \in inputs}
       [] p.op = "LIMIT" -> {Limited(s, p.arg.limit, p.arg.offset) : s \in inputs}
       [] p.op = "JOIN" ->
            {NestedLoops(s[1], s[2], p.arg, SchemaOf(p, db)) :
               s \in inputs \X Streams(p.children[2], db)}
       [] p.op = "SORT" ->
            UNION {Sorted(s, p.arg, below) : s \in inputs}
       [] p.op = "AGGREGATE" -> {Aggregated(s, p.arg.group, p.arg.calls, below) : s \in inputs}

\* Filter, sort and limit take the columns of their input's schema over
\* without copying them.
Shares(p, db) == p.op \in {"FILTER", "SORT", "LIMIT"} /\ SchemaOf(p.children[1], db) # NoSchema

\* What such an operator shares is freed twice when the plan is destroyed;
\* the one at the top has let go of it, and its input frees it once.
RECURSIVE FreedTwice(_, _)
FreedTwice(p, db) ==
  \E i \in DOMAIN p.children : Shares(p.children[i], db) \/ FreedTwice(p.children[i], db)

\* A sort frees its rows when the plan is closed, after they are handed out.
RowsFreed(p) == p.op = "SORT" \/ (p.op = "LIMIT" /\ p.children[1].op = "SORT")

\* A filter looks at its schema before it is set; the one of a sort or limit
\* over an aggregate is never set.
RECURSIVE ReadsUnset(_, _)
ReadsUnset(p, db) ==
  \/ p.op = "FILTER" /\ SchemaOf(p.children[1], db) # NoSchema
  \/ p.op \in {"SORT", "LIMIT"} /\ SchemaOf(p.children[1], db) = NoSchema
  \/ \E i \in DOMAIN p.children : ReadsUnset(p.children[i], db)

-----------------------------------------------------------------------------
(* execute_dml of a SELECT *)

\* fate and schema say what has become of the rows and of the output schema
\* handed to the caller; "none" where no schema is handed out.
Answer(rc, rows, fate, schema) == [rc |-> rc, rows |-> rows, fate |-> fate, schema |-> schema]

\* The schema handed out has the columns of the top operator, which are those
\* of its input, and freed with it, when the operator shares them.
SchemaFate(p, db) ==
  IF SchemaOf(p, db) = NoSchema THEN "none" ELSE IF Shares(p, db) THEN "freed" ELSE "given"

\* The answers of a plan with these streams: the rows, given to the caller or
\* freed before it sees them, or the end of the process.
Answered(p, streams, schema, dies) ==
  {Answer("DB_OK", s, IF s # <<>> /\ RowsFreed(p) THEN "freed" ELSE "given", schema) :
     s \in {t \in streams : Death \notin ToSet(t)}}
  \cup IF dies \/ \E s \in streams : Death \in ToSet(s) THEN {Answer("", <<>>, "dead", "none")} ELSE {}

\* What cannot be planned or built is an error.
Run(p, db) ==
  IF p = NoPlan \/ ~Buildable(p, db) THEN {Answer("DB_INTERNAL_ERROR", <<>>, "given", "none")}
  ELSE Answered(p, Streams(p, db), SchemaFate(p, db), FreedTwice(p, db) \/ ReadsUnset(p, db))
SelectAnswers(q, db) == Run(planner_plan_physical(plan_select(q, db), db), db)
=============================================================================
