------------------------------- MODULE Query -------------------------------
(***************************************************************************)
(* A caller of execution_engine_execute asks SELECT statements of a        *)
(* database; the answers are held against module SqlSemantics.             *)
(***************************************************************************)
EXTENDS SqlSemantics

CONSTANTS
  Databases,     \* the databases asked
  Questions      \* the queries, records of the fields plan_select reads

VARIABLES
  db,            \* [tables, indexes], as in module Planner
  question,      \* the query asked, or NoQuestion
  answer         \* its answer

queryVars == <<db, question, answer>>

NoQuestion == [limit |-> NoLimit]
NoAnswer == Answer("", <<>>, "given", "none")

Ask ==
  /\ question = NoQuestion
  /\ question' \in Questions
  /\ answer' \in SelectAnswers(question', db)
  /\ UNCHANGED db

QueryInit == db \in Databases /\ question = NoQuestion /\ answer = NoAnswer
QuerySpec == QueryInit /\ [][Ask]_queryVars

-----------------------------------------------------------------------------
(* Queries *)

\* FROM as the planner joins it.
Sources(q) == <<q.from[1]>> \o [i \in DOMAIN q.joins |-> q.joins[i].table] \o Tail(q.from)
SourceSchema(q) == FlattenSeq([i \in DOMAIN Sources(q) |-> ColumnsOf(db, Sources(q)[i])])

Readable(q) == q.from # <<>> /\ \A i \in DOMAIN Sources(q) : ColumnsOf(db, Sources(q)[i]) # NoSchema

\* The choices of one row from each table, by their places, and the rows they are.
Picks(q) ==
  LET places(i) == DOMAIN db.tables[Sources(q)[i]].rows
  IN {c \in [DOMAIN Sources(q) -> UNION {places(i) : i \in DOMAIN Sources(q)}] :
        \A i \in DOMAIN c : c[i] \in places(i)}
RowOf(q, c) == FlattenSeq([i \in DOMAIN c |-> db.tables[Sources(q)[i]].rows[c[i]]])

Conditions(q) == ({q.where} \cup {q.joins[i].condition : i \in DOMAIN q.joins}) \ {NoExpr}
Expressions(q) == Conditions(q) \cup IF q.list = Star THEN {} ELSE ToSet(q.list)

\* The names of the columns of the answer, and its row for a choice; an
\* expression that fails counts as NULL.
Names(q) ==
  IF q.list = Star THEN [i \in DOMAIN SourceSchema(q) |-> SourceSchema(q)[i].name]
  ELSE [i \in DOMAIN q.list |-> ProjectedName(q.list, i)]
Output(q, c) ==
  IF q.list = Star THEN RowOf(q, c)
  ELSE [i \in DOMAIN q.list |-> ValueOr(SqlValue(q.list[i], RowOf(q, c), SourceSchema(q)))]
Chosen(q) ==
  {c \in Picks(q) : \A e \in Conditions(q) : SqlValue(e, RowOf(q, c), SourceSchema(q)) = True}

\* Queries the engine is meant to answer as SQL does.  Left out are: LEFT and
\* RIGHT joins, which the planner takes for inner ones; columns of one name in
\* two tables, which are taken for the first; grouping and aggregates; sorting
\* by what is not in the answer; OFFSET alone; lookups in an index; and
\* expressions that are not Regular.
Plain(q) ==
  /\ Readable(q)
  /\ \A i \in DOMAIN q.joins : q.joins[i].kind = "INNER"
  /\ q.group = <<>> /\ Calls(q.list) = <<>> /\ q.having = NoExpr
  /\ q.limit = NoLimit => q.offset = 0
  /\ IsInjective([i \in DOMAIN SourceSchema(q) |-> SourceSchema(q)[i].name])
  /\ \A i \in DOMAIN q.order : q.order[i].expr.kind = "COLUMN_REF" /\ q.order[i].expr.column \in ToSet(Names(q))
  /\ db.indexes = {}
  /\ \A e \in Expressions(q), c \in Picks(q) : Regular(e, RowOf(q, c), SourceSchema(q))

\* The i-th sort key of a row of the answer.
Key(q, row, i) == row[CHOOSE k \in DOMAIN Names(q) : Names(q)[k] = q.order[i].expr.column]

\* The rows are sorted by no key in descending order that is NULL in one of
\* them, which the code puts first.
NullsInPlace(q) ==
  \A i \in DOMAIN q.order, c \in Picks(q) : q.order[i].ascending \/ Key(q, Output(q, c), i) # Null

\* Row r of the answer sorts before row s; NULL is last in either direction.
SortsBefore(q, r, s) ==
  LET before(i) ==
        LET v == Key(q, r, i)
            w == Key(q, s, i)
        IN IF Null \in {v, w} THEN v # Null /\ w = Null
           ELSE IF q.order[i].ascending THEN Precedes(v, w) ELSE Precedes(w, v)
      tied(i) == Key(q, r, i) = Key(q, s, i)
  IN \E i \in DOMAIN q.order : before(i) /\ \A j \in 1 .. i - 1 : tied(j)

Offset(q) == IF q.limit = NoLimit THEN 0 ELSE q.offset
Wanted(q, n) ==
  LET left == IF n > Offset(q) THEN n - Offset(q) ELSE 0
  IN IF q.limit # NoLimit /\ q.limit < left THEN q.limit ELSE left

\* Rows are the answer to q: no row more often than it was chosen, as many as
\* LIMIT and OFFSET leave, each in a place its rank allows.
Answers(q, rows) ==
  LET chosen == Chosen(q)
  IN /\ Len(rows) = Wanted(q, Cardinality(chosen))
     /\ \A k \in DOMAIN rows :
          /\ Cardinality({i \in DOMAIN rows : rows[i] = rows[k]})
               <= Cardinality({c \in chosen : Output(q, c) = rows[k]})
          /\ Cardinality({c \in chosen : SortsBefore(q, Output(q, c), rows[k])}) < Offset(q) + k
          /\ Cardinality({c \in chosen : ~SortsBefore(q, rows[k], Output(q, c))}) >= Offset(q) + k

\* Expressions have the value SQL gives them, for every row they may meet.
EvaluatesAsSql ==
  question # NoQuestion /\ Readable(question) =>
    \A e \in Expressions(question), c \in Picks(question) :
      LET row == RowOf(question, c)
          schema == SourceSchema(question)
      IN Regular(e, row, schema) => expr_evaluate(e, row, schema) = SqlValue(e, row, schema)

\* The rows of an answer, as the top operator hands them out, are the ones
\* SQL asks for, in an order it allows.
SelectExact ==
  question # NoQuestion /\ Plain(question) /\ NullsInPlace(question) /\ answer.fate # "dead" =>
    answer.rc = "DB_OK" /\ Answers(question, answer.rows)

\* A query over tables without indexes that neither sorts nor puts a WHERE over
\* a join leaves the process alive and its rows with the caller; without a
\* LIMIT, their schema too.
AnswersLast ==
  question # NoQuestion /\ Plain(question) /\ question.order = <<>>
  /\ (Len(Sources(question)) > 1 => question.where = NoExpr)
    => /\ answer.fate = "given"
       /\ question.limit = NoLimit => answer.schema = "given"

\* The aggregate node of a plan.
RECURSIVE AggregateNodes(_)
AggregateNodes(p) ==
  IF p.op = "AGGREGATE" THEN {p} ELSE UNION {AggregateNodes(p.children[i]) : i \in DOMAIN p.children}

=============================================================================
