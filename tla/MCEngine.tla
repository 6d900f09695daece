------------------------------ MODULE MCEngine ------------------------------
(* Tables t(a, s) and u(b), with statements that insert one or two rows, some *)
(* of which fail midway or outgrow their buffer, and change rows in place,    *)
(* with growth and not.                                                       *)
EXTENDS Engine, Executors

a == Column("a")
s == Column("s")
N(n) == Literal(Integer(n))
S(codes) == Literal(Varchar(codes))

Col(name, type, length) == [name |-> name, type |-> type, max_length |-> length]
TSchema == <<Col("a", "INTEGER", 0), Col("s", "VARCHAR", 2)>>
USchema == <<Col("b", "BOOLEAN", 0)>>
MCSchemas == {TSchema, USchema}

\* A number read as a truth value, or a truth value or text as a number.
MCBitsAs(v, type) ==
  CASE type = "BOOLEAN" -> Boolean(Val(v) # 0)
    [] type = "INTEGER" -> Integer(1)
    [] OTHER -> Float(1, 1)

\* planner_plan of an UPDATE or DELETE.
MCPlan(op, table, where, db) == planner_plan_physical(plan_change(op, table, where, db), db)

Insert(table, rows) == [op |-> "INSERT", table |-> table, rows |-> rows]
Delete(table, where) == [op |-> "DELETE", table |-> table, where |-> where]
Update(table, set, where) == [op |-> "UPDATE", table |-> table, set |-> set, where |-> where]
Set(column, e) == [column |-> column, value |-> e]

MCStatements ==
  {[op |-> "CREATE TABLE", table |-> "t", columns |-> TSchema],
   [op |-> "CREATE TABLE", table |-> "u", columns |-> USchema],
   [op |-> "DROP TABLE", table |-> "t"],
   [op |-> "CREATE INDEX", index |-> "i", table |-> "t", column |-> "a"],
   [op |-> "CREATE INDEX", index |-> "i", table |-> "t", column |-> "none"],
   [op |-> "CREATE INDEX", index |-> "i", table |-> "u", column |-> "b"],
   [op |-> "DROP INDEX", index |-> "i"], [op |-> "ROLLBACK"]}
  \cup
  {Insert("t", <<<<N(1), S(<<97>>)>>, <<N(2)>>>>),
   Insert("t", <<<<S(<<49>>), N(-10)>>, <<S(<<97>>), N(3)>>>>),
   Insert("t", <<<<N(1), S(<<97, 98, 99, 100, 101>>)>>>>),
   Insert("u", <<<<N(2)>>>>), Insert("__tables", <<<<N(1)>>>>),
   Insert("u", <<<<Binary("/", N(MinInt), N(-1))>>>>)}
  \cup
  {Delete("t", NoExpr), Delete("t", Binary("=", a, N(1))), Delete("t", Like(s, <<37>>, FALSE)),
   Delete("__tables", NoExpr), Delete("none", NoExpr)}
  \cup
  {Update("t", <<Set("a", Binary("+", a, N(1)))>>, Binary("<", a, N(2))),
   Update("t", <<Set("s", S(<<49, 48, 48>>)), Set("a", N(1))>>, NoExpr),
   Update("t", <<Set("a", Binary("/", N(2), Binary("-", N(2), a)))>>, NoExpr),
   Update("t", <<Set("a", s), Set("s", a)>>, Binary(">", a, N(1))),
   Update("t", <<Set("none", N(1))>>, NoExpr)}
=============================================================================
