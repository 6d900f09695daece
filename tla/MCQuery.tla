------------------------------ MODULE MCQuery ------------------------------
(* Two tables t(a, s) and u(b, f) with up to three and two rows, an index in  *)
(* some databases, and queries of every clause.  Integers have 6 bits and     *)
(* doubles 3, so that the integers a double cannot hold are at hand.          *)
(* Beside the databases stands the caller that hands over values, of every    *)
(* type and around the limits.                                                *)
EXTENDS Query, ValueCalls

a == Column("a")
s == Column("s")
b == Column("b")
f == Column("f")
N(n) == Literal(Integer(n))
S(codes) == Literal(Varchar(codes))
B(v) == Literal(Boolean(v))
Half(n) == Literal(Float(n, 2))

Columns(n1, t1, n2, t2) == <<[name |-> n1, type |-> t1], [name |-> n2, type |-> t2]>>
TRows == {<<Integer(1), Varchar(<<97>>)>>, <<Integer(2), Null>>, <<Null, Varchar(<<97, 98>>)>>,
          <<Integer(2), Varchar(<<99>>)>>}
URows == {<<Integer(2), Boolean(TRUE)>>, <<Null, Boolean(FALSE)>>}

Tables(trows, urows) ==
  [n \in {"t", "u", "sys"} |->
     CASE n = "t" -> [columns |-> Columns("a", "INTEGER", "s", "VARCHAR"), rows |-> trows]
       [] n = "u" -> [columns |-> Columns("b", "INTEGER", "f", "BOOLEAN"), rows |-> urows]
       [] OTHER -> [columns |-> NoSchema, rows |-> <<>>]]

UpTo(rows, n) == UNION {[1 .. k -> rows] : k \in 0 .. n}
\* Three rows in descending order, and twice the same.
Long == {<<<<Integer(2), Varchar(<<99>>)>>, <<Integer(1), Varchar(<<97>>)>>, <<Null, Varchar(<<97, 98>>)>>>>,
         <<<<Integer(2), Null>>, <<Integer(1), Varchar(<<97>>)>>, <<Integer(2), Null>>>>}

MCDatabases ==
  {[tables |-> [n \in {} |-> 0], indexes |-> {}]}
  \cup {[tables |-> Tables(trows, urows), indexes |-> {}] : trows \in UpTo(TRows, 2) \cup Long, urows \in UpTo(URows, 1)}
  \cup {[tables |-> Tables(trows, urows), indexes |-> {<<"t", 1>>}] : trows \in UpTo(TRows, 1), urows \in {<<>>}}
  \cup {[tables |-> Tables(trows, urows), indexes |-> {}] : trows \in Long, urows \in UpTo(URows, 2)}

-----------------------------------------------------------------------------

Atoms == {Binary(op, a, N(2)) : op \in {"<", ">=", "<>"}} \cup {Binary("=", s, S(<<97>>)), IsNull(s, FALSE),
          In(a, <<N(1), N(3)>>, FALSE)}
Exprs ==
  Atoms
  \cup {Binary(op, p, q) : op \in {"AND", "OR"}, p \in Atoms, q \in Atoms}
  \cup {Unary("NOT", p) : p \in Atoms}
  \cup {Binary(op, a, N(n)) : op \in {"+", "-", "*", "/", "=", ">", "<="}, n \in {0, 3, 9, 30}}
  \cup {Binary(op, s, S(t)) : op \in {"<", "<=", "=", "<>", ">"}, t \in {<<97, 98>>, <<98>>}}
  \cup {In(a, items, neg) : items \in {<<N(2)>>, <<N(1), a>>, <<Literal(Null), N(1)>>}, neg \in BOOLEAN}
  \cup {Between(a, lo, hi, neg) : lo \in {N(1), N(2)}, hi \in {N(2), a, N(1)}, neg \in BOOLEAN}
  \cup {Like(s, pat, neg) : pat \in {<<37, 98, 37>>, <<97>>, <<37, 37>>, <<97, 37>>, <<95>>, <<97, 95>>}, neg \in BOOLEAN}
  \cup {Binary(op, x, Half(17)) : op \in {"<", ">", "="}, x \in {a, N(8), N(9)}}
  \cup {Between(N(9), a, Half(17), FALSE), In(N(9), <<N(1), Half(16)>>, FALSE)}
  \cup {Like(s, <<37>>, FALSE), Unary("-", a), Unary("-", s), IsNull(a, TRUE), B(TRUE), Subquery,
        Binary("AND", a, B(FALSE)), Unary("NOT", a), Binary("=", a, s), Column("nowhere")}

\* A query with these clauses; the others as the parser leaves them.
Query0 == [from |-> <<"t">>, joins |-> <<>>, where |-> NoExpr, group |-> <<>>, having |-> NoExpr,
           list |-> Star, order |-> <<>>, limit |-> NoLimit, offset |-> 0]
By(e, asc) == [expr |-> e, ascending |-> asc]
Join(table, kind, e) == [table |-> table, kind |-> kind, condition |-> e]

Lists == {Star, <<a>>, <<s, Binary("+", a, N(1))>>}
Orders == {<<>>, <<By(a, TRUE)>>, <<By(s, FALSE), By(a, TRUE)>>}

MCQuestions ==
  {[Query0 EXCEPT !.where = e] : e \in Exprs}
  \cup {[Query0 EXCEPT !.list = <<e>>] : e \in Exprs}
  \cup {[Query0 EXCEPT !.list = list, !.order = order, !.limit = limit, !.offset = offset] :
          list \in Lists, order \in Orders, limit \in {NoLimit, 0, 1, 2}, offset \in {0, 1}}
  \cup {[Query0 EXCEPT !.joins = <<Join("u", kind, e)>>, !.where = where, !.list = list, !.order = order] :
          kind \in {"INNER", "LEFT"}, e \in {NoExpr, Binary("=", a, b), f}, where \in {NoExpr, Binary(">", b, N(1))},
          list \in {Star, <<b, a>>}, order \in {<<>>, <<By(a, FALSE)>>}}
  \cup {[Query0 EXCEPT !.from = <<"t", "u">>, !.limit = limit] : limit \in {NoLimit, 2}}
  \cup {[Query0 EXCEPT !.from = from, !.list = <<N(1)>>] : from \in {<<>>, <<"none">>, <<"sys">>, <<"t", "sys">>}}
  \cup {[Query0 EXCEPT !.group = group, !.list = list, !.having = having] :
          group \in {<<>>, <<a>>, <<s, a>>},
          list \in {<<Call("COUNT", <<>>)>>, <<a, Call("COUNT", <<s>>), Call("SUM", <<a>>), Call("AVG", <<a>>)>>,
                    <<Call("MIN", <<s>>), Call("MAX", <<a>>), Call("AVG", <<a>>)>>, <<Call("SUM", <<s>>)>>},
          having \in {NoExpr, Binary(">", a, N(1))}}
  \cup {[Query0 EXCEPT !.group = <<a>>, !.order = order] : order \in Orders}

-----------------------------------------------------------------------------

MCSamples ==
  {Integer(n) : n \in {MinInt, -9, -1, 0, 7, 8, 9, MaxInt}}
  \cup {Float(1, 2), Float(17, 2), Float(8, 1), Null, Boolean(FALSE), Boolean(TRUE)}
  \cup {Varchar(t) : t \in {<<>>, <<97>>, <<97, 98>>, <<99>>}}

\* value.c knows no tables: values are handed over beside an empty database.
MCInit == QueryInit /\ ValuesInit
MCNext ==
  \/ Ask /\ values = <<>> /\ UNCHANGED values
  \/ Hand /\ question = NoQuestion /\ DOMAIN db.tables = {} /\ UNCHANGED queryVars
MCSpec == MCInit /\ [][MCNext]_<<queryVars, values>>
=============================================================================
