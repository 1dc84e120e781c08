------------------------------- MODULE MCQuery -------------------------------
(* Query on two or three small tables, with one statement for every feature   *)
(* of the SELECT rule.  Table and column names are strings; a, b and c share   *)
(* the column names k and v, so that a bare name may be ambiguous.             *)
EXTENDS Query

Tables3 ==
    [t \in {"a", "b", "c"} |->
        CASE t = "a" -> <<[name |-> "k", type |-> "int"], [name |-> "v", type |-> "int"]>>
          [] t = "b" -> <<[name |-> "k", type |-> "int"], [name |-> "w", type |-> "int"]>>
          [] t = "c" -> <<[name |-> "v", type |-> "int"], [name |-> "s", type |-> "str"]>>]

IndexOnB == [t \in {"a", "b", "c"} |-> IF t = "b" THEN <<<<"k">>>> ELSE <<>>]

Db(a, b, c) == [t \in {"a", "b", "c"} |-> CASE t = "a" -> a [] t = "b" -> b [] t = "c" -> c]

\* Keys of b are unique, as its index asks for.  0 is a NULL.
Dbs == {
    Db(<<>>, <<>>, <<>>),
    Db(<<<<1, 1>>, <<2, 1>>>>, <<>>, <<<<1, 1>>>>),
    Db(<<>>, <<<<1, 2>>, <<2, 2>>>>, <<<<2, 1>>>>),
    Db(<<<<1, 2>>, <<2, 1>>>>, <<<<2, 1>>, <<1, 2>>>>, <<<<1, 1>>, <<1, 2>>>>),
    Db(<<<<2, 1>>, <<1, 1>>, <<2, 2>>>>, <<<<1, 1>>, <<3, 2>>>>, <<<<2, 1>>>>),
    Db(<<<<1, 1>>, <<1, 2>>, <<1, 1>>>>, <<<<2, 1>>, <<1, 1>>, <<3, 1>>>>, <<<<2, 2>>, <<1, 2>>>>),
    Db(<<<<3, 2>>>>, <<<<1, 2>>>>, <<<<1, 2>>>>),
    Db(<<<<1, 0>>, <<0, 2>>>>, <<<<1, 0>>, <<2, 1>>>>, <<<<0, 1>>, <<1, 0>>>>)}

GarbageCells == {9}

-----------------------------------------------------------------------------
(* Conditions *)

Col(t, n) == [tab |-> t, name |-> n]
N(n) == Col("", n)
I(v) == [type |-> "int", v |-> v]
S(v) == [type |-> "str", v |-> v]

Cond == [op |-> "=", lhs |-> NoName, fn |-> "", arith |-> 0, isval |-> TRUE, rhs |-> NoName,
         vals |-> <<>>, args |-> <<>>]

Val(op, c, v) == [Cond EXCEPT !.op = op, !.lhs = c, !.vals = <<v>>]
Vals(op, c, vs) == [Cond EXCEPT !.op = op, !.lhs = c, !.isval = FALSE, !.vals = vs]
Between(op, c, lo, hi) == [Cond EXCEPT !.op = op, !.lhs = c, !.vals = <<lo, hi>>]
Cols(op, c, d) == [Cond EXCEPT !.op = op, !.lhs = c, !.isval = FALSE, !.rhs = d]
Tree(op, args) == [Cond EXCEPT !.op = op, !.isval = FALSE, !.args = args]

-----------------------------------------------------------------------------
(* Statements *)

T(t) == [tab |-> t, alias |-> "", type |-> "comma", on |-> <<>>]
As(t, a) == [T(t) EXCEPT !.alias = a]
J(type, t, c) == [T(t) EXCEPT !.type = type, !.on = <<c>>]

From1(f) == [kind |-> "select", from |-> f, cols |-> <<>>, aggs |-> <<>>, distinct |-> FALSE,
             for_update |-> FALSE, where |-> <<>>, having |-> <<>>, group |-> <<>>, order |-> <<>>,
             limit |-> <<>>]
A == From1(<<T("a")>>)
WhereA(c) == [A EXCEPT !.where = <<c>>]
KeysEqual == Cols("=", Col("a", "k"), Col("b", "k"))
KeysLess == Cols("<", Col("a", "k"), Col("b", "k"))
Agg(fn, c) == [fn |-> fn, col |-> c]
Ordered(c, d) == <<[name |-> c, desc |-> d]>>

\* Conditions on one table.
Filters ==
    {WhereA(c) : c \in {
        Val("=", N("k"), I(1)), Val("<>", Col("a", "k"), I(1)), Val("<", N("v"), I(2)),
        Val(">=", N("v"), I(2)), Val("=", N("k"), I(NULL_INT)), Val("<>", N("k"), I(NULL_INT)),
        [Val("=", N("k"), I(2)) EXCEPT !.arith = 1],
        Cols("=", N("k"), N("v")), Cols(">", Col("a", "k"), N("v")), Cols("<=", N("k"), N("v")),
        Vals("in", N("k"), <<I(2), I(3)>>), Vals("notin", N("k"), <<I(2), I(3)>>),
        Vals("in", N("k"), <<I(2), S(3)>>),
        Between("between", N("k"), I(1), I(2)), Between("notbetween", N("k"), I(1), I(2)),
        Between("between", N("k"), I(1), S(2)), Vals("null", N("v"), <<>>), Vals("notnull", N("v"), <<>>),
        Tree("and", <<Val("=", N("k"), I(1)), Val("=", N("v"), I(2))>>),
        Tree("or", <<Val("=", N("k"), I(1)), Val("=", N("v"), I(2))>>),
        Tree("not", <<Val("=", N("k"), I(1))>>),
        Tree("or", <<Val("=", N("k"), I(1)),
                     Tree("and", <<Val("=", N("k"), I(2)), Val("=", N("v"), I(2))>>)>>),
        Val("=", N("k"), S(1)), Val("=", N("x"), I(1)), Val("=", Col("b", "w"), I(1)),
        Val("=", Col("z", "k"), I(1))}}

\* One table, the operators above a scan.
Shapes == {
    A, From1(<<T("z")>>), From1(<<T("c")>>), From1(<<As("a", "x")>>),
    [From1(<<As("a", "x")>>) EXCEPT !.where = <<Val("=", Col("x", "k"), I(1))>>],
    [A EXCEPT !.cols = <<N("v")>>], [A EXCEPT !.cols = <<N("v"), N("k")>>], [A EXCEPT !.cols = <<N("k"), N("k")>>],
    [A EXCEPT !.cols = <<N("z")>>], [A EXCEPT !.cols = <<Col("b", "k")>>],
    [A EXCEPT !.distinct = TRUE], [A EXCEPT !.distinct = TRUE, !.cols = <<N("k")>>],
    [A EXCEPT !.order = Ordered("v", FALSE)], [A EXCEPT !.order = Ordered("k", TRUE)],
    [A EXCEPT !.order = Ordered("z", TRUE)],
    [A EXCEPT !.distinct = TRUE, !.order = Ordered("v", FALSE)],
    [A EXCEPT !.limit = <<[n |-> 1, off |-> 0]>>], [A EXCEPT !.limit = <<[n |-> 2, off |-> 1]>>],
    [A EXCEPT !.limit = <<[n |-> 0, off |-> 0]>>],
    [A EXCEPT !.order = Ordered("v", TRUE), !.limit = <<[n |-> 2, off |-> 1]>>],
    [WhereA(Val("=", N("v"), I(1))) EXCEPT !.for_update = TRUE],
    [WhereA(Val("=", N("k"), I(1))) EXCEPT !.kind = "delete"],
    [WhereA(Tree("or", <<Val("=", N("k"), I(1)), Val("=", N("v"), I(2))>>)) EXCEPT !.kind = "delete"],
    [WhereA(Val(">", N("v"), I(1))) EXCEPT !.kind = "update", !.cols = <<N("v")>>],
    [A EXCEPT !.kind = "update", !.cols = <<N("z")>>],
    [From1(<<T("b")>>) EXCEPT !.where = <<Val("=", N("k"), I(2))>>],
    [From1(<<T("b")>>) EXCEPT !.where = <<Val("=", N("k"), I(2))>>, !.kind = "delete"]}

Aggregates == {
    [A EXCEPT !.aggs = <<Agg("COUNT", "")>>],
    [A EXCEPT !.aggs = <<Agg("COUNT", ""), Agg("SUM", "v")>>],
    [A EXCEPT !.aggs = <<Agg("AVG", "k"), Agg("MAX", "v"), Agg("MIN", "v")>>],
    [A EXCEPT !.aggs = <<Agg("MAX", "z")>>],
    [From1(<<T("c")>>) EXCEPT !.aggs = <<Agg("MAX", "s")>>],
    [A EXCEPT !.cols = <<N("k")>>, !.aggs = <<Agg("COUNT", "")>>, !.group = <<N("k")>>],
    [A EXCEPT !.cols = <<N("k")>>, !.aggs = <<Agg("SUM", "v")>>, !.group = <<N("k")>>,
              !.having = <<[Val(">", N("v"), I(1)) EXCEPT !.fn = "SUM"]>>],
    [A EXCEPT !.cols = <<N("k")>>, !.aggs = <<Agg("SUM", "v"), Agg("MIN", "v")>>, !.group = <<N("k")>>,
              !.having = <<[Val("=", N("v"), I(1)) EXCEPT !.fn = "MIN"]>>],
    [A EXCEPT !.cols = <<N("k")>>, !.aggs = <<Agg("SUM", "v")>>, !.group = <<N("k")>>,
              !.order = Ordered("k", FALSE), !.limit = <<[n |-> 1, off |-> 0]>>],
    [A EXCEPT !.cols = <<N("k")>>, !.group = <<N("k")>>],
    [A EXCEPT !.aggs = <<Agg("COUNT", "")>>, !.group = <<N("k")>>],
    [From1(<<T("a"), T("b")>>) EXCEPT !.aggs = <<Agg("COUNT", "")>>, !.where = <<KeysEqual>>]}

\* Joins: every type with an equality and with another comparison.
JoinTypes == {"INNER", "LEFT", "RIGHT", "FULL"}
OnTwo == Tree("and", <<KeysEqual, Cols("<=", Col("a", "v"), Col("b", "w"))>>)

Joined ==
    {From1(<<T("a"), J(type, "b", c)>>) : type \in JoinTypes, c \in {KeysEqual, KeysLess, OnTwo}}
    \union {From1(<<T("a"), J("INNER", "b", Tree("or", <<KeysEqual, KeysLess>>))>>),
            From1(<<T("a"), J("INNER", "b", Tree("not", <<KeysEqual>>))>>),
            From1(<<T("a"), J("LEFT", "b", Tree("and", <<KeysEqual, Val("=", Col("a", "v"), I(1))>>))>>),
            [From1(<<T("a"), J("LEFT", "b", KeysEqual)>>) EXCEPT !.where = <<Val("=", N("w"), I(1))>>],
            [From1(<<T("a"), J("INNER", "b", KeysEqual)>>) EXCEPT !.where = <<Val("=", Col("b", "k"), I(1))>>],
            From1(<<T("a"), T("b")>>), From1(<<T("a"), T("c"), T("b")>>), From1(<<T("a"), T("z")>>),
            [From1(<<T("a"), T("b")>>) EXCEPT !.where = <<KeysEqual>>],
            [From1(<<T("a"), T("b")>>) EXCEPT !.where = <<KeysLess>>],
            [From1(<<T("a"), T("b")>>) EXCEPT !.where = <<Val("=", N("k"), I(1))>>],
            [From1(<<T("a"), T("b")>>) EXCEPT !.where = <<Cols("<", N("w"), N("v"))>>, !.cols = <<N("w"), N("v")>>],
            [From1(<<T("a"), T("b")>>) EXCEPT !.where = <<Cols("=", Col("b", "k"), N("w"))>>],
            [From1(<<T("a"), T("c")>>) EXCEPT !.where = <<Cols("=", Col("a", "k"), N("s"))>>],
            [From1(<<T("a"), T("b"), T("c")>>) EXCEPT !.where = <<Cols("=", N("w"), Col("c", "v"))>>],
            [From1(<<T("a"), J("INNER", "b", KeysEqual)>>) EXCEPT !.order = Ordered("w", FALSE)],
            [From1(<<As("a", "x"), J("INNER", "b", Cols("=", Col("x", "k"), Col("b", "k")))>>)
                EXCEPT !.cols = <<Col("x", "v"), N("w")>>, !.distinct = FALSE]}

Asked == Filters \union Shapes \union Aggregates \union Joined
=============================================================================
