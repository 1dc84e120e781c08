---------------------------- MODULE SqlReference ----------------------------
(***************************************************************************)
(* What a statement means in SQL: which ones are valid and which sequences *)
(* of rows answer them.  It knows the statements of Analyzer and nothing   *)
(* of the engine.  The cell 0 is NULL, and conditions have three values.   *)
(***************************************************************************)
EXTENDS Tuples

\* The columns a name may denote: positions in FROM and in the table.
Denoted(stmt, c) ==
    {ij \in UNION {{i} \X (DOMAIN Schema[stmt.from[i].tab]) : i \in DOMAIN stmt.from} :
        LET f == stmt.from[ij[1]]
        IN  /\ c.tab \in {"", f.tab} \/ (c.tab = f.alias /\ f.alias # "")
            /\ c.name = Schema[f.tab][ij[2]].name}

Where(stmt, c) == CHOOSE ij \in Denoted(stmt, c) : TRUE

TypeIn(stmt, c) == LET ij == Where(stmt, c) IN Schema[stmt.from[ij[1]].tab][ij[2]].type

CellIn(stmt, c, env) == LET ij == Where(stmt, c) IN env[ij[1]][ij[2]]

-----------------------------------------------------------------------------
(* Validity *)

Known(stmt, c) == Cardinality(Denoted(stmt, c)) = 1

ComparesColumns(c) == ~c.isval /\ c.op \in {"=", "<>", "<", ">", "<=", ">="}

RECURSIVE ValidCond(_, _)
ValidCond(stmt, c) ==
    IF c.op \in {"and", "or", "not"} THEN \A i \in DOMAIN c.args : ValidCond(stmt, c.args[i])
    ELSE /\ Known(stmt, c.lhs)
         /\ ComparesColumns(c) => Known(stmt, c.rhs) /\ TypeIn(stmt, c.lhs) = TypeIn(stmt, c.rhs)
         /\ \A i \in DOMAIN c.vals : c.vals[i].type = TypeIn(stmt, c.lhs)

\* The last two are the engine's own rules.
Valid(stmt) ==
    /\ \A i \in DOMAIN stmt.from : stmt.from[i].tab \in DOMAIN Schema
    /\ \A i \in DOMAIN stmt.from : \A j \in DOMAIN stmt.from[i].on : ValidCond(stmt, stmt.from[i].on[j])
    /\ \A i \in DOMAIN stmt.where : ValidCond(stmt, stmt.where[i])
    /\ \A i \in DOMAIN stmt.cols : Known(stmt, stmt.cols[i])
    /\ \A i \in DOMAIN stmt.group : Known(stmt, stmt.group[i])
    /\ \A i \in DOMAIN stmt.aggs :
          stmt.aggs[i].col # "" => Known(stmt, [tab |-> "", name |-> stmt.aggs[i].col])
    /\ stmt.aggs # <<>> =>
          \A i \in DOMAIN stmt.cols : \E j \in DOMAIN stmt.group :
              Where(stmt, stmt.cols[i]) = Where(stmt, stmt.group[j])
    /\ \A i \in DOMAIN stmt.order : Known(stmt, [tab |-> "", name |-> stmt.order[i].name])
    /\ \A i \in DOMAIN stmt.group :
          (stmt.cols # <<>> \/ stmt.aggs # <<>>) => \E j \in DOMAIN stmt.cols :
                                 Where(stmt, stmt.cols[j]) = Where(stmt, stmt.group[i])
    /\ \A i \in DOMAIN stmt.limit : stmt.limit[i].n > 0

-----------------------------------------------------------------------------
(* Conditions over an environment: a row of each table of FROM *)

Truth(b) == IF b THEN "true" ELSE "false"
NULL == 0

RECURSIVE Holds(_, _, _)
Holds(stmt, c, env) ==
    LET Values == {Holds(stmt, c.args[i], env) : i \in DOMAIN c.args}
        a == CellIn(stmt, c.lhs, env)
        Val(i) == IF c.vals[i].v = NULL_INT THEN NULL ELSE c.vals[i].v
        b == IF c.isval THEN Val(1) ELSE CellIn(stmt, c.rhs, env)
        nulls == a = NULL \/ (c.op \notin {"in", "notin"} /\ b = NULL)
    IN  CASE c.op = "and" -> CASE "false" \in Values -> "false"
                               [] "false" \notin Values /\ "unknown" \in Values -> "unknown"
                               [] OTHER -> "true"
          [] c.op = "or"  -> CASE "true" \in Values -> "true"
                               [] "true" \notin Values /\ "unknown" \in Values -> "unknown"
                               [] OTHER -> "false"
          [] c.op = "not" -> CASE Values = {"true"} -> "false" [] Values = {"false"} -> "true"
                               [] OTHER -> "unknown"
          [] c.op = "null"    -> Truth(a = NULL)
          [] c.op = "notnull" -> Truth(a # NULL)
          [] OTHER ->
             IF nulls THEN "unknown"
             ELSE CASE c.op = "between"    -> Truth(Val(1) <= a /\ a <= Val(2))
                    [] c.op = "notbetween" -> Truth(~(Val(1) <= a /\ a <= Val(2)))
                    [] c.op = "in"         -> Truth(\E i \in DOMAIN c.vals : Val(i) = a)
                    [] c.op = "notin"      -> Truth(\A i \in DOMAIN c.vals : Val(i) # a)
                    [] OTHER -> Truth(Compare(c.op, a + c.arith, b))

AllHold(stmt, conds, env) == \A i \in DOMAIN conds : Holds(stmt, conds[i], env) = "true"

-----------------------------------------------------------------------------
(* FROM, WHERE, GROUP BY, HAVING and the select list *)

NullRow(t) == [i \in DOMAIN Schema[t] |-> NULL]

\* The members of a set, in some order.
Listed(S) == FoldSet(LAMBDA x, acc : Append(acc, x), <<>>, S)

\* The environments of the first i tables of FROM, as a sequence in any order.
RECURSIVE From(_, _, _)
From(stmt, db, i) ==
    LET f == stmt.from[i]
        rows == db[f.tab]
        Env(p, q) == Append(p, q)
        before == From(stmt, db, i - 1)
        Matches(p, q) == AllHold(stmt, f.on, Env(before[p], rows[q]))
        matched == {pq \in (DOMAIN before) \X (DOMAIN rows) : Matches(pq[1], pq[2])}
        lonelyLeft == IF f.type \notin {"LEFT", "FULL"} THEN {}
                      ELSE DOMAIN before \ {pq[1] : pq \in matched}
        lonelyRight == IF f.type \notin {"RIGHT", "FULL"} THEN {}
                       ELSE DOMAIN rows \ {pq[2] : pq \in matched}
        nulls == [j \in 1..(i - 1) |-> NullRow(stmt.from[j].tab)]
        Each(S, Op(_)) == LET s == Listed(S) IN [n \in DOMAIN s |-> Op(s[n])]
    IN  IF i = 1 THEN [q \in DOMAIN rows |-> <<rows[q]>>]
        ELSE Each(matched, LAMBDA pq : Env(before[pq[1]], rows[pq[2]]))
             \o Each(lonelyLeft, LAMBDA p : Env(before[p], NullRow(f.tab)))
             \o Each(lonelyRight, LAMBDA q : Env(nulls, rows[q]))

Filtered(stmt, db) ==
    SelectSeq(From(stmt, db, Len(stmt.from)), LAMBDA env : AllHold(stmt, stmt.where, env))

Aggregated(stmt, agg, envs) ==
    LET cells == IF agg.col = "" THEN [i \in DOMAIN envs |-> 1]
                 ELSE SelectSeq([i \in DOMAIN envs |->
                                    CellIn(stmt, [tab |-> "", name |-> agg.col], envs[i])],
                                LAMBDA x : x # NULL)
        sum == FoldLeft(+, 0, cells)
    IN  CASE agg.fn = "COUNT" -> Len(cells)
          [] agg.fn = "SUM"   -> sum
          [] cells = <<>> /\ agg.fn # "COUNT" -> NULL
          [] agg.fn = "AVG" /\ cells # <<>> -> (100 * sum) \div Len(cells)
          [] agg.fn = "MAX" /\ cells # <<>> -> Max(ToSet(cells))
          [] agg.fn = "MIN" /\ cells # <<>> -> Min(ToSet(cells))

Selected(stmt, env) ==
    IF stmt.cols # <<>> THEN [i \in DOMAIN stmt.cols |-> CellIn(stmt, stmt.cols[i], env)]
    ELSE FlattenSeq(env)

\* HAVING compares an aggregate or a column of GROUP BY with a literal.
HavingHolds(stmt, envs, c) ==
    Compare(c.op, IF c.fn = "" THEN CellIn(stmt, c.lhs, envs[1])
                  ELSE Aggregated(stmt, [fn |-> c.fn, col |-> c.lhs.name], envs), c.vals[1].v)

\* The rows, before ORDER BY and LIMIT, in any order: one for each group with an
\* aggregate or GROUP BY, and else one for each environment.
GroupKey(stmt, env) == [i \in DOMAIN stmt.group |-> CellIn(stmt, stmt.group[i], env)]

Members(stmt, envs, key) == SelectSeq(envs, LAMBDA env : GroupKey(stmt, env) = key)

GroupRow(stmt, members) ==
    (IF stmt.cols = <<>> THEN <<>> ELSE Selected(stmt, members[1]))
    \o [i \in DOMAIN stmt.aggs |-> Aggregated(stmt, stmt.aggs[i], members)]

GroupRows(stmt, groups) ==
    LET kept == SelectSeq(groups, LAMBDA members :
                    \A i \in DOMAIN stmt.having : HavingHolds(stmt, members, stmt.having[i]))
    IN  [i \in DOMAIN kept |-> GroupRow(stmt, kept[i])]

\* Without GROUP BY there is one group, also of no rows.
Groups(stmt, envs) ==
    IF stmt.group = <<>> THEN <<envs>>
    ELSE FoldSet(LAMBDA key, acc : Append(acc, Members(stmt, envs, key)), <<>>,
                 {GroupKey(stmt, envs[i]) : i \in DOMAIN envs})

RowsOf(stmt, envs) ==
    IF stmt.kind # "select" THEN [i \in DOMAIN envs |-> envs[i][1]]
    ELSE IF stmt.aggs # <<>> \/ stmt.group # <<>> THEN GroupRows(stmt, Groups(stmt, envs))
    ELSE [i \in DOMAIN envs |-> Selected(stmt, envs[i])]

Undoubled(stmt, rows) == IF stmt.distinct THEN Listed(ToSet(rows)) ELSE rows

Rows(stmt, db) == Undoubled(stmt, RowsOf(stmt, Filtered(stmt, db)))

Count(rows, row) == Len(SelectSeq(rows, LAMBDA x : x = row))

\* The window of LIMIT.
Window(stmt, s) ==
    IF stmt.limit = <<>> THEN s
    ELSE LET first == stmt.limit[1].off + 1
         IN  SubSeq(s, first, Min({Len(s), first + stmt.limit[1].n - 1}))

Column(rows, n) == [i \in DOMAIN rows |-> rows[i][n]]

\* rows is the window of LIMIT out of all rows, sorted by the column of ORDER BY,
\* which is the n-th of the select list.
IsWindow(stmt, all, n, rows) ==
    LET Before(x, y) == IF stmt.order[1].desc THEN x > y ELSE x < y
    IN  /\ Len(rows) = Len(Window(stmt, all))
        /\ \A row \in ToSet(rows) : Count(rows, row) <= Count(all, row)
        /\ stmt.order # <<>> => Column(rows, n) = Window(stmt, SortSeq(Column(all, n), Before))

\* rows answers stmt.
Answers(stmt, db, n, rows) == IsWindow(stmt, Rows(stmt, db), n, rows)
=============================================================================
