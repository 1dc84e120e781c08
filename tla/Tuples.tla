------------------------------- MODULE Tuples -------------------------------
(***************************************************************************)
(* Rows, columns and conditions of the executors of the RMDB engine:       *)
(* system/sm_meta.h (ColMeta), common/common.h (Condition) and the         *)
(* eval_cond of the scans and the joins in execution/.                     *)
(*                                                                         *)
(* A row is a sequence of cells and the offset of a column its index, so   *)
(* every column has the same width.  A cell is an integer, whatever the    *)
(* type of its column; a NULL is stored as zeros (Value::init_raw), the    *)
(* cell 0.  A NULL literal is compared as the integer NULL_INT.            *)
(***************************************************************************)
EXTENDS Integers, Sequences, SequencesExt, FiniteSets, FiniteSetsExt, Functions

CONSTANT Schema  \* table -> sequence of [name, type], type "int" or "str"

NULL_INT == -2147483647 - 1

-----------------------------------------------------------------------------
(* Columns *)

\* TabMeta::cols
TableCols(t) ==
    [i \in DOMAIN Schema[t] |->
        [tab |-> t, name |-> Schema[t][i].name, type |-> Schema[t][i].type, offset |-> i]]

\* ColMeta{}: what a failed look-up returns.
NoCol == [tab |-> "", name |-> "", type |-> "int", offset |-> 1]

Lookup(cols, c) ==
    LET i == SelectInSeq(cols, LAMBDA m : m.tab = c.tab /\ m.name = c.name)
    IN  IF i = 0 THEN NoCol ELSE cols[i]

\* cols_ of a join: the columns of the right child moved behind those of the left.
JoinCols(l, r) == l \o [i \in DOMAIN r |-> [r[i] EXCEPT !.offset = @ + Len(l)]]

Zeros(cols) == [i \in DOMAIN cols |-> 0]

-----------------------------------------------------------------------------
(* Conditions: [op, lhs, fn, arith, isval, rhs, vals, args].  lhs and rhs   *)
(* are columns [tab, name], vals the literals [type, v], args the children  *)
(* of OR and NOT.  arith is the amount an arithmetic left side adds to the  *)
(* column and fn the aggregate over it in HAVING; the engine drops both.    *)

NoName == [tab |-> "", name |-> ""]
Used == [tab |-> "used", name |-> "used"]

Compare(op, a, b) ==
    CASE op = "="  -> a = b
      [] op = "<>" -> a # b
      [] op = "<"  -> a < b
      [] op = ">"  -> a > b
      [] op = "<=" -> a <= b
      [] op = ">=" -> a >= b

\* check_is_null: NULL_INT is a NULL integer, zeros are a NULL string or float.
check_is_null(cell, type) == IF type = "int" THEN cell = NULL_INT ELSE cell = 0

\* SeqScanExecutor::eval_cond.  A condition on a column the table does not have holds.
RECURSIVE eval_cond(_, _, _)
eval_cond(c, cols, row) ==
    LET m == Lookup(cols, c.lhs)
        a == row[m.offset]
        r == Lookup(cols, c.rhs)
        between == c.vals[1].v <= a /\ a <= c.vals[2].v
        in == \E i \in DOMAIN c.vals : c.vals[i].v = a
    IN  CASE c.op = "or"  -> c.args = <<>> \/ \E i \in DOMAIN c.args : eval_cond(c.args[i], cols, row)
          [] c.op = "not" -> \A i \in DOMAIN c.args : ~eval_cond(c.args[i], cols, row)
          [] OTHER ->
             \/ m = NoCol
             \/ CASE c.op = "null"       -> check_is_null(a, m.type)
                  [] c.op = "notnull"    -> ~check_is_null(a, m.type)
                  [] c.op = "between"    -> between
                  [] c.op = "notbetween" -> ~between
                  [] c.op = "in"         -> in
                  [] c.op = "notin"      -> ~in
                  [] OTHER -> IF c.isval THEN Compare(c.op, a, c.vals[1].v)
                              ELSE r = NoCol \/ Compare(c.op, a, row[r.offset])

check_all_conds(conds, cols, row) ==
    \A i \in DOMAIN conds : eval_cond(conds[i], cols, row)

\* The rows of a sequential scan.  Under FOR UPDATE the first row sets has_match_
\* whether it matches or not, and the first row after it that does not match
\* ends the scan.
SeqScan(t, conds, for_update, rows) ==
    LET Match(row) == check_all_conds(conds, TableCols(t), row)
        stops == {i \in DOMAIN rows : i > 1 /\ ~Match(rows[i])}
        last == IF for_update /\ stops # {} THEN Min(stops) ELSE Len(rows)
    IN  SelectSeq(SubSeq(rows, 1, last), Match)

-----------------------------------------------------------------------------
(* Conditions of joins, evaluated on a row of each side *)

\* The outcome that decides a sequence of outcomes: the first that is not neutral.
Decide(outcomes, neutral) ==
    LET i == SelectInSeq(outcomes, LAMBDA o : o # neutral)
    IN  IF i = 0 THEN neutral ELSE outcomes[i]

Outcome(b) == IF b THEN "yes" ELSE "no"

\* eval_cond of the joins: "yes", "no", or "crash" when it follows a null pointer,
\* which it does for a literal and for a column that neither side has.  A column
\* is the left row's when its table is that of the first column of the left,
\* and otherwise read in the right row; what lies behind that row is garbage.
RECURSIVE JoinCond(_, _, _, _, _, _)
JoinCond(c, metas, ltab, lrow, rrow, garbage) ==
    LET Args == [i \in DOMAIN c.args |-> JoinCond(c.args[i], metas, ltab, lrow, rrow, garbage)]
        Cell(m) == LET row == IF m.tab = ltab THEN lrow ELSE rrow
                   IN  IF m.offset \in DOMAIN row THEN row[m.offset] ELSE garbage
        l == Lookup(metas, c.lhs)
        r == IF c.isval THEN NoCol ELSE Lookup(metas, c.rhs)
    IN  CASE c.op = "or"  -> IF c.args = <<>> THEN "yes" ELSE Decide(Args, "no")
          [] c.op = "not" -> CASE Decide(Args, "no") = "yes" -> "no"
                               [] Decide(Args, "no") = "no"  -> "yes"
                               [] OTHER -> "crash"
          [] c.op \in {"null", "notnull"} ->
             IF l = NoCol THEN "crash"
             ELSE Outcome(check_is_null(Cell(l), l.type) = (c.op = "null"))
          [] OTHER ->
             IF l.type # r.type THEN "no"
             ELSE IF NoCol \in {l, r} THEN "crash"
             ELSE Outcome(Compare(c.op, Cell(l), Cell(r)))

JoinConds(conds, metas, ltab, lrow, rrow, garbage) ==
    Decide([i \in DOMAIN conds |-> JoinCond(conds[i], metas, ltab, lrow, rrow, garbage)], "yes")

\* The three copies of it.  The nested-loop and the hash join take the offsets of
\* the children; the sort-merge join takes those of its own columns, so that a
\* column of the right child is read behind the right row.
NljConds(conds, l, lrow, r, rrow, garbage) ==
    JoinConds(conds, l \o r, l[1].tab, lrow, rrow, garbage)
HashConds(conds, l, lrow, r, rrow, garbage) ==
    JoinConds(conds, l \o r, l[1].tab, lrow, rrow, garbage)
SmjConds(conds, l, lrow, r, rrow, garbage) ==
    JoinConds(conds, JoinCols(l, r), l[1].tab, lrow, rrow, garbage)

\* HashJoinExecutor::build_key: one cell of each equality, of the column that the
\* table of its left side assigns to this child.
build_key(equi_conds, ltab, is_left, cols, row) ==
    [i \in DOMAIN equi_conds |->
        LET c == equi_conds[i]
        IN  row[Lookup(cols, IF (c.lhs.tab = ltab) = is_left THEN c.lhs ELSE c.rhs).offset]]

-----------------------------------------------------------------------------
(* The operators above the joins *)

\* Mutant: only a row equal to the one before it is dropped.
DistinctAdjacent(rows) ==
    FoldLeft(LAMBDA acc, row : IF acc # <<>> /\ Last(acc) = row THEN acc ELSE Append(acc, row),
             <<>>, rows)

\* DistinctExecutor: the first of equal rows, as wide as the child makes them.
Distinct(rows) ==
    FoldLeft(LAMBDA acc, row : IF Contains(acc, row) THEN acc ELSE Append(acc, row), <<>>, rows)

\* LimitExecutor
Limited(rows, n, off) == SubSeq(rows, off + 1, Min({off + n, Len(rows)}))

\* SortExecutor: std::sort is not stable, so any order that is sorted.
Sortings(rows, off, desc) ==
    LET Before(a, b) == IF desc THEN a[off] >= b[off] ELSE a[off] <= b[off]
        orders == {p \in [DOMAIN rows -> DOMAIN rows] :
                      \A i, j \in DOMAIN rows : i < j => p[i] # p[j] /\ Before(rows[p[i]], rows[p[j]])}
    IN  {[i \in DOMAIN rows |-> rows[p[i]]] : p \in orders}

\* ProjectionExecutor: the positions in the child of the selected columns.  A column
\* of the child is used once; 0 where none is left, which the constructor rejects.
Projection(cols, sel) ==
    FoldLeft(LAMBDA acc, c :
                 Append(acc, SelectInSeq([i \in DOMAIN cols |->
                                             IF Contains(acc, i) THEN Used
                                             ELSE [tab |-> cols[i].tab, name |-> cols[i].name]],
                                         LAMBDA n : n = c)),
             <<>>, sel)

-----------------------------------------------------------------------------
(* AggregationExecutor.  An aggregate is [fn, col], col the name of a column, *)
(* "" for COUNT( * ).                                                         *)

\* find_col: by name alone.
find_col(cols, name) ==
    LET i == SelectInSeq(cols, LAMBDA m : m.name = name) IN IF i = 0 THEN NoCol ELSE cols[i]

\* accumulate and compute_value: strings count as 0.  AVG is kept in hundredths.
compute_value(fn, cells) ==
    LET sum == FoldLeft(+, 0, cells)
        values == {cells[i] : i \in DOMAIN cells}
    IN  CASE fn = "COUNT" -> Len(cells)
          [] fn = "SUM"   -> sum
          [] fn = "AVG"   -> IF cells = <<>> THEN 0 ELSE (100 * sum) \div Len(cells)
          [] fn = "MAX"   -> IF cells = <<>> THEN 0 ELSE Max(values)
          [] fn = "MIN"   -> IF cells = <<>> THEN 0 ELSE Min(values)

AggCells(cols, col, rows) ==
    LET m == find_col(cols, col)
    IN  [i \in DOMAIN rows |-> IF m.type = "str" THEN 0 ELSE rows[i][m.offset]]

\* The columns of the result: those of GROUP BY, then the aggregates by name.
AggCols(cols, aggs, group) ==
    LET g == [i \in DOMAIN group |-> [find_col(cols, group[i]) EXCEPT !.offset = i]]
        a == [i \in DOMAIN aggs |->
                 [tab |-> "", name |-> aggs[i].col,
                  type |-> IF aggs[i].fn = "COUNT" THEN "int" ELSE "float",
                  offset |-> Len(group) + i]]
    IN  g \o a

\* eval_having_cond: the first column of the result with the name, and true if none has it.
check_having(having, outcols, row) ==
    \A i \in DOMAIN having :
        LET m == find_col(outcols, having[i].lhs.name)
        IN  m = NoCol \/ CASE having[i].op = "null"    -> check_is_null(row[m.offset], m.type)
                           [] having[i].op = "notnull" -> ~check_is_null(row[m.offset], m.type)
                           [] OTHER -> having[i].isval => Compare(having[i].op, row[m.offset],
                                                                  having[i].vals[1].v)

\* The rows of the result, in any order: the groups are kept in a hash table.
Aggregate(rows, cols, aggs, group, having) ==
    LET Key(row) == [i \in DOMAIN group |-> row[find_col(cols, group[i]).offset]]
        keys == IF group = <<>> THEN {<<>>} ELSE {Key(rows[i]) : i \in DOMAIN rows}
        Result(key) ==
            LET members == SelectSeq(rows, LAMBDA row : Key(row) = key)
            IN  key \o [i \in DOMAIN aggs |->
                           compute_value(aggs[i].fn, AggCells(cols, aggs[i].col, members))]
    IN  {row \in {Result(key) : key \in keys} : check_having(having, AggCols(cols, aggs, group), row)}
=============================================================================
