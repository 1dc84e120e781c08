-------------------------------- MODULE Query --------------------------------
(***************************************************************************)
(* One SELECT, or the scan of one DELETE or UPDATE, from the parsed        *)
(* statement to its rows: Analyze::do_analyze, Planner::do_planner,        *)
(* Portal::start and the executors.                                        *)
(*                                                                         *)
(* The executors pull rows one at a time; a join is modelled row by row as *)
(* nextTuple moves its cursor (Joins), joins one above the other as one    *)
(* level after the other.  The operators above the joins take all rows at once.        *)
(***************************************************************************)
EXTENDS Planner, SqlReference, Joins

CONSTANTS
    Statements,  \* the statements that may be asked
    Databases,   \* functions from tables to sequences of rows
    Garbage      \* cells found where nothing was stored

VARIABLES
    in,      \* stmt, data, larger (the table with the larger estimate), sortmerge,
             \* flag and cell: what uninitialised memory holds
    pc,      \* "analyze", "plan", "open", "join", "above", "done"
    result,  \* "none", "ok", "rejected", "crash"
    query,   \* Query, <<>> before
    plan,    \* Plan, <<>> before
    level,   \* the join that runs
    left,    \* its left child: [cols, rows]
    right,   \* its right child
    out      \* [cols, rows] of what is below the operators still to run

levelVars == <<level, left, right, joinVars>>

vars == <<in, pc, result, query, plan, out, levelVars>>

None == [cols |-> <<>>, rows |-> <<>>]

\* What the statement meets is fixed when it starts.
Init ==
    /\ \E stmt \in Statements, data \in Databases, sortmerge, flag \in BOOLEAN, cell \in Garbage :
           \E larger \in {"none", stmt.from[1].tab} :
               in = [stmt |-> stmt, data |-> data, larger |-> larger, sortmerge |-> sortmerge,
                     flag |-> flag, cell |-> cell]
    /\ pc = "analyze" /\ result = "none"
    /\ query = <<>> /\ plan = <<>>
    /\ level = 0 /\ left = None /\ right = None /\ JoinInit
    /\ out = None

Finish(r) == pc' = "done" /\ result' = r

-----------------------------------------------------------------------------
(* From the statement to the executors *)

Analyze ==
    /\ pc = "analyze"
    /\ query' = do_analyze(in.stmt, in.flag)
    /\ IF query'.ok THEN pc' = "plan" /\ UNCHANGED result ELSE Finish("rejected")
    /\ UNCHANGED <<in, plan, levelVars, out>>

Plan ==
    /\ pc = "plan"
    /\ plan' = do_planner(in.stmt, query, in.larger, in.sortmerge)
    /\ pc' = "open"
    /\ UNCHANGED <<in, result, query, levelVars, out>>

\* IndexScanExecutor: its constructor asserts that every condition is one on its table.
IndexScanFails(s) == s.tag = "index" /\ \E i \in DOMAIN s.conds : s.conds[i].lhs.tab # s.tab

\* Its beginTuple looks for the key of the equalities, zeros where there is none,
\* and moves on before it looks at the first entry.  The keys of an index are unique,
\* so the scan is at its end when the key is there, and else IxScan::next fails.
IndexScanBegin(s) ==
    LET Key(name) ==
            LET i == SelectInSeq(s.conds, LAMBDA c : c.isval /\ c.op = "=" /\ c.lhs.name = name)
            IN  IF i = 0 \/ s.conds[i].vals[1].v = NULL_INT THEN 0 ELSE s.conds[i].vals[1].v
        Cell(row, name) == row[Lookup(TableCols(s.tab), [tab |-> s.tab, name |-> name]).offset]
        rows == in.data[s.tab]
    IN  IF \E i \in DOMAIN rows : \A n \in DOMAIN s.index : Cell(rows[i], s.index[n]) = Key(s.index[n])
        THEN "empty" ELSE "crash"

BeginFails(s) == s.tag = "index" /\ IndexScanBegin(s) = "crash"

Scanned(s) ==
    LET rows == in.data[s.tab]
    IN  [cols |-> TableCols(s.tab),
         rows |-> IF s.tag = "index" THEN <<>>
                  ELSE SeqScan(s.tab, s.conds, in.stmt.for_update, rows)]

\* The columns of the executor below operator i.
RECURSIVE ColsBelow(_, _)
ColsBelow(cols, ops) ==
    CASE ops[1].op = "agg" -> ColsBelow(AggCols(cols, ops[1].aggs, ops[1].group), Tail(ops))
      [] ops[1].op = "project" -> cols
      [] OTHER -> ColsBelow(cols, Tail(ops))

JoinedCols(p) ==
    FoldLeft(LAMBDA cols, j : IF j.swapped THEN JoinCols(TableCols(j.scan.tab), cols)
                              ELSE JoinCols(cols, TableCols(j.scan.tab)),
             TableCols(p.first.tab), p.joins)

\* Portal::convert_plan_executor: the constructors run, and that of the projection
\* throws for a column its child does not have.  Then the root begins.
Open ==
    /\ pc = "open"
    /\ LET scans == <<plan.first>> \o [i \in DOMAIN plan.joins |-> plan.joins[i].scan]
           project == IF plan.ops = <<>> THEN <<>>
                      ELSE Projection(ColsBelow(JoinedCols(plan), plan.ops), Last(plan.ops).sel)
           Stop(r) == Finish(r) /\ UNCHANGED <<level, out>>
       IN  IF \E i \in DOMAIN scans : IndexScanFails(scans[i]) THEN Stop("crash")
           ELSE IF Contains(project, 0) THEN Stop("rejected")
           ELSE IF plan.joins = <<>> /\ BeginFails(plan.first) THEN Stop("crash")
           ELSE /\ out' = Scanned(plan.first)
                /\ IF plan.joins = <<>> THEN pc' = "above" /\ UNCHANGED level
                   ELSE pc' = "join" /\ level' = 1
                /\ UNCHANGED result
    /\ UNCHANGED <<in, query, plan, left, right, joinVars>>

-----------------------------------------------------------------------------
(* The joins, one level after the other *)

Join == plan.joins[level]

\* What check_all_conds says of two rows.
Verdict(lcols, lrow, rcols, rrow) ==
    CASE Join.tag = "nlj"  -> NljConds(Join.conds, lcols, lrow, rcols, rrow, in.cell)
      [] Join.tag = "hash" -> HashConds(Join.conds, lcols, lrow, rcols, rrow, in.cell)
      [] Join.tag = "smj"  -> SmjConds(Join.conds, lcols, lrow, rcols, rrow, in.cell)

\* The keys a row is hashed under and probed with.
EqualKeys(lcols, lrow, rcols, rrow) ==
    build_key(Join.equi, lcols[1].tab, TRUE, lcols, lrow)
        = build_key(Join.equi, lcols[1].tab, FALSE, rcols, rrow)

\* The join of two children, for Joins: conditions and keys depend on the rows alone.
Joining(l, r) ==
    LET both == (1..Len(l.rows)) \X (1..Len(r.rows))
    IN  [tag |-> Join.tag, type |-> Join.type, lefts |-> Len(l.rows), rights |-> Len(r.rows),
         outcome |-> [p \in both |-> Verdict(l.cols, l.rows[p[1]], r.cols, r.rows[p[2]])],
         equal |-> {p \in both : EqualKeys(l.cols, l.rows[p[1]], r.cols, r.rows[p[2]])}]

\* beginTuple of the next join: its children are what the level below has emitted
\* and the scan of the next table.  The right child begins if there is a left row,
\* or in a FULL join.
OpenJoin ==
    /\ pc = "join"
    /\ left' = IF Join.swapped THEN Scanned(Join.scan) ELSE out
    /\ right' = IF Join.swapped THEN out ELSE Scanned(Join.scan)
    /\ Begin(Joining(left', right'))
    /\ LET below == level = 1 /\ BeginFails(plan.first)
           new == BeginFails(Join.scan)
           begins == left'.rows # <<>> \/ Join.type = "FULL"
           fails == IF Join.swapped THEN new \/ (begins /\ below) ELSE below \/ (begins /\ new)
       IN  IF fails THEN Finish("crash") ELSE UNCHANGED <<pc, result>>
    /\ UNCHANGED <<in, query, plan, level, out>>

\* A move of its cursor, which crashes where a condition does.
Step(move) ==
    /\ pc = "join"
    /\ move
    /\ IF cursor'.phase = "crash" THEN Finish("crash") ELSE UNCHANGED <<pc, result>>
    /\ UNCHANGED <<in, query, plan, level, left, right, out>>

\* Next: the row of a pair, a padded side filled with zeros.
PairRow(p) ==
    (IF p[1] = 0 THEN Zeros(left.cols) ELSE left.rows[p[1]])
    \o (IF p[2] = 0 THEN Zeros(right.cols) ELSE right.rows[p[2]])

CloseJoin ==
    /\ pc = "join"
    /\ Close
    /\ out' = [cols |-> JoinCols(left.cols, right.cols),
               rows |-> [i \in DOMAIN pairs |-> PairRow(pairs[i])]]
    /\ IF level = Len(plan.joins) THEN pc' = "above" /\ UNCHANGED level
       ELSE level' = level + 1 /\ UNCHANGED pc
    /\ UNCHANGED <<in, result, query, plan, left, right>>

-----------------------------------------------------------------------------
(* The operators above *)

Head1 == plan.ops[1]

\* The operator is done; what is left of the plan runs on its rows.
Above(op) == pc = "above" /\ plan.ops # <<>> /\ Head1.op = op

Produce(cols, rows) ==
    /\ out' = [cols |-> cols, rows |-> rows]
    /\ plan' = [plan EXCEPT !.ops = Tail(@)]
    /\ UNCHANGED <<in, pc, result, query, levelVars>>

RunAggregation ==
    /\ Above("agg")
    /\ \E rows \in SetToSeqs(Aggregate(out.rows, out.cols, Head1.aggs, Head1.group, Head1.having)) :
          Produce(AggCols(out.cols, Head1.aggs, Head1.group), rows)

RunDistinct ==
    /\ Above("distinct")
    /\ Produce(out.cols, Distinct(out.rows))

\* The operators that do not answer get_col_offset are sorted by their first cell.
SortOffset ==
    IF query.has_agg \/ in.stmt.distinct \/ plan.joins # <<>> \/ plan.first.tag = "index" THEN 1
    ELSE LET i == SelectInSeq(out.cols, LAMBDA m : m.name = Head1.col.name
                                            /\ Head1.col.tab \in {"", m.tab})
         IN  IF i = 0 THEN 1 ELSE i

\* SortExecutor keeps what its child's Next returns; a hash and a sort-merge join
\* return a view of one buffer, so that all rows are the last.
RunSort ==
    /\ Above("sort")
    /\ LET views == /\ ~query.has_agg /\ ~in.stmt.distinct
                    /\ plan.joins # <<>> /\ Last(plan.joins).tag \in {"hash", "smj"}
           kept == IF views THEN [i \in DOMAIN out.rows |-> Last(out.rows)] ELSE out.rows
       IN  \E rows \in Sortings(kept, SortOffset, Head1.desc) : Produce(out.cols, rows)

RunLimit ==
    /\ Above("limit")
    /\ Produce(out.cols, Limited(out.rows, Head1.n, Head1.off))

RunProjection ==
    /\ Above("project")
    /\ LET at == Projection(out.cols, Head1.sel)
       IN  Produce([i \in DOMAIN at |-> out.cols[at[i]]],
                   [r \in DOMAIN out.rows |-> [i \in DOMAIN at |-> out.rows[r][at[i]]]])

\* QlManager::select_from has printed the last row, or the portal has collected the
\* rows of the DELETE or UPDATE.
Answer ==
    /\ pc = "above" /\ plan.ops = <<>>
    /\ Finish("ok")
    /\ UNCHANGED <<in, query, plan, levelVars, out>>

Done == pc = "done" /\ UNCHANGED vars

Next ==
    \/ Analyze \/ Plan \/ Open
    \/ OpenJoin \/ Step(UnmatchedRight) \/ CloseJoin
    \/ Step(NljScan) \/ Step(NljNextLeft)
    \/ Step(HashAdvance) \/ Step(HashProbe) \/ Step(HashEnd) \/ Step(HashNullRight)
    \/ Step(SmjTry) \/ Step(SmjAgain) \/ Step(SmjPad) \/ Step(SmjAfterPad) \/ Step(SmjNextLeft)
    \/ RunAggregation \/ RunDistinct \/ RunSort \/ RunLimit \/ RunProjection \/ Answer
    \/ Done

\* The worker that took the statement runs it to the end: WF_vars(Next), with its
\* ENABLED written out, since an action is enabled until the statement is done.
Fairness == []<>(pc = "done") \/ []<><<Next>>_vars

Spec == Init /\ [][Next]_vars /\ Fairness

-----------------------------------------------------------------------------
(* Properties *)

\* Type correctness.
TypeOK ==
    /\ pc \in {"analyze", "plan", "open", "join", "above", "done"}
    /\ result \in {"none", "ok", "rejected", "crash"}
    /\ (pc = "done") = (result # "none")
    /\ level \in 0..Len(in.stmt.from)
    /\ JoinTypeOK
    /\ join.lefts = Len(left.rows) /\ join.rights = Len(right.rows)
    /\ \A i \in DOMAIN out.rows : Len(out.rows[i]) = Len(out.cols)

RECURSIVE Leaves(_)
Leaves(c) == IF c.op \in {"and", "or", "not"} THEN UNION {Leaves(c.args[i]) : i \in DOMAIN c.args} ELSE {c}

RECURSIVE Uses(_, _)
Uses(c, ops) == c.op \in ops \/ \E i \in DOMAIN c.args : Uses(c.args[i], ops)

\* The conditions of WHERE, of ON and of both.
WhereConds == UNION {Leaves(in.stmt.where[i]) : i \in DOMAIN in.stmt.where}
OnConds == UNION {UNION {Leaves(in.stmt.from[j].on[i]) : i \in DOMAIN in.stmt.from[j].on} :
                  j \in DOMAIN in.stmt.from}

\* Invalid statements the analyzer lets pass: an unknown table behind a table, a
\* column of a table that is not asked, the high end of BETWEEN, and what only the
\* planner sees, the columns of aggregates and of ORDER BY.
Unnoticed ==
    LET stmt == in.stmt
        Asked == {stmt.from[i].tab : i \in DOMAIN stmt.from} \union {stmt.from[i].alias : i \in DOMAIN stmt.from}
        Names == ToSet(stmt.cols) \union {c.lhs : c \in WhereConds \union OnConds}
    IN  \/ \E i \in 2..Len(stmt.from) : ~is_table(stmt.from[i].tab)
        \/ \E c \in Names : c.tab # "" /\ c.tab \notin Asked
        \/ \E c \in WhereConds : c.op \in {"between", "notbetween"} /\ c.vals[2].type # c.vals[1].type
        \/ \E i \in DOMAIN stmt.aggs : stmt.aggs[i].col # "" /\ ~Known(stmt, [tab |-> "", name |-> stmt.aggs[i].col])
        \/ \E i \in DOMAIN stmt.order : ~Known(stmt, [tab |-> "", name |-> stmt.order[i].name])

\* A group of conditions below OR or NOT is rejected when flag happens to be FALSE.
Grouped == \E i \in DOMAIN in.stmt.where : Uses(in.stmt.where[i], {"or", "not"}) /\ Uses(in.stmt.where[i], {"and"})

\* A statement is rejected exactly if it is invalid, but for what the analyzer does
\* not notice, columns that are selected twice and groups below OR.
RejectsInvalid ==
    LET stmt == in.stmt
        twice == \E i, j \in DOMAIN stmt.cols : i # j /\ stmt.cols[i] = stmt.cols[j]
    IN  (pc = "done" /\ ~Unnoticed /\ ~Grouped /\ ~twice) => (result = "rejected" <=> ~Valid(stmt))

-----------------------------------------------------------------------------
(* Where an answer is right.  Each operator names one way in which the engine   *)
(* departs from SQL; together they leave the statements it answers rightly.     *)

Tables == [i \in DOMAIN in.stmt.from |-> in.stmt.from[i].tab]

\* The position in FROM of the table of a column.
TableOf(c) == Where(in.stmt, c)[1]

Planned == plan # <<>>

\* An index scan skips the only entry of its key.
IndexIsScanned ==
    plan.first.tag = "index" \/ \E i \in DOMAIN plan.joins : plan.joins[i].scan.tag = "index"

\* A SELECT forgets OR and NOT, a group below them depends on flag.
ForgetsOrNot ==
    Grouped \/ (in.stmt.kind = "select" /\ \E i \in DOMAIN in.stmt.where : Uses(in.stmt.where[i], {"or", "not"}))

\* NULLs are stored as zeros: they are equal to each other and no integer is NULL.
MeetsNull ==
    /\ \E i \in DOMAIN Tables : \E r \in DOMAIN in.data[Tables[i]] : Contains(in.data[Tables[i]][r], 0)
    /\ WhereConds \union OnConds # {} \/ in.stmt.aggs # <<>>

\* A NULL literal is an integer below all others.
NullLiteral == \E c \in WhereConds : \E i \in DOMAIN c.vals : c.vals[i].v = NULL_INT

\* The amount an expression adds to its column is dropped.
Arithmetic == \E c \in WhereConds : c.arith # 0

\* A condition of ON on one table is evaluated in the join, through a null pointer,
\* and pushed below the join.
OnOneTable == \E c \in OnConds : ~ComparesColumns(c) \/ TableOf(c.lhs) = TableOf(c.rhs)

\* Outer joins: FULL skips the first right row, WHERE is pushed below the join or
\* into its condition, and a hash join of a larger table pads the other side.
OuterIsWrong ==
    \E i \in DOMAIN in.stmt.from :
        \/ in.stmt.from[i].type = "FULL"
        \/ in.stmt.from[i].type \in {"LEFT", "RIGHT"} /\ (WhereConds # {} \/ in.larger # "none")

\* The sort-merge join drops and pads rows as soon as there are two left ones.
SortMergeIsWrong ==
    \E i \in DOMAIN plan.joins : plan.joins[i].tag = "smj" /\ (plan.joins[i].conds # <<>> \/ Len(left.rows) > 1)

\* The first join takes the conditions of all later ones.
ThirdTable == Len(Tables) > 2 /\ \E c \in WhereConds \union OnConds : ComparesColumns(c)

\* Two columns of a table are compared in the scan of the first table.
ComparesLater ==
    \E c \in WhereConds : ComparesColumns(c) /\ TableOf(c.lhs) = TableOf(c.rhs) /\ TableOf(c.lhs) > 1

\* Duplicates are dropped before the projection.
DistinctIsNarrow == in.stmt.distinct /\ in.stmt.cols # <<>> /\ in.stmt.aggs = <<>>

\* Only a sequential scan tells the sort where its column is, and two joins return
\* views of one buffer.
SortsElsewhere ==
    /\ in.stmt.order # <<>>
    /\ \/ in.stmt.aggs # <<>> /\ (in.stmt.group = <<>> \/ in.stmt.group[1].name # in.stmt.order[1].name)
       \/ in.stmt.aggs = <<>> /\ (in.stmt.distinct \/ Len(Tables) > 1)

\* HAVING takes the first column of the result with the name of the aggregate's.
HavingElsewhere ==
    \E i \in DOMAIN in.stmt.having :
        LET c == in.stmt.having[i]
        IN  c.fn # "" /\ (\/ \E j \in DOMAIN in.stmt.group : in.stmt.group[j].name = c.lhs.name
                         \/ ~\E j \in DOMAIN in.stmt.aggs :
                               /\ in.stmt.aggs[j] = [fn |-> c.fn, col |-> c.lhs.name]
                               /\ \A k \in 1..(j - 1) : in.stmt.aggs[k].col # c.lhs.name)

\* GROUP BY without an aggregate is ignored, strings are aggregated as 0.
GroupIsIgnored == in.stmt.group # <<>> /\ in.stmt.aggs = <<>>
AggregatesString ==
    \E i \in DOMAIN in.stmt.aggs : /\ in.stmt.aggs[i].col # "" /\ in.stmt.aggs[i].fn # "COUNT"
                                  /\ TypeIn(in.stmt, [tab |-> "", name |-> in.stmt.aggs[i].col]) = "str"

\* FOR UPDATE ends at the first row after the first that does not match.
LocksPrefix == in.stmt.for_update /\ in.stmt.where # <<>>

Departs ==
    \/ IndexIsScanned \/ ForgetsOrNot \/ MeetsNull \/ NullLiteral \/ Arithmetic \/ OnOneTable
    \/ OuterIsWrong \/ SortMergeIsWrong \/ ThirdTable \/ ComparesLater \/ DistinctIsNarrow
    \/ SortsElsewhere \/ HavingElsewhere \/ GroupIsIgnored \/ AggregatesString \/ LocksPrefix

\* The place of the ORDER BY column in the rows.
KeyAt ==
    LET i == SelectInSeq(query.cols, LAMBDA c : \E o \in DOMAIN in.stmt.order : c.name = in.stmt.order[o].name)
    IN  IF i = 0 THEN 1 ELSE i

\* A valid statement that meets none of the departures is answered as SQL says,
\* whatever its joins, the order in which rows are found and what memory holds.
SelectIsRight ==
    (pc = "done" /\ Valid(in.stmt) /\ Planned /\ result # "rejected" /\ ~Departs) =>
        result = "ok" /\ Answers(in.stmt, in.data, KeyAt, out.rows)

\* A statement ends: its worker steps through finitely many rows.
EveryStatementEnds == <>(pc = "done")
=============================================================================
