------------------------------- MODULE Planner -------------------------------
(***************************************************************************)
(* From a query to a plan: optimizer/planner.cpp, with the operators that  *)
(* Portal::convert_plan_executor (portal.h) makes of it.                   *)
(*                                                                         *)
(* A plan is a record                                                      *)
(*   first   the scan [tag, tab, conds, index] of the first table          *)
(*   joins   one [tag, type, conds, equi, scan, swapped] for every table   *)
(*           joined to what is to its left                                 *)
(*   ops     the operators above, from the bottom                          *)
(* swapped says that the new table is the left child.                      *)
(***************************************************************************)
EXTENDS Analyzer

CONSTANT Index  \* table -> sequence of indexes, an index a sequence of column names

-----------------------------------------------------------------------------
(* Conditions *)

\* logical_optimization: conditions of one table first, equalities first in each half.
logical_optimization(conds) ==
    LET OneTable(c) == c.isval \/ c.lhs.tab = c.rhs.tab
        EqFirst(s) == SelectSeq(s, LAMBDA c : c.op = "=") \o SelectSeq(s, LAMBDA c : c.op # "=")
    IN  EqFirst(SelectSeq(conds, OneTable)) \o EqFirst(SelectSeq(conds, LAMBDA c : ~OneTable(c)))

\* pop_conds: what the scan of a table takes.  A comparison of two columns of one
\* table is taken by the scan that is asked first, whatever its table.
Popped(c, t) ==
    \/ /\ c.lhs.tab = t
       /\ c.isval \/ c.op \in {"null", "notnull", "in", "notin", "between", "notbetween"}
    \/ c.lhs.tab = c.rhs.tab /\ c.rhs.tab # ""

pop_conds(conds, t) == SelectSeq(conds, LAMBDA c : Popped(c, t))
RestConds(conds, t) == SelectSeq(conds, LAMBDA c : ~Popped(c, t))

\* get_index_cols: the columns with an equality or a NULL test, in the order of the
\* conditions, must be the columns of an index.
get_index_cols(t, conds) ==
    LET usable == SelectSeq(conds, LAMBDA c :
                      /\ c.arith = 0 /\ c.lhs.tab = t
                      /\ (c.isval /\ c.op = "=") \/ c.op \in {"null", "notnull"})
        names == [i \in DOMAIN usable |-> usable[i].lhs.name]
    IN  IF names # <<>> /\ Contains(Index[t], names) THEN names ELSE <<>>

ScanPlan(t, conds) ==
    LET index == get_index_cols(t, conds)
    IN  [tag |-> IF index = <<>> THEN "seq" ELSE "index", tab |-> t, conds |-> conds, index |-> index]

-----------------------------------------------------------------------------
(* Joins *)

\* is_equi_join
is_equi_join(conds) ==
    \E i \in DOMAIN conds :
        /\ ~conds[i].isval /\ conds[i].op = "="
        /\ conds[i].lhs.tab # conds[i].rhs.tab
        /\ "" \notin {conds[i].lhs.tab, conds[i].rhs.tab}

\* The equalities the portal makes the keys of a join of.
equi_conds(conds) == SelectSeq(conds, LAMBDA c : ~c.isval /\ c.op = "=")

\* choose_join: a hash join for an equality, with the table that is estimated
\* smaller on the left whatever the type of the join; only two scans are swapped.
\* The portal makes a LEFT join of a RIGHT one by swapping once more.
JoinPlan(i, tables, item, conds, scan, larger, sortmerge) ==
    LET equi == is_equi_join(conds)
        cbo == equi /\ i = 2 /\ larger = tables[1]
        right == item.type = "RIGHT"
    IN  [tag     |-> CASE equi -> "hash" [] ~equi /\ sortmerge -> "smj" [] OTHER -> "nlj",
         type    |-> IF right THEN "LEFT" ELSE item.type,
         conds   |-> conds, equi |-> equi_conds(conds), scan |-> scan,
         swapped |-> cbo # right]

\* make_one_rel.  Every scan takes its conditions from what the scans before it have
\* left.  The first join takes all that is left, of later tables too, and what only
\* one table is left with is forgotten.
make_one_rel(query, larger, sortmerge) ==
    LET n == Len(query.tables)
        left[i \in 0..n] == IF i = 0 THEN query.conds ELSE RestConds(left[i - 1], query.tables[i])
        scans == [i \in 1..n |-> ScanPlan(query.tables[i], pop_conds(left[i - 1], query.tables[i]))]
        Rest == SelectSeq(left[n], LAMBDA c : ~c.isval)
        Join(i) == JoinPlan(i, query.tables, query.tree[i],
                            query.tree[i].conds \o IF i = 2 THEN Rest ELSE <<>>,
                            scans[i], larger, sortmerge)
    IN  [first |-> scans[1], joins |-> [i \in 1..(n - 1) |-> Join(i + 1)]]

-----------------------------------------------------------------------------
(* The operators above the joins *)

\* generate_sort_plan: the last column with the name, none if there is none.
generate_sort_plan(stmt, tables) ==
    LET all == get_all_cols(tables)
    IN  IF stmt.order = <<>> THEN <<>>
        ELSE LET named == {i \in DOMAIN all : all[i].name = stmt.order[1].name}
             IN  <<[op |-> "sort", desc |-> stmt.order[1].desc,
                    col |-> IF named = {} THEN NoName
                            ELSE [tab |-> all[Max(named)].tab, name |-> stmt.order[1].name]]>>

\* physical_optimization
physical_optimization(stmt, query) ==
    (IF query.has_agg THEN <<[op |-> "agg", aggs |-> stmt.aggs,
                              group |-> [i \in DOMAIN stmt.group |-> stmt.group[i].name],
                              having |-> Clause(stmt.having, FALSE)]>>
     ELSE <<>>)
    \o (IF stmt.distinct THEN <<[op |-> "distinct"]>> ELSE <<>>)
    \o generate_sort_plan(stmt, query.tables)
    \o (IF stmt.limit = <<>> THEN <<>>
        ELSE <<[op |-> "limit", n |-> stmt.limit[1].n, off |-> stmt.limit[1].off]>>)

\* generate_select_plan: the aggregates are projected behind the columns.
generate_select_plan(stmt, query, larger, sortmerge) ==
    LET conds == logical_optimization(query.conds)
        rel == make_one_rel([query EXCEPT !.conds = conds], larger, sortmerge)
        sel == query.cols \o IF query.has_agg
                             THEN [i \in DOMAIN stmt.aggs |-> [tab |-> "", name |-> stmt.aggs[i].col]]
                             ELSE <<>>
    IN  [first |-> rel.first, joins |-> rel.joins,
         ops |-> physical_optimization(stmt, query) \o <<[op |-> "project", sel |-> sel]>>]

\* do_planner.  DELETE and UPDATE take their rows from one scan with all conditions.
do_planner(stmt, query, larger, sortmerge) ==
    IF stmt.kind = "select" THEN generate_select_plan(stmt, query, larger, sortmerge)
    ELSE [first |-> ScanPlan(query.tables[1], query.conds), joins |-> <<>>, ops |-> <<>>]
=============================================================================
