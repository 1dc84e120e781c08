------------------------------ MODULE Analyzer ------------------------------
(***************************************************************************)
(* Statements and their semantic check: the SELECT rule of parser/yacc.y   *)
(* and analyze/analyze.cpp.                                                *)
(*                                                                         *)
(* A statement is a record with the fields                                 *)
(*   kind    "select", "delete" or "update"                                *)
(*   from    sequence of [tab, alias, type, on], alias "" if there is      *)
(*           none, type "comma" for the tables of the list                 *)
(*   cols    columns [tab, name]; empty for * and for aggregates alone     *)
(*   aggs    sequence of [fn, col]                                         *)
(*   distinct, for_update   Booleans                                       *)
(*   where, having          sequences of at most one condition             *)
(*   group   sequence of columns                                           *)
(*   order, limit           at most one [name, desc], [n, off]             *)
(* Conditions are those of Tuples with "and" as one more operator.         *)
(*                                                                         *)
(* Left out: views, CONCAT and other expressions of the select list, LIKE, *)
(* floats and the length of strings.                                       *)
(***************************************************************************)
EXTENDS Tuples

is_table(n) == n \in DOMAIN Schema

\* SelectStmt::tabs: every table, followed by its alias if it has one.
ParsedTabs(stmt) ==
    FlattenSeq([i \in DOMAIN stmt.from |->
        IF stmt.from[i].alias = "" THEN <<stmt.from[i].tab>>
        ELSE <<stmt.from[i].tab, stmt.from[i].alias>>])

\* SelectStmt::joins
ParsedJoins(stmt) == SelectSeq(stmt.from, LAMBDA f : f.type # "comma")

\* aliases_: a name that is no table and follows one is taken for its alias, also
\* when it is the next table of the list and does not exist.
Aliases(tabs) ==
    LET At == {i \in 2..Len(tabs) : is_table(tabs[i - 1]) /\ ~is_table(tabs[i])}
    IN  [n \in {tabs[i] : i \in At} |-> tabs[Max({i \in At : tabs[i] = n}) - 1]]

\* get_all_cols
get_all_cols(tables) ==
    FlattenSeq([i \in DOMAIN tables |->
                   IF is_table(tables[i]) THEN TableCols(tables[i]) ELSE <<>>])

HasCol(t, name) == is_table(t) /\ \E i \in DOMAIN Schema[t] : Schema[t][i].name = name

\* What an operator returns where the code throws.
Bad == [tab |-> "error", name |-> "error"]
BadCond == [op |-> "error"]

\* Mutant: the first table that has the column is taken.
check_column_first(aliases, all, c) ==
    LET t == IF c.tab \in DOMAIN aliases THEN aliases[c.tab] ELSE c.tab
        i == SelectInSeq(all, LAMBDA m : m.name = c.name)
    IN  CASE t = "" /\ i # 0          -> [c EXCEPT !.tab = all[i].tab]
          [] t # "" /\ HasCol(t, c.name) -> [c EXCEPT !.tab = t]
          [] OTHER                       -> Bad

\* check_column.  A column with a table need not be of a table of the statement.
check_column(aliases, all, c) ==
    LET t == IF c.tab \in DOMAIN aliases THEN aliases[c.tab] ELSE c.tab
        owners == {i \in DOMAIN all : all[i].name = c.name}
    IN  CASE t = "" /\ Cardinality(owners) = 1 -> [c EXCEPT !.tab = all[Max(owners)].tab]
          [] t # "" /\ HasCol(t, c.name)       -> [c EXCEPT !.tab = t]
          [] OTHER                             -> Bad

TypeOf(c) == Lookup(TableCols(c.tab), c).type

\* get_clause.  AND is a list of conditions.  is_rhs_val of an OR or a NOT is never
\* set: flag.  A child of them that is a list becomes a comparison without columns.
RECURSIVE get_clause(_, _)
get_clause(node, flag) ==
    LET Node == [node EXCEPT !.isval = flag, !.fn = "", !.lhs = NoName, !.rhs = NoName]
        Child(i) ==
            LET list == get_clause(node.args[i], flag)
            IN  IF Len(list) = 1 THEN list[1] ELSE [Node EXCEPT !.op = "=", !.args = list]
    IN  CASE node.op = "and" -> FlattenSeq([i \in DOMAIN node.args |-> get_clause(node.args[i], flag)])
          [] node.op \in {"or", "not"} -> <<[Node EXCEPT !.args = [i \in DOMAIN node.args |-> Child(i)]]>>
          [] OTHER -> <<[node EXCEPT !.fn = ""]>>

Clause(optional, flag) == IF optional = <<>> THEN <<>> ELSE get_clause(optional[1], flag)

\* The type check of check_clause: only the low end of BETWEEN is looked at.
TypesAgree(c, lhs, rhs) ==
    CASE c.op \in {"null", "notnull"} -> TRUE
      [] c.op \in {"in", "notin"} -> \A i \in DOMAIN c.vals : c.vals[i].type = TypeOf(lhs)
      [] c.op \in {"between", "notbetween"} -> c.vals[1].type = TypeOf(lhs)
      [] OTHER -> TypeOf(lhs) = IF c.isval THEN c.vals[1].type ELSE TypeOf(rhs)

\* check_clause for one condition: its columns get their tables.  Without a left
\* side there is nothing to check but a right side that is no literal.
RECURSIVE check_one(_, _, _)
check_one(c, aliases, all) ==
    LET lhs == IF c.lhs = NoName THEN NoName ELSE check_column(aliases, all, c.lhs)
        rhs == IF c.isval \/ c.op \in {"null", "notnull", "in", "notin"} THEN c.rhs
               ELSE check_column(aliases, all, c.rhs)
        Args == [i \in DOMAIN c.args |-> check_one(c.args[i], aliases, all)]
    IN  CASE c.op \in {"or", "not"} ->
             IF Contains(Args, BadCond) THEN BadCond ELSE [c EXCEPT !.args = Args]
          [] OTHER ->
             IF Bad \in {lhs, rhs} \/ (lhs # NoName /\ ~TypesAgree(c, lhs, rhs)) THEN BadCond
             ELSE [c EXCEPT !.lhs = lhs, !.rhs = rhs]

check_clause(conds, aliases, all) ==
    [i \in DOMAIN conds |-> check_one(conds[i], aliases, all)]

\* Query: what do_analyze hands to the planner; ok is FALSE when it throws.
\* The branch of SELECT.  ON conditions are entered in conds as well.
AnalyzeSelect(stmt, flag) ==
    LET tabs == ParsedTabs(stmt)
        aliases == Aliases(tabs)
        tables == SelectSeq(tabs, LAMBDA t : t \notin DOMAIN aliases)
        all == get_all_cols(tables)
        cols == IF stmt.cols # <<>>
                THEN [i \in DOMAIN stmt.cols |-> check_column(aliases, all, stmt.cols[i])]
                ELSE IF stmt.aggs # <<>> THEN <<>>
                ELSE [i \in DOMAIN all |-> [tab |-> all[i].tab, name |-> all[i].name]]
        joins == ParsedJoins(stmt)
        Join(t) == LET i == SelectInSeq(joins, LAMBDA j : j.tab = t)
                   IN  IF i = 0 THEN [tab |-> t, type |-> "INNER", conds |-> <<>>]
                       ELSE [tab |-> t, type |-> joins[i].type,
                             conds |-> check_clause(Clause(joins[i].on, flag), aliases, all)]
        tree == [i \in DOMAIN tables |->
                    IF i = 1 THEN [tab |-> tables[1], type |-> "INNER", conds |-> <<>>]
                    ELSE Join(tables[i])]
        conds == check_clause(Clause(stmt.where, flag), aliases, all)
                    \o FlattenSeq([i \in DOMAIN tree |-> tree[i].conds])
        group == [i \in DOMAIN stmt.group |-> check_column(aliases, all, stmt.group[i])]
    IN  [ok |-> /\ \A i \in DOMAIN tables : is_table(tables[i])
                /\ ~Contains(cols, Bad) /\ ~Contains(conds, BadCond)
                /\ \A i \in DOMAIN group : group[i] # Bad /\ Contains(cols, group[i])
                /\ stmt.limit # <<>> => stmt.limit[1].n > 0,
         tables |-> tables, cols |-> cols, conds |-> conds, tree |-> tree,
         has_agg |-> stmt.aggs # <<>>]

NoAliases == [n \in {} |-> ""]

\* The branches of UPDATE and DELETE.  The aliases of the SELECT before, which stay
\* in the shared Analyze, are left out.
AnalyzeDml(stmt, flag) ==
    LET t == stmt.from[1].tab
        all == get_all_cols(<<t>>)
        cols == [i \in DOMAIN stmt.cols |-> check_column(NoAliases, all, stmt.cols[i])]
        conds == check_clause(Clause(stmt.where, flag), NoAliases, all)
    IN  [ok |-> is_table(t) /\ ~Contains(cols, Bad) /\ ~Contains(conds, BadCond),
         tables |-> <<t>>, cols |-> cols, conds |-> conds, tree |-> <<>>, has_agg |-> FALSE]

do_analyze(stmt, flag) ==
    IF stmt.kind = "select" THEN AnalyzeSelect(stmt, flag) ELSE AnalyzeDml(stmt, flag)
=============================================================================
