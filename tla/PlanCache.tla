------------------------------ MODULE PlanCache ------------------------------
(***************************************************************************)
(* The statements the server takes and the plans its workers keep          *)
(* (rmdb.cpp:179-507).  A statement is a record: the pattern its syntax    *)
(* tree has (identify_pattern), whether its text is one try_fast_path      *)
(* reads without the parser, its table, what its WHERE tests ("id" alone,  *)
(* or something else), and its two numbers.  A plan has the condition of   *)
(* the statement twice, in the DML node and in the scan below it.          *)
(***************************************************************************)
EXTENDS Integers

Patterns == {"update", "delete", "select", "insert"}
NoPlan == [pattern |-> "none"]
Broken == [pattern |-> "broken", fast |-> FALSE]

\* The texts of sysbench need no parser; the tree they give is the parser's.
try_fast_path(s) == s.fast
identify_pattern(s) == s.pattern
Cacheable(s) == identify_pattern(s) \in Patterns

Tree == [pattern : STRING, fast : BOOLEAN, tab : STRING, where : STRING, key : Int, val : Int]
Statement == {s \in Tree : try_fast_path(s) => Cacheable(s)} \cup {Broken}

\* What analyzer and planner make of a statement (module Planner).
plan_query(s) == [pattern |-> s.pattern, tab |-> s.tab, where |-> s.where,
                  key |-> s.key, val |-> s.val, scan |-> s.key]

\* The clone of a template with the numbers of a statement.  The table, and what the
\* conditions are, stay the template's.
clone_rebind_update_not_scan(tmpl, s) ==    \* mutant
    [tmpl EXCEPT !.key = s.key, !.val = s.val]
clone_rebind_update(tmpl, s) == [tmpl EXCEPT !.key = s.key, !.val = s.val, !.scan = s.key]
clone_rebind_delete(tmpl, s) == [tmpl EXCEPT !.key = s.key, !.scan = s.key]
clone_rebind_select(tmpl, s) == [tmpl EXCEPT !.scan = s.key, !.val = s.val]
clone_rebind_insert(tmpl, s) == [tmpl EXCEPT !.key = s.key, !.val = s.val]

clone_and_rebind(tmpl, s) ==
    CASE s.pattern = "update" -> clone_rebind_update(tmpl, s)
      [] s.pattern = "delete" -> clone_rebind_delete(tmpl, s)
      [] s.pattern = "select" -> clone_rebind_select(tmpl, s)
      [] s.pattern = "insert" -> clone_rebind_insert(tmpl, s)

\* What running a plan does: an INSERT takes its values, the others the rows of the scan;
\* a DELETE has one number.
Effect(p) == [pattern |-> p.pattern, tab |-> p.tab, where |-> p.where,
              val |-> IF p.pattern = "delete" THEN 0 ELSE p.val,
              key |-> IF p.pattern = "insert" THEN p.key ELSE p.scan]
Meant(s) == IF s = Broken THEN Broken ELSE Effect(plan_query(s))
==============================================================================
