------------------------------ MODULE MCServer -------------------------------
(***************************************************************************)
(* Plans for three clients and two workers.                                *)
(***************************************************************************)
EXTENDS Server

CONSTANTS ann, bob, cyd

S(pattern, fast, key, val) == [pattern |-> pattern, fast |-> fast, tab |-> "t",
                               where |-> "id", key |-> key, val |-> val]
Update(k, v) == S("update", TRUE, k, v)
SlowUpdate(k, v) == S("update", FALSE, k, v)
Insert(k) == S("insert", TRUE, k, 0)
Delete(k) == S("delete", TRUE, k, 0)
Select(k) == S("select", TRUE, k, 9)
Other(k) == S("other", FALSE, k, 0)

\* A client sends its statements in packets, each of which ends after so many units.
Absent == [stmts |-> <<>>, packets |-> {}, after |-> <<>>, waits |-> TRUE, leaves |-> "never"]
Sends(stmts, packets) == [Absent EXCEPT !.stmts = stmts, !.packets = packets]
SendsAndLeaves(stmts, packets) == [Sends(stmts, packets) EXCEPT !.leaves = "answered"]
SendsAndHangsUp(stmts, packets) == [Sends(stmts, packets) EXCEPT !.leaves = "early"]
Plan(sa, sb, sc, stops) == [script |-> (ann :> sa) @@ (bob :> sb) @@ (cyd :> sc), stops |-> stops]

\* One client sends several statements at once, one of them wrong, and one in two parts.
Batches == Plan(SendsAndLeaves(<<SlowUpdate(1, 5), Broken, Update(2, 6), Insert(3)>>, {6, 7, 8}),
                Absent, Absent, FALSE)

\* Two clients share the parser.
Parses == Plan(Sends(<<Other(1)>>, {2}), Sends(<<SlowUpdate(2, 5)>>, {2}), Absent, FALSE)

\* The descriptor of a client that has left is the next one's.
Follows == Plan(SendsAndLeaves(<<Insert(1), Select(1)>>, {4}),
                [Sends(<<Insert(2), Delete(2)>>, {4}) EXCEPT !.after = (ann :> "left")],
                Absent, FALSE)

\* A client hangs up without its answer while another goes on.
Leaves == Plan([SendsAndHangsUp(<<Insert(1)>>, {2}) EXCEPT !.after = (bob :> "answer")],
               Sends(<<Select(1), Select(2)>>, {2, 4}), Absent, FALSE)

\* The same with its descriptor free for another client, under the statement.
Reuses == Plan(SendsAndHangsUp(<<Insert(1)>>, {2}),
               [Sends(<<Select(2)>>, {2}) EXCEPT !.after = (ann :> "left")], Absent, FALSE)

\* One connection too many.
Crowds == Plan(Sends(<<Delete(1)>>, {2}),
               [Sends(<<Delete(2)>>, {2}) EXCEPT !.after = (ann :> "answer")],
               [Sends(<<Delete(3)>>, {2}) EXCEPT !.after = (bob :> "answer")], FALSE)

\* The server is stopped at any point.
Stops == Plan(Sends(<<Select(1), Select(2)>>, {4}), Absent, Absent, TRUE)

SoundPlans == {Batches, Parses, Follows, Leaves, Reuses, Crowds, Stops}
SomePlans == {Plan(Sends(<<Insert(1), Select(1)>>, {2, 4}), Absent, Absent, FALSE)}
==============================================================================
