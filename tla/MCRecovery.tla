------------------------------ MODULE MCRecovery ------------------------------
(* Recovery on a small instance: two slots on one page.                      *)
EXTENDS Recovery

OnePage == [r \in Rid |-> 1]
SlotSymmetry == Permutations(Rid)

\* A recreated table is left as it is until the server is stopped.
RecreatedLast == recreated > 0 => stops < 2 /\ \A t \in Txn : pc[t] \in {"none", "done"}
=============================================================================
