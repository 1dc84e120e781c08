---------------------------- MODULE MCLockManager ----------------------------
(* LockManager on small instances: the workloads of the runs.               *)
EXTENDS LockManager, TLC

CONSTANTS tab, r1, r2, r3, g1

MixedShards == <<tab, r1, g1>>
CrossedShards == <<r1, r2, r3>>

\* Scans that update, writers, and an insert into a guarded gap.
MixedWants ==
    1 :> {<<tab, "IS">>, <<tab, "IX">>, <<r1, "S">>, <<r1, "X">>} @@
    2 :> {<<r1, "S">>, <<r1, "X">>, <<g1, "GAP">>} @@
    3 :> {<<tab, "S">>, <<r1, "X">>, <<g1, "INSERT_INT">>, <<g1, "GAP">>}

\* Transaction 1 holds what 2 waits for; 2 and 3 then wait for each other.
CrossedWants ==
    1 :> {<<r3, "X">>} @@
    2 :> {<<r1, "X">>, <<r2, "X">>, <<r3, "X">>} @@
    3 :> {<<r1, "X">>, <<r2, "X">>}
=============================================================================
