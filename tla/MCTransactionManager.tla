------------------------ MODULE MCTransactionManager ------------------------
(* TransactionManager on a small instance: two writers and a reader.        *)
EXTENDS TransactionManager

MixedKinds == [t \in Txn |-> CASE t = 1 -> {"update", "delete"}
                               [] t = 2 -> {"update", "insert"}
                               [] OTHER -> {"select"}]

WriterReader == [t \in Txn |-> IF t = 1 THEN {"update", "delete"} ELSE {"select"}]
=============================================================================
