------------------------- MODULE TransactionManager -------------------------
(***************************************************************************)
(* Transactions and multi-version reads of the RMDB engine:                *)
(* transaction/transaction_manager.{h,cpp}, transaction.h, watermark.cpp,  *)
(* the writing of records in record/rm_file_handle.cpp and the executors,  *)
(* and the driver process_query / execute_query_core of rmdb.cpp, which    *)
(* runs every statement as a transaction of its own on a worker thread.    *)
(*                                                                         *)
(* A process is a transaction and the thread that runs it; transactions    *)
(* are named by their ids.  A SELECT reads without locks through its       *)
(* ReadView: Row(t, r) is what it finds at record r in the current state,  *)
(* at whatever moment it reads.  Writers lock records as in LockManager,   *)
(* of which only the modes S and X on records are kept; the wait for the   *)
(* log to be durable (LogManager) is one step.                             *)
(***************************************************************************)
EXTENDS Integers, Sequences, FiniteSets, FiniteSetsExt

CONSTANTS
    MaxTxn,   \* bound: transaction ids are 0 .. MaxTxn, 0 has loaded the table
    Loaded,   \* records 1 .. Loaded were inserted by transaction 0
    MaxRid,   \* bound: slots of the table
    Kinds,    \* transaction -> the statements it may run: select, update, insert, delete
    Http,     \* transactions whose statement came by HTTP, not by the socket
    Collectors, \* transactions whose end is the sixteenth since the last collection
    Nil

Txn == 0 .. MaxTxn
Rid == 1 .. MaxRid
Infinity == 4 * MaxTxn + 4      \* INT64_MAX: above every time stamp, a transaction takes three
Link == [txn : Txn, idx : Nat]  \* UndoLink
Absent == -1
Undefined == -2
Endless == -3
NoLink == [txn |-> Nil, idx |-> 0]
ZeroLink == [txn |-> 0, idx |-> 0]  \* what a memset to zero leaves

ASSUME BoundsAssumption ==
    /\ MaxTxn \in Nat /\ MaxRid \in Nat \ {0} /\ Loaded \in 0 .. MaxRid /\ Nil \notin Int
    /\ Kinds \in [Txn -> SUBSET {"select", "update", "insert", "delete"}] /\ Http \subseteq Txn
    /\ Collectors \subseteq Txn

VARIABLES
    next_txn_id, next_timestamp,
    pc,            \* what the thread of the transaction does next
    kind,          \* its statement
    state,         \* state_
    txn_map,       \* the registered transactions
    freed,         \* the deleted Transaction objects
    read_ts, commit_ts,
    view,          \* its ReadView: [low, active]
    current_reads, latest_commit, watermark, \* the Watermark: commit_ts_ is latest_commit
    active_ts,     \* thread_active_ts_ of its thread
    gc_min,        \* global_min, while GarbageCollection runs
    slots,         \* record -> [used, trx, roll]: bitmap, hidden fields
    undo,          \* undo_logs_: [trx, roll, deleted]: the hidden fields of the old version
    write_set,     \* write records: [type, rid, trx, roll]
    todo,          \* records the statement has found and not yet written
    cursor,        \* position of the scan of an update or delete
    shared,        \* record -> holders of its shared lock
    lock,          \* record -> holder of its exclusive lock
    durable,       \* ghost: record -> its content by the last transaction that committed it
    aborted,       \* ghost: transactions that have been rolled back
    faults         \* ghost: which known faults of the protocol have occurred

clocks == <<next_txn_id, next_timestamp>>
marks == <<current_reads, latest_commit, watermark>>
locks == <<shared, lock>>
table == <<slots, undo, locks>>
work == <<write_set, todo, cursor>>
ghosts == <<durable, aborted, faults>>
vars == <<clocks, pc, kind, state, txn_map, freed, read_ts, commit_ts, view, marks,
          active_ts, gc_min, table, work, ghosts>>

Unused == [used |-> FALSE, trx |-> Nil, roll |-> NoLink]

\* Transaction 0 has inserted the first records and is done.
Init ==
    /\ next_txn_id = 1 /\ next_timestamp = 2
    /\ pc = [t \in Txn |-> IF t = 0 THEN "done" ELSE "none"]
    /\ kind = [t \in Txn |-> "insert"]
    /\ state = [t \in Txn |-> IF t = 0 THEN "COMMITTED" ELSE "DEFAULT"]
    /\ txn_map = {0} /\ freed = {}
    /\ read_ts = [t \in Txn |-> 0]
    /\ commit_ts = [t \in Txn |-> IF t = 0 THEN 1 ELSE -1]
    /\ view = [t \in Txn |-> [low |-> 0, active |-> {}]]
    /\ current_reads = {} /\ latest_commit = 1 /\ watermark = 1
    /\ active_ts = [t \in Txn |-> Infinity]
    /\ gc_min = [t \in Txn |-> 0]
    /\ slots = [r \in Rid |-> IF r <= Loaded
                              THEN [used |-> TRUE, trx |-> 0, roll |-> ZeroLink]
                              ELSE Unused]
    /\ undo = [t \in Txn |-> <<>>] /\ write_set = [t \in Txn |-> <<>>]
    /\ todo = [t \in Txn |-> {}] /\ cursor = [t \in Txn |-> 0]
    /\ shared = [r \in Rid |-> {}] /\ lock = [r \in Rid |-> Nil]
    /\ durable = slots /\ aborted = {} /\ faults = {}

Goto(t, p) == pc' = [pc EXCEPT ![t] = p]

-----------------------------------------------------------------------------
(* Visibility *)

\* Mutant: the active transactions of the snapshot are not looked up.
is_visible_no_active(t, trx) == trx = t \/ trx < view[t].low

\* Transaction::is_visible.  up_limit_id_ is the least active id, or low_limit_id_.
is_visible(t, trx) ==
    LET up == Min(view[t].active \cup {view[t].low}) IN
    \/ trx = t
    \/ trx < up
    \/ trx < view[t].low /\ trx \notin view[t].active

\* The version before v: in the undo log of the transaction that wrote v, unless
\* that has been collected, or the link leads nowhere.
Older(v) ==
    IF v.roll = NoLink \/ v.roll.txn \notin txn_map THEN [trx |-> Absent, roll |-> NoLink]
    ELSE IF v.roll.idx >= Len(undo[v.roll.txn]) THEN [trx |-> Undefined, roll |-> NoLink]
    ELSE LET u == undo[v.roll.txn][v.roll.idx + 1] IN
         IF u.deleted THEN [trx |-> Absent, roll |-> NoLink]
         ELSE [trx |-> u.trx, roll |-> u.roll]

\* get_visible_record: the writer of the version of r that t sees, Absent if it
\* sees none, Undefined if it indexes an undo log that is not there, Endless if it
\* follows links in a circle (a record has one version of each transaction) and
\* gives up.
Row(t, r) ==
    LET version[n \in 0 .. MaxTxn + 1] ==
            IF n = 0 THEN [trx |-> slots[r].trx, roll |-> slots[r].roll]
            ELSE Older(version[n - 1])
        Ends(n) == version[n].trx \in {Absent, Undefined} \/ is_visible(t, version[n].trx)
    IN  IF ~slots[r].used THEN Absent
        ELSE IF \E n \in 0 .. MaxTxn + 1 : Ends(n)
             THEN version[Min({n \in 0 .. MaxTxn + 1 : Ends(n)})].trx
        ELSE Endless

-----------------------------------------------------------------------------
(* begin, in process_query *)

BeginId(t) ==
    /\ t = next_txn_id /\ t <= MaxTxn
    /\ next_txn_id' = next_txn_id + 1
    /\ \E k \in Kinds[t] : kind' = [kind EXCEPT ![t] = k]
    /\ state' = [state EXCEPT ![t] = "GROWING"]
    /\ Goto(t, "read_ts")
    /\ UNCHANGED <<next_timestamp, txn_map, freed, read_ts, commit_ts, view, marks,
                   active_ts, gc_min, table, work, ghosts>>

BeginReadTs(t) ==
    /\ pc[t] = "read_ts"
    /\ read_ts' = [read_ts EXCEPT ![t] = next_timestamp]
    /\ next_timestamp' = next_timestamp + 1
    /\ Goto(t, "add")
    /\ UNCHANGED <<next_txn_id, kind, state, txn_map, freed, commit_ts, view, marks,
                   active_ts, gc_min, table, work, ghosts>>

\* Watermark::AddTxn.  Time stamps are unique, so no count is needed.
AddTxn(t) ==
    /\ pc[t] = "add"
    /\ current_reads' = current_reads \cup {read_ts[t]}
    /\ watermark' = IF current_reads = {} \/ read_ts[t] < watermark
                    THEN read_ts[t] ELSE watermark
    /\ Goto(t, "low_limit")
    /\ UNCHANGED <<clocks, kind, state, txn_map, freed, read_ts, commit_ts, view,
                   latest_commit, active_ts, gc_min, table, work, ghosts>>

BeginLowLimit(t) ==
    /\ pc[t] = "low_limit"
    /\ view' = [view EXCEPT ![t].low = next_txn_id]
    /\ Goto(t, "active_ids")
    /\ UNCHANGED <<clocks, kind, state, txn_map, freed, read_ts, commit_ts, marks,
                   active_ts, gc_min, table, work, ghosts>>

Unregistered(t) ==
    {u \in Txn : u # t /\ u < view[t].low
                 /\ pc[u] \in {"read_ts", "add", "low_limit", "active_ids", "register"}}

\* A transaction that has its id and is not yet registered is taken for a
\* committed one: begin_race.
BeginActiveIds(t) ==
    /\ pc[t] = "active_ids"
    /\ view' = [view EXCEPT ![t].active = {u \in txn_map : state[u] \in {"GROWING", "SHRINKING"}}]
    /\ faults' = IF Unregistered(t) = {} THEN faults ELSE faults \cup {"begin_race"}
    /\ Goto(t, "register")
    /\ UNCHANGED <<clocks, kind, state, txn_map, freed, read_ts, commit_ts, marks,
                   active_ts, gc_min, table, work, durable, aborted>>

\* Then the worker publishes its time stamp to the garbage collector.
BeginRegister(t) ==
    /\ pc[t] = "register"
    /\ txn_map' = txn_map \cup {t}
    /\ active_ts' = [active_ts EXCEPT ![t] = read_ts[t]]
    /\ Goto(t, IF kind[t] \in {"update", "delete"} THEN "scan" ELSE "run")
    /\ UNCHANGED <<clocks, kind, state, freed, read_ts, commit_ts, view, marks, gc_min,
                   table, work, ghosts>>

-----------------------------------------------------------------------------
(* Statements *)

CanRead(t, r) == lock[r] \in {Nil, t}
CanLock(t, r) == CanRead(t, r) /\ shared[r] \subseteq {t}

Unlocked(r) == \A u \in Txn : pc[u] = "insert_lock" => r \notin todo[u]

Seen(r) == faults' = IF Unlocked(r) THEN faults ELSE faults \cup {"unlocked_insert"}

\* The scan of an update or delete finds the records in order, each but the first
\* one with a shared lock (beginTuple takes none) ...
ScanRecord(t, r) ==
    /\ pc[t] = "scan"
    /\ slots[r].used /\ r > cursor[t]
    /\ \A s \in cursor[t] + 1 .. r - 1 : ~slots[s].used
    /\ \/ cursor[t] = 0 /\ UNCHANGED <<shared, faults>>
       \/ cursor[t] # 0 /\ CanRead(t, r) /\ Seen(r)
          /\ shared' = [shared EXCEPT ![r] = @ \cup {t}]
    /\ cursor' = [cursor EXCEPT ![t] = r]
    /\ todo' = [todo EXCEPT ![t] = @ \cup {r}]
    /\ UNCHANGED <<clocks, pc, kind, state, txn_map, freed, read_ts, commit_ts, view, marks,
                   active_ts, gc_min, slots, undo, lock, write_set, durable, aborted>>

ScanEnd(t) ==
    /\ pc[t] = "scan"
    /\ \A r \in Rid : r > cursor[t] => ~slots[r].used
    /\ Goto(t, "run")
    /\ UNCHANGED <<clocks, kind, state, txn_map, freed, read_ts, commit_ts, view, marks,
                   active_ts, gc_min, table, work, ghosts>>

\* ... then the executor reads each with a shared lock ...
ReadRecord(t, r) ==
    /\ pc[t] = "run" /\ todo[t] # {} /\ r = Min(todo[t])
    /\ slots[r].used /\ t \notin shared[r] /\ CanRead(t, r)
    /\ shared' = [shared EXCEPT ![r] = @ \cup {t}]
    /\ Seen(r)
    /\ UNCHANGED <<clocks, pc, kind, state, txn_map, freed, read_ts, commit_ts, view, marks,
                   active_ts, gc_min, slots, undo, lock, work, durable, aborted>>

\* ... and update_record or delete_record makes the lock an exclusive one and
\* writes: the old version goes to the undo log of the transaction, the record
\* points to it.
WriteRecord(t, r) ==
    /\ pc[t] = "run" /\ todo[t] # {} /\ r = Min(todo[t])
    /\ slots[r].used /\ t \in shared[r] /\ CanLock(t, r)
    /\ lock' = [lock EXCEPT ![r] = t]
    /\ LET old == slots[r]
           del == kind[t] = "delete"
           link == [txn |-> t, idx |-> Len(undo[t])]
       IN  /\ slots' = [slots EXCEPT ![r] = [used |-> ~del, trx |-> t, roll |-> link]]
           /\ undo' = [undo EXCEPT ![t] =
                  Append(@, [trx |-> old.trx, roll |-> old.roll, deleted |-> del])]
           /\ write_set' = [write_set EXCEPT ![t] =
                  Append(@, [type |-> kind[t], rid |-> r, trx |-> old.trx, roll |-> old.roll])]
    /\ todo' = [todo EXCEPT ![t] = @ \ {r}]
    /\ UNCHANGED <<clocks, pc, kind, state, txn_map, freed, read_ts, commit_ts, view, marks,
                   active_ts, gc_min, shared, cursor, ghosts>>

\* insert_record takes the first free slot and writes it before it locks it.  The
\* slot may be that of a record another transaction has deleted, and may yet
\* restore; or another transaction may lock the record first: unlocked_insert.
InsertSlot(t, r) ==
    /\ pc[t] = "run" /\ kind[t] = "insert" /\ write_set[t] = <<>>
    /\ ~slots[r].used /\ \A s \in 1 .. r - 1 : slots[s].used
    /\ slots' = [slots EXCEPT ![r] = [used |-> TRUE, trx |-> t, roll |-> ZeroLink]]
    /\ faults' = IF CanLock(t, r) THEN faults ELSE faults \cup {"unlocked_insert"}
    /\ todo' = [todo EXCEPT ![t] = {r}]
    /\ Goto(t, "insert_lock")
    /\ UNCHANGED <<clocks, kind, state, txn_map, freed, read_ts, commit_ts, view, marks,
                   active_ts, gc_min, undo, locks, write_set, cursor, durable, aborted>>

InsertLock(t, r) ==
    /\ pc[t] = "insert_lock" /\ r \in todo[t]
    /\ CanLock(t, r)
    /\ lock' = [lock EXCEPT ![r] = t]
    /\ write_set' = [write_set EXCEPT ![t] =
           Append(@, [type |-> "insert", rid |-> r, trx |-> Nil, roll |-> NoLink])]
    /\ todo' = [todo EXCEPT ![t] = {}]
    /\ Goto(t, "run")
    /\ UNCHANGED <<clocks, kind, state, txn_map, freed, read_ts, commit_ts, view, marks,
                   active_ts, gc_min, slots, undo, shared, cursor, ghosts>>

\* TransactionAbortException: the lock manager can throw it at a transaction whose
\* next lock another one has.
Victim(t) ==
    /\ \/ /\ pc[t] = "scan" /\ cursor[t] # 0
          /\ \E r \in Rid : r > cursor[t] /\ slots[r].used /\ ~CanRead(t, r)
       \/ /\ pc[t] = "run" /\ todo[t] # {}
          /\ LET r == Min(todo[t]) IN
                \/ ~CanRead(t, r)
                \/ t \in shared[r] /\ ~CanLock(t, r)
       \/ pc[t] = "insert_lock" /\ \E r \in todo[t] : ~CanLock(t, r)
    /\ state' = [state EXCEPT ![t] = "SHRINKING"]
    /\ todo' = [todo EXCEPT ![t] = {}]
    /\ Goto(t, "undo")
    /\ UNCHANGED <<clocks, kind, txn_map, freed, read_ts, commit_ts, view, marks, active_ts,
                   gc_min, table, write_set, cursor, ghosts>>

\* RMDBError in the middle of a statement.  The socket's driver commits what has
\* been done; the HTTP driver returns and leaves the transaction as it is.
Fail(t) ==
    /\ pc[t] \in {"scan", "run"} /\ kind[t] # "select"
    /\ todo' = [todo EXCEPT ![t] = {}]
    /\ IF t \in Http
       THEN /\ Goto(t, "ended") /\ UNCHANGED state
       ELSE /\ Goto(t, "release") /\ state' = [state EXCEPT ![t] = "SHRINKING"]
    /\ UNCHANGED <<clocks, kind, txn_map, freed, read_ts, commit_ts, view, marks, active_ts,
                   gc_min, table, write_set, cursor, ghosts>>

-----------------------------------------------------------------------------
(* commit and abort *)

Commit(t) ==
    /\ pc[t] = "run" /\ todo[t] = {}
    /\ kind[t] = "insert" => write_set[t] # <<>>
    /\ state' = [state EXCEPT ![t] = "SHRINKING"]
    /\ Goto(t, "release")
    /\ UNCHANGED <<clocks, kind, txn_map, freed, read_ts, commit_ts, view, marks, active_ts,
                   gc_min, table, work, ghosts>>

\* Mutant: a deleted record is not put back.
RestoredNoDelete(wr) ==
    IF wr.type = "insert" THEN [slots EXCEPT ![wr.rid].used = FALSE]
    ELSE [slots EXCEPT ![wr.rid].trx = wr.trx, ![wr.rid].roll = wr.roll]

\* The table after one write record is rolled back.
Restored(wr) ==
    IF wr.type = "insert" THEN [slots EXCEPT ![wr.rid].used = FALSE]
    ELSE [slots EXCEPT ![wr.rid] = [used |-> TRUE, trx |-> wr.trx, roll |-> wr.roll]]

\* abort rolls the write records back, the last one first.
UndoWrite(t) ==
    /\ pc[t] = "undo" /\ write_set[t] # <<>>
    /\ slots' = Restored(write_set[t][Len(write_set[t])])
    /\ write_set' = [write_set EXCEPT ![t] = SubSeq(@, 1, Len(@) - 1)]
    /\ UNCHANGED <<clocks, pc, kind, state, txn_map, freed, read_ts, commit_ts, view, marks,
                   active_ts, gc_min, undo, locks, todo, cursor, ghosts>>

UndoEnd(t) ==
    /\ pc[t] = "undo" /\ write_set[t] = <<>>
    /\ aborted' = aborted \cup {t}
    /\ Goto(t, "release")
    /\ UNCHANGED <<clocks, kind, state, txn_map, freed, read_ts, commit_ts, view, marks,
                   active_ts, gc_min, table, work, durable, faults>>

\* The commit or abort record is durable: all locks are released.
Release(t) ==
    /\ pc[t] = "release"
    /\ lock' = [r \in Rid |-> IF lock[r] = t THEN Nil ELSE lock[r]]
    /\ shared' = [r \in Rid |-> shared[r] \ {t}]
    /\ write_set' = [write_set EXCEPT ![t] = <<>>]
    /\ durable' = IF t \in aborted THEN durable
                  ELSE [r \in Rid |-> IF lock[r] = t THEN slots[r] ELSE durable[r]]
    /\ Goto(t, "state")
    /\ UNCHANGED <<clocks, kind, state, txn_map, freed, read_ts, commit_ts, view, marks,
                   active_ts, gc_min, slots, undo, todo, cursor, aborted, faults>>

\* An aborted transaction is ABORTED the first time, COMMITTED the second.
EndState(t) ==
    /\ pc[t] = "state"
    /\ state' = [state EXCEPT ![t] = IF t \in aborted /\ commit_ts[t] = -1
                                     THEN "ABORTED" ELSE "COMMITTED"]
    /\ Goto(t, "stamp")
    /\ UNCHANGED <<clocks, kind, txn_map, freed, read_ts, commit_ts, view, marks, active_ts,
                   gc_min, table, work, ghosts>>

EndCommitTs(t) ==
    /\ pc[t] = "stamp"
    /\ commit_ts' = [commit_ts EXCEPT ![t] = next_timestamp]
    /\ next_timestamp' = next_timestamp + 1
    /\ Goto(t, "remove")
    /\ UNCHANGED <<next_txn_id, kind, state, txn_map, freed, read_ts, view, marks, active_ts,
                   gc_min, table, work, ghosts>>

\* Mutant: the watermark goes to the last commit although others still read.
WatermarkWithoutIgnores(reads) == latest_commit

\* The watermark after the last read at some time stamp is over.
WatermarkWithout(reads) == IF reads = {} THEN latest_commit ELSE Min(reads)

\* Watermark::RemoveTxn; a second call for the same transaction finds nothing.
RemoveTxn(t) ==
    /\ pc[t] = "remove"
    /\ IF read_ts[t] \in current_reads
       THEN /\ current_reads' = current_reads \ {read_ts[t]}
            /\ watermark' = WatermarkWithout(current_reads')
       ELSE UNCHANGED <<current_reads, watermark>>
    /\ Goto(t, "update")
    /\ UNCHANGED <<clocks, kind, state, txn_map, freed, read_ts, commit_ts, view,
                   latest_commit, active_ts, gc_min, table, work, ghosts>>

UpdateCommitTs(t) ==
    /\ pc[t] = "update"
    /\ latest_commit' = IF commit_ts[t] > latest_commit THEN commit_ts[t] ELSE latest_commit
    /\ watermark' = IF current_reads = {} /\ latest_commit' > watermark
                    THEN latest_commit' ELSE watermark
    /\ Goto(t, IF t \in Collectors THEN "gc" ELSE "ended")
    /\ UNCHANGED <<clocks, kind, state, txn_map, freed, read_ts, commit_ts, view,
                   current_reads, active_ts, gc_min, table, work, ghosts>>

\* The driver on the socket commits what it has just aborted.
CommitAborted(t) ==
    /\ pc[t] = "ended" /\ state[t] = "ABORTED" /\ t \notin Http
    /\ state' = [state EXCEPT ![t] = "SHRINKING"]
    /\ Goto(t, "release")
    /\ UNCHANGED <<clocks, kind, txn_map, freed, read_ts, commit_ts, view, marks, active_ts,
                   gc_min, table, work, ghosts>>

\* The thread has nothing more to do with the transaction.
ThreadIdle(t) ==
    /\ pc[t] = "ended" /\ (state[t] = "ABORTED" => t \in Http)
    /\ active_ts' = [active_ts EXCEPT ![t] = Infinity]
    /\ Goto(t, "done")
    /\ UNCHANGED <<clocks, kind, state, txn_map, freed, read_ts, commit_ts, view, marks,
                   gc_min, table, work, ghosts>>

-----------------------------------------------------------------------------
(* GarbageCollection, run by every sixteenth commit *)

GcMinimum(t) ==
    /\ pc[t] = "gc"
    /\ IF watermark <= 0 THEN Goto(t, "ended") /\ UNCHANGED gc_min
       ELSE /\ gc_min' = [gc_min EXCEPT ![t] = Min({watermark} \cup {active_ts[u] : u \in Txn})]
            /\ Goto(t, "collect")
    /\ UNCHANGED <<clocks, kind, state, txn_map, freed, read_ts, commit_ts, view, marks,
                   active_ts, table, work, ghosts>>

\* Mutant: the limit is ignored.
CollectableAll(t) == {u \in txn_map : state[u] \in {"COMMITTED", "ABORTED"}}

Collectable(t) ==
    {u \in txn_map : state[u] \in {"COMMITTED", "ABORTED"} /\ commit_ts[u] < gc_min[t]}

\* Mutant: the deleted objects stay in the map.
GcCollectDangling(t) ==
    /\ pc[t] = "collect"
    /\ freed' = freed \cup Collectable(t)
    /\ Goto(t, "ended")
    /\ UNCHANGED <<clocks, kind, state, txn_map, read_ts, commit_ts, view, marks, active_ts,
                   gc_min, table, work, ghosts>>

\* A transaction that has its final state but no commit_ts yet is collected as if it
\* were the oldest: gc_window.
GcCollect(t) ==
    /\ pc[t] = "collect"
    /\ txn_map' = txn_map \ Collectable(t)
    /\ freed' = freed \cup Collectable(t)
    /\ faults' = IF \A u \in Collectable(t) : commit_ts[u] # -1 THEN faults
                 ELSE faults \cup {"gc_window"}
    /\ Goto(t, "ended")
    /\ UNCHANGED <<clocks, kind, state, read_ts, commit_ts, view, marks, active_ts, gc_min,
                   table, work, durable, aborted>>

-----------------------------------------------------------------------------
Begin(t) ==
    \/ BeginId(t) \/ BeginReadTs(t) \/ AddTxn(t) \/ BeginLowLimit(t)
    \/ BeginActiveIds(t) \/ BeginRegister(t)

Statement(t) ==
    \/ \E r \in Rid : \/ ScanRecord(t, r) \/ ReadRecord(t, r) \/ WriteRecord(t, r)
                     \/ InsertSlot(t, r) \/ InsertLock(t, r)
    \/ ScanEnd(t) \/ Victim(t) \/ Fail(t) \/ Commit(t)

End(t) ==
    \/ UndoWrite(t) \/ UndoEnd(t) \/ Release(t) \/ EndState(t) \/ EndCommitTs(t)
    \/ RemoveTxn(t) \/ UpdateCommitTs(t) \/ GcMinimum(t) \/ GcCollect(t)
    \/ CommitAborted(t) \/ ThreadIdle(t)

Next == \E t \in Txn : Begin(t) \/ Statement(t) \/ End(t)

Spec == Init /\ [][Next]_vars

-----------------------------------------------------------------------------
(* Properties *)

PcType == {"none", "read_ts", "add", "low_limit", "active_ids", "register", "scan", "run",
           "insert_lock", "undo", "release", "state", "stamp", "remove", "update", "gc",
           "collect", "ended", "done"}
TimeType == Nat \cup {-1}
SlotType == [used : BOOLEAN, trx : Txn \cup {Nil}, roll : Link \cup {NoLink}]

TypeOK ==
    /\ next_txn_id \in 1 .. MaxTxn + 1 /\ next_timestamp \in TimeType
    /\ pc \in [Txn -> PcType]
    /\ kind \in [Txn -> {"select", "update", "insert", "delete"}]
    /\ state \in [Txn -> {"DEFAULT", "GROWING", "SHRINKING", "COMMITTED", "ABORTED"}]
    /\ txn_map \subseteq Txn /\ freed \subseteq Txn \ txn_map
    /\ read_ts \in [Txn -> TimeType] /\ commit_ts \in [Txn -> TimeType]
    /\ view \in [Txn -> [low : Nat, active : SUBSET Txn]]
    /\ current_reads \subseteq TimeType /\ latest_commit \in TimeType /\ watermark \in TimeType
    /\ active_ts \in [Txn -> TimeType] /\ gc_min \in [Txn -> TimeType]
    /\ slots \in [Rid -> SlotType] /\ durable \in [Rid -> SlotType]
    /\ undo \in [Txn -> Seq([trx : Txn, roll : Link, deleted : BOOLEAN])]
    /\ write_set \in [Txn -> Seq([type : {"insert", "update", "delete"}, rid : Rid,
                                  trx : Txn \cup {Nil}, roll : Link \cup {NoLink}])]
    /\ todo \in [Txn -> SUBSET Rid] /\ cursor \in [Txn -> 0 .. MaxRid]
    /\ shared \in [Rid -> SUBSET Txn] /\ lock \in [Rid -> Txn \cup {Nil}]
    /\ aborted \subseteq Txn /\ faults \subseteq {"begin_race", "gc_window", "unlocked_insert"}

\* The runs go no further once one of the two faults in begin and commit occurs.
BeginAndEndSound == faults \cap {"begin_race", "gc_window"} = {}

Reading(t) == pc[t] = "run" /\ kind[t] = "select"

\* The outcome of w is durable and it is not a rollback.
HasCommitted(w) ==
    /\ w \notin aborted /\ state[w] \in {"SHRINKING", "COMMITTED"}
    /\ pc[w] \notin {"undo", "release"}

\* A SELECT finds no version whose writer had not committed: below up_limit_id_
\* "txns ... have committed" (transaction.h).
ReadsCommitted ==
    \A t \in Txn, r \in Rid : Reading(t) =>
        \A w \in Txn : Row(t, r) = w => HasCommitted(w)

\* So it is, when no SELECT has taken its view between the moment another
\* transaction got its id and the moment it was registered, and no rolled back
\* insert has left its record behind.
ReadsCommittedWithoutRace ==
    faults \cap {"begin_race", "unlocked_insert"} = {} => ReadsCommitted

\* A SELECT reads a record that stays in the table the same way at any moment,
\* whatever others write, commit, roll back and collect meanwhile.
SnapshotNeverChanges ==
    [][faults' = {} =>
        \A t \in Txn, r \in Rid :
            /\ Reading(t) /\ Reading(t)'
            /\ slots[r].used /\ slots'[r].used /\ Row(t, r) # Undefined
            => Row(t, r)' = Row(t, r)]_vars

\* A record nobody is writing is as the last committed transaction left it: a
\* rollback restores the record, its writer and its link, and leaves no trace.
UnlockedRowsAreCommitted ==
    "unlocked_insert" \notin faults =>
        \A r \in Rid : lock[r] = Nil /\ Unlocked(r) =>
            \/ slots[r] = durable[r]
            \/ ~slots[r].used /\ ~durable[r].used

\* The watermark is the oldest read time stamp, although begin takes the time stamp
\* and adds it in two steps and commits overtake each other.
WatermarkIsOldestRead == current_reads # {} => watermark = Min(current_reads)

\* The garbage collector deletes no transaction before its thread has done with it,
\* although a collector uses a minimum that others have overtaken, and the driver
\* commits a second time what it has aborted.
FreedIsUnused == "gc_window" \notin faults => \A u \in freed : pc[u] = "done"

=============================================================================
