------------------------------ MODULE Recovery ------------------------------
(***************************************************************************)
(* Restart recovery of the RMDB engine: recovery/log_recovery.cpp, the log *)
(* records the executors and the transaction manager write, and the start  *)
(* and stop of the server in rmdb.cpp.                                     *)
(*                                                                         *)
(* One table.  Transactions change records in memory, under exclusive      *)
(* locks, and append a log record after each change; pages and the log     *)
(* reach the disk independently of each other.  A crash loses the memory   *)
(* and the log buffer, also in the middle of recovery.  Recovery reads the *)
(* whole log, which is never truncated, and then the server numbers its    *)
(* transactions from 0 again.  LogManager has the steps by which the log   *)
(* reaches the disk, TransactionManager those of a transaction; here each  *)
(* is one step.  Log sequence numbers are positions in the log, from 0.    *)
(* Ghost variables: goal, stolen, reused, recreated, writes, stops.        *)
(***************************************************************************)
EXTENDS Integers, Sequences, SequencesExt, FiniteSets, FiniteSetsExt

CONSTANTS
    MaxTxn,    \* bound: transaction ids of one run of the server are 0 .. MaxTxn
    Rid,       \* record slots of the table
    PageOf,    \* slot -> page
    Nil,
    MaxWrites, \* bound: record writes
    MaxLog,    \* bound: log records
    MaxStops,  \* bound: crashes and shutdowns
    MaxTables  \* bound: times the table is dropped and created anew

Txn == 0 .. MaxTxn
PageNo == {PageOf[r] : r \in Rid}
INVALID_LSN == -1
Row == [trx : Txn, val : 0 .. MaxWrites]  \* hidden field and user data of a record
Slot == Row \cup {Nil}                    \* Nil: the bit is not set
Writes == {"INSERT", "DELETE", "UPDATE"}
LogRecord ==
    [type : {"begin", "commit", "ABORT"} \cup Writes, txn : Txn, prev : Int,
     rid : Rid \cup {Nil}, old : Slot, new : Slot]

ASSUME BoundsAssumption ==
    /\ MaxTxn \in Nat /\ MaxWrites \in Nat \ {0} /\ MaxLog \in Nat /\ MaxStops \in Nat
    /\ MaxTables \in Nat
    /\ Nil \notin Rid /\ Nil \notin Txn /\ Nil \notin Row /\ Nil \notin LogRecord

VARIABLES
    mode,        \* down, redo, undo, ready, run; failed: recovery threw, the server exits
    log,         \* the log file
    buffer,      \* the log buffer
    disk, mem,   \* page -> [lsn, slots], in the file and in the buffer pool
    next_txn_id,
    pc,          \* transaction -> none, active, committing, aborting, done
    pending,     \* transaction -> the log record of the change it has just made
    prev_lsn,    \* transaction -> lsn of its last log record
    write_set,   \* transaction -> [rid, old] of its changes
    lock,        \* slot -> holder of its exclusive lock
    pos,         \* redo: number of records done
    applied,     \* redo: the next record is applied, its page not stamped yet
    att,         \* undo: unfinished transactions still to undo
    undoing,     \* undo: the transaction, and the lsn of its next record
    goal,        \* ghost: what recovery from the last crash of a run should lead to
    stolen,      \* ghost: a page has been written before the log of a change in it
    reused,      \* ghost: a run has changed the table after a recovery
    recreated,   \* ghost: times the table has been dropped and created
    writes, stops

running == <<next_txn_id, pc, pending, prev_lsn, write_set, lock>>
recovering == <<pos, applied, att, undoing>>
ghosts == <<goal, stolen, reused, recreated, writes, stops>>
vars == <<mode, log, buffer, disk, mem, running, recovering, ghosts>>

OnPage(p) == {r \in Rid : PageOf[r] = p}
At(pages, r) == pages[PageOf[r]].slots[r]
Put(pages, r, x) == [pages EXCEPT ![PageOf[r]].slots[r] = x]
Empty == [p \in PageNo |-> [lsn |-> 0, slots |-> [r \in OnPage(p) |-> Nil]]]
NoUndo == [txn |-> Nil, lsn |-> INVALID_LSN]

NextLsn == Len(log) + Len(buffer)
Note(type, t, lsn) ==
    [type |-> type, txn |-> t, prev |-> lsn, rid |-> Nil, old |-> Nil, new |-> Nil]

\* Transaction 0 has inserted a record and committed.
Init ==
    \E r \in Rid :
        LET row == [trx |-> 0, val |-> 0] IN
        /\ mode = "run"
        /\ log = <<Note("begin", 0, INVALID_LSN),
                   [type |-> "INSERT", txn |-> 0, prev |-> 0, rid |-> r, old |-> Nil, new |-> row],
                   Note("commit", 0, INVALID_LSN)>>
        /\ buffer = <<>>
        /\ mem = Put(Empty, r, row) /\ disk \in {Empty, mem}
        /\ next_txn_id = 1
        /\ pc = [t \in Txn |-> IF t = 0 THEN "done" ELSE "none"]
        /\ pending = [t \in Txn |-> Nil] /\ prev_lsn = [t \in Txn |-> INVALID_LSN]
        /\ write_set = [t \in Txn |-> <<>>] /\ lock = [s \in Rid |-> Nil]
        /\ pos = 0 /\ applied = FALSE /\ att = {} /\ undoing = NoUndo
        /\ goal = Empty /\ stolen = FALSE /\ reused = FALSE /\ recreated = 0
        /\ writes = 0 /\ stops = 0

-----------------------------------------------------------------------------
(* Transactions *)

Begin(t) ==
    /\ mode = "run" /\ t = next_txn_id /\ t <= MaxTxn
    /\ NextLsn < MaxLog
    /\ next_txn_id' = next_txn_id + 1
    /\ prev_lsn' = [prev_lsn EXCEPT ![t] = NextLsn]
    /\ buffer' = Append(buffer, Note("begin", t, INVALID_LSN))
    /\ pc' = [pc EXCEPT ![t] = "active"]
    /\ UNCHANGED <<mode, log, disk, mem, pending, write_set, lock, recovering, ghosts>>

\* A record changes in memory; the log record of the change is still to come.
Change(t, r, x, record) ==
    /\ mode = "run" /\ pc[t] = "active" /\ pending[t] = Nil
    /\ lock[r] \in {Nil, t} /\ writes < MaxWrites /\ NextLsn < MaxLog
    /\ lock' = [lock EXCEPT ![r] = t]
    /\ mem' = Put(mem, r, x)
    /\ pending' = [pending EXCEPT ![t] = record]
    /\ writes' = writes + 1
    /\ reused' = (reused \/ stops > 0)
    /\ UNCHANGED <<mode, log, buffer, disk, next_txn_id, pc, prev_lsn, write_set, recovering,
                   goal, stolen, recreated, stops>>

\* The inserted record goes to the log without its hidden fields: they are zero.
Insert(t, r) ==
    /\ At(mem, r) = Nil
    /\ Change(t, r, [trx |-> t, val |-> writes + 1],
              [type |-> "INSERT", txn |-> t, prev |-> prev_lsn[t], rid |-> r, old |-> Nil,
               new |-> [trx |-> 0, val |-> writes + 1]])

\* The executor's copy of the old record with the new user data: it still has the
\* old hidden fields.
LoggedUpdate(t, r) == [trx |-> At(mem, r).trx, val |-> writes + 1]

Update(t, r) ==
    /\ At(mem, r) # Nil
    /\ Change(t, r, [trx |-> t, val |-> writes + 1],
              [type |-> "UPDATE", txn |-> t, prev |-> prev_lsn[t], rid |-> r,
               old |-> At(mem, r), new |-> LoggedUpdate(t, r)])

Delete(t, r) ==
    /\ At(mem, r) # Nil
    /\ Change(t, r, Nil,
              [type |-> "DELETE", txn |-> t, prev |-> prev_lsn[t], rid |-> r,
               old |-> At(mem, r), new |-> Nil])

\* add_log_to_buffer, then the write record for a rollback.
AppendRecord(t) ==
    /\ mode = "run" /\ pending[t] # Nil
    /\ buffer' = Append(buffer, pending[t])
    /\ prev_lsn' = [prev_lsn EXCEPT ![t] = NextLsn]
    /\ write_set' = [write_set EXCEPT ![t] =
                         Append(@, [rid |-> pending[t].rid, old |-> pending[t].old])]
    /\ pending' = [pending EXCEPT ![t] = Nil]
    /\ UNCHANGED <<mode, log, disk, mem, next_txn_id, pc, lock, recovering, ghosts>>

Commit(t) ==
    /\ mode = "run" /\ pc[t] = "active" /\ pending[t] = Nil
    /\ buffer' = Append(buffer, Note("commit", t, INVALID_LSN))
    /\ pc' = [pc EXCEPT ![t] = "committing"]
    /\ UNCHANGED <<mode, log, disk, mem, next_txn_id, pending, prev_lsn, write_set, lock,
                   recovering, ghosts>>

\* What t's first change to the record has found, the last one that abort undoes.
FirstOld(t, r) ==
    write_set[t][Min({k \in DOMAIN write_set[t] : write_set[t][k].rid = r})].old

\* The records as they are when all changes of t are undone, the last one first.
Restored(t) ==
    [p \in PageNo |->
        [lsn |-> mem[p].lsn,
         slots |-> [r \in OnPage(p) |->
             IF \E k \in DOMAIN write_set[t] : write_set[t][k].rid = r THEN FirstOld(t, r)
             ELSE At(mem, r)]]]

\* abort undoes the changes in memory and logs none of it.
Abort(t) ==
    /\ mode = "run" /\ pc[t] = "active" /\ pending[t] = Nil
    /\ mem' = Restored(t)
    /\ write_set' = [write_set EXCEPT ![t] = <<>>]
    /\ buffer' = Append(buffer, Note("ABORT", t, INVALID_LSN))
    /\ pc' = [pc EXCEPT ![t] = "aborting"]
    /\ UNCHANGED <<mode, log, disk, next_txn_id, pending, prev_lsn, lock, recovering, ghosts>>

\* The last record of t is durable: it releases its locks.  The driver on the
\* socket then commits what it has aborted, the HTTP driver does not.
End(t) ==
    /\ mode = "run" /\ pc[t] \in {"committing", "aborting"}
    /\ \A k \in DOMAIN buffer : buffer[k].txn # t
    /\ lock' = [r \in Rid |-> IF lock[r] = t THEN Nil ELSE lock[r]]
    /\ write_set' = [write_set EXCEPT ![t] = <<>>]
    /\ \/ pc' = [pc EXCEPT ![t] = "done"] /\ UNCHANGED buffer
       \/ /\ pc[t] = "aborting"
          /\ buffer' = Append(buffer, Note("commit", t, INVALID_LSN))
          /\ pc' = [pc EXCEPT ![t] = "committing"]
    /\ UNCHANGED <<mode, log, disk, mem, next_txn_id, pending, prev_lsn, recovering, ghosts>>

-----------------------------------------------------------------------------
(* Files *)

FlushLog ==
    /\ buffer # <<>>
    /\ log' = log \o buffer
    /\ buffer' = <<>>
    /\ UNCHANGED <<mode, disk, mem, running, recovering, ghosts>>

\* The page has a change whose log record is not durable.
Unlogged(p) ==
    \/ \E t \in Txn : pending[t] # Nil /\ PageOf[pending[t].rid] = p
    \/ \E k \in DOMAIN buffer : buffer[k].type \in Writes /\ PageOf[buffer[k].rid] = p

\* The buffer pool writes a page when it likes: nothing makes the log go first.
FlushPage(p) ==
    /\ mode \in {"run", "redo", "undo", "ready"} /\ disk[p] # mem[p]
    /\ disk' = [disk EXCEPT ![p] = mem[p]]
    /\ stolen' = (stolen \/ Unlogged(p))
    /\ UNCHANGED <<mode, log, buffer, mem, running, recovering, goal, reused, recreated, writes,
                   stops>>

\* drop_table and create_table of the same name: the log keeps the old records.
RecreateTable ==
    /\ mode = "run" /\ buffer = <<>> /\ recreated < MaxTables
    /\ \A t \in Txn : pc[t] \in {"none", "done"}
    /\ mem' = Empty /\ disk' = Empty
    /\ recreated' = recreated + 1
    /\ UNCHANGED <<mode, log, buffer, running, recovering, goal, stolen, reused, writes, stops>>

Stopped ==
    /\ mode' = "down"
    /\ stops' = stops + 1
    /\ mem' = Empty /\ buffer' = <<>>
    /\ next_txn_id' = 0
    /\ pc' = [t \in Txn |-> "none"] /\ pending' = [t \in Txn |-> Nil]
    /\ prev_lsn' = [t \in Txn |-> INVALID_LSN] /\ write_set' = [t \in Txn |-> <<>>]
    /\ lock' = [r \in Rid |-> Nil]
    /\ pos' = 0 /\ applied' = FALSE /\ att' = {} /\ undoing' = NoUndo

-----------------------------------------------------------------------------
(* analyze: what the log says.  A record's lsn is its position.              *)

Rec(lsn) == log[lsn + 1]
Lsns == 0 .. Len(log) - 1
IsWrite(lsn) == Rec(lsn).type \in Writes

\* att_: transactions that have begun and neither committed nor aborted since.
Unfinished(t) ==
    \E b \in Lsns : /\ Rec(b).type = "begin" /\ Rec(b).txn = t
                    /\ \A e \in Lsns : e > b /\ Rec(e).txn = t =>
                                           Rec(e).type \notin {"commit", "ABORT"}

\* txn_last_lsn_.
LastLsn(t) == Max({k \in Lsns : Rec(k).txn = t})

\* Mutant: the barrier also skips the record after the one on the page.
BarrierEarly(pages, lsn) == pages[PageOf[Rec(lsn).rid]].lsn + 1 >= lsn

Barrier(pages, lsn) == pages[PageOf[Rec(lsn).rid]].lsn >= lsn

\* Mutant: the stamp is the next lsn of the log.
StampNext(pages, lsn) == [pages EXCEPT ![PageOf[Rec(lsn).rid]].lsn = Len(log)]

Stamp(pages, lsn) == [pages EXCEPT ![PageOf[Rec(lsn).rid]].lsn = lsn]

\* redo of one record: an update or delete only of a record that is there.
Redone(pages, lsn) ==
    LET x == Rec(lsn) IN
    IF x.type # "INSERT" /\ At(pages, x.rid) = Nil THEN pages ELSE Put(pages, x.rid, x.new)

\* Mutant: undo inserts the record into a slot of its choice.
UndoneDeleteAnywhere(pages, lsn) ==
    LET free == {r \in Rid : At(pages, r) = Nil} IN
    IF free = {} THEN pages ELSE Put(pages, CHOOSE r \in free : TRUE, Rec(lsn).old)

\* undo of a delete: only into an empty slot.
UndoneDelete(pages, lsn) ==
    IF At(pages, Rec(lsn).rid) = Nil THEN Put(pages, Rec(lsn).rid, Rec(lsn).old) ELSE pages

\* undo of one record: an insert or update only if the record bears the
\* transaction's id.
Undone(pages, lsn) ==
    LET x == Rec(lsn)
        row == At(pages, x.rid)
    IN  IF x.type = "DELETE" THEN UndoneDelete(pages, lsn)
        ELSE IF row # Nil /\ row.trx = x.txn THEN Put(pages, x.rid, x.old)
        ELSE pages

\* delete_record and update_record throw when there is no record.
UndoThrows(pages, lsn) == Rec(lsn).type \in {"INSERT", "UPDATE"} /\ At(pages, Rec(lsn).rid) = Nil

\* The records of t that undo visits, in the order of the log.
Chain(t) ==
    LET b == Max({k \in Lsns : Rec(k).txn = t /\ Rec(k).type = "begin"}) IN
    {k \in Lsns : k > b /\ Rec(k).txn = t /\ IsWrite(k)}

\* A step of a recovery that nothing interrupts, after n of them: redo goes through the
\* log forwards, undo backwards.
Recover(pages, n) ==
    LET k == IF n < Len(log) THEN n ELSE 2 * Len(log) - 1 - n IN
    IF n < Len(log)
    THEN IF ~IsWrite(k) \/ Barrier(pages, k) THEN pages ELSE Stamp(Redone(pages, k), k)
    ELSE IF \E t \in Txn : Unfinished(t) /\ k \in Chain(t) THEN Undone(pages, k) ELSE pages

\* What it makes of the pages on the disk in n steps ...
recovered[n \in 0 .. 2 * Len(log)] == IF n = 0 THEN disk ELSE Recover(recovered[n - 1], n - 1)

\* ... and in all.
Recovered == recovered[2 * Len(log)]

-----------------------------------------------------------------------------
(* Recovery, step by step *)

Crash ==
    /\ mode # "down" /\ stops < MaxStops
    /\ Stopped
    /\ goal' = IF mode = "run" THEN Recovered ELSE goal
    /\ UNCHANGED <<log, disk, stolen, reused, recreated, writes>>

\* SIGINT: the log is flushed, close_db flushes the pages.
Shutdown ==
    /\ mode = "run" /\ stops < MaxStops /\ buffer = <<>> /\ disk = mem
    /\ \A t \in Txn : pc[t] \in {"none", "done"}
    /\ Stopped
    /\ goal' = Recovered
    /\ UNCHANGED <<log, disk, stolen, reused, recreated, writes>>

\* open_db and analyze.
Analyze ==
    /\ mode = "down"
    /\ mode' = "redo"
    /\ mem' = disk
    /\ UNCHANGED <<log, buffer, disk, running, recovering, ghosts>>

RedoSkip ==
    /\ mode = "redo" /\ ~applied /\ pos < Len(log)
    /\ IsWrite(pos) => Barrier(mem, pos)
    /\ pos' = pos + 1
    /\ UNCHANGED <<mode, log, buffer, disk, mem, running, applied, att, undoing, ghosts>>

RedoApply ==
    /\ mode = "redo" /\ ~applied /\ pos < Len(log)
    /\ IsWrite(pos) /\ ~Barrier(mem, pos)
    /\ mem' = Redone(mem, pos)
    /\ applied' = TRUE
    /\ UNCHANGED <<mode, log, buffer, disk, running, pos, att, undoing, ghosts>>

RedoStamp ==
    /\ applied
    /\ mem' = Stamp(mem, pos)
    /\ pos' = pos + 1 /\ applied' = FALSE
    /\ UNCHANGED <<mode, log, buffer, disk, running, att, undoing, ghosts>>

RedoEnd ==
    /\ mode = "redo" /\ pos = Len(log)
    /\ disk' = mem
    /\ att' = {t \in Txn : Unfinished(t)}
    /\ mode' = "undo"
    /\ UNCHANGED <<log, buffer, mem, running, pos, applied, undoing, ghosts>>

UndoTxn(t) ==
    /\ mode = "undo" /\ undoing = NoUndo /\ t \in att
    /\ att' = att \ {t}
    /\ undoing' = [txn |-> t, lsn |-> LastLsn(t)]
    /\ UNCHANGED <<mode, log, buffer, disk, mem, running, pos, applied, ghosts>>

UndoRecord ==
    /\ mode = "undo" /\ undoing.lsn # INVALID_LSN /\ IsWrite(undoing.lsn)
    /\ IF UndoThrows(mem, undoing.lsn) THEN mode' = "failed" /\ UNCHANGED mem
       ELSE mem' = Undone(mem, undoing.lsn) /\ UNCHANGED mode
    /\ undoing' = [undoing EXCEPT !.lsn = Rec(@).prev]
    /\ UNCHANGED <<log, buffer, disk, running, pos, applied, att, ghosts>>

UndoBegin ==
    /\ mode = "undo" /\ undoing.lsn # INVALID_LSN /\ Rec(undoing.lsn).type = "begin"
    /\ undoing' = NoUndo
    /\ UNCHANGED <<mode, log, buffer, disk, mem, running, pos, applied, att, ghosts>>

UndoEnd ==
    /\ mode = "undo" /\ att = {} /\ undoing = NoUndo
    /\ mode' = "ready"
    /\ UNCHANGED <<log, buffer, disk, mem, running, recovering, ghosts>>

\* rebuild_indexes, set_global_lsn, and the server accepts connections.
Serve ==
    /\ mode = "ready"
    /\ mode' = "run"
    /\ UNCHANGED <<log, buffer, disk, mem, running, recovering, ghosts>>

-----------------------------------------------------------------------------
TxnStep(t) ==
    \/ Begin(t) \/ AppendRecord(t) \/ Commit(t) \/ Abort(t) \/ End(t)
    \/ (\E r \in Rid : Insert(t, r) \/ Update(t, r) \/ Delete(t, r))

RecoveryStep ==
    \/ Analyze \/ RedoSkip \/ RedoApply \/ RedoStamp \/ RedoEnd
    \/ (\E t \in Txn : UndoTxn(t)) \/ UndoRecord \/ UndoBegin \/ UndoEnd \/ Serve

Next ==
    \/ \E t \in Txn : TxnStep(t)
    \/ FlushLog \/ (\E p \in PageNo : FlushPage(p)) \/ RecreateTable
    \/ Crash \/ Shutdown \/ RecoveryStep

Spec == Init /\ [][Next]_vars

-----------------------------------------------------------------------------
(* Properties *)

IsPages(pages) ==
    /\ pages \in [PageNo -> [lsn : Lsns, slots : UNION {[OnPage(p) -> Slot] : p \in PageNo}]]
    /\ \A p \in PageNo : pages[p].slots \in [OnPage(p) -> Slot]

TypeOK ==
    /\ mode \in {"down", "redo", "undo", "ready", "failed", "run"}
    /\ log \in Seq(LogRecord) /\ buffer \in Seq(LogRecord)
    /\ IsPages(disk) /\ IsPages(mem)
    /\ next_txn_id \in 0 .. MaxTxn + 1
    /\ pc \in [Txn -> {"none", "active", "committing", "aborting", "done"}]
    /\ pending \in [Txn -> LogRecord \cup {Nil}]
    /\ prev_lsn \in [Txn -> Int]
    /\ write_set \in [Txn -> Seq([rid : Rid, old : Slot])]
    /\ lock \in [Rid -> Txn \cup {Nil}]
    /\ pos \in 0 .. Len(log) /\ applied \in BOOLEAN /\ att \subseteq Txn
    /\ undoing \in [txn : Txn \cup {Nil}, lsn : {INVALID_LSN} \cup Lsns]

\* The records belong to one life of a transaction: its id is not begun anew between
\* the first of them and the second.
SameLife(lsn, e) ==
    /\ Rec(e).txn = Rec(lsn).txn
    /\ \A b \in lsn + 1 .. e : ~(Rec(b).type = "begin" /\ Rec(b).txn = Rec(lsn).txn)

Ends(lsn, types) == \E e \in Lsns : e > lsn /\ Rec(e).type \in types /\ SameLife(lsn, e)

Committed(lsn) == Ends(lsn, {"commit"}) /\ ~Ends(lsn, {"ABORT"})

WritesOf(r) == {k \in Lsns : IsWrite(k) /\ Rec(k).rid = r}
Same(x, y) == IF x = Nil \/ y = Nil THEN x = y ELSE x.val = y.val

\* The content of r by the committed transactions of the log.
CommittedContent(r) ==
    LET W == {k \in WritesOf(r) : Committed(k)} IN IF W = {} THEN Nil ELSE Rec(Max(W)).new

NoneAborted(r) == \A k \in WritesOf(r) : ~Ends(k, {"ABORT"})

\* Undo "rolls back the unfinished transactions" (log_recovery.cpp): the first
\* recovery leaves of a record what the committed transactions have made of it.
UnfinishedIsRolledBack ==
    mode = "ready" /\ ~stolen /\ ~reused /\ recreated = 0 =>
        \A r \in Rid : NoneAborted(r) => Same(At(mem, r), CommittedContent(r))

\* The transaction of the record has not ended, and no later run has used its id.
Loser(lsn) ==
    \A e \in Lsns : e > lsn /\ Rec(e).txn = Rec(lsn).txn =>
                        Rec(e).type \notin {"begin", "commit", "ABORT"}

\* Every transaction that wrote r has committed, but for a last one that has deleted
\* it and not ended.
WritersCommitted(r) ==
    \A k \in WritesOf(r) :
        \/ Committed(k)
        \/ /\ Rec(k).type = "DELETE" /\ Loser(k)
           /\ \A j \in WritesOf(r) : j <= k

\* Such a record has its committed content after a recovery, whatever other
\* transactions did in the page, whatever pages and log records have reached the
\* disk, and wherever a crash has interrupted the run, or the recovery.  A run on a
\* recovered page may no longer write the page before the log: redo would skip the
\* record that puts the slot right.
CommittedWritesSurvive ==
    mode = "ready" /\ recreated = 0 /\ (stolen => ~reused) =>
        \A r \in Rid : WritesOf(r) # {} /\ WritersCommitted(r) =>
            Same(At(mem, r), CommittedContent(r))

\* The unfinished transactions that undo takes out of the slot.
Losers(r) == {t \in Txn : Unfinished(t) /\ Chain(t) \cap WritesOf(r) # {}}

\* A recovery that crashes and starts over, as often as it may, and completes, ends with
\* the table an uninterrupted one would have led to: so it is for every slot that one
\* transaction has left unfinished, or none, whatever is on the disk.  Left out are
\*   - a recovery that throws (mode "failed"): undo is not idempotent, against its comments
\*     (log_recovery.cpp:52, 79, 92).  An INSERT, or the UPDATE of a row the transaction has
\*     inserted, that is undone already and written back finds its slot empty, and
\*     delete_record or update_record throws (log_recovery.cpp:65, 103), now and at every
\*     later start;
\*   - a slot that two unfinished transactions, of different runs of the server, have
\*     changed: undo() goes through a hash set, and a recovery that starts over may take
\*     the other order.
RecoveryIsIdempotent ==
    mode = "ready" =>
        \A r \in Rid : (\A t, u \in Losers(r) : t = u) => At(mem, r) = At(goal, r)

=============================================================================
