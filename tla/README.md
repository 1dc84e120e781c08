# AIDV: formal models of the RMDB engine

AIDV is a teaching platform for databases: a React frontend (`src/frontend`), a
FastAPI backend (`src/backend`) and RMDB, a relational engine in C++17
(`src/rmdb/src`) on which every user statement finally runs. Concurrency,
failure and recovery live in the engine, so the models start there. This
directory holds TLA+ modules translated from the source, TLC configurations that
check them on small instances, and TLAPS proofs.

## 1. Inventory

Paths are relative to `src/rmdb/src` unless they start with `src/`.

| Component | State | Operations | Hard behaviour | Correct when |
|---|---|---|---|---|
| Log manager (`recovery/log_manager.*`) | log buffer, LSN counter, `persist_lsn_`, leader flag, flush and overflow copies | append, flush, wait for persistence, background flusher | leader/follower group commit; writes outside the latch; a full buffer is written by a worker | an acknowledged commit is on disk; the file is in LSN order; committers are woken |
| Lock manager (`transaction/concurrency`) | sharded lock table, wait-for graph, victims | `lock_*`, `unlock`, detector | condition variables, upgrades, two deadlock checks over partial information | no conflicting grants, no lost wake-up, deadlocks are broken, locks end with their transaction |
| Buffer pool, replacer, disk manager (`storage`, `replacer`) | frames, page table, free list, LRU list, page numbers per descriptor | fetch, new, unpin, flush, delete, discard, flush thread | eviction and write-back against writers; descriptors are reused | it is invisible: a page reads as last written |
| Record file (`record`) | file header, bitmap and free chain per page, hidden `trx_id`, `roll_ptr` | insert, delete, update, get, scan | shared header with no latch; slots changed under readers | every record is found once; slots are not lost |
| Transactions, MVCC, watermark (`transaction`) | ids, timestamps, `txn_map`, read views, undo logs, write sets | begin, commit, abort, garbage collection, visibility | begin and end in many unlatched steps; rollback; freeing of transactions others read | snapshots show committed data and are stable; rollback leaves no trace; nothing in use is freed |
| Recovery (`recovery/log_recovery.*`) | log image, `att_`, LSN offsets | analyze, redo, undo, rebuild indexes | crashes at any point, also inside recovery; the log is never cut | committed writes survive, others are rolled back, repetition changes nothing |
| Statement driver (`rmdb.cpp`, `portal.h`) | plan cache per thread, parser mutex, views, GC slot per thread | one statement = one transaction; socket and HTTP front ends | order of response, commit and abort; errors half way | each statement commits or rolls back as a whole |
| B+ tree (`index`, `common/rwlatch.h`) | nodes, leaf chain, page latches with sequence numbers | search (optimistic, then latched), insert/split, delete/merge, range scan | latch crabbing in both directions, hand-over from read to write latch, cells that overlap | sorted, every key found; an entry names its row; latches are released |
| Server (`network`) | connections by descriptor, read and write buffers, `busy`, worker queue | accept, read, dispatch, answer, close, shutdown | edge-triggered epoll, descriptor reuse, unlocked buffers, shutdown | one answer per statement, to its client, in order; no wake-up lost; shutdown ends |
| DDL (`system`) | `DbMeta`, open files and indexes | create/drop table, index, view | several files changed one after the other, no locks | metadata and files agree, also after a crash |
| Query operators, planner, analyzer (`execution`, `optimizer`, `analyze`) | plan trees, iterators | joins, grouping, sorting, access paths | rewinds and phases of the joins, conditions that are moved, many plans for one statement | the rows are those SQL asks for, whatever the plan; invalid statements are refused; iterators end |
| Parser (`parser`) | syntax tree | generated | none | grammar |
| Backend bridge (`src/backend/core`, `api`) | connection to RMDB, SQLite metadata | query with retry, simulated ALTER TABLE, workspaces | repeated statements; two stores | a statement runs once; the stores agree |
| Frontend, client, googletest | views; none; vendored | | | |

How they interact: a worker thread of the server takes a statement, begins a
transaction (`TransactionManager::begin`), runs executors over the record files
and indexes, which pin pages in the buffer pool and take locks in the lock
manager; each change is logged; commit appends a record, waits until the log
manager has it on disk, releases the locks and retires the transaction. Three
background threads run beside the workers: log flusher, page flusher, deadlock
detector. After a stop, `main` opens the database, runs analyze, redo and undo,
rebuilds the indexes and serves. The engine trusts no order between the log and
the pages: pages are written back whatever part of the log is on disk.

`PROJECT.json` lists the components with their status and, under `hazards`, each
place where this can go wrong, with its line and the properties that watch it.

## 2. Modules

| Module | Models | Grain of a step |
|---|---|---|
| `LogManager` | `log_manager.cpp`, `DiskManager::write_log`, restart numbering | one critical section of `latch_`; begin and end of a section of `io_latch_` |
| `LogManager_proof` | theorems about it | |
| `LockManager`, `MCLockManager` | `lock_manager.cpp`, with the ends of transactions that call it | one critical section of a shard latch, of `waits_for_latch_` or `victims_mutex_`; one shard of a scan |
| `LockManager_proof` | theorems about it | |
| `PageStore` | the abstract promise of the storage layer: a page has one content, which only writes change | one operation |
| `BufferPool`, `MCBufferPool` | `buffer_pool_manager.cpp`, `lru_replacer.cpp`, page numbers of `disk_manager.cpp`, opening, growing and closing of record files | one critical section of a shard latch or of the free-page list |
| `BufferPool_proof` | theorems about it, its refinement of `PageStore` among them | |
| `TransactionManager`, `MCTransactionManager` | `transaction_manager.cpp`, `transaction.h`, `watermark.cpp`, visibility in the scan executors, record writes, `process_query` | one access to shared state |
| `TransactionManager_proof` | theorems about it: the transactions, then what a `SELECT` reads | |
| `Recovery`, `MCRecovery` | `log_recovery.cpp`, the log records of the executors, write-back, crash, shutdown, restart | one log record |
| `Recovery_proof`, `Idempotence_proof` | theorems about it | |
| `Tuples` | rows, columns, conditions and the operators above a join: `executor_seq_scan.h`, `executor_aggregation.h`, `executor_distinct.h`, `execution_sort.h`, `executor_limit.h`, `executor_projection.h` | operators, no state |
| `Analyzer`, `Planner` | `analyze.cpp`, `planner.cpp` | operators, no state |
| `SqlReference` | what a statement means in SQL: the abstract specification of the next | operators, no state |
| `Joins` | `executor_nestedloop_join.h`, `executor_hash_join.h`, `executor_sortmerge_join.h` | one look at a pair of rows, or one change of phase |
| `Joins_proof` | theorems about it | |
| `Query`, `MCQuery` | one statement from the syntax tree to its rows, on `Joins`: `portal.h`, the operators above a join | one move of a join cursor; one operator |
| `BPlusTree` | what the functions of `ix_index_handle.cpp` do to the pages of an index | operators, no state |
| `Dictionary` | the abstract promise of an index: a set of keys, each change for a worker that asked for it or ended by an error | one change |
| `Table`, `MCTable` | INSERT, UPDATE, DELETE, CREATE INDEX, COMMIT, ABORT and the start of an index scan, over rows and index, with the latches of `rwlatch.h` | what a worker does between two latches or two looks at a sequence number |
| `PlanCache` | fast path and plan cache of `rmdb.cpp` | operators, no state |
| `Server`, `MCServer` | `epoll_server.cpp` and `process_query` around the executors | one system call, one critical section, or the work between two of them |
| `Server_proof` | theorems about it | |

The correspondence, definition by definition, is `map` in `PROJECT.json`.
Variables carry the names of the members they stand for. Ghost variables are
named in the head of each module; no action depends on them.

**LogManager.** A record is its LSN; `buffer`, `flush_buffer` and
`overflow_buffer` are the three memory copies, `file` the log on disk.
`add_log_to_buffer` is `AppendRecord` when the record fits, else
`OverflowTake; OverflowIoBegin; OverflowIoEnd; OverflowFinish`. The shared
overflow buffer may be overwritten while its writer is in `pwrite`:
`OverflowChunks` lets either content reach the file (undefined behaviour as a
choice). `flush_log_to_disk` is `FlushFollow` or `FlushLead; FlushIoBegin;
FlushIoEnd; FlushFinish`. `wait_for_persist_lsn` is `WaitReturn` or `WaitSleep`;
sleepers leave by a notification (`NotifyPersist`). `Crash` keeps the file,
with any prefix of what was being written, and renumbers from the highest LSN.

**LockManager.** `Request*` are the branches of `lock_common` before its loop,
`Grant`, `InlineDeadlock`, `Block`, `Sleep`, `WakeUp`, `WakeUpVictim` its loop.
`ScanShard` reads the queues one shard at a time without their latches, as
`find_deadlock_victim` does. The detector takes its copy of the graph, marks a
victim, looks for its queue and cleans up in four separate steps. `Wants` says
which locks a transaction may ask for, in any order.

**BufferPool.** The descriptor, not the file, keys pages and page numbers, as in
the code; `Fd` is smaller than the set of files so that a descriptor is reused.
Closing is `CloseBegin; CloseFlush*; DiscardCollect; DeletePage*; CloseEnd`,
shard by shard. Page contents are numbers, each write a new one. That DDL closes
a file only while no worker is inside it is an assumption about the clients:
the code does not enforce it and what happens otherwise is undefined.

**TransactionManager.** A process is a transaction with the thread that runs
it. `begin` is six steps, the end of a commit seven. A snapshot reader is not
stepped through its scan: `Row(t, r)` is what it would find at `r` now, and the
properties demand the right answer at every moment it may read. Record latches
do not exist in the code; an update of a slot is one step here, torn slots are
not modelled.

**Recovery.** Pages hold slots and an LSN; `disk` and `mem` differ by what has
not been written back. The log carries exactly the fields the code logs, with
the hidden `trx_id` a logged update really has (`LoggedUpdate`). Redo and undo
move record by record, pages may be written back between any two steps, and a
crash may come at every one. Transactions, the flush of the log and the
rollback, which other modules take apart, are single steps here.

**Query.** A statement is the record the parser makes of it, a row a sequence
of cells. `Analyze`, `Plan` and `Open` apply `do_analyze`, `do_planner` and the
constructors and `beginTuple` calls of the executors. `Joins` has the cursors of the
three joins: `Nlj*`, `Hash*` and `Smj*` are the branches of the three `nextTuple`s,
`cursor` holds the members that say where they stand. It knows the rows of the
children by their positions only; `Query` gives it what `check_all_conds` and
`build_key` make of each two rows (`Joining`), which depends on nothing else, and
takes its moves as its own (`Step`), so that whatever `Query` does to `join`, `cursor`
and `pairs` is a step of `Joins`. A tree of joins runs level by level;
since a join reads its left child once and rewinds only the scan on its right,
this gives the same rows. What is above the joins (aggregation, `DISTINCT`,
`ORDER BY`, `LIMIT`, projection) takes all rows in one step. Memory the code reads
before it has written to it is a choice in `Init` (`flag`, `cell`); a null pointer
or a failed assertion is the result "crash".

**BPlusTree and Table.** `BPlusTree` has no processes: its operators take a page
or an index and return the changed one, with the memory layout where it matters
(the cell behind the last key is the first `Rid`, cells beyond `num_key` keep
their content). `Table` applies them under the latches. A worker is in one
statement, at one of the points where the code takes a latch or reads its
sequence number: `ReadRoot; Sample; Changed/Lookup; LatchLeaf` is the optimistic
descent of `find_leaf_page`, `Fallback*` the latched one, `HandOff; Upgrade;
FastPath` or `FallBehind; UnlockAgain; Crab*` an insertion, `SplitUp` and
`IntoTheParent` what follows a split, `Dig*; UpLatch; Sibling*; Redistribute` or
`Coalesce; UnlockMerged` a deletion. `NoChild` and `CannotMerge` are the assertions of
`find_child` and `erase_pair`, which end the process. A new inner root keeps the parent
0 of its zeroed page (`NewRoot`), where `is_root_page` asks for -1: when it overflows,
the climb goes on to page 0, the header of the file, and to the first of the two
assertions. The word of a latch wraps as in the code (`unlock_shared`). `Executor` has
the order of row and index in the executors: the probe for a duplicate, the row, then
the entry. A plan is what each worker does; the locks of `LockManager` are represented
by plans that give no two workers the same row.

Two history variables are no part of the program. `faults` remembers which of five
things the code does wrong has happened, `moved` how often pairs of a page have gone to
another page or come from one, so that a worker that reached a page without a latch can
be said to have been overtaken (`Overtaken`, `late`). No guard reads them.

**Server.** The I/O thread is `IoStep`: wait, accept, read, dispatch, write,
hang-up, and after `Stop` the final flush and the end of the pool. A worker is
`WorkerStep`: the predicate of `worker_loop`, falling asleep (a step of its own,
since `shutdown` does not hold the mutex), the cached plan or the parser, the
answer in the two halves of `enqueue_response`, the commit. `ClientStep` and the
operators on sockets, descriptors and the ready list stand for kernel and
clients; they are marked external in `map`. An answer is the effect of the plan
that ran, so that a wrong plan, a wrong client and a wrong order all show. The ghost
`reused` remembers that a new client was given the descriptor of one whose statement
was still queued or running (`InFlight`).

## 3. Runs

States and times with two workers on a small machine.

| Run | Checks | Result |
|---|---|---|
| `log_pass` | type, one sequence, persisted is durable, acknowledged is durable (without overflow), every sleeping committer returns | holds, 115 262 states, 1 min |
| `lock_pass` | type, no conflicting grants, no lost wake-up, record and gap locks end | holds, 219 651 states, 30 s |
| `lock_deadlock` | every transaction ends | violated, under fairness |
| `buffer_pass` | type, frames partitioned, pins, no lost write, dense pages, implements `PageStore` | holds, 154 168 states, 40 s |
| `txn_pass` | type, committed reads, stable snapshots, rollback, watermark, freeing | holds, 864 666 states, 2 min |
| `recovery_pass` | type, committed writes survive, a repetition that completes changes nothing | holds, 1 788 167 states, 2.5 min |
| `recovery_undo` | unfinished transactions are rolled back | violated |
| `query_pass` | type, no pair twice, joins are exact, invalid statements are refused, right rows, every statement ends | holds, 47 104 states, 10 s |
| `table_pass` | type, tree is whole, duplicates are refused, latches count their holders, implements `Dictionary`, statements end | holds, 62 087 states, 1 min |
| `table_overlay` | every index entry names its row | violated |
| `server_pass` | type, answers match, statements are answered, a stop ends | holds, 114 580 states, 1 min |
| `server_serial` | the statements of a connection are serial | violated |

Every property of a passing run has a mutant in `PROJECT.json`: a plausible
mistake in one mapped definition with which TLC finds that property violated.

### What the violations show

* `lock_deadlock`: `remove_all_edges` at wake-up (`lock_manager.cpp:104`) deletes
  edges *into* the waking transaction, too, which their owners do not publish
  again before they are woken. A cycle forms that neither check sees.
* `recovery_undo`: a logged update carries the old `trx_id`; redo writes it and
  undo then takes the row for somebody else's (`log_recovery.cpp:97`).
* `table_overlay`: `get_max_size()` is `btree_order + 1` and a leaf splits only
  when it has more, so for a moment it holds one pair beyond its arrays
  (`ix_index_handle.cpp:489`). The last key then lies over the first `Rid`, and
  the first entry of every leaf that was ever split names a wrong row.
* `server_serial`: `process_query` enqueues the answer, which clears `busy` and
  dispatches the next statement, before it commits (`rmdb.cpp:683`, `688`). The
  client's second statement runs while the first still holds its locks, and an
  acknowledged statement may be lost by a crash.

### What the passing runs leave out

The code departs from what one would ask of it in more places than these. The
passing runs state what holds *apart from* them, and name the exclusion in the
property, in a `CONSTRAINT` or in the plans.

* Log. A worker that finds the buffer full stores `persist_lsn_ = lsn - 1`
  (`log_manager.cpp:42`) while the leader still holds earlier records it has not
  written; a commit among them is acknowledged and lost by a crash.
  `AckedIsDurableWithoutOverflow` and the other log invariants say nothing once
  the buffer has overflowed.
* Pages. `discard_pages` frees the page numbers it evicts
  (`buffer_pool_manager.cpp:149`), against its comment, and the next file on that
  descriptor gets pages its header does not count. `Sound` ends a run there, at a
  page fetched before its creator mapped it and at a lost `num_pages` increment.
* Transactions. Between drawing an id and entering `txn_map`
  (`transaction_manager.cpp:27-54`) a writer is in nobody's snapshot and its
  uncommitted update is read. `BeginAndEndSound` ends a run there and at the
  window in which `commit_ts` is still -1.
* Recovery. Undo writes no log and the log is never cut, so the next recovery
  undoes a loser of an earlier run again, over a committed update. The
  properties leave out slots touched by rolled-back or unfinished transactions,
  and pages written ahead of the log where the code then loses data. The order in
  which the losers are undone is that of an `unordered_set` (`log_recovery.cpp:286-294`)
  and may differ when a recovery starts over; where two unfinished transactions, of
  different runs, have changed one slot it decides what is left there.
  `RecoveryIsIdempotent` is about the slots with one of them at most. It is also about a
  recovery that completes. One that starts over need not: an `INSERT`, or the `UPDATE`
  of a row the transaction has inserted itself, that was undone before the crash and
  written back finds an empty slot, and `delete_record` or `update_record` throws
  (`log_recovery.cpp:65`, `103`; `rm_file_handle.cpp:168-170`, `213-215`). Nothing has
  changed at the next start, which throws again: the server does not come up any more.
  The comments speak of "Idempotent undo" (`log_recovery.cpp:52`, `79`, `92`). In the
  model this is the mode `failed`.
  `RecreatedLast` keeps a recreated table quiet until the next stop, because the
  old log is replayed into it.
* Queries. `Departs` in `Query` is the disjunction of sixteen named departures,
  each with its comment: an index scan skips its only match, `SELECT` forgets
  `OR` and `NOT`, `NULL` is the integer zero, an amount added to a column is
  dropped, a condition of `ON` on one table crashes, a `FULL` join pads the row behind
  each right row without a match and never the first, where the comments of
  `executor_nestedloop_join.h` (33, 185, 223) say every one without a match, a
  sort-merge join loses rows, three tables with conditions between them crash,
  `DISTINCT` before the projection, a sort above a join or an aggregate, and so
  on. `SelectIsRight` covers the statements that meet none of them, and the
  other properties also the ones that do; `JoinIsExact` says nothing about which right
  rows a `FULL` join pads. `RejectsInvalid` leaves out what the
  analyzer does not look at (`Unnoticed`), groups of conditions under `OR`, which
  read an uninitialised flag, and columns selected twice.
* Index. The plans of `table_pass` go where the tree goes wrong, and the properties say
  what holds until then. `TreeIsWhole`, `DuplicateIsRefused` and, but for the faulty step
  itself, `IsDictionary` end with the first of the five `faults`:
  - `misplaced`: a child that is not the last one of its parent is split, and the new one
    is entered one place too far to the right (`ix_index_handle.cpp:430`), so that
    searches miss it (plan `Misplaces`);
  - `separator`: a pair borrowed from the left sets the wrong key of the parent (670;
    `Borrows`);
  - `merged`: a merge takes the pair of another child out of the parent (721;
    `MergesRight`, `MergesLeft`), or, with the last child, fails an assertion (`Aborts`).
    A first child is swapped with its neighbour on the way, after which its latch is
    given up twice (610 and the guard of `delete_entry`) and the neighbour's never;
  - `unlocked`: that second release, or the one at 478 or 543 on a leaf that is full or
    may underflow, meets a latch that another worker has taken (`Splits`, `Deletes`,
    `ClimbsTwice`);
  - `unchecked`: a write to a page whose pairs have gone elsewhere after the worker came
    to it without a latch: 465-466 do not look again (`Splits`, `Empties`).

  `LatchCountsHolders` ends with `unlocked` only. `DuplicateIsRefused` also leaves out a
  probe that latches a leaf which was split or lent a pair since the descent came to it
  (`late`, plans `Probes` and `Crosses`): the leaf is not looked at again (222-224), the
  key has moved to another one, and the duplicate passes. It is about keys the index
  holds: two workers that insert one new key both pass the probe, after which the second
  row has no entry. `StatementsEnd` names its exits: a select that finds its key keeps the
  latch of the leaf (762), so that the next writer spins for ever (`Leaks`); a deletion
  that climbs meets a descent or another climb, each holding what the other waits for
  (`Crossed`; `MergesRight`, `ClimbsTwice`, `ClimbsNextToIt`); and what follows a merge, a
  lost latch or an unchecked write. An `UPDATE` to `NULL` fails the check for `NOT NULL`
  after it has taken its entry out of the index, where nothing puts it back (`Aborts`; to
  a key that exists it does not fail at all: nobody looks). Deleting the last entry
  leaves an index into which nothing can be inserted (`Empties`), and a table that grows
  ends with the assertion on page 0 when the inner root overflows (`Overflows`).
* Server. The clients of `server_pass` wait for the answers of a packet before
  they send the next (a packet may hold several statements). `AnswersMatch` speaks of
  behaviours in which no descriptor has gone to a new client while a statement of the
  former one ran (`reused`; the plan `Reuses` has one in which it does) and of plans
  whose statements of one pattern share their table and the shape of their `WHERE`
  (`Alike`). Outside: the answer to a client that has gone reaches the one with its
  descriptor (`epoll_server.cpp:196`), as `server_pass` finds at once without `reused`;
  `read_buf` and `busy` are used by the I/O thread without the mutex, which is harmless
  only for a client that waits; an `UPDATE` or `DELETE` runs the cached conditions of
  another one (`rmdb.cpp:283-288`); plans outlive the table they were made for. `StopEnds`
  names the two hangs of a shutdown: `conn_mutex_` is locked twice when output is
  pending (177-181), and a worker that has tested the predicate and not yet fallen
  asleep misses the notification (39-41). A connection that hangs up with output
  pending is never closed: the hang-up comes back each time it is armed again.

### Bounds, and why they are enough

* Log: two workers, two flushers (background, SIGINT handler), a buffer of two
  records, LSNs up to 3, one crash. An overflow needs three appends; leader,
  follower and overflowing worker are all at work at once; the crash leaves
  records numbered on from the file.
* Locks: three transactions are the fewest for a third party to disturb a
  two-cycle. `MixedWants` has upgrades, IS then IX, a gap and an insert into it;
  two requests each. `CrossedWants` needs three for transaction 2.
* Pages: two shards with one frame each, three pages, two files on one
  descriptor, so every fetch of another page in a shard evicts; two writes, two
  openings.
* Transactions: two writers and one reader, two loaded records, one HTTP
  transaction, one that collects garbage. Transaction 2 may also insert, into a
  slot that transaction 1 has emptied.
* Recovery: two slots on one page (slots are symmetric, with the slot that holds
  the first record chosen freely in `Init`, so `SYMMETRY` is sound for the
  invariants), two writes, seven records, two stops, of which either may fall
  into recovery, one recreation of the table.
* Queries: three tables of at most three rows, two of which share column names,
  eight databases (empty tables on either side, repeated and missing keys, NULLs),
  one statement for every feature of the `SELECT` rule and every join type with
  an equality, a comparison and both; either estimate and `sortmerge` setting, so
  that every join executor runs every join. A match, a mismatch, a repetition and
  an unmatched row on both sides fit in three rows.
* Index: order 3, the smallest `create_index` admits: splits of leaves and of the
  root, and an inner root that overflows, need thirteen rows and nine pages. Two
  workers: the hazards are those of one that changes the tree and one that is on its
  way down or up. `CHECK_DEADLOCK FALSE`, because behind a latch that was lost, leaked or
  crossed the system really may stop; `StatementsEnd` says that it does not elsewhere. Three attempts of the
  optimistic descent instead of ten, one restart instead of five; the word of a
  latch has four bits, with room for more readers than there are workers.
* Server: three clients, two workers, two connections of which one may be refused,
  room for one answer in a socket so that a write is cut short, one epoll event at
  a time.

### Fairness

`LogManager!Fairness`: the background flusher
wakes at least every `log_timeout` (`wait_for`), so its step is weakly fair; a
thread inside a flush or an overflow goes on; taking `io_latch_` is strongly
fair, since several threads compete for it and none is starved for ever. Nothing
makes a worker append, a signal arrive or the system crash.
`LockManager!Fairness`: threads inside `lock_common`, `unlock` and the detector
go on, and transactions end; strong, because they compete for latches. It is the
most the code could hope for, and `lock_deadlock` fails under it all the same.
`Query`: the worker that took the statement runs it to the end, weak fairness of
`Next` written out. `Table`: each worker's `Step` is weakly fair; a worker that
spins on a latch has its step disabled, so nothing is assumed of who gets a latch
that several want. `Server`: the I/O thread, each worker and each client are weakly
fair; that a client goes on means that it sends what it has and reads what has
arrived. No fairness makes SIGINT arrive.

## 4. Proofs

Each theorem holds for every value of the constants that the named `ASSUME`s of
its module admit; nothing else is assumed.

| Module | Theorem | States |
|---|---|---|
| `LogManager_proof` | `TypeCorrect` | `Spec => []TypeOK` |
| | `LogOrder` | `Spec => []LogIsOneSequence` |
| | `PersistedDurable` | `Spec => []PersistedIsDurable` |
| | `AckedDurable` | `Spec => []AckedIsDurableWithoutOverflow` |
| `LockManager_proof` | `TypeCorrect` | `Spec => []TypeOK` |
| | `NoConflict` | `Spec => []NoConflictingGrants` |
| | `NoLost` | `Spec => []NoLostWakeUp` |
| | `EndedReleases` | `Spec => []EndedHoldsNoRecordOrGap` |
| `BufferPool_proof` | `TypeCorrect` | `Spec => []TypeOK` |
| | `Partition` | `Spec => []FramesArePartitioned` |
| | `PinnedFramesStay` | `Spec => []PinnedStays` |
| | `NoGaps` | `Spec => []PagesAreDenseWhenSound` |
| | `NothingLost` | `Spec => []NoLostWrite` |
| | `PoolImplementsPageStore` | `Spec => ImplementsPageStore` |
| `TransactionManager_proof` | `TypeCorrect` | `Spec => []TypeOK` |
| | `Watermark` | `Spec => []WatermarkIsOldestRead` |
| | `FreedAreDone` | `Spec => []FreedIsUnused` |
| | `RollbackRestores` | `Spec => []UnlockedRowsAreCommitted` |
| | `CommittedReads` | `Spec => []ReadsCommittedWithoutRace` |
| | `SnapshotKept` | `Spec => SnapshotNeverChanges` |
| | `ReadsTerminate` | `Spec => []NeverEndless` |
| `Recovery_proof` | `TypeCorrect` | `Spec => []TypeOK` |
| | `CommittedSurvive` | `Spec => []CommittedWritesSurvive` |
| `Idempotence_proof` | `RecoveryRepeats` | `Spec => []RecoveryIsIdempotent` |
| `Joins_proof` | `TypeCorrect` | `JoinSpec => []JoinTypeOK` |
| | `NoRepeats` | `JoinSpec => []NoPairTwice` |
| | `JoinsAreExact` | `JoinSpec => []JoinIsExact` |
| `Server_proof` | `TypeCorrect` | `Spec => []TypeOK` |
| | `ClientsGetTheirAnswers` | `Spec => []AnswersMatch` |

**The log.** Any sets of workers and flushers, any capacity and bounds. None of
the three safety properties is inductive: that
`persist_lsn_` is covered after `FlushFinish` depends on the local bound of the
leader, and this on where the taken records are. `IInv` therefore adds

* `HasLsn`: a worker that waits has an LSN that was handed out;
* `Consecutive`: file, leader's copy and buffer continue each other;
* `OneLeader`: one flusher at a time leads, and its bound is the last LSN it took;
* `Covered`: what is published or acknowledged lies in the file;
* `NoOverflow`: nobody is on the overflow path;

the last four as long as no overflow has happened. `TypeStep` and `GroupStep`
show that every action keeps them; the theorems follow by `PTL`. The renumbering
after a crash needs that a non-empty file has a highest LSN and that it is the
last one (`NextLsnExists`, `NextLsnOfConsecutive`).

**The locks.** Any sets of transactions, tables, records and gaps, any requests.
`is_compatible` looks at one group mode and never at the requests it stands for.
`NoConflictingGrants` is therefore not inductive by itself: `IInv` adds

* `Grouped`: the group mode is what `update_group_lock_mode` makes of the granted
  modes, and these are modes of the item;
* `Single`, `NotHeld`: on a record or gap a transaction has one granted request,
  named in its `lock_set_`, and never asks again for what it has;
* `Asking`, `Latched`: a request in `lock_common` is for a mode of its item, and
  its shard stays latched from the look at the queue to the wait. That nobody else has
  a latch is a part of `TypeOK` (`LatchOwned`, kept by `OwnedStep`): a victim chosen in
  line that left with the latch would stop its shard for ever;
* `Queued`: who sleeps is in the queue of its item and could not be let in;
* `Released`, `Chosen`: an ended transaction names no item, a busy detector has a
  victim.

Three lemmas about the modes carry the argument. `GroupModeDecides`: what the
group mode admits conflicts with none of the granted modes. It fails for a gap
on which both `GAP` and `INSERT_INT` are granted, which the priorities of
`update_group_lock_mode` would hide; `OneGapMode` shows from `Single` that this
never happens, so that mutual exclusion depends on one request per transaction.
`GrantMakesNoRoom` and `ExclusiveIsAlone`: neither a grant nor an upgrade lets a
sleeper in although the group mode changes, so `unlock` alone has to notify.
On tables a transaction may own several requests (`EndedHoldsNoRecordOrGap`
leaves them out for that reason); the mutual exclusion covers them too.

**The pages.** Any sets of files and descriptors, any number of shards, any
assignment of frames to shards and any bounds (`BoundsAssumption`); workers and
frames are finite (`FiniteAssumption`), since pins are counted. `IInv` has two
layers. `Base` holds in every state, after the three races of `Sound` too: types,
the frame a page is mapped to names that page (`Mapped`), a dirty or pinned frame
names some page (`Named`). It is what `TypeCorrect` needs, because the target of a
write-back is the page the victim names. The rest holds in sound states:

* `Lists`, `Placed`: each list has no frame twice and only frames of its shard,
  and every frame is on the free list, evictable, or pinned;
* `Pins`: the pin count of a frame is the number of workers that have it pinned.
  That a victim is nobody's frame follows from it and from nothing weaker: a
  victim has count 0;
* `OneFd`, `UsersOpen`: a file is open on one descriptor, and workers use open
  files that nobody is closing. With two descriptors a page would have two frames;
* `Fresh`, `Dense`, `Headed`: the numbers given out are those of the pages there
  are and of those under way, `num_pages` counts the former, and the header of a
  closed file agrees;
* `ResidentBorn`, `Discarded`: pages in the pool belong to open files, and a close
  has emptied the shards it has passed. Otherwise `CloseEnd` would leave pages of a
  descriptor behind for the next file that gets it;
* `Cached`, `Kept`, `Unborn`: a page in the pool has its last content, and so has
  the disk unless the frame is dirty or a worker will unpin it dirty. This last
  case is what a flush between a write and its unpin leaves: `flush_page` clears
  the flag of a page in use, and `DirtyAfter` sets it again.

`Evict` states once what the replacement of a victim does to all of this; the
actions that take a frame cite it. `PoolImplementsPageStore` uses that in sound
states the current contents are `latest` (`StoreIsLatest`), on which each step of
the pool is a step of `PageStore` or none; an unsound step is its `Fault`.

**The transactions.** Any number of transactions and records, any choice of
statements, HTTP transactions and collectors (`BoundsAssumption`). `IInv` has three
layers:

* `Base`, in every state: types, ids given out in order (`Ids`), nobody registered
  before its time (`Registered`), a version in use has a writer and a link
  (`Versions`), only scanning and writing threads have records to write (`Doing`).
  `Versions` is what makes `Restored` and the append to the undo log well typed;
* `Clock`, in every state: `Times` and `Active` (stamps come from one counter, and
  from registration on a thread publishes its read stamp, which is below its commit
  stamp), `Stamped` (a final state without a commit stamp is the window `gc_window`)
  and `Collecting`. The minimum a collector has computed may be overtaken by any
  number of begins and commits before it deletes; `Collecting` says what is left of
  it: whoever has a commit stamp below the minimum is done, and every stamp still to
  be given is above it. It holds when the minimum is taken because a thread that is
  not done publishes a read stamp older than its commit stamp;
* `Rows`, as long as no insert took an unlocked slot: `Entries` (the write
  records of a transaction are on different records, which it has locked, and hold
  what was committed), `Locked` and `Clean` (a locked record without a write record is
  as committed, and so is one nobody has locked), `Inserting` and `Free` (the slot
  between an insert and its lock belongs to one transaction, and nobody else holds
  a lock there). `RollbackRestores` follows: undoing the write records from the last
  to the first leaves each record as committed before its lock is given up.

That the deleted transactions are done is unconditional but for `gc_window`, a
collection between the two steps in which a transaction gets its final state and its
commit stamp; the code reads its commit stamp there while it is still -1.

**What a SELECT reads.** The second part of `TransactionManager_proof` begins with `RInv`,
which uses `IInv` and has two parts:

* `Reads`: `States` (the state of a transaction follows its thread), `Gone` (who has
  been registered and is no longer in the map has ended) and `Views`: an id below
  `low_limit_id_` that is not in `active_ids_` is of a transaction that has ended,
  unless one took its view while another had its id and was not yet registered
  (`begin_race`). That is what a `ReadView` promises, and it is not local: between
  the two steps in which a view is built other transactions begin, end and are
  collected, and afterwards they go on.
* `Written`, as long as no insert took an unlocked slot: `Own` (who has written a
  record is the writer it shows), `Kept` (what is durable is of a committed writer)
  and `Logged` (so is every version in an undo log, those of transactions that are
  being rolled back among them: a record is locked and as committed when it is
  overwritten).

So only the newest version of a record can be of a transaction that has not
committed; `is_visible` decides about it (`CommittedRead`), and whatever
`get_visible_record` finds further down the chain is committed (`RowWriter`, by the
least counterexample over the length of the chain, `VersionsExist` having shown that
the recursive function of `Row` is defined).

**A SELECT keeps its snapshot.** The rest of the module is about the chains
themselves: the record, and behind it the versions in the undo logs of several transactions, which
`get_visible_record` follows from link to link. `SInv`, which uses `IInv` and `RInv`,
says

* `Links`: a version links into the undo log of its own writer, or has no link;
* `Stamps`, `Counted`, `Later`: who was active or not yet begun when the view was
  built commits after the time stamp of the reader, and no collector has a minimum
  above that commit. Only this keeps a transaction that the reader must not see from
  looking old enough to be visible once it has left the map;
* `Trail`, as long as no insert took an unlocked slot: write records and undo log of
  an update or delete go together one for one (`Undoes`), the record points to the
  entry of its last write (`Points`), and the transactions can be ranked so that
  each overwrites only versions of lower ones (`Ranked`).

The rank is what excludes circles: `Chain` and `EndOfRead` bound the length of a walk
by the number of entries below it, so that `Row` ends (`ReadsTerminate`), where the
code would give up after 100000 versions. A write puts a version in front of the
chain and a rollback takes it away (`WritePushes`, `UndoPops`); all other steps leave
the head (`HeadSteps`). `Shift` shows that a version more at the head, by a writer the
reader does not see, changes nothing of what it finds, and `OlderStays` and
`WriterStays` that nobody the reader sees becomes invisible or the other way round,
whatever commits and is collected. `SnapshotKept` follows for every step of every
transaction. Like the run it is about executions without the races in `faults`.

**Recovery.** Any slots, any assignment of slots to pages and any bounds; in particular
any number of crashes and of runs of the server (`BoundsAssumption`; the constraint
`RecreatedLast` of the run is not assumed). Committed
content is a fact about the whole log, and what a page holds depends on when it was
written; so the argument is about `Hist`, the records in the log file and those behind
them in the buffer, and `IInv` says of each page where in that history it stands:

* `Base`, `Idle`: types, and that only a server that runs has transactions, a record
  to be logged or a log buffer;
* `Histories`, in every state: what the code makes sure of by its links and locks. The
  records of a transaction are linked back to its begin record (`Shaped`), a life that
  has a commit record gets no `ABORT` behind it (`CommitIsLast`; the socket driver writes
  the two the other way round), a write still in the buffer is of a transaction that runs
  or whose end is behind it in the buffer (`Buffered`), a slot a running transaction has written is its own
  (`Locked`), and its write set knows what it has found there (`Remembered`). Ids are
  used again after a restart, so every one of these is about a life of an id;
* `FirstRun`: no page bears an lsn before the first stop, since only redo stamps pages,
  and no later run has anything buffered before the table is changed again;
* `Contents`, where `CommittedWritesSurvive` claims anything (`Claimed`): each change
  starts from what the ones before it have left (`Faithful`), memory is what the
  history says (`MemIsCurrent`), and a page on the disk, or in memory during recovery,
  is never behind the lsn it bears (`PageOK`). It may be ahead by any number of
  records: a page written back late in a run, or by a redo that a crash has cut off.
  Then redo applies records the page already has, goes back in time, and still ends at
  the right content, because the rest of the log leads on from wherever it starts
  (`Ahead`). That is the property of redo that the test of the page LSN alone does not
  give, and why the property is restricted: a slot rolled back in memory, or one with
  changes the log has lost, is at no point of the history;
* `Redo`: the records redo has passed are covered by the page LSN, also across the
  stamp that follows the change as a step of its own;
* `Undo`: undo visits only records of transactions without an end, in their last life,
  and stays on its way to a delete that it has to take back (`Restores`).

`Inductive` combines `NextKept` (histories and types; one lemma per action, `BeginKeeps`
to `StopKeeps`) and `NextContents` (pages, redo and undo; `ChangeContents` to
`StopContents` for the run, `AnalyzeKeeps` to `ServeKeeps` for the recovery). Of a crash
it has to be shown that the history may be cut to the log file: by `Buffered` no
committed life is cut within. `FlushPage` and `FlushLog` are the two steps that let page and log
overtake each other; the ghost `stolen` is what is left of the write-ahead rule.

**A repeated recovery.** `RecoveryIsIdempotent` compares a recovery that has crashed any
number of times, in redo or in undo, with one that has not. Nothing of an interrupted
attempt is logged, so all the next one has to go by are the page LSNs, which move only
after the change they stand for, and what it finds in the slots. `Repeated` says of each
page what that can be, for some redo `f` of the page as it was when the run ended:

* while redo is at record `n`, the page is one that `f` goes through at `n` or later, with
  the change of the next record and without its stamp at most; or it has all of the log
  and undo has worked on it (`Reached`, `Full`). Then no record is applied to it again;
* in undo and afterwards (`Leads`), for each slot with one unfinished transaction: the
  slot is as its last record left it and undo leaves it alone (`Stays`), or going on from
  the record undo has come to will bring back what the first one has found (`Returns`),
  or undo throws (`Stuck`), and then there is no end of recovery to speak of: the
  theorem is about a recovery that completes; a slot that no unfinished transaction has changed is as in
  `goal`.

`UndoLeads` keeps this at each record and `StartsOver` when undo begins again at the last
one: a half-undone slot is once more in one of the three cases. That needs the changes of
a transaction in a slot to follow one another. `Orderly` says so of the history, and that
what a running transaction sees in memory is its own last change there; both come from
the locks, with one lemma for every step that logs (`NextOrderly`). `WayExists` shows that
`Recovered` itself, the reference that `goal` is computed by, goes such a way: it is a
recursive function over the records, and what is said of its values is shown by the least
number at which it could be false, with explicit bounds. `RepeatedInductive` takes
`Repeated` through every step of redo, undo, write-back and crash; that nobody undone is
still in the list of losers comes with it. At the end of undo no slot has anything left to
undo, and `goal` is what remains.

**The joins.** `JoinSpec` opens one join after the other, on children with any numbers
of rows; of each pair of rows it is given what the conditions say (match, no match, or
a crash) and whether the keys are equal. `IInv` says for each phase what has been
emitted so far, as a function of the positions:

* `Scanned`: the nested loop has emitted the matches of the left rows behind it and
  those of its own up to the right row, and padded the rows behind it that have none;
  `left_has_match_` agrees. Without the last part a row could be padded after a match,
  which is what the mutant that does not reset the flag does;
* `Probed`, `NullRight`: the hash join has emitted the matches of the right rows
  behind it and those of its own row that are not left in the range, in whatever order
  `equal_range` gives them, and marked their left rows; then it pads what is unmarked;
* `Merged`: the sort-merge join has emitted nothing ahead of its left row, and of that
  row what its phase allows. The second look at a group is one at nothing emitted,
  because a match would have ended the first;
* `LeftIsDone`, `RightIsDone`, `Marks`: what a finished left child leaves, and how far
  the right rows of a `FULL` join are padded.

`NoRepeats` and `JoinsAreExact` follow. Which right rows a `FULL` join pads is in the
invariant, since no row may be padded twice, and not in the theorem: the code pads the
row behind one without a match, which is not what its comments say. Since `Analyzer`, `Tuples` and `SqlReference` use recursive operators, on
trees of conditions, `Query` itself is out of reach; its joins are those of `Joins`.

**The server.** Any clients, workers, plans, number of descriptors, limit of connections
below it and room of a socket (`SizesAssumption`, `NamesAssumption`; `PlansAssumption` says
only that packets end within what a client has to send). `TypeOK` is not inductive, `Base`
is, for every plan, also where a descriptor is reused under a statement:

* `ClientTypes`, `Files`, `OneConnection`: the table of descriptors, `connections_` and
  what epoll asks for and reports change together, and a client has one connection at
  most. Each step of the I/O thread has a lemma (`IoAcceptKeeps`, `ClosesKeeps`,
  `IoNotifiedKeeps`...); those on the list of epoll (`ArmKeeps`, `ForgetKeeps`, `OrderIsList`)
  bound it by the number of descriptors, because it names none twice;
* `IoTypes`: the descriptor that `handle_read` works on without `conn_mutex_` stays open;
  the one `handle_write` is called with need not, since `handle_read` may have closed it;
* `PoolTypes`, `WorkerTypes`: what is queued or runs is a text up to its first `;`
  (`FirstIsText`), and a cached plan is of a statement of its pattern;
* `Latches`: `parse_tree` is the tree of the text of the worker that has the parser, and
  the connection a worker is replying to is still there.

`AnswersMatch` needs to know where the input of a client is. For a client that waits,
`Flow` says, on top of `Base` and unless a named condition excuses it:

* `Right`: what has been received and what lies in the socket are the effects of the
  first statements, one each; before the connection is accepted the socket holds all that
  was sent (`Unserved`);
* `Track`: socket, `read_buf` and the statements made so far are together the input, in
  order; at most one statement is without its answer; and there is something in the socket
  only if everything before is answered and read (`Calm`);
* `Line`: that one statement is in the queue, with a worker, or answered, once
  (`Single`), with its own text or effect (`Carries`); while `handle_read` is about to
  dispatch, the connection is calm; while a worker is between the halves of
  `enqueue_response`, its answer is still in `write_buf`, since the I/O thread needs
  `conn_mutex_` to take it.

`Calm` is the point. `handle_read` appends to `read_buf`, tests `busy` and dispatches without
the mutex under which `enqueue_response` does the same; only because a waiting client has
sent nothing that could be read while a statement of it is under way do the two never take
one statement twice or two at once (`IoDispatchFlow`, `RespondNextFlow`). The other halves of the argument are that
a cached plan with the numbers of a statement does what the statement means if table and
`WHERE` are those of the plan (`RebindsRight`), and that a worker which answers by descriptor
finds the connection its statement came from, or none (`RespondFlow`, and `IoAcceptFlow`,
where `reused` is used: a new connection has nothing in the pool).

Only model-checked: what surrounds the joins in a statement, indexes, and all liveness, that
of the server among it. The properties of `Table` are about given plans. Out of the prover's reach in general: liveness under fairness and
`ENABLED`, induction over data, and modules with `RECURSIVE` operators. The modules
use recursive functions or folds instead, so that proofs about them remain possible.

## 5. Not modelled, and why

* Parser, result printing, authentication, frontend, client: no state or
  protocol that these methods say anything about.
* Torn reads and writes of slots, of `std::string`s and maps that are shared
  without a latch (`fhs_`, `ihs_`, `DbMeta`, `read_buf`): undefined behaviour at
  the level of bytes. For the same reason DDL is modelled only while no worker is
  inside the table, and the chain of free pages, whose header is shared without a
  latch, has no module.
* A torn tail of the log: `analyze` reads lengths from whatever bytes follow.
* The rebuilding of indexes after recovery, opening and closing of index files.
* Views, subqueries, `CONCAT` and other expressions of a select list, `LIKE`, floats
  and the length of strings; `BEGIN`, `COMMIT` and `ABORT` as statements;
  auto-increment, `CHECK` and foreign keys.
* Errors of system calls in the server, among them a reset connection and
  `SIGPIPE`; the HTTP server, which is single-threaded.
* The backend: its retries (`src/backend/core/database.py:61`) can repeat a
  statement whose answer was lost, and its workspaces change RMDB and SQLite one
  after the other (`src/backend/api/workspace.py:192`). Both deserve a module; the
  engine came first.

## 6. What is left

1. `QueryBridge`: retries, simulated ALTER TABLE and its recovery path,
   workspace metadata next to RMDB.
2. `Driver`: BEGIN/COMMIT/ABORT statements and the composition of
   `TransactionManager` with `Server`, so that an acknowledged statement and its
   commit record meet in one model.
3. `Catalog`: `flush_meta` and crashes between the steps of DDL; auto-increment.
4. Proofs: invariants of `Table` for every plan. Each is stated with the `faults` it
   excludes, which is what an inductive invariant would have to carry.
