-------------------------------- MODULE Table --------------------------------
(***************************************************************************)
(* Statements of several workers on one table with a primary key index:    *)
(* InsertExecutor, UpdateExecutor, DeleteExecutor, the start of an index   *)
(* scan and SmManager::create_index over the record file, find_leaf_page,  *)
(* insert_entry and delete_entry of IxIndexHandle with the latches of the  *)
(* pages.  One action is what a worker does between two latches, or        *)
(* between two looks at the sequence number of a latch.                    *)
(*                                                                         *)
(* Left out, because other modules have them: the locks of LockManager     *)
(* (the plans give no two workers the same row), the log, the versions of  *)
(* a row, the frames of the buffer pool (an index page keeps its frame,    *)
(* and so its latch).  The contents of a page change in one step, under    *)
(* its write latch: a torn read of an inner node is one the sequence       *)
(* number gives away.                                                      *)
(*                                                                         *)
(* faults and moved are no part of the program.  They record, when it      *)
(* happens, what this code does wrong by itself, so that the properties    *)
(* can say that the tree is right as long as none of it has happened:      *)
(*   "misplaced"  a pair put one place too far into a parent               *)
(*   "separator"  the wrong key of the parent set after a borrowed pair    *)
(*   "merged"     the pair of another child taken out of the parent        *)
(*   "unlocked"   the latch of another worker given up                     *)
(*   "unchecked"  a write to a page whose pairs have moved to another page *)
(*                after the worker had come to it without a latch          *)
(***************************************************************************)
EXTENDS BPlusTree

CONSTANTS
    Threads,
    RowIds,        \* the slots of the record file, in the order of its bitmap
    Plans,         \* what the workers do: rows there before the index, statements of each
    MaxPages,      \* bound on the pages of the index
    Attempts,      \* optimistic descents before the latched one: 10 in the code
    MaxRestarts,   \* restarts after a changed node before the latched one: 5 in the code
    WriteBit       \* the top bit of the word of a latch: 2^31 in the code

ASSUME LatchAssumption == WriteBit \in Nat /\ WriteBit > 2 * Cardinality(Threads)
ASSUME TryAssumption == Attempts \in Nat \ {0} /\ MaxRestarts \in Nat

VARIABLES
    plan,    \* the plan of this behaviour
    rows,    \* the record file: the key of the row in each slot, 0 when it is free
    ix,      \* the index file
    latch,   \* of every index page: the word state_ and the number sequence_
    th,      \* the workers; all "dead" once an assertion has ended the process
    faults,  \* history: which of the named faults have happened
    moved    \* history: how often pairs have moved between a page and another one

vars == <<plan, rows, ix, latch, th, faults, moved>>

Pages == 1 .. MaxPages
RowOf(key) == CHOOSE r \in RowIds : rows[r] = key
FreeSlot == CHOOSE r \in RowIds : rows[r] = 0 /\ \A s \in RowIds : s < r => rows[s] # 0

Idle == [pc |-> "idle", at |-> 0, row |-> 0, stage |-> "none", key |-> 0, rid |-> 0,
         pg |-> 0, seq |-> 0, tries |-> 0, fails |-> 0, top |-> FALSE, path |-> <<>>,
         left |-> 0, new |-> 0, sep |-> 0, iid |-> <<0, 0>>, writeset |-> <<>>,
         seen |-> 0, late |-> FALSE, failed |-> FALSE,
         reads |-> [p \in Pages |-> 0], writes |-> {}]

Init ==
    /\ plan \in Plans
    /\ rows = [r \in RowIds |-> IF r \in DOMAIN plan.rows THEN plan.rows[r] ELSE 0]
    /\ ix = create_index
    /\ latch = [p \in Pages |-> [state |-> 0, sequence |-> 0]]
    /\ th = [t \in Threads |-> Idle]
    /\ faults = {}
    /\ moved = [p \in Pages |-> 0]

Stmt(t) == plan.todo[t][th[t].at]

-----------------------------------------------------------------------------
(* ReaderWriterSpinLatch.  A worker that waits spins: its step is disabled. *)

MayRead(p) == latch[p].state < WriteBit
MayWriteOverReaders(p) == latch[p].state < WriteBit   \* mutant
MayWrite(p) == latch[p].state = 0
lock_shared(l) == [l EXCEPT !.state = @ + 1]
unlock_shared(l) == [l EXCEPT !.state = (@ + 2 * WriteBit - 1) % (2 * WriteBit)]
lock(l) == [state |-> WriteBit, sequence |-> l.sequence + 1]
unlock(l) == [state |-> 0, sequence |-> l.sequence + 1]
Odd(p) == latch[p].sequence % 2 = 1

RLock(p) == latch' = [latch EXCEPT ![p] = lock_shared(@)]
RUnlock(p) == latch' = [latch EXCEPT ![p] = unlock_shared(@)]
WUnlockAll(ps) == latch' = [p \in Pages |-> IF p \in ps THEN unlock(latch[p]) ELSE latch[p]]

\* The state of worker t after a step, s being what the step makes of th[t].
Goes(t, s) == th' = [th EXCEPT ![t] = s]
To(t, pc) == [th[t] EXCEPT !.pc = pc]

\* A new find_leaf_page, for the given stage of the statement.
Search(s, stage) ==
    [s EXCEPT !.pc = "root", !.stage = stage, !.tries = 0, !.fails = 0, !.late = FALSE]
NextRow(s) == [s EXCEPT !.pc = "row", !.stage = "none", !.path = <<>>]

\* An exception ends the statement; what it has done stays, for a later rollback.
Throw(t) == Goes(t, [th[t] EXCEPT !.pc = "idle", !.stage = "none",
                                  !.failed = th[t].stage \in {"insert", "delete"}
                                             /\ th[t].pc # "done"])
UNCHANGED_history == UNCHANGED <<faults, moved>>
UNCHANGED_data == UNCHANGED <<plan, rows, ix, faults, moved>>

Fault(f, happens) == faults' = IF happens THEN faults \cup {f} ELSE faults
Move(ps) == moved' = [p \in Pages |-> IF p \in ps THEN moved[p] + 1 ELSE moved[p]]
Abort == th' = [u \in Threads |-> [th[u] EXCEPT !.pc = "dead"]]
Fetches(p) == p \in DOMAIN ix.pages

-----------------------------------------------------------------------------
(* The executors. *)

\* A client may wait for answers of the others before it sends a statement.
Answered(t) == IF th[t].pc = "idle" THEN th[t].at ELSE th[t].at - 1

BeginStatement(t) ==
    /\ th[t].pc = "idle" /\ th[t].at < Len(plan.todo[t])
    /\ \A u \in Threads \ {t} : Answered(u) >= plan.todo[t][th[t].at + 1].after
    /\ Goes(t, [th[t] EXCEPT !.pc = "row", !.at = @ + 1, !.row = 0, !.failed = FALSE])
    /\ UNCHANGED_data /\ UNCHANGED latch

RowStart(t, s, key) ==
    CASE Stmt(t).op = "insert" -> Search([s EXCEPT !.key = key], "probe")
      [] Stmt(t).op = "create" -> Search([s EXCEPT !.rid = key, !.key = rows[key]], "insert")
      [] Stmt(t).op = "select" -> Search([s EXCEPT !.key = key], "lower")
      [] OTHER -> Search([s EXCEPT !.key = key, !.rid = RowOf(key)], "delete")

BeginRow(t) ==
    /\ th[t].pc = "row" /\ th[t].row < Len(Stmt(t).keys)
    /\ Goes(t, RowStart(t, [th[t] EXCEPT !.row = @ + 1], Stmt(t).keys[th[t].row + 1]))
    /\ UNCHANGED_data /\ UNCHANGED latch

\* The statement is done; commit forgets the write records, abort undoes them in
\* reverse order, in the record file only.
EndStatement(t) ==
    /\ th[t].pc = "row" /\ th[t].row = Len(Stmt(t).keys)
    /\ Stmt(t).op # "abort" \/ th[t].writeset = <<>>
    /\ Goes(t, [th[t] EXCEPT !.pc = "idle",
                             !.writeset = IF Stmt(t).op = "commit" THEN <<>> ELSE @])
    /\ UNCHANGED_data /\ UNCHANGED latch

Rollback(t) ==
    /\ th[t].pc = "row" /\ Stmt(t).op = "abort" /\ th[t].writeset # <<>>
    /\ LET w == th[t].writeset[Len(th[t].writeset)]
       IN  rows' = [rows EXCEPT ![w.rid] = w.old]
    /\ Goes(t, [th[t] EXCEPT !.writeset = SubSeq(@, 1, Len(@) - 1)])
    /\ UNCHANGED <<plan, ix, latch>> /\ UNCHANGED_history

\* The duplicate check of INSERT, under the read latch of the leaf.
Probe(t) ==
    /\ th[t].pc = "found" /\ th[t].stage = "probe"
    /\ RUnlock(th[t].pg)
    /\ Goes(t, LET s == [th[t] EXCEPT !.reads[th[t].pg] = @ - 1]
               IN  IF leaf_lookup(ix.pages[th[t].pg], th[t].key)
                   THEN [s EXCEPT !.pc = "idle", !.stage = "none"]
                   ELSE Search(s, "next"))
    /\ UNCHANGED_data

\* Mutant: the latch is kept while the lock is asked for.
NextKeyKeepsLatch(t) ==
    /\ th[t].pc = "found" /\ th[t].stage = "next"
    /\ Goes(t, To(t, "store"))
    /\ UNCHANGED_data /\ UNCHANGED latch

\* The next key, for the insert-intention lock; the latch is given back before it.
NextKey(t) ==
    /\ th[t].pc = "found" /\ th[t].stage = "next"
    /\ RUnlock(th[t].pg)
    /\ Goes(t, [th[t] EXCEPT !.pc = "store", !.reads[th[t].pg] = @ - 1])
    /\ UNCHANGED_data

\* insert_record, the write record, and on to the index.
InsertRecord(t) ==
    /\ th[t].pc = "store"
    /\ rows' = [rows EXCEPT ![FreeSlot] = th[t].key]
    /\ Goes(t, Search([th[t] EXCEPT !.rid = FreeSlot,
                                    !.writeset = Append(@, [rid |-> FreeSlot, old |-> 0])],
                      "insert"))
    /\ UNCHANGED <<plan, ix, latch>> /\ UNCHANGED_history

\* insert_entry has returned.
Inserted(t) ==
    /\ th[t].pc = "done" /\ th[t].stage = "insert"
    /\ Goes(t, NextRow(th[t]))
    /\ UNCHANGED_data /\ UNCHANGED latch

\* delete_entry has returned: DELETE removes the row.
DeleteRecord(t) ==
    /\ th[t].pc = "done" /\ th[t].stage = "delete" /\ Stmt(t).op = "delete"
    /\ rows' = [rows EXCEPT ![th[t].rid] = 0]
    /\ Goes(t, NextRow([th[t] EXCEPT
                  !.writeset = Append(@, [rid |-> th[t].rid, old |-> rows[th[t].rid]])]))
    /\ UNCHANGED <<plan, ix, latch>> /\ UNCHANGED_history

\* UPDATE checks NOT NULL only now, after the old entry has left the index; 0 stands
\* for NULL.  Then the row is rewritten and the new key goes into the index.
UpdateFails(t) ==
    /\ th[t].pc = "done" /\ th[t].stage = "delete" /\ Stmt(t).op = "update"
    /\ Stmt(t).to[th[t].row] = 0
    /\ Throw(t)
    /\ UNCHANGED_data /\ UNCHANGED latch

UpdateRecord(t) ==
    /\ th[t].pc = "done" /\ th[t].stage = "delete" /\ Stmt(t).op = "update"
    /\ Stmt(t).to[th[t].row] # 0
    /\ rows' = [rows EXCEPT ![th[t].rid] = Stmt(t).to[th[t].row]]
    /\ Goes(t, Search([th[t] EXCEPT
                  !.key = Stmt(t).to[th[t].row],
                  !.writeset = Append(@, [rid |-> th[t].rid, old |-> rows[th[t].rid]])],
                      "insert"))
    /\ UNCHANGED <<plan, ix, latch>> /\ UNCHANGED_history

\* IndexScanExecutor::beginTuple: lower_bound and upper_bound leave the read latch of
\* the leaf behind.  Then nextTuple calls next before it looks at anything: between two
\* equal bounds that is an assertion, the one match is stepped over, and the last entry
\* of a leaf other than the last sends the scan past its end, to the same assertion.
LowerBound(t) ==
    /\ th[t].pc = "found" /\ th[t].stage = "lower"
    /\ Goes(t, Search([th[t] EXCEPT
                  !.iid = <<th[t].pg, lower_bound(ix.pages[th[t].pg], th[t].key)>>], "upper"))
    /\ UNCHANGED_data /\ UNCHANGED latch

ScanAborts(from, to, nd) ==
    from = to \/ from[2] + 1 # to[2] \/ (from[1] # ix.last_leaf /\ to[2] = nd.num_key)

UpperBound(t) ==
    /\ th[t].pc = "found" /\ th[t].stage = "upper"
    /\ IF ScanAborts(th[t].iid, <<th[t].pg, upper_bound(ix.pages[th[t].pg], th[t].key)>>,
                     ix.pages[th[t].pg])
       THEN Abort ELSE Goes(t, NextRow(th[t]))
    /\ UNCHANGED_data /\ UNCHANGED latch

-----------------------------------------------------------------------------
(* find_leaf_page for FIND: descents without latches, then one with. *)

Retry(s, counted) ==
    LET fails == IF counted THEN s.fails + 1 ELSE s.fails
    IN  [s EXCEPT !.tries = @ + 1, !.fails = fails,
                  !.pc = IF fails > MaxRestarts \/ s.tries + 1 = Attempts
                         THEN "fallback" ELSE "root"]

\* Once the last entry has gone there is no root page, and read_page throws.  The search
\* for the next key swallows the exception, and the INSERT goes on without its lock.
NoPage(t) ==
    /\ th[t].pc \in {"root", "fallback", "crab", "dig"} /\ ~Fetches(ix.root)
    /\ IF th[t].stage = "next" THEN Goes(t, To(t, "store")) ELSE Throw(t)
    /\ UNCHANGED_data /\ UNCHANGED latch

ReadRoot(t) ==
    /\ th[t].pc = "root" /\ Fetches(ix.root)
    /\ Goes(t, [To(t, "sample") EXCEPT !.pg = ix.root, !.seen = moved[ix.root], !.top = TRUE])
    /\ UNCHANGED_data /\ UNCHANGED latch

Sample(t) ==
    /\ th[t].pc = "sample"
    /\ Goes(t, IF Odd(th[t].pg) THEN Retry(th[t], ~th[t].top)
               ELSE [th[t] EXCEPT !.seq = latch[th[t].pg].sequence,
                                  !.pc = IF ix.pages[th[t].pg].is_leaf THEN "leaf"
                                         ELSE "lookup"])
    /\ UNCHANGED_data /\ UNCHANGED latch

ChangedNever(t) == FALSE   \* mutant
Changed(t) == latch[th[t].pg].sequence # th[t].seq

Lookup(t) ==
    /\ th[t].pc = "lookup"
    /\ Goes(t, IF Changed(t) THEN Retry(th[t], TRUE)
               ELSE [To(t, "sample") EXCEPT
                        !.pg = internal_lookup(ix.pages[th[t].pg], th[t].key),
                        !.seen = moved[internal_lookup(ix.pages[th[t].pg], th[t].key)],
                        !.top = FALSE])
    /\ UNCHANGED_data /\ UNCHANGED latch

\* Pairs of the page have moved since the worker came to it without a latch.
Overtaken(t) == moved[th[t].pg] # th[t].seen

\* The leaf is latched without another look at what led to it.
LatchLeaf(t) ==
    /\ th[t].pc = "leaf" /\ MayRead(th[t].pg)
    /\ RLock(th[t].pg)
    /\ Goes(t, [To(t, "found") EXCEPT !.reads[th[t].pg] = @ + 1, !.late = Overtaken(t)])
    /\ UNCHANGED_data

Fallback(t) ==
    /\ th[t].pc = "fallback" /\ Fetches(ix.root)
    /\ Goes(t, [To(t, "fallroot") EXCEPT !.pg = ix.root, !.seen = moved[ix.root]])
    /\ UNCHANGED_data /\ UNCHANGED latch

Below(p) == IF ix.pages[p].is_leaf THEN "found" ELSE "step"

FallbackRoot(t) ==
    /\ th[t].pc = "fallroot" /\ MayRead(th[t].pg)
    /\ RLock(th[t].pg)
    /\ Goes(t, [To(t, Below(th[t].pg)) EXCEPT !.reads[th[t].pg] = @ + 1,
                                                !.late = Overtaken(t)])
    /\ UNCHANGED_data

FallbackStep(t) ==
    LET p == th[t].pg
        child == internal_lookup(ix.pages[p], th[t].key)
    IN  /\ th[t].pc = "step" /\ MayRead(child)
        /\ latch' = [latch EXCEPT ![child] = lock_shared(@), ![p] = unlock_shared(@)]
        /\ Goes(t, [To(t, Below(child)) EXCEPT !.pg = child, !.seen = moved[child],
                                                 !.reads[child] = @ + 1,
                                                 !.reads[p] = @ - 1])
        /\ UNCHANGED_data

-----------------------------------------------------------------------------
(* insert_entry and delete_entry, the optimistic half. *)

\* The read latch is given up before the write latch is asked for, and the leaf is
\* not checked again.
HandOff(t) ==
    /\ th[t].pc = "found" /\ th[t].stage \in {"insert", "delete"}
    /\ RUnlock(th[t].pg)
    /\ Goes(t, [To(t, "upgrade") EXCEPT !.reads[th[t].pg] = @ - 1])
    /\ UNCHANGED_data

TakeWrite(t, pc, p) ==
    /\ MayWrite(p)
    /\ latch' = [latch EXCEPT ![p] = lock(@)]
    /\ Goes(t, [To(t, pc) EXCEPT !.pg = p, !.writes = @ \cup {p}])

Upgrade(t) ==
    /\ th[t].pc = "upgrade"
    /\ TakeWrite(t, "fast", th[t].pg)
    /\ UNCHANGED_data

\* All write latches go, and the operation is over.
Finish(t, s) ==
    /\ WUnlockAll(s.writes)
    /\ Goes(t, [s EXCEPT !.pc = "done", !.writes = {}])

HasRoomForOneMore(nd, stage) ==   \* mutant
    IF stage = "insert" THEN nd.num_key <= max_size ELSE nd.num_key > min_size
HasRoom(nd, stage) ==
    IF stage = "insert" THEN nd.num_key < max_size ELSE nd.num_key > min_size
Change(nd, s) == IF s.stage = "insert" THEN insert(nd, s.key, s.rid) ELSE remove(nd, s.key)

FastPath(t) ==
    /\ th[t].pc = "fast" /\ HasRoom(ix.pages[th[t].pg], th[t].stage)
    /\ ix' = [ix EXCEPT !.pages[th[t].pg] = Change(@, th[t])]
    /\ Finish(t, th[t])
    /\ Fault("unchecked", Overtaken(t))
    /\ UNCHANGED <<plan, rows, moved>>

\* leaf_latch.release() and then wunlock() once more on the page just given up.
FallBehind(t) ==
    /\ th[t].pc = "fast" /\ ~HasRoom(ix.pages[th[t].pg], th[t].stage)
    /\ WUnlockAll({th[t].pg})
    /\ Goes(t, [To(t, "again") EXCEPT !.writes = {}])
    /\ UNCHANGED_data

UnlockAgain(t) ==
    /\ th[t].pc = "again"
    /\ WUnlockAll({th[t].pg})
    /\ Goes(t, To(t, IF th[t].stage = "insert" THEN "crab" ELSE "dig"))
    /\ Fault("unlocked", latch[th[t].pg].state # 0)
    /\ UNCHANGED <<plan, rows, ix, moved>>

-----------------------------------------------------------------------------
(* insert_entry, the pessimistic half: crabbing_find_leaf, split, insert_into_parent. *)

CrabRoot(t) ==
    /\ th[t].pc \in {"crab", "dig"} /\ Fetches(ix.root)
    /\ Goes(t, [To(t, IF th[t].pc = "crab" THEN "crabroot" ELSE "digroot") EXCEPT
                  !.pg = ix.root, !.seen = moved[ix.root], !.path = <<>>])
    /\ UNCHANGED_data /\ UNCHANGED latch

CrabLatch(t) ==
    /\ th[t].pc = "crabroot"
    /\ TakeWrite(t, IF ix.pages[th[t].pg].is_leaf THEN "crableaf" ELSE "crabdown", th[t].pg)
    /\ Fault("unchecked", Overtaken(t))
    /\ UNCHANGED <<plan, rows, ix, moved>>

\* A child with room lets all its ancestors go; the others are retained.
CrabDown(t) ==
    LET p == th[t].pg
        child == internal_lookup(ix.pages[p], th[t].key)
        safe == ix.pages[child].num_key < max_size
    IN  /\ th[t].pc = "crabdown" /\ MayWrite(child)
        /\ latch' = [q \in Pages |-> IF q = child THEN lock(latch[q])
                                     ELSE IF safe /\ q \in th[t].writes THEN unlock(latch[q])
                                     ELSE latch[q]]
        /\ Goes(t, [th[t] EXCEPT
                      !.pg = child, !.path = IF safe THEN <<>> ELSE Append(@, p),
                      !.writes = (IF safe THEN {} ELSE @) \cup {child},
                      !.pc = IF ix.pages[child].is_leaf THEN "crableaf" ELSE "crabdown"])
        /\ UNCHANGED_data

\* Node p of tree x has one key too many: it is split, and the key between the halves
\* goes up, into a new root or into the parent.
SplitUp(t, x, p) ==
    IF is_root_page(x, p)
    THEN /\ \E y \in {split(x, p)} : ix' = NewRoot(y, p, Separator(x, p), x.next_page)
         /\ Finish(t, th[t])
    ELSE /\ ix' = split(x, p)
         /\ Goes(t, [To(t, "parent") EXCEPT !.left = p, !.new = x.next_page,
                                            !.sep = Separator(x, p)])
         /\ UNCHANGED latch

CrabInsert(t) ==
    /\ th[t].pc = "crableaf"
    /\ \E nd \in {insert(ix.pages[th[t].pg], th[t].key, th[t].rid)} :
          LET x == [ix EXCEPT !.pages[th[t].pg] = nd]
          IN  IF nd.num_key > max_size
              THEN SplitUp(t, x, th[t].pg) /\ Move({th[t].pg})
              ELSE ix' = x /\ Finish(t, th[t]) /\ moved' = moved
    /\ UNCHANGED <<plan, rows, faults>>

\* The parent of the first split is the last retained page, if there is one; else, and
\* in the recursion, the page the node names as its parent is latched: for ever, if it
\* is among the retained pages.
Parent(s) == IF s.path = <<>> THEN ix.pages[s.left].parent ELSE s.path[Len(s.path)]

MayEnter(s) == (s.path = <<>> /\ Parent(s) # IX_FILE_HDR_PAGE) => MayWrite(Parent(s))
Names(p, child) == Fetches(p) /\ child \in Children(ix.pages[p])

IntoTheParent(t) ==
    LET p == Parent(th[t])
        s == [th[t] EXCEPT !.writes = @ \cup {p}]
    IN  /\ th[t].pc = "parent" /\ Names(p, s.left) /\ MayEnter(th[t])
        /\ \E x \in {insert_into_parent(ix, p, s.left, s.sep, s.new)} :
              IF x.pages[p].num_key > max_size
              THEN /\ ix' = split(x, p)
                   /\ latch' = [latch EXCEPT ![p] = IF s.path = <<>> THEN lock(@) ELSE @]
                   /\ Goes(t, [s EXCEPT !.left = p, !.new = x.next_page,
                                        !.sep = Separator(x, p), !.path = <<>>])
              ELSE /\ ix' = x
                   /\ latch' = [q \in Pages |->
                                  IF q \notin s.writes THEN latch[q]
                                  ELSE IF q = p /\ s.path = <<>> THEN unlock(lock(latch[q]))
                                  ELSE unlock(latch[q])]
                   /\ Goes(t, [s EXCEPT !.pc = "done", !.writes = {}])
        /\ Fault("misplaced", find_child(ix.pages[p], s.left) # ix.pages[p].num_key)
        /\ UNCHANGED <<plan, rows, moved>>

\* find_child asserts that the parent names the child.  Page 0, which an inner root that
\* has been split takes for its parent, does not: it is the header of the file.
NoChild(t) ==
    /\ \/ th[t].pc = "parent" /\ ~Names(Parent(th[t]), th[t].left) /\ MayEnter(th[t])
       \/ th[t].pc = "sibling" /\ ~Names(th[t].left, th[t].pg)
    /\ Abort
    /\ UNCHANGED_data /\ UNCHANGED latch

-----------------------------------------------------------------------------
(* delete_entry, the pessimistic half: hand over hand, then upwards. *)

DigLatch(t) ==
    /\ th[t].pc = "digroot"
    /\ TakeWrite(t, IF ix.pages[th[t].pg].is_leaf THEN "digleaf" ELSE "digdown", th[t].pg)
    /\ Fault("unchecked", Overtaken(t))
    /\ UNCHANGED <<plan, rows, ix, moved>>

DigDown(t) ==
    LET p == th[t].pg
        child == internal_lookup(ix.pages[p], th[t].key)
    IN  /\ th[t].pc = "digdown" /\ MayWrite(child)
        /\ latch' = [latch EXCEPT ![child] = lock(@), ![p] = unlock(@)]
        /\ Goes(t, [th[t] EXCEPT !.pg = child, !.writes = {child},
                      !.pc = IF ix.pages[child].is_leaf THEN "digleaf" ELSE "digdown"])
        /\ UNCHANGED_data

\* remove; a leaf that is too small now goes on to its parent, an empty root is gone.
DigRemove(t) ==
    LET p == th[t].pg
        x == [ix EXCEPT !.pages[p] = remove(@, th[t].key)]
    IN  /\ th[t].pc = "digleaf"
        /\ IF x.pages[p].num_key = ix.pages[p].num_key
           THEN ix' = ix /\ Finish(t, th[t])
           ELSE IF is_root_page(x, p) THEN ix' = adjust_root(x, p) /\ Finish(t, th[t])
           ELSE IF x.pages[p].num_key >= min_size THEN ix' = x /\ Finish(t, th[t])
           ELSE ix' = x /\ Goes(t, To(t, "up")) /\ UNCHANGED latch
        /\ Move(IF ix'.root # ix.root THEN {p} ELSE {})
        /\ UNCHANGED <<plan, rows, faults>>

UpLatch(t) ==
    LET parent == ix.pages[th[t].pg].parent
    IN  /\ th[t].pc = "up" /\ MayWrite(parent)
        /\ latch' = [latch EXCEPT ![parent] = lock(@)]
        /\ Goes(t, [To(t, "sibling") EXCEPT !.left = parent, !.writes = @ \cup {parent}])
        /\ UNCHANGED_data

ChildIndex(s) == find_child(ix.pages[s.left], s.pg)
Sibling(s) == ix.pages[s.left].rids[NeighborIndex(ChildIndex(s))]

SiblingLatch(t) ==
    LET nb == Sibling(th[t])
    IN  /\ th[t].pc = "sibling" /\ Names(th[t].left, th[t].pg) /\ MayWrite(nb)
        /\ latch' = [latch EXCEPT ![nb] = lock(@)]
        /\ Goes(t, [To(t, "balance") EXCEPT !.new = nb, !.writes = @ \cup {nb}])
        /\ UNCHANGED_data

TogetherEnough(s) == ix.pages[s.new].num_key + ix.pages[s.pg].num_key >= 2 * min_size

Redistribute(t) ==
    /\ th[t].pc = "balance" /\ TogetherEnough(th[t])
    /\ ix' = redistribute(ix, th[t].new, th[t].pg, th[t].left, ChildIndex(th[t]))
    /\ Finish(t, th[t])
    /\ Move({th[t].new, th[t].pg})
    /\ Fault("separator", ChildIndex(th[t]) # 0)
    /\ UNCHANGED <<plan, rows>>

CannotMerge(t) ==
    /\ th[t].pc = "balance" /\ ~TogetherEnough(th[t])
    /\ CoalesceAborts(ix, th[t].left, ChildIndex(th[t]))
    /\ Abort
    /\ UNCHANGED_data /\ UNCHANGED latch

\* coalesce swaps a first child with its neighbour on the right.  The caller then gives
\* up the latches of what it takes for the neighbour and of the parent, and the guard of
\* delete_entry the one of the node: after a swap both give up the node's, and the
\* neighbour's stays taken.
Coalesce(t) ==
    LET s == th[t]
        swap == ChildIndex(s) = 0
    IN  /\ s.pc = "balance" /\ ~TogetherEnough(s)
        /\ ~CoalesceAborts(ix, s.left, ChildIndex(s))
        /\ ix' = IF swap THEN coalesce(ix, s.pg, s.new, s.left, 0)
                 ELSE coalesce(ix, s.new, s.pg, s.left, ChildIndex(s))
        /\ LET up == {s.left, IF swap THEN s.pg ELSE s.new}
           IN  /\ WUnlockAll(up)
               /\ Goes(t, [s EXCEPT !.pc = "merged", !.writes = @ \ up])
        /\ Move({s.new, s.pg})
        /\ Fault("merged", TRUE)
        /\ UNCHANGED <<plan, rows>>

UnlockMerged(t) ==
    /\ th[t].pc = "merged"
    /\ WUnlockAll({th[t].pg})
    /\ Goes(t, [To(t, "done") EXCEPT !.writes = @ \ {th[t].pg}])
    /\ Fault("unlocked", th[t].pg \notin th[t].writes /\ latch[th[t].pg].state # 0)
    /\ UNCHANGED <<plan, rows, ix, moved>>

-----------------------------------------------------------------------------
Executor(t) ==
    \/ BeginStatement(t) \/ BeginRow(t) \/ EndStatement(t) \/ Rollback(t) \/ Probe(t)
    \/ NextKey(t) \/ InsertRecord(t) \/ Inserted(t) \/ DeleteRecord(t) \/ UpdateFails(t)
    \/ UpdateRecord(t) \/ LowerBound(t) \/ UpperBound(t)
find_leaf_page(t) ==
    \/ NoPage(t) \/ ReadRoot(t) \/ Sample(t) \/ Lookup(t) \/ LatchLeaf(t) \/ Fallback(t)
    \/ FallbackRoot(t) \/ FallbackStep(t)
insert_entry(t) ==
    \/ HandOff(t) \/ Upgrade(t) \/ FastPath(t) \/ FallBehind(t) \/ UnlockAgain(t)
    \/ CrabRoot(t) \/ CrabLatch(t) \/ CrabDown(t) \/ CrabInsert(t) \/ IntoTheParent(t)
    \/ NoChild(t)
delete_entry(t) ==
    \/ DigLatch(t) \/ DigDown(t) \/ DigRemove(t) \/ UpLatch(t) \/ SiblingLatch(t)
    \/ Redistribute(t) \/ CannotMerge(t) \/ Coalesce(t) \/ UnlockMerged(t)

Step(t) == Executor(t) \/ find_leaf_page(t) \/ insert_entry(t) \/ delete_entry(t)

AllDone == \A t \in Threads : th[t].pc = "idle" /\ th[t].at = Len(plan.todo[t])
Dead == \A t \in Threads : th[t].pc = "dead"
Over == (Dead \/ AllDone) /\ UNCHANGED vars

Next == (\E t \in Threads : Step(t)) \/ Over

\* A worker is a thread of its own: the scheduler runs each one again and again, and a
\* latch that stays free is taken in the end.
Spec == Init /\ [][Next]_vars /\ \A t \in Threads : WF_vars(Step(t))

-----------------------------------------------------------------------------
(* Properties. *)

TypeOK ==
    /\ rows \in [RowIds -> Nat]
    /\ ix.root \in DOMAIN ix.pages \cup {IX_NO_PAGE} /\ DOMAIN ix.pages \subseteq Pages
    /\ \A p \in DOMAIN ix.pages : ix.pages[p].num_key \in 0 .. max_size
    /\ \A p \in Pages : latch[p].state \in 0 .. 2 * WriteBit - 1
    /\ \A t \in Threads : th[t].writes \subseteq Pages /\ th[t].reads \in [Pages -> Nat]
    /\ faults \subseteq {"misplaced", "separator", "merged", "unlocked", "unchecked"}
    /\ moved \in [Pages -> Nat]

\* The tree is whole whenever nobody is between a split and the entry in the parent and
\* none of the named faults has happened: the leaves follow each other from first_leaf_
\* to last_leaf_ with links both ways and ascending keys, the descent from the root leads
\* to every key on them, and the children of an inner node name it as their parent, the
\* page an insertion or a deletion climbs to
\* (ix_index_handle.cpp: split 321, insert_into_parent 385, redistribute 657).
TreeIsWhole ==
    (faults = {} /\ ~Dead /\ \A t \in Threads : th[t].pc # "parent") =>
        LET chain == LeafChain(ix)
        IN  /\ chain[Len(chain)] = ix.last_leaf
            /\ \A i \in DOMAIN chain :
                  LET nd == ix.pages[chain[i]]
                  IN  /\ i > 1 => nd.prev_leaf = chain[i - 1]
                      /\ i > 1 => \A k \in LeafKeys(ix.pages[chain[i - 1]]) :
                                    \A l \in LeafKeys(nd) : k < l
                      /\ \A j \in 1 .. nd.num_key - 1 : get_key(nd, j - 1) < get_key(nd, j)
                      /\ \A k \in LeafKeys(nd) : LeafOf(ix, k) = chain[i]
            /\ \A p \in DOMAIN ix.pages : ~ix.pages[p].is_leaf =>
                  \A c \in Children(ix.pages[p]) : ix.pages[c].parent = p

\* An INSERT that asks for a key the index holds finds it, once it has the latch of the
\* leaf: the descent without latches has led to the leaf of the key, whatever others split
\* or borrow on the way.  Left out is the leaf that has lost or gained pairs after it was
\* reached and before it was latched: nobody looks again, and a duplicate gets through
\* (find_leaf_page, ix_index_handle.cpp:196-224; executor_insert.h:147-158).
DuplicateIsRefused ==
    faults = {} =>
        \A t \in Threads :
            th[t].pc = "found" /\ th[t].stage = "probe" /\ ~th[t].late
            /\ th[t].key \in KeysOf(ix)
                => leaf_lookup(ix.pages[th[t].pg], th[t].key)

\* The word of a latch says who holds it: the write bit for one writer, else the number
\* of readers (rwlatch.h:20-27), until somebody gives up the latch of another worker.
LatchCountsHolders ==
    "unlocked" \notin faults =>
        \A p \in Pages :
            LET writers == {t \in Threads : p \in th[t].writes}
                n[ts \in SUBSET Threads] ==
                   IF ts = {} THEN 0
                   ELSE LET t == CHOOSE u \in ts : TRUE IN th[t].reads[p] + n[ts \ {t}]
            IN  /\ Cardinality(writers) <= 1
                /\ latch[p].state = IF writers = {} THEN n[Threads] ELSE WriteBit

\* Every statement comes to its end, with an answer or an error, unless an assertion
\* ends the process: no latch is waited for without end (ix_index_handle.cpp:186-293).
\* Left out is what the code does to itself: an idle worker whose scan has left a latch
\* behind; a climb that meets a descent, or the climb of a neighbour, which holds the
\* parent and waits for the node; and what follows a latch of another worker given up, a
\* merge that keeps the latch of the neighbour, and a write to a page that was overtaken.
Leaked == \E t \in Threads : th[t].pc = "idle" /\ \E p \in Pages : th[t].reads[p] > 0
Holds(t, p) == p \in th[t].writes \/ th[t].reads[p] > 0
WaitsFor(t, p) ==
    \/ th[t].pc \in {"step", "crabdown", "digdown"}
       /\ internal_lookup(ix.pages[th[t].pg], th[t].key) = p
    \/ th[t].pc = "sibling" /\ Names(th[t].left, th[t].pg) /\ Sibling(th[t]) = p
Crossed ==
    \E t, u \in Threads :
        th[t].pc = "up" /\ Holds(u, ix.pages[th[t].pg].parent) /\ WaitsFor(u, th[t].pg)
StatementsEnd ==
    <>(\/ Dead \/ AllDone
       \/ Leaked \/ Crossed \/ faults \cap {"merged", "unlocked", "unchecked"} # {})

\* The index takes and gives up one key at a time, each for a worker that asked for it,
\* and none that was asked for is passed over without an error: splits and borrowed pairs
\* lose and invent nothing, nor does a merge or a misplaced pair in the step itself
\* (insert_entry 456, delete_entry 521).  What follows a named fault is left out.
Nothing == [what |-> "none", key |-> 0]
AnError == [what |-> "error", key |-> 0]
Asked(t) ==
    IF th[t].failed \/ th[t].pc = "dead" THEN AnError
    ELSE IF th[t].stage \in {"insert", "delete"}
            /\ th[t].pc \notin {"parent", "up", "sibling", "balance", "merged", "done"}
    THEN [what |-> th[t].stage, key |-> th[t].key] ELSE Nothing
Index == INSTANCE Dictionary
            WITH keys <- KeysOf(ix), job <- [t \in Threads |-> Asked(t)],
                 Keys <- Nat, None <- Nothing, Failed <- AnError
Excused == faults # {} \/ "unchecked" \in faults'
IsDictionary == Index!Init /\ [][Index!Next \/ Excused]_(Index!vars)

\* The place an entry names is the place of the row with its key: the pages have room
\* for the pair an insertion brings (ix_manager.h:69-78, "btree_order is the number of
\* pairs a node takes at most").
EntriesNameTheirRows ==
    AllDone => \A i \in DOMAIN LeafChain(ix) :
        LET nd == ix.pages[LeafChain(ix)[i]]
        IN  \A j \in 0 .. nd.num_key - 1 :
               nd.rids[j] \in RowIds /\ rows[nd.rids[j]] = get_key(nd, j)
==============================================================================
