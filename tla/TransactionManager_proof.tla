---------------------- MODULE TransactionManager_proof ----------------------
(***************************************************************************)
(* Theorems about TransactionManager, for any number of transactions and   *)
(* records and any statements.                                             *)
(***************************************************************************)
EXTENDS TransactionManager, FiniteSetTheorems, SequenceTheorems, WellFoundedInduction, TLAPS

\* A transaction before its registration, and before its end.
Beginning == {"none", "read_ts", "add", "low_limit", "active_ids", "register"}
Running == Beginning \cup {"scan", "run", "insert_lock"}

\* Ids are given out in order; only registered transactions are collected.
Ids == \A u \in Txn : pc[u] = "none" <=> u >= next_txn_id
Registered == \A u \in txn_map \cup freed : pc[u] \notin Beginning

\* A record in use has a writer and a link, and so has the old version of a record
\* that was updated or deleted.
Versions ==
    /\ \A r \in Rid : slots[r].used => slots[r].trx \in Txn /\ slots[r].roll \in Link
    /\ \A t \in Txn : \A i \in DOMAIN write_set[t] :
           write_set[t][i].type # "insert" =>
               write_set[t][i].trx \in Txn /\ write_set[t][i].roll \in Link

\* Who has records to write, and what statement it runs.
Doing ==
    /\ \A t \in Txn : todo[t] # {} => pc[t] \in {"scan", "run", "insert_lock"}
    /\ \A t \in Txn : todo[t] # {} /\ pc[t] \in {"scan", "run"} => kind[t] \in {"update", "delete"}
    /\ \A t \in Txn : pc[t] = "scan" => kind[t] \in {"update", "delete"}

Base == TypeOK /\ Ids /\ Registered /\ Versions /\ Doing

\* The parts of TypeOK: the thread, its time stamps, the marks, who is registered, the
\* table, the work of the statement.
TypeThread ==
    /\ next_txn_id \in 1 .. MaxTxn + 1
    /\ pc \in [Txn -> PcType]
    /\ kind \in [Txn -> {"select", "update", "insert", "delete"}]
    /\ state \in [Txn -> {"DEFAULT", "GROWING", "SHRINKING", "COMMITTED", "ABORTED"}]
    /\ aborted \subseteq Txn /\ faults \subseteq {"begin_race", "gc_window", "unlocked_insert"}
TypeTimes ==
    /\ next_timestamp \in TimeType
    /\ read_ts \in [Txn -> TimeType] /\ commit_ts \in [Txn -> TimeType]
    /\ active_ts \in [Txn -> TimeType] /\ gc_min \in [Txn -> TimeType]
TypeMarks ==
    current_reads \subseteq TimeType /\ latest_commit \in TimeType /\ watermark \in TimeType
TypeMap ==
    /\ txn_map \subseteq Txn /\ freed \subseteq Txn \ txn_map
    /\ view \in [Txn -> [low : Nat, active : SUBSET Txn]]
TypeTable ==
    /\ slots \in [Rid -> SlotType] /\ durable \in [Rid -> SlotType]
    /\ undo \in [Txn -> Seq([trx : Txn, roll : Link, deleted : BOOLEAN])]
    /\ shared \in [Rid -> SUBSET Txn] /\ lock \in [Rid -> Txn \cup {Nil}]
WriteRecords == [type : {"insert", "update", "delete"}, rid : Rid, trx : Txn \cup {Nil},
                 roll : Link \cup {NoLink}]
TypeWork ==
    /\ write_set \in [Txn -> Seq(WriteRecords)]
    /\ todo \in [Txn -> SUBSET Rid] /\ cursor \in [Txn -> 0 .. MaxRid]

-----------------------------------------------------------------------------
\* Time stamps come from one counter.
Times ==
    /\ \A u \in Txn : read_ts[u] < next_timestamp /\ commit_ts[u] < next_timestamp
    /\ latest_commit < next_timestamp /\ watermark < next_timestamp
    /\ \A x \in current_reads : x < next_timestamp

\* A thread publishes the read time stamp of the transaction it works on, which is
\* older than its commit time stamp.
Active == \A u \in Txn : pc[u] \notin Beginning \cup {"done"} => active_ts[u] = read_ts[u]
Stamped ==
    \A u \in Txn : commit_ts[u] # -1 => pc[u] \notin Beginning /\ read_ts[u] < commit_ts[u]

\* What ended before the minimum of a collector is done.
Collecting ==
    \A t \in Txn : pc[t] = "collect" =>
        /\ gc_min[t] < next_timestamp
        /\ \A u \in Txn : commit_ts[u] # -1 /\ commit_ts[u] < gc_min[t] => pc[u] = "done"

Clock == Times /\ Active /\ Stamped /\ Collecting /\ WatermarkIsOldestRead /\ FreedIsUnused

-----------------------------------------------------------------------------
Same(r) == slots[r] = durable[r] \/ (~slots[r].used /\ ~durable[r].used)
Writes(t, r) == \E i \in DOMAIN write_set[t] : write_set[t][i].rid = r

\* A write record is of a record its transaction has locked and does not write
\* again; it has what the last committed transaction left.
Entries ==
    \A t \in Txn : \A i \in DOMAIN write_set[t] : LET e == write_set[t][i] IN
        /\ lock[e.rid] = t /\ e.rid \notin todo[t]
        /\ \A j \in DOMAIN write_set[t] : write_set[t][j].rid = e.rid => j = i
        /\ IF e.type = "insert" THEN ~durable[e.rid].used
           ELSE durable[e.rid] = [used |-> TRUE, trx |-> e.trx, roll |-> e.roll]

\* A locked record is as it was committed, unless there is a write record of it; and
\* there is one until the transaction ends.
Locked ==
    \A r \in Rid : lock[r] # Nil =>
        /\ ~Writes(lock[r], r) => Same(r)
        /\ pc[lock[r]] \in Running => Writes(lock[r], r)
Clean ==
    /\ \A t \in Txn : pc[t] \in Beginning \cup {"scan"} => write_set[t] = <<>>
    /\ \A t \in aborted : pc[t] \notin Running \cup {"undo"} /\ write_set[t] = <<>>

\* Between the insertion of a record and its lock nobody else gets hold of it.
Inserting ==
    \A t \in Txn : pc[t] = "insert_lock" =>
        \A r \in todo[t] :
            /\ todo[t] = {r}
            /\ lock[r] = Nil /\ shared[r] \subseteq {t}
            /\ slots[r].used /\ ~durable[r].used
            /\ \A u \in Txn : pc[u] = "insert_lock" /\ r \in todo[u] => u = t
Free == \A r \in Rid : lock[r] = Nil /\ Unlocked(r) => Same(r)

Rows == Entries /\ Locked /\ Clean /\ Inserting /\ Free

NoUnlockedInsert == "unlocked_insert" \notin faults

IInv == Base /\ Clock /\ (NoUnlockedInsert => Rows)

-----------------------------------------------------------------------------
LEMMA Constants ==
    /\ MaxTxn \in Nat /\ MaxRid \in Nat /\ 0 \in Txn /\ Txn \subseteq Nat /\ Rid \subseteq Nat
    /\ Nil \notin Txn /\ ZeroLink \in Link /\ Infinity \in Nat
    /\ \A t \in Txn : Kinds[t] \subseteq {"select", "update", "insert", "delete"}
BY BoundsAssumption DEF Txn, Rid, ZeroLink, Link, Infinity

LEMMA TypeParts ==
    TypeOK <=> TypeThread /\ TypeTimes /\ TypeMarks /\ TypeMap /\ TypeTable /\ TypeWork
BY DEF TypeOK, TypeThread, TypeTimes, TypeMarks, TypeMap, TypeTable, TypeWork, WriteRecords

LEMMA TypePartsNext ==
    TypeOK' <=> /\ TypeThread' /\ TypeTimes' /\ TypeMarks'
                /\ TypeMap' /\ TypeTable' /\ TypeWork'
BY DEF TypeOK, TypeThread, TypeTimes, TypeMarks, TypeMap, TypeTable, TypeWork, WriteRecords

LEMMA InitBase == Init => Base
<1> SUFFICES ASSUME Init PROVE Base
  OBVIOUS
<1>1. TypeOK
  <2>1. slots \in [Rid -> SlotType]
    BY Constants DEF Init, SlotType, Unused
  <2>2. durable \in [Rid -> SlotType]
    BY <2>1 DEF Init
  <2>3. /\ next_txn_id \in 1 .. MaxTxn + 1 /\ next_timestamp \in TimeType
        /\ pc \in [Txn -> PcType]
        /\ kind \in [Txn -> {"select", "update", "insert", "delete"}]
        /\ state \in [Txn -> {"DEFAULT", "GROWING", "SHRINKING", "COMMITTED", "ABORTED"}]
    BY Constants DEF Init, PcType, TimeType
  <2>4. /\ txn_map \subseteq Txn /\ freed \subseteq Txn \ txn_map
        /\ read_ts \in [Txn -> TimeType] /\ commit_ts \in [Txn -> TimeType]
        /\ view \in [Txn -> [low : Nat, active : SUBSET Txn]]
        /\ current_reads \subseteq TimeType /\ latest_commit \in TimeType
        /\ watermark \in TimeType
        /\ active_ts \in [Txn -> TimeType] /\ gc_min \in [Txn -> TimeType]
    BY Constants DEF Init, TimeType
  <2>5. /\ undo \in [Txn -> Seq([trx : Txn, roll : Link, deleted : BOOLEAN])]
        /\ write_set \in [Txn -> Seq([type : {"insert", "update", "delete"}, rid : Rid,
                                      trx : Txn \cup {Nil}, roll : Link \cup {NoLink}])]
    BY DEF Init
  <2>6. /\ todo \in [Txn -> SUBSET Rid] /\ cursor \in [Txn -> 0 .. MaxRid]
        /\ shared \in [Rid -> SUBSET Txn] /\ lock \in [Rid -> Txn \cup {Nil}]
        /\ aborted \subseteq Txn /\ faults \subseteq {"begin_race", "gc_window", "unlocked_insert"}
    BY Constants DEF Init
  <2>7. QED BY <2>1, <2>2, <2>3, <2>4, <2>5, <2>6 DEF TypeOK
<1>2. Ids
  BY Constants DEF Init, Ids, Txn
<1>3. Registered
  BY Constants DEF Init, Registered, Beginning
<1>4. Versions
  <2>1. \A r \in Rid : slots[r].used => slots[r].trx \in Txn /\ slots[r].roll \in Link
    BY Constants DEF Init, Unused
  <2>2. \A t \in Txn : DOMAIN write_set[t] = {}
    BY DEF Init
  <2>3. QED BY <2>1, <2>2 DEF Versions
<1>5. Doing
  BY Constants DEF Init, Doing
<1>6. QED BY <1>1, <1>2, <1>3, <1>4, <1>5 DEF Base

\* The steps of Begin keep the base.
LEMMA BeginBase ==
    ASSUME Base, NEW t \in Txn, Begin(t)
    PROVE  Base'
<1> USE DEF Base
<1>1. CASE BeginId(t)
  <2>1. pc[t] = "none" /\ todo[t] = {} /\ t \notin txn_map \cup freed
    BY <1>1, Constants DEF BeginId, Ids, Doing, Registered, Beginning, Txn
  <2>2. PICK k \in Kinds[t] : kind' = [kind EXCEPT ![t] = k]
    BY <1>1 DEF BeginId
  <2>3. k \in {"select", "update", "insert", "delete"}
    BY <2>2, Constants
  <2>4. TypeOK'
    <3>1. TypeThread'
      BY <1>1, <2>2, <2>3, TypeParts, Constants DEF BeginId, TypeThread, Goto, PcType, ghosts, Txn
    <3>2. TypeTimes' /\ TypeMarks' /\ TypeMap' /\ TypeTable' /\ TypeWork'
      BY <1>1, TypeParts DEF BeginId, TypeTimes, TypeMarks, TypeMap, TypeTable, TypeWork,
         marks, table, locks, work, ghosts
    <3>3. QED BY <3>1, <3>2, TypePartsNext
  <2>5. Ids'
    BY <1>1, Constants DEF BeginId, TypeOK, Ids, Goto, Txn
  <2>6. Registered'
    BY <1>1, <2>1 DEF BeginId, Registered, TypeOK, Goto
  <2>7. Versions'
    BY <1>1 DEF BeginId, Versions, table, work
  <2>8. Doing'
    BY <1>1, <2>1, <2>2 DEF BeginId, Doing, TypeOK, Goto, work
  <2>9. QED BY <2>4, <2>5, <2>6, <2>7, <2>8
<1>2. CASE BeginReadTs(t)
  <2>1. TypeOK'
    <3>1. TypeThread'
      BY <1>2, TypeParts, Constants DEF BeginReadTs, TypeThread, Goto, PcType, clocks, ghosts
    <3>2. TypeTimes'
      BY <1>2, TypeParts, Constants DEF BeginReadTs, TypeTimes, TimeType
    <3>3. TypeMarks' /\ TypeMap' /\ TypeTable' /\ TypeWork'
      BY <1>2, TypeParts DEF BeginReadTs, TypeMarks, TypeMap, TypeTable, TypeWork,
         clocks, marks, table, locks, work, ghosts
    <3>4. QED BY <3>1, <3>2, <3>3, TypePartsNext
  <2>2. Ids' /\ Doing'
    BY <1>2 DEF BeginReadTs, TypeOK, Ids, Doing, Goto, work
  <2>3. Registered'
    BY <1>2 DEF BeginReadTs, Registered, TypeOK, Goto, Beginning
  <2>4. Versions'
    BY <1>2 DEF BeginReadTs, Versions, table, work
  <2>5. QED BY <2>1, <2>2, <2>3, <2>4
<1>3. CASE AddTxn(t)
  <2>1. TypeOK'
    <3>1. TypeThread'
      BY <1>3, TypeParts, Constants DEF AddTxn, TypeThread, Goto, PcType, clocks, ghosts
    <3>2. TypeMarks'
      BY <1>3, TypeParts, Constants DEF AddTxn, TypeMarks, TimeType, TypeTimes
    <3>3. TypeTimes' /\ TypeMap' /\ TypeTable' /\ TypeWork'
      BY <1>3, TypeParts DEF AddTxn, TypeTimes, TypeMap, TypeTable, TypeWork,
         clocks, marks, table, locks, work, ghosts
    <3>4. QED BY <3>1, <3>2, <3>3, TypePartsNext
  <2>2. Ids' /\ Doing'
    BY <1>3 DEF AddTxn, TypeOK, Ids, Doing, Goto, work, clocks
  <2>3. Registered'
    BY <1>3 DEF AddTxn, Registered, TypeOK, Goto, Beginning
  <2>4. Versions'
    BY <1>3 DEF AddTxn, Versions, table, work
  <2>5. QED BY <2>1, <2>2, <2>3, <2>4
<1>4. CASE BeginLowLimit(t)
  <2>1. TypeOK'
    <3>1. TypeThread'
      BY <1>4, TypeParts, Constants DEF BeginLowLimit, TypeThread, Goto, PcType, clocks, ghosts
    <3>2. TypeMap'
      BY <1>4, TypeParts, Constants DEF BeginLowLimit, TypeMap, TypeThread
    <3>3. TypeTimes' /\ TypeMarks' /\ TypeTable' /\ TypeWork'
      BY <1>4, TypeParts DEF BeginLowLimit, TypeTimes, TypeMarks, TypeTable, TypeWork,
         clocks, marks, table, locks, work, ghosts
    <3>4. QED BY <3>1, <3>2, <3>3, TypePartsNext
  <2>2. Ids' /\ Doing'
    BY <1>4 DEF BeginLowLimit, TypeOK, Ids, Doing, Goto, work, clocks
  <2>3. Registered'
    BY <1>4 DEF BeginLowLimit, Registered, TypeOK, Goto, Beginning
  <2>4. Versions'
    BY <1>4 DEF BeginLowLimit, Versions, table, work
  <2>5. QED BY <2>1, <2>2, <2>3, <2>4
<1>5. CASE BeginActiveIds(t)
  <2>1. TypeOK'
    <3>1. TypeThread'
      BY <1>5, TypeParts, Constants DEF BeginActiveIds, TypeThread, Goto, PcType, clocks
    <3>2. TypeMap'
      BY <1>5, TypeParts, Constants DEF BeginActiveIds, TypeMap
    <3>3. TypeTimes' /\ TypeMarks' /\ TypeTable' /\ TypeWork'
      BY <1>5, TypeParts DEF BeginActiveIds, TypeTimes, TypeMarks, TypeTable, TypeWork,
         clocks, marks, table, locks, work, ghosts
    <3>4. QED BY <3>1, <3>2, <3>3, TypePartsNext
  <2>2. Ids' /\ Doing'
    BY <1>5 DEF BeginActiveIds, TypeOK, Ids, Doing, Goto, work, clocks
  <2>3. Registered'
    BY <1>5 DEF BeginActiveIds, Registered, TypeOK, Goto, Beginning
  <2>4. Versions'
    BY <1>5 DEF BeginActiveIds, Versions, table, work
  <2>5. QED BY <2>1, <2>2, <2>3, <2>4
<1>6. CASE BeginRegister(t)
  <2>1. TypeOK'
    <3>1. TypeThread'
      BY <1>6, TypeParts, Constants DEF BeginRegister, TypeThread, Goto, PcType, clocks, ghosts
    <3>2. TypeTimes'
      BY <1>6, TypeParts, Constants DEF BeginRegister, TypeTimes, clocks
    <3>3. TypeMap'
      BY <1>6, TypeParts, Constants DEF BeginRegister, TypeMap, TypeThread, Registered, Beginning
    <3>4. TypeMarks' /\ TypeTable' /\ TypeWork'
      BY <1>6, TypeParts DEF BeginRegister, TypeMarks, TypeTable, TypeWork,
         clocks, marks, table, locks, work, ghosts
    <3>5. QED BY <3>1, <3>2, <3>3, <3>4, TypePartsNext
  <2>2. Ids' /\ Doing'
    BY <1>6 DEF BeginRegister, TypeOK, Ids, Doing, Goto, work, clocks
  <2>3. Registered'
    BY <1>6 DEF BeginRegister, Registered, TypeOK, Goto, Beginning
  <2>4. Versions'
    BY <1>6 DEF BeginRegister, Versions, table, work
  <2>5. QED BY <2>1, <2>2, <2>3, <2>4
<1>7. QED BY <1>1, <1>2, <1>3, <1>4, <1>5, <1>6 DEF Begin

-----------------------------------------------------------------------------
\* What a registered transaction does leaves the ids alone.
LEMMA Advanced ==
    ASSUME Base, NEW t \in Txn, pc[t] \notin Beginning, NEW p, p \notin Beginning,
           pc' = [pc EXCEPT ![t] = p], next_txn_id' = next_txn_id,
           txn_map' \cup freed' \subseteq txn_map \cup freed
    PROVE  Ids' /\ Registered'
<1>1. pc \in [Txn -> PcType]
  BY DEF Base, TypeOK
<1>2. Ids'
  BY <1>1 DEF Base, Ids, Beginning
<1>3. Registered'
  BY <1>1 DEF Base, Registered
<1>4. QED BY <1>2, <1>3

\* A write record that is added keeps the old versions typed.
LEMMA AppendVersions ==
    ASSUME Base, NEW t \in Txn, NEW e,
           write_set' = [write_set EXCEPT ![t] = Append(@, e)],
           e.type = "insert" \/ (e.trx \in Txn /\ e.roll \in Link),
           \A q \in Rid : slots'[q].used => slots'[q].trx \in Txn /\ slots'[q].roll \in Link
    PROVE  Versions'
<1>1. write_set[t] \in Seq(WriteRecords) /\ DOMAIN write_set = Txn
  BY TypeParts DEF Base, TypeWork
<1>2. /\ DOMAIN Append(write_set[t], e) = 1 .. Len(write_set[t]) + 1
      /\ \A i \in 1 .. Len(write_set[t]) : Append(write_set[t], e)[i] = write_set[t][i]
      /\ Append(write_set[t], e)[Len(write_set[t]) + 1] = e
      /\ DOMAIN write_set[t] = 1 .. Len(write_set[t]) /\ Len(write_set[t]) \in Nat
  BY <1>1
<1>3. ASSUME NEW u \in Txn, NEW i \in DOMAIN write_set'[u], write_set'[u][i].type # "insert"
      PROVE  write_set'[u][i].trx \in Txn /\ write_set'[u][i].roll \in Link
  <2>1. CASE u # t
    BY <1>1, <1>3, <2>1 DEF Base, Versions
  <2>2. CASE u = t /\ i \in DOMAIN write_set[t]
    BY <1>1, <1>2, <1>3, <2>2 DEF Base, Versions
  <2>3. CASE u = t /\ i \notin DOMAIN write_set[t]
    <3>1. i = Len(write_set[t]) + 1
      BY <1>1, <1>2, <2>3
    <3>2. QED BY <1>1, <1>2, <1>3, <2>3, <3>1
  <2>4. QED BY <2>1, <2>2, <2>3
<1>4. QED BY <1>3 DEF Versions

LEMMA StatementBase ==
    ASSUME Base, NEW t \in Txn, Statement(t)
    PROVE  Base'
<1> USE DEF Base
<1>1. ASSUME NEW r \in Rid, ScanRecord(t, r) PROVE Base'
  <2>1. TypeOK'
    <3>1. TypeThread'
      BY <1>1, TypeParts DEF ScanRecord, TypeThread, Seen, clocks
    <3>2. TypeTable'
      <4>1. shared' \in [Rid -> SUBSET Txn] /\ lock' \in [Rid -> Txn \cup {Nil}]
        BY <1>1, TypeParts, Constants DEF ScanRecord, TypeTable
      <4>2. UNCHANGED <<slots, durable, undo>>
        BY <1>1 DEF ScanRecord, table, work, ghosts
      <4>3. QED BY <4>1, <4>2, TypeParts DEF TypeTable
    <3>3. TypeWork'
      BY <1>1, TypeParts DEF ScanRecord, TypeWork, Rid
    <3>4. TypeTimes' /\ TypeMarks' /\ TypeMap'
      BY <1>1, TypeParts DEF ScanRecord, TypeTimes, TypeMarks, TypeMap,
         clocks, marks, table, locks, work, ghosts
    <3>5. QED BY <3>1, <3>2, <3>3, <3>4, TypePartsNext
  <2>2. Ids' /\ Registered'
    BY <1>1 DEF ScanRecord, Ids, Registered, clocks
  <2>3. Versions'
    BY <1>1 DEF ScanRecord, Versions, table, work
  <2>4. Doing'
    BY <1>1, TypeParts DEF ScanRecord, Doing, TypeThread, TypeWork, Goto, work
  <2>5. QED BY <2>1, <2>2, <2>3, <2>4
<1>2. ASSUME NEW r \in Rid, ReadRecord(t, r) PROVE Base'
  <2>1. TypeOK'
    <3>1. TypeThread'
      BY <1>2, TypeParts DEF ReadRecord, TypeThread, Seen, clocks
    <3>2. TypeTable'
      BY <1>2, TypeParts, Constants DEF ReadRecord, TypeTable, table, locks, ghosts
    <3>3. TypeTimes' /\ TypeMarks' /\ TypeMap' /\ TypeWork'
      BY <1>2, TypeParts DEF ReadRecord, TypeTimes, TypeMarks, TypeMap, TypeWork,
         clocks, marks, table, locks, work, ghosts
    <3>4. QED BY <3>1, <3>2, <3>3, TypePartsNext
  <2>2. Ids' /\ Registered'
    BY <1>2 DEF ReadRecord, Ids, Registered, clocks
  <2>3. Versions'
    BY <1>2 DEF ReadRecord, Versions, table, work
  <2>4. Doing'
    BY <1>2, TypeParts DEF ReadRecord, Doing, TypeThread, TypeWork, Goto, work
  <2>5. QED BY <2>1, <2>2, <2>3, <2>4
<1>3. ASSUME NEW r \in Rid, WriteRecord(t, r) PROVE Base'
  <2>1. TypeOK'
    <3>1. TypeTable'
      <4> DEFINE link == [txn |-> t, idx |-> Len(undo[t])]
                 u == [trx |-> slots[r].trx, roll |-> slots[r].roll, deleted |-> kind[t] = "delete"]
                 s == [used |-> ~(kind[t] = "delete"), trx |-> t, roll |-> link]
      <4>1. link \in Link
        BY TypeParts, LenProperties DEF TypeTable, Link
      <4>2. u \in [trx : Txn, roll : Link, deleted : BOOLEAN]
        BY <1>3 DEF WriteRecord, Versions
      <4>3. s \in SlotType
        BY <4>1 DEF SlotType
      <4>4. slots' = [slots EXCEPT ![r] = s] /\ undo' = [undo EXCEPT ![t] = Append(@, u)]
        BY <1>3 DEF WriteRecord
      <4>5. /\ lock' = [lock EXCEPT ![r] = t] /\ shared' = shared /\ durable' = durable
        BY <1>3 DEF WriteRecord, ghosts
      <4> HIDE DEF u, s, link
      <4>6. Append(undo[t], u) \in Seq([trx : Txn, roll : Link, deleted : BOOLEAN])
        BY <4>2, TypeParts, AppendProperties DEF TypeTable
      <4>7. QED BY <4>3, <4>4, <4>5, <4>6, TypeParts DEF TypeTable
    <3>2. TypeWork'
      <4>1. PICK e : /\ write_set' = [write_set EXCEPT ![t] = Append(@, e)]
                     /\ e = [type |-> kind[t], rid |-> r, trx |-> slots[r].trx, roll |-> slots[r].roll]
        BY <1>3 DEF WriteRecord
      <4>2. e \in WriteRecords
        BY <1>3, <4>1, TypeParts DEF WriteRecord, WriteRecords, Versions, Doing, TypeThread
      <4>3. Append(write_set[t], e) \in Seq(WriteRecords)
        BY <4>2, TypeParts, AppendProperties DEF TypeWork
      <4>4. QED BY <1>3, <4>1, <4>3, TypeParts DEF TypeWork, WriteRecord
    <3>3. TypeThread' /\ TypeTimes' /\ TypeMarks' /\ TypeMap'
      BY <1>3, TypeParts DEF WriteRecord, TypeThread, TypeTimes, TypeMarks, TypeMap,
         clocks, marks, table, locks, work, ghosts
    <3>4. QED BY <3>1, <3>2, <3>3, TypePartsNext
  <2>2. Ids' /\ Registered'
    BY <1>3 DEF WriteRecord, Ids, Registered, clocks
  <2>3. Versions'
    <3>1. \A q \in Rid : slots'[q].used => slots'[q].trx \in Txn /\ slots'[q].roll \in Link
      <4>1. [txn |-> t, idx |-> Len(undo[t])] \in Link
        BY TypeParts, LenProperties DEF TypeTable, Link
      <4>2. QED BY <1>3, <4>1, TypeParts DEF WriteRecord, Versions, TypeTable
    <3>2. PICK e : /\ write_set' = [write_set EXCEPT ![t] = Append(@, e)]
                   /\ e.trx \in Txn /\ e.roll \in Link
      <4> DEFINE e == [type |-> kind[t], rid |-> r, trx |-> slots[r].trx, roll |-> slots[r].roll]
      <4>1. e.trx \in Txn /\ e.roll \in Link
        BY <1>3 DEF WriteRecord, Versions
      <4>2. write_set' = [write_set EXCEPT ![t] = Append(@, e)]
        BY <1>3 DEF WriteRecord
      <4>3. QED BY <4>1, <4>2
    <3>3. QED BY <3>1, <3>2, AppendVersions
  <2>4. Doing'
    BY <1>3, TypeParts DEF WriteRecord, Doing, TypeThread, TypeWork, Goto, work
  <2>5. QED BY <2>1, <2>2, <2>3, <2>4
<1>4. ASSUME NEW r \in Rid, InsertSlot(t, r) PROVE Base'
  <2>1. TypeOK'
    <3>1. TypeThread'
      BY <1>4, TypeParts DEF InsertSlot, TypeThread, Goto, PcType, clocks
    <3>2. TypeTable'
      BY <1>4, TypeParts, Constants DEF InsertSlot, TypeTable, SlotType, locks
    <3>3. TypeWork'
      BY <1>4, TypeParts, Constants DEF InsertSlot, TypeWork, work
    <3>4. TypeTimes' /\ TypeMarks' /\ TypeMap'
      BY <1>4, TypeParts DEF InsertSlot, TypeTimes, TypeMarks, TypeMap,
         clocks, marks, table, locks, work, ghosts
    <3>5. QED BY <3>1, <3>2, <3>3, <3>4, TypePartsNext
  <2>2. Ids' /\ Registered'
    BY <1>4, Advanced DEF InsertSlot, Beginning, Goto, clocks
  <2>3. Versions'
    BY <1>4, TypeParts, Constants DEF InsertSlot, Versions, TypeTable
  <2>4. Doing'
    BY <1>4, TypeParts DEF InsertSlot, Doing, TypeThread, TypeWork, Goto, work
  <2>5. QED BY <2>1, <2>2, <2>3, <2>4
<1>5. ASSUME NEW r \in Rid, InsertLock(t, r) PROVE Base'
  <2>1. TypeOK'
    <3>1. TypeThread'
      BY <1>5, TypeParts, Constants DEF InsertLock, TypeThread, Goto, PcType, clocks, ghosts
    <3>2. TypeTable'
      BY <1>5, TypeParts DEF InsertLock, TypeTable, ghosts
    <3>3. TypeWork'
      <4> DEFINE e == [type |-> "insert", rid |-> r, trx |-> Nil, roll |-> NoLink]
      <4>1. e \in WriteRecords
        BY DEF WriteRecords
      <4>2. write_set' = [write_set EXCEPT ![t] = Append(@, e)]
        BY <1>5 DEF InsertLock
      <4> HIDE DEF e
      <4>3. Append(write_set[t], e) \in Seq(WriteRecords)
        BY <4>1, TypeParts, AppendProperties DEF TypeWork
      <4>4. QED BY <1>5, <4>2, <4>3, TypeParts DEF TypeWork, InsertLock
    <3>4. TypeTimes' /\ TypeMarks' /\ TypeMap'
      BY <1>5, TypeParts DEF InsertLock, TypeTimes, TypeMarks, TypeMap,
         clocks, marks, table, locks, work, ghosts
    <3>5. QED BY <3>1, <3>2, <3>3, <3>4, TypePartsNext
  <2>2. Ids' /\ Registered'
    BY <1>5, Advanced DEF InsertLock, Beginning, Goto, clocks
  <2>3. Versions'
    <3>1. \A q \in Rid : slots'[q].used => slots'[q].trx \in Txn /\ slots'[q].roll \in Link
      BY <1>5 DEF InsertLock, Versions
    <3>2. PICK e : write_set' = [write_set EXCEPT ![t] = Append(@, e)] /\ e.type = "insert"
      <4> DEFINE e == [type |-> "insert", rid |-> r, trx |-> Nil, roll |-> NoLink]
      <4>1. e.type = "insert"
        OBVIOUS
      <4>2. write_set' = [write_set EXCEPT ![t] = Append(@, e)]
        BY <1>5 DEF InsertLock
      <4>3. QED BY <4>1, <4>2
    <3>3. QED BY <3>1, <3>2, AppendVersions
  <2>4. Doing'
    BY <1>5, TypeParts DEF InsertLock, Doing, TypeThread, TypeWork, Goto, work
  <2>5. QED BY <2>1, <2>2, <2>3, <2>4
<1>6. CASE ScanEnd(t)
  <2>1. TypeOK'
    <3>1. TypeThread'
      BY <1>6, TypeParts, Constants DEF ScanEnd, TypeThread, Goto, PcType, clocks, ghosts
    <3>2. TypeTimes' /\ TypeMarks' /\ TypeMap' /\ TypeTable' /\ TypeWork'
      BY <1>6, TypeParts DEF ScanEnd, TypeTimes, TypeMarks, TypeMap, TypeTable, TypeWork,
         clocks, marks, table, locks, work, ghosts
    <3>3. QED BY <3>1, <3>2, TypePartsNext
  <2>2. Ids' /\ Registered'
    BY <1>6, Advanced DEF ScanEnd, Beginning, Goto, clocks
  <2>3. Versions'
    BY <1>6 DEF ScanEnd, Versions, table, work
  <2>4. Doing'
    BY <1>6, TypeParts DEF ScanEnd, Doing, TypeThread, TypeWork, Goto, work
  <2>5. QED BY <2>1, <2>2, <2>3, <2>4
<1>7. CASE Victim(t)
  <2>1. TypeOK'
    <3>1. TypeThread'
      BY <1>7, TypeParts, Constants DEF Victim, TypeThread, Goto, PcType, clocks, ghosts
    <3>2. TypeWork'
      BY <1>7, TypeParts, Constants DEF Victim, TypeWork, work
    <3>3. TypeTimes' /\ TypeMarks' /\ TypeMap' /\ TypeTable'
      BY <1>7, TypeParts DEF Victim, TypeTimes, TypeMarks, TypeMap, TypeTable,
         clocks, marks, table, locks, work, ghosts
    <3>4. QED BY <3>1, <3>2, <3>3, TypePartsNext
  <2>2. Ids' /\ Registered'
    BY <1>7, Advanced DEF Victim, Beginning, Goto, clocks
  <2>3. Versions'
    BY <1>7 DEF Victim, Versions, table, work
  <2>4. Doing'
    BY <1>7, TypeParts DEF Victim, Doing, TypeThread, TypeWork, Goto, work
  <2>5. QED BY <2>1, <2>2, <2>3, <2>4
<1>8. CASE Fail(t)
  <2>1. TypeOK'
    <3>1. TypeThread'
      BY <1>8, TypeParts, Constants DEF Fail, TypeThread, Goto, PcType, clocks, ghosts
    <3>2. TypeWork'
      BY <1>8, TypeParts, Constants DEF Fail, TypeWork, work
    <3>3. TypeTimes' /\ TypeMarks' /\ TypeMap' /\ TypeTable'
      BY <1>8, TypeParts DEF Fail, TypeTimes, TypeMarks, TypeMap, TypeTable,
         clocks, marks, table, locks, work, ghosts
    <3>4. QED BY <3>1, <3>2, <3>3, TypePartsNext
  <2>2. Ids' /\ Registered'
    BY <1>8, Advanced DEF Fail, Beginning, Goto, clocks
  <2>3. Versions'
    BY <1>8 DEF Fail, Versions, table, work
  <2>4. Doing'
    BY <1>8, TypeParts DEF Fail, Doing, TypeThread, TypeWork, Goto, work
  <2>5. QED BY <2>1, <2>2, <2>3, <2>4
<1>9. CASE Commit(t)
  <2>1. TypeOK'
    <3>1. TypeThread'
      BY <1>9, TypeParts, Constants DEF Commit, TypeThread, Goto, PcType, clocks, ghosts
    <3>2. TypeTimes' /\ TypeMarks' /\ TypeMap' /\ TypeTable' /\ TypeWork'
      BY <1>9, TypeParts DEF Commit, TypeTimes, TypeMarks, TypeMap, TypeTable, TypeWork,
         clocks, marks, table, locks, work, ghosts
    <3>3. QED BY <3>1, <3>2, TypePartsNext
  <2>2. Ids' /\ Registered'
    BY <1>9, Advanced DEF Commit, Beginning, Goto, clocks
  <2>3. Versions'
    BY <1>9 DEF Commit, Versions, table, work
  <2>4. Doing'
    BY <1>9, TypeParts DEF Commit, Doing, TypeThread, TypeWork, Goto, work
  <2>5. QED BY <2>1, <2>2, <2>3, <2>4
<1>10. QED BY <1>1, <1>2, <1>3, <1>4, <1>5, <1>6, <1>7, <1>8, <1>9 DEF Statement

\* Min is the least element of a set of time stamps.
LEMMA MinIsLeast ==
    ASSUME NEW S, S \subseteq TimeType, S # {}
    PROVE  Min(S) \in S /\ \A y \in S : Min(S) <= y
<1>1. \E x \in S : \A y \in S : x <= y
  <2>1. CASE -1 \in S
    BY <2>1 DEF TimeType
  <2>2. CASE -1 \notin S
    <3>1. S \subseteq Nat
      BY <2>2 DEF TimeType
    <3>2. PICK x \in S : \A y \in S : <<y, x>> \notin OpToRel(<, Nat)
      BY <3>1, WFMin, NatLessThanWellFounded
    <3>3. ASSUME NEW y \in S PROVE x <= y
      <4>1. <<y, x>> \in Nat \X Nat /\ <<y, x>>[1] = y /\ <<y, x>>[2] = x
        BY <3>1
      <4>2. OpToRel(<, Nat) = {ss \in Nat \X Nat : ss[1] < ss[2]}
        BY DEF OpToRel
      <4>3. ~(y < x)
        BY <3>2, <4>1, <4>2
      <4>4. QED BY <3>1, <4>3
    <3>4. QED BY <3>3
  <2>3. QED BY <2>1, <2>2
<1>2. QED BY <1>1 DEF Min

\* The steps of End keep the base.  The write records only get fewer.
LEMMA ShorterVersions ==
    ASSUME Base, NEW t \in Txn, NEW s, s \in Seq(WriteRecords),
           \A i \in DOMAIN s : i \in DOMAIN write_set[t] /\ s[i] = write_set[t][i],
           write_set' = [write_set EXCEPT ![t] = s],
           \A q \in Rid : slots'[q].used => slots'[q].trx \in Txn /\ slots'[q].roll \in Link
    PROVE  Versions'
<1>1. DOMAIN write_set = Txn
  BY TypeParts DEF Base, TypeWork
<1>2. ASSUME NEW u \in Txn, NEW i \in DOMAIN write_set'[u], write_set'[u][i].type # "insert"
      PROVE  write_set'[u][i].trx \in Txn /\ write_set'[u][i].roll \in Link
  BY <1>1, <1>2 DEF Base, Versions
<1>3. QED BY <1>2 DEF Versions

\* The last write record, and those before it.
LEMMA LastRecord ==
    ASSUME Base, NEW t \in Txn, write_set[t] # <<>>
    PROVE  LET n == Len(write_set[t])
               s == SubSeq(write_set[t], 1, n - 1)
           IN  /\ n \in DOMAIN write_set[t] /\ write_set[t][n] \in WriteRecords
               /\ DOMAIN write_set[t] = 1 .. n
               /\ s \in Seq(WriteRecords) /\ DOMAIN s = 1 .. n - 1
               /\ \A i \in DOMAIN s : i \in DOMAIN write_set[t] /\ s[i] = write_set[t][i]
<1> DEFINE w == write_set[t]
<1>1. w \in Seq(WriteRecords) /\ w # <<>>
  BY TypeParts DEF Base, TypeWork
<1> HIDE DEF w
<1>2. Len(w) \in Nat \ {0} /\ DOMAIN w = 1 .. Len(w)
  BY <1>1, LenProperties, EmptySeq
<1>3. w[Len(w)] \in WriteRecords
  BY <1>1, <1>2, ElementOfSeq
<1>4. /\ SubSeq(w, 1, Len(w) - 1) \in Seq(WriteRecords)
      /\ Len(SubSeq(w, 1, Len(w) - 1)) = Len(w) - 1
      /\ \A i \in 1 .. Len(w) - 1 : SubSeq(w, 1, Len(w) - 1)[i] = w[i]
  BY <1>1, <1>2
<1>5. DOMAIN SubSeq(w, 1, Len(w) - 1) = 1 .. Len(w) - 1
  BY <1>4, LenProperties
<1>6. QED BY <1>2, <1>3, <1>4, <1>5 DEF w

LEMMA EndBase ==
    ASSUME Base, NEW t \in Txn, End(t)
    PROVE  Base'
<1> USE DEF Base
<1>1. CASE UndoWrite(t)
  <2>1. TypeOK'
    <3>1. TypeTable'
      <4>1. PICK e \in WriteRecords : slots' = Restored(e) /\ (e.type # "insert" => e.trx \in Txn /\ e.roll \in Link)
        BY <1>1, LastRecord DEF UndoWrite, Versions
      <4>2. slots' \in [Rid -> SlotType]
        <5>1. slots \in [Rid -> SlotType]
          BY TypeParts DEF TypeTable
        <5>2. CASE e.type = "insert"
          BY <4>1, <5>1, <5>2 DEF Restored, SlotType
        <5>3. CASE e.type # "insert"
          BY <4>1, <5>1, <5>3 DEF Restored, SlotType
        <5>4. QED BY <5>2, <5>3
      <4>3. QED BY <1>1, <4>2, TypeParts DEF UndoWrite, TypeTable, locks, ghosts
    <3>2. TypeWork'
      BY <1>1, LastRecord, TypeParts DEF UndoWrite, TypeWork
    <3>3. TypeThread' /\ TypeTimes' /\ TypeMarks' /\ TypeMap'
      BY <1>1, TypeParts DEF UndoWrite, TypeThread, TypeTimes, TypeMarks, TypeMap,
         clocks, marks, table, locks, work, ghosts
    <3>4. QED BY <3>1, <3>2, <3>3, TypePartsNext
  <2>2. Ids' /\ Registered'
    BY <1>1 DEF UndoWrite, Ids, Registered, clocks
  <2>3. Versions'
    <3>1. PICK e \in WriteRecords :
              slots' = Restored(e) /\ (e.type # "insert" => e.trx \in Txn /\ e.roll \in Link)
      BY <1>1, LastRecord DEF UndoWrite, Versions
    <3>2. \A q \in Rid : slots'[q].used => slots'[q].trx \in Txn /\ slots'[q].roll \in Link
      BY <3>1, TypeParts DEF Restored, TypeTable, WriteRecords, Versions, SlotType
    <3> DEFINE s == SubSeq(write_set[t], 1, Len(write_set[t]) - 1)
    <3>3. write_set' = [write_set EXCEPT ![t] = s] /\ write_set[t] # <<>>
      BY <1>1 DEF UndoWrite
    <3>4. s \in Seq(WriteRecords) /\ \A i \in DOMAIN s : i \in DOMAIN write_set[t] /\ s[i] = write_set[t][i]
      BY <3>3, LastRecord
    <3> HIDE DEF s
    <3>5. QED BY <3>2, <3>3, <3>4, ShorterVersions
  <2>4. Doing'
    BY <1>1, TypeParts DEF UndoWrite, Doing, TypeThread, TypeWork, Goto, work
  <2>5. QED BY <2>1, <2>2, <2>3, <2>4
<1>2. CASE UndoEnd(t)
  <2>1. TypeOK'
    <3>1. TypeThread'
      BY <1>2, TypeParts DEF UndoEnd, TypeThread, Goto, PcType, clocks
    <3>2. TypeTimes' /\ TypeMarks' /\ TypeMap' /\ TypeTable' /\ TypeWork'
      BY <1>2, TypeParts DEF UndoEnd, TypeTimes, TypeMarks, TypeMap, TypeTable, TypeWork,
         clocks, marks, table, locks, work, ghosts
    <3>3. QED BY <3>1, <3>2, TypePartsNext
  <2>2. Ids' /\ Registered'
    BY <1>2, Advanced DEF UndoEnd, Beginning, Goto, clocks
  <2>3. Versions'
    BY <1>2 DEF UndoEnd, Versions, table, work
  <2>4. Doing'
    BY <1>2, TypeParts DEF UndoEnd, Doing, TypeThread, TypeWork, Goto, work
  <2>5. QED BY <2>1, <2>2, <2>3, <2>4
<1>3. CASE Release(t)
  <2>1. TypeOK'
    <3>1. TypeThread'
      BY <1>3, TypeParts DEF Release, TypeThread, Goto, PcType, clocks
    <3>2. TypeTable'
      BY <1>3, TypeParts DEF Release, TypeTable
    <3>3. TypeWork'
      BY <1>3, TypeParts, Constants DEF Release, TypeWork, work
    <3>4. TypeTimes' /\ TypeMarks' /\ TypeMap'
      BY <1>3, TypeParts DEF Release, TypeTimes, TypeMarks, TypeMap,
         clocks, marks, table, locks, work, ghosts
    <3>5. QED BY <3>1, <3>2, <3>3, <3>4, TypePartsNext
  <2>2. Ids' /\ Registered'
    BY <1>3, Advanced DEF Release, Beginning, Goto, clocks
  <2>3. Versions'
    <3> DEFINE s == <<>>
    <3>1. s \in Seq(WriteRecords) /\ DOMAIN s = {}
      OBVIOUS
    <3>2. write_set' = [write_set EXCEPT ![t] = s]
      BY <1>3 DEF Release
    <3>3. \A q \in Rid : slots'[q].used => slots'[q].trx \in Txn /\ slots'[q].roll \in Link
      BY <1>3 DEF Release, Versions
    <3> HIDE DEF s
    <3>4. \A i \in DOMAIN s : i \in DOMAIN write_set[t] /\ s[i] = write_set[t][i]
      BY <3>1
    <3>5. QED BY <3>1, <3>2, <3>3, <3>4, ShorterVersions
  <2>4. Doing'
    BY <1>3, TypeParts DEF Release, Doing, TypeThread, TypeWork, Goto, work
  <2>5. QED BY <2>1, <2>2, <2>3, <2>4
<1>4. CASE EndState(t)
  <2>1. TypeOK'
    <3>1. TypeThread'
      BY <1>4, TypeParts, Constants DEF EndState, TypeThread, Goto, PcType, clocks, ghosts
    <3>2. TypeTimes' /\ TypeMarks' /\ TypeMap' /\ TypeTable' /\ TypeWork'
      BY <1>4, TypeParts DEF EndState, TypeTimes, TypeMarks, TypeMap, TypeTable, TypeWork,
         clocks, marks, table, locks, work, ghosts
    <3>3. QED BY <3>1, <3>2, TypePartsNext
  <2>2. Ids' /\ Registered'
    BY <1>4, Advanced DEF EndState, Beginning, Goto, clocks
  <2>3. Versions'
    BY <1>4 DEF EndState, Versions, table, work
  <2>4. Doing'
    BY <1>4, TypeParts DEF EndState, Doing, TypeThread, TypeWork, Goto, work
  <2>5. QED BY <2>1, <2>2, <2>3, <2>4
<1>5. CASE EndCommitTs(t)
  <2>1. TypeOK'
    <3>1. TypeThread'
      BY <1>5, TypeParts DEF EndCommitTs, TypeThread, Goto, PcType, ghosts
    <3>2. TypeTimes'
      BY <1>5, TypeParts DEF EndCommitTs, TypeTimes, TimeType
    <3>3. TypeMarks' /\ TypeMap' /\ TypeTable' /\ TypeWork'
      BY <1>5, TypeParts DEF EndCommitTs, TypeMarks, TypeMap, TypeTable, TypeWork,
         clocks, marks, table, locks, work, ghosts
    <3>4. QED BY <3>1, <3>2, <3>3, TypePartsNext
  <2>2. Ids' /\ Registered'
    BY <1>5, Advanced DEF EndCommitTs, Beginning, Goto, clocks
  <2>3. Versions'
    BY <1>5 DEF EndCommitTs, Versions, table, work
  <2>4. Doing'
    BY <1>5, TypeParts DEF EndCommitTs, Doing, TypeThread, TypeWork, Goto, work
  <2>5. QED BY <2>1, <2>2, <2>3, <2>4
<1>6. CASE RemoveTxn(t)
  <2>1. TypeOK'
    <3>1. TypeThread'
      BY <1>6, TypeParts, Constants DEF RemoveTxn, TypeThread, Goto, PcType, clocks, ghosts
    <3>2. TypeMarks'
      BY <1>6, TypeParts, MinIsLeast DEF RemoveTxn, TypeMarks, WatermarkWithout
    <3>3. TypeTimes' /\ TypeMap' /\ TypeTable' /\ TypeWork'
      BY <1>6, TypeParts DEF RemoveTxn, TypeTimes, TypeMap, TypeTable, TypeWork,
         clocks, marks, table, locks, work, ghosts
    <3>4. QED BY <3>1, <3>2, <3>3, TypePartsNext
  <2>2. Ids' /\ Registered'
    BY <1>6, Advanced DEF RemoveTxn, Beginning, Goto, clocks
  <2>3. Versions'
    BY <1>6 DEF RemoveTxn, Versions, table, work
  <2>4. Doing'
    BY <1>6, TypeParts DEF RemoveTxn, Doing, TypeThread, TypeWork, Goto, work
  <2>5. QED BY <2>1, <2>2, <2>3, <2>4
<1>7. CASE UpdateCommitTs(t)
  <2>1. TypeOK'
    <3>1. TypeThread'
      BY <1>7, TypeParts, Constants DEF UpdateCommitTs, TypeThread, Goto, PcType, clocks, ghosts
    <3>2. TypeMarks'
      BY <1>7, TypeParts DEF UpdateCommitTs, TypeMarks, TypeTimes
    <3>3. TypeTimes' /\ TypeMap' /\ TypeTable' /\ TypeWork'
      BY <1>7, TypeParts DEF UpdateCommitTs, TypeTimes, TypeMap, TypeTable, TypeWork,
         clocks, marks, table, locks, work, ghosts
    <3>4. QED BY <3>1, <3>2, <3>3, TypePartsNext
  <2>2. Ids' /\ Registered'
    BY <1>7, Advanced DEF UpdateCommitTs, Beginning, Goto, clocks
  <2>3. Versions'
    BY <1>7 DEF UpdateCommitTs, Versions, table, work
  <2>4. Doing'
    BY <1>7, TypeParts DEF UpdateCommitTs, Doing, TypeThread, TypeWork, Goto, work
  <2>5. QED BY <2>1, <2>2, <2>3, <2>4
<1>8. CASE GcMinimum(t)
  <2>1. TypeOK'
    <3>1. TypeThread'
      BY <1>8, TypeParts, Constants DEF GcMinimum, TypeThread, Goto, PcType, clocks, ghosts
    <3>2. TypeTimes'
      <4> DEFINE S == {watermark} \cup {active_ts[u] : u \in Txn}
      <4>1. S \subseteq TimeType /\ S # {}
        BY TypeParts DEF TypeMarks, TypeTimes
      <4>2. Min(S) \in TimeType
        BY <4>1, MinIsLeast
      <4>3. gc_min' = gc_min \/ gc_min' = [gc_min EXCEPT ![t] = Min(S)]
        BY <1>8 DEF GcMinimum
      <4> HIDE DEF S
      <4>4. QED BY <1>8, <4>2, <4>3, TypeParts DEF GcMinimum, TypeTimes, clocks
    <3>3. TypeMarks' /\ TypeMap' /\ TypeTable' /\ TypeWork'
      BY <1>8, TypeParts DEF GcMinimum, TypeMarks, TypeMap, TypeTable, TypeWork,
         clocks, marks, table, locks, work, ghosts
    <3>4. QED BY <3>1, <3>2, <3>3, TypePartsNext
  <2>2. Ids' /\ Registered'
    BY <1>8, Advanced DEF GcMinimum, Beginning, Goto, clocks
  <2>3. Versions'
    BY <1>8 DEF GcMinimum, Versions, table, work
  <2>4. Doing'
    BY <1>8, TypeParts DEF GcMinimum, Doing, TypeThread, TypeWork, Goto, work
  <2>5. QED BY <2>1, <2>2, <2>3, <2>4
<1>9. CASE GcCollect(t)
  <2>1. TypeOK'
    <3>1. TypeThread'
      BY <1>9, TypeParts DEF GcCollect, TypeThread, Goto, PcType, clocks
    <3>2. TypeMap'
      BY <1>9, TypeParts DEF GcCollect, TypeMap, Collectable
    <3>3. TypeTimes' /\ TypeMarks' /\ TypeTable' /\ TypeWork'
      BY <1>9, TypeParts DEF GcCollect, TypeTimes, TypeMarks, TypeTable, TypeWork,
         clocks, marks, table, locks, work, ghosts
    <3>4. QED BY <3>1, <3>2, <3>3, TypePartsNext
  <2>2. Ids' /\ Registered'
    <3>1. txn_map' \cup freed' \subseteq txn_map \cup freed
      BY <1>9 DEF GcCollect, Collectable
    <3>2. /\ pc[t] = "collect" /\ pc' = [pc EXCEPT ![t] = "ended"]
          /\ next_txn_id' = next_txn_id
      BY <1>9 DEF GcCollect, Goto, clocks
    <3>3. QED BY <3>1, <3>2, Advanced DEF Beginning
  <2>3. Versions'
    BY <1>9 DEF GcCollect, Versions, table, work
  <2>4. Doing'
    BY <1>9, TypeParts DEF GcCollect, Doing, TypeThread, TypeWork, Goto, work
  <2>5. QED BY <2>1, <2>2, <2>3, <2>4
<1>10. CASE CommitAborted(t)
  <2>1. TypeOK'
    <3>1. TypeThread'
      BY <1>10, TypeParts, Constants DEF CommitAborted, TypeThread, Goto, PcType, clocks, ghosts
    <3>2. TypeTimes' /\ TypeMarks' /\ TypeMap' /\ TypeTable' /\ TypeWork'
      BY <1>10, TypeParts DEF CommitAborted, TypeTimes, TypeMarks, TypeMap, TypeTable, TypeWork,
         clocks, marks, table, locks, work, ghosts
    <3>3. QED BY <3>1, <3>2, TypePartsNext
  <2>2. Ids' /\ Registered'
    BY <1>10, Advanced DEF CommitAborted, Beginning, Goto, clocks
  <2>3. Versions'
    BY <1>10 DEF CommitAborted, Versions, table, work
  <2>4. Doing'
    BY <1>10, TypeParts DEF CommitAborted, Doing, TypeThread, TypeWork, Goto, work
  <2>5. QED BY <2>1, <2>2, <2>3, <2>4
<1>11. CASE ThreadIdle(t)
  <2>1. TypeOK'
    <3>1. TypeThread'
      BY <1>11, TypeParts, Constants DEF ThreadIdle, TypeThread, Goto, PcType, clocks, ghosts
    <3>2. TypeTimes'
      BY <1>11, TypeParts, Constants DEF ThreadIdle, TypeTimes, TimeType, clocks
    <3>3. TypeMarks' /\ TypeMap' /\ TypeTable' /\ TypeWork'
      BY <1>11, TypeParts DEF ThreadIdle, TypeMarks, TypeMap, TypeTable, TypeWork,
         clocks, marks, table, locks, work, ghosts
    <3>4. QED BY <3>1, <3>2, <3>3, TypePartsNext
  <2>2. Ids' /\ Registered'
    BY <1>11, Advanced DEF ThreadIdle, Beginning, Goto, clocks
  <2>3. Versions'
    BY <1>11 DEF ThreadIdle, Versions, table, work
  <2>4. Doing'
    BY <1>11, TypeParts DEF ThreadIdle, Doing, TypeThread, TypeWork, Goto, work
  <2>5. QED BY <2>1, <2>2, <2>3, <2>4
<1>12. QED BY <1>1, <1>2, <1>3, <1>4, <1>5, <1>6, <1>7, <1>8, <1>9, <1>10, <1>11 DEF End

LEMMA BaseStep == Base /\ [Next]_vars => Base'
<1>1. ASSUME Base, UNCHANGED vars PROVE Base'
  BY <1>1 DEF Base, TypeOK, Ids, Registered, Versions, Doing, vars, clocks, marks, table, locks,
     work, ghosts
<1>2. QED BY <1>1, BeginBase, StatementBase, EndBase DEF Next

-----------------------------------------------------------------------------
(* Time stamps and the garbage collector *)

LEMMA TimesAreIntegers == TimeType \subseteq Int
BY DEF TimeType

LEMMA TimeTypes ==
    ASSUME TypeOK
    PROVE  /\ next_timestamp \in Int /\ watermark \in Int /\ latest_commit \in Int
           /\ current_reads \subseteq Int /\ current_reads \subseteq TimeType
           /\ \A u \in Txn : /\ read_ts[u] \in Int /\ commit_ts[u] \in Int
                             /\ active_ts[u] \in Int /\ gc_min[u] \in Int
           /\ pc \in [Txn -> PcType] /\ freed \subseteq Txn
BY DEF TypeOK, TimeType

LEMMA InitClock == Init => Clock
<1> SUFFICES ASSUME Init PROVE Clock
  OBVIOUS
<1>1. Times /\ Active /\ Stamped
  BY DEF Init, Times, Active, Stamped, Beginning
<1>2. Collecting /\ WatermarkIsOldestRead /\ FreedIsUnused
  BY DEF Init, Collecting, WatermarkIsOldestRead, FreedIsUnused
<1>3. QED BY <1>1, <1>2 DEF Clock

\* A step that takes no time stamp and neither begins, ends nor collects.
LEMMA ClockKept ==
    ASSUME TypeOK, Clock, NEW t \in Txn, NEW p,
           pc' = [pc EXCEPT ![t] = p],
           p \notin {"done", "collect"}, pc[t] # "done", pc[t] \in Beginning <=> p \in Beginning,
           UNCHANGED <<next_timestamp, read_ts, commit_ts, marks, active_ts, gc_min, freed>>,
           faults \subseteq faults'
    PROVE  Clock'
<1>1. \A u \in Txn : /\ pc[u] \in Beginning <=> pc'[u] \in Beginning
                     /\ pc[u] = "done" <=> pc'[u] = "done"
                     /\ pc'[u] = "collect" => pc[u] = "collect"
  BY TimeTypes
<1>2. Times'
  BY DEF Clock, Times, marks
<1>3. Active' /\ Stamped'
  BY <1>1 DEF Clock, Active, Stamped, Beginning
<1>4. Collecting'
  BY <1>1 DEF Clock, Collecting
<1>5. WatermarkIsOldestRead'
  BY DEF Clock, WatermarkIsOldestRead, marks
<1>6. FreedIsUnused'
  BY <1>1, TimeTypes DEF Clock, FreedIsUnused
<1>7. QED BY <1>2, <1>3, <1>4, <1>5, <1>6 DEF Clock

LEMMA BeginClock ==
    ASSUME Base, Clock, NEW t \in Txn, Begin(t)
    PROVE  Clock'
<1> USE TimeTypes DEF Base
<1>1. CASE BeginId(t)
  <2>1. pc[t] = "none"
    BY <1>1, Constants DEF BeginId, Ids, Txn
  <2>2. /\ pc' = [pc EXCEPT ![t] = "read_ts"] /\ faults' = faults
        /\ UNCHANGED <<next_timestamp, read_ts, commit_ts, marks, active_ts, gc_min, freed>>
    BY <1>1 DEF BeginId, Goto, ghosts
  <2>3. /\ pc[t] # "done" /\ "read_ts" \notin {"done", "collect"}
        /\ pc[t] \in Beginning <=> "read_ts" \in Beginning
    BY <2>1, <2>2 DEF Beginning
  <2>4. QED BY <2>1, <2>2, <2>3, ClockKept
<1>2. CASE BeginLowLimit(t)
  <2>1. /\ pc[t] = "low_limit" /\ pc' = [pc EXCEPT ![t] = "active_ids"] /\ faults' = faults
        /\ UNCHANGED <<next_timestamp, read_ts, commit_ts, marks, active_ts, gc_min, freed>>
    BY <1>2 DEF BeginLowLimit, Goto, clocks, ghosts
  <2>2. /\ pc[t] # "done" /\ "active_ids" \notin {"done", "collect"}
        /\ pc[t] \in Beginning <=> "active_ids" \in Beginning
    BY <2>1 DEF Beginning
  <2>3. QED BY <2>1, <2>2, ClockKept
<1>3. CASE BeginActiveIds(t)
  <2>1. /\ pc[t] = "active_ids" /\ pc' = [pc EXCEPT ![t] = "register"] /\ faults \subseteq faults'
        /\ UNCHANGED <<next_timestamp, read_ts, commit_ts, marks, active_ts, gc_min, freed>>
    BY <1>3 DEF BeginActiveIds, Goto, clocks
  <2>2. /\ pc[t] # "done" /\ "register" \notin {"done", "collect"}
        /\ pc[t] \in Beginning <=> "register" \in Beginning
    BY <2>1 DEF Beginning
  <2>3. QED BY <2>1, <2>2, ClockKept
<1>4. CASE BeginReadTs(t)
  <2>1. /\ pc[t] = "read_ts" /\ pc' = [pc EXCEPT ![t] = "add"]
        /\ read_ts' = [read_ts EXCEPT ![t] = next_timestamp]
        /\ next_timestamp' = next_timestamp + 1
        /\ UNCHANGED <<freed, commit_ts, current_reads, latest_commit, watermark,
                       active_ts, gc_min, faults>>
    BY <1>4 DEF BeginReadTs, Goto, marks, ghosts
  <2>2. read_ts \in [Txn -> TimeType]
    BY DEF TypeOK
  <2>3. Times'
    BY <2>1, <2>2 DEF Clock, Times
  <2>4. Active' /\ Stamped'
    BY <2>1, <2>2 DEF Clock, Active, Stamped, Beginning
  <2>5. Collecting' /\ FreedIsUnused'
    BY <2>1 DEF Clock, Collecting, FreedIsUnused
  <2>6. WatermarkIsOldestRead'
    BY <2>1 DEF Clock, WatermarkIsOldestRead
  <2>7. QED BY <2>3, <2>4, <2>5, <2>6 DEF Clock
<1>5. CASE AddTxn(t)
  <2>1. /\ pc[t] = "add" /\ pc' = [pc EXCEPT ![t] = "low_limit"]
        /\ current_reads' = current_reads \cup {read_ts[t]}
        /\ watermark' = IF current_reads = {} \/ read_ts[t] < watermark
                        THEN read_ts[t] ELSE watermark
        /\ UNCHANGED <<next_timestamp, freed, read_ts, commit_ts, latest_commit,
                       active_ts, gc_min, faults>>
    BY <1>5 DEF AddTxn, Goto, clocks, ghosts
  <2>2. Times'
    BY <2>1 DEF Clock, Times
  <2>3. Active' /\ Stamped'
    BY <2>1 DEF Clock, Active, Stamped, Beginning
  <2>4. Collecting' /\ FreedIsUnused'
    BY <2>1 DEF Clock, Collecting, FreedIsUnused
  <2>5. WatermarkIsOldestRead'
    <3>1. current_reads' \subseteq TimeType /\ current_reads' # {}
      BY <2>1 DEF TypeOK
    <3>2. Min(current_reads') \in current_reads' /\ \A y \in current_reads' : Min(current_reads') <= y
      BY <3>1, MinIsLeast
    <3>3. watermark' \in current_reads' /\ \A y \in current_reads' : watermark' <= y
      <4>1. CASE current_reads = {}
        BY <2>1, <4>1
      <4>2. CASE current_reads # {}
        <5>1. watermark \in current_reads /\ \A y \in current_reads : watermark <= y
          BY <4>2, MinIsLeast DEF Clock, WatermarkIsOldestRead
        <5>2. QED BY <2>1, <5>1
      <4>3. QED BY <4>1, <4>2
    <3>4. Min(current_reads') \in Int /\ watermark' \in Int
      BY <3>1, <3>2, <3>3, TimesAreIntegers
    <3>5. QED BY <3>2, <3>3, <3>4 DEF WatermarkIsOldestRead
  <2>6. QED BY <2>2, <2>3, <2>4, <2>5 DEF Clock
<1>6. CASE BeginRegister(t)
  <2> DEFINE p == IF kind[t] \in {"update", "delete"} THEN "scan" ELSE "run"
  <2>1. /\ pc[t] = "register" /\ pc' = [pc EXCEPT ![t] = p] /\ p \in {"scan", "run"}
        /\ active_ts' = [active_ts EXCEPT ![t] = read_ts[t]]
        /\ UNCHANGED <<next_timestamp, freed, read_ts, commit_ts, current_reads, latest_commit,
                       watermark, gc_min, faults>>
    BY <1>6 DEF BeginRegister, Goto, clocks, marks, ghosts
  <2> HIDE DEF p
  <2>2. active_ts \in [Txn -> TimeType]
    BY DEF TypeOK
  <2>3. Times' /\ WatermarkIsOldestRead'
    BY <2>1 DEF Clock, Times, WatermarkIsOldestRead
  <2>4. Active'
    BY <2>1, <2>2 DEF Clock, Active, Beginning
  <2>5. Stamped'
    BY <2>1 DEF Clock, Stamped, Beginning
  <2>6. Collecting' /\ FreedIsUnused'
    BY <2>1 DEF Clock, Collecting, FreedIsUnused
  <2>7. QED BY <2>3, <2>4, <2>5, <2>6 DEF Clock
<1>7. QED BY <1>1, <1>2, <1>3, <1>4, <1>5, <1>6 DEF Begin

LEMMA StatementClock ==
    ASSUME Base, Clock, NEW t \in Txn, Statement(t)
    PROVE  Clock'
<1>1. TypeOK /\ pc = [pc EXCEPT ![t] = pc[t]]
  BY TimeTypes DEF Base
<1>2. ASSUME NEW r \in Rid, ScanRecord(t, r) PROVE Clock'
  <2>1. /\ pc' = pc /\ pc[t] = "scan" /\ faults \subseteq faults'
        /\ UNCHANGED <<next_timestamp, read_ts, commit_ts, marks, active_ts, gc_min, freed>>
    BY <1>2 DEF ScanRecord, Seen, clocks
  <2>2. QED BY <2>1, <1>1, ClockKept DEF Beginning
<1>3. ASSUME NEW r \in Rid, ReadRecord(t, r) PROVE Clock'
  <2>1. /\ pc' = pc /\ pc[t] = "run" /\ faults \subseteq faults'
        /\ UNCHANGED <<next_timestamp, read_ts, commit_ts, marks, active_ts, gc_min, freed>>
    BY <1>3 DEF ReadRecord, Seen, clocks
  <2>2. QED BY <2>1, <1>1, ClockKept DEF Beginning
<1>4. ASSUME NEW r \in Rid, WriteRecord(t, r) PROVE Clock'
  <2>1. /\ pc' = pc /\ pc[t] = "run" /\ faults' = faults
        /\ UNCHANGED <<next_timestamp, read_ts, commit_ts, marks, active_ts, gc_min, freed>>
    BY <1>4 DEF WriteRecord, clocks, ghosts
  <2>2. QED BY <1>1, <2>1, ClockKept DEF Beginning
<1>5. ASSUME NEW r \in Rid, InsertSlot(t, r) PROVE Clock'
  <2>1. /\ pc' = [pc EXCEPT ![t] = "insert_lock"] /\ pc[t] = "run" /\ faults \subseteq faults'
        /\ UNCHANGED <<next_timestamp, read_ts, commit_ts, marks, active_ts, gc_min, freed>>
    BY <1>5 DEF InsertSlot, Goto, clocks
  <2>2. /\ pc[t] # "done" /\ "insert_lock" \notin {"done", "collect"}
        /\ pc[t] \in Beginning <=> "insert_lock" \in Beginning
    BY <2>1 DEF Beginning
  <2>3. QED BY <2>1, <1>1, <2>2, ClockKept
<1>6. ASSUME NEW r \in Rid, InsertLock(t, r) PROVE Clock'
  <2>1. /\ pc' = [pc EXCEPT ![t] = "run"] /\ pc[t] = "insert_lock" /\ faults' = faults
        /\ UNCHANGED <<next_timestamp, read_ts, commit_ts, marks, active_ts, gc_min, freed>>
    BY <1>6 DEF InsertLock, Goto, clocks, ghosts
  <2>2. /\ pc[t] # "done" /\ "run" \notin {"done", "collect"}
        /\ pc[t] \in Beginning <=> "run" \in Beginning
    BY <2>1 DEF Beginning
  <2>3. QED BY <2>1, <1>1, <2>2, ClockKept
<1>7. CASE ScanEnd(t)
  <2>1. /\ pc' = [pc EXCEPT ![t] = "run"] /\ pc[t] = "scan" /\ faults' = faults
        /\ UNCHANGED <<next_timestamp, read_ts, commit_ts, marks, active_ts, gc_min, freed>>
    BY <1>7 DEF ScanEnd, Goto, clocks, ghosts
  <2>2. /\ pc[t] # "done" /\ "run" \notin {"done", "collect"}
        /\ pc[t] \in Beginning <=> "run" \in Beginning
    BY <2>1 DEF Beginning
  <2>3. QED BY <2>1, <1>1, <2>2, ClockKept
<1>8. CASE Victim(t)
  <2>1. /\ pc' = [pc EXCEPT ![t] = "undo"] /\ pc[t] \in {"scan", "run", "insert_lock"}
        /\ UNCHANGED <<next_timestamp, read_ts, commit_ts, marks, active_ts, gc_min, freed, faults>>
    BY <1>8 DEF Victim, Goto, clocks, ghosts
  <2>2. /\ pc[t] # "done" /\ "undo" \notin {"done", "collect"}
        /\ pc[t] \in Beginning <=> "undo" \in Beginning
    BY <2>1 DEF Beginning
  <2>3. QED BY <1>1, <2>1, <2>2, ClockKept
<1>9. CASE Fail(t)
  <2>1. PICK p \in {"ended", "release"} : pc' = [pc EXCEPT ![t] = p]
    BY <1>9 DEF Fail, Goto
  <2>2. /\ pc[t] \in {"scan", "run"} /\ faults' = faults
        /\ UNCHANGED <<next_timestamp, read_ts, commit_ts, marks, active_ts, gc_min, freed>>
    BY <1>9 DEF Fail, clocks, ghosts
  <2>3. QED BY <1>1, <2>1, <2>2, ClockKept DEF Beginning
<1>10. CASE Commit(t)
  <2>1. /\ pc' = [pc EXCEPT ![t] = "release"] /\ pc[t] = "run" /\ faults' = faults
        /\ UNCHANGED <<next_timestamp, read_ts, commit_ts, marks, active_ts, gc_min, freed>>
    BY <1>10 DEF Commit, Goto, clocks, ghosts
  <2>2. /\ pc[t] # "done" /\ "release" \notin {"done", "collect"}
        /\ pc[t] \in Beginning <=> "release" \in Beginning
    BY <2>1 DEF Beginning
  <2>3. QED BY <2>1, <1>1, <2>2, ClockKept
<1>11. QED
  BY <1>2, <1>3, <1>4, <1>5, <1>6, <1>7, <1>8, <1>9, <1>10 DEF Statement

LEMMA EndClock ==
    ASSUME Base, Clock, NEW t \in Txn, End(t)
    PROVE  Clock'
<1>1. TypeOK /\ pc = [pc EXCEPT ![t] = pc[t]]
  BY TimeTypes DEF Base
<1> USE TimeTypes
<1>2. CASE UndoWrite(t)
  <2>1. /\ pc' = pc /\ pc[t] = "undo" /\ faults' = faults
        /\ UNCHANGED <<next_timestamp, read_ts, commit_ts, marks, active_ts, gc_min, freed>>
    BY <1>2 DEF UndoWrite, clocks, ghosts
  <2>2. QED BY <2>1, <1>1, ClockKept DEF Beginning
<1>3. CASE UndoEnd(t)
  <2>1. /\ pc' = [pc EXCEPT ![t] = "release"] /\ pc[t] = "undo" /\ faults' = faults
        /\ UNCHANGED <<next_timestamp, read_ts, commit_ts, marks, active_ts, gc_min, freed>>
    BY <1>3 DEF UndoEnd, Goto, clocks
  <2>2. /\ pc[t] # "done" /\ "release" \notin {"done", "collect"}
        /\ pc[t] \in Beginning <=> "release" \in Beginning
    BY <2>1 DEF Beginning
  <2>3. QED BY <2>1, <1>1, <2>2, ClockKept
<1>4. CASE Release(t)
  <2>1. /\ pc' = [pc EXCEPT ![t] = "state"] /\ pc[t] = "release" /\ faults' = faults
        /\ UNCHANGED <<next_timestamp, read_ts, commit_ts, marks, active_ts, gc_min, freed>>
    BY <1>4 DEF Release, Goto, clocks
  <2>2. /\ pc[t] # "done" /\ "state" \notin {"done", "collect"}
        /\ pc[t] \in Beginning <=> "state" \in Beginning
    BY <2>1 DEF Beginning
  <2>3. QED BY <2>1, <1>1, <2>2, ClockKept
<1>5. CASE EndState(t)
  <2>1. /\ pc' = [pc EXCEPT ![t] = "stamp"] /\ pc[t] = "state" /\ faults' = faults
        /\ UNCHANGED <<next_timestamp, read_ts, commit_ts, marks, active_ts, gc_min, freed>>
    BY <1>5 DEF EndState, Goto, clocks, ghosts
  <2>2. /\ pc[t] # "done" /\ "stamp" \notin {"done", "collect"}
        /\ pc[t] \in Beginning <=> "stamp" \in Beginning
    BY <2>1 DEF Beginning
  <2>3. QED BY <2>1, <1>1, <2>2, ClockKept
<1>6. CASE CommitAborted(t)
  <2>1. /\ pc' = [pc EXCEPT ![t] = "release"] /\ pc[t] = "ended" /\ faults' = faults
        /\ UNCHANGED <<next_timestamp, read_ts, commit_ts, marks, active_ts, gc_min, freed>>
    BY <1>6 DEF CommitAborted, Goto, clocks, ghosts
  <2>2. /\ pc[t] # "done" /\ "release" \notin {"done", "collect"}
        /\ pc[t] \in Beginning <=> "release" \in Beginning
    BY <2>1 DEF Beginning
  <2>3. QED BY <2>1, <1>1, <2>2, ClockKept
<1>7. CASE EndCommitTs(t)
  <2>1. /\ pc[t] = "stamp" /\ pc' = [pc EXCEPT ![t] = "remove"]
        /\ commit_ts' = [commit_ts EXCEPT ![t] = next_timestamp]
        /\ next_timestamp' = next_timestamp + 1
        /\ UNCHANGED <<freed, read_ts, current_reads, latest_commit, watermark, active_ts,
                       gc_min, faults>>
    BY <1>7 DEF EndCommitTs, Goto, marks, ghosts
  <2>2. commit_ts \in [Txn -> TimeType]
    BY <1>1 DEF TypeOK
  <2>3. Times'
    BY <1>1, <2>1, <2>2 DEF Clock, Times
  <2>4. Active' /\ Stamped'
    BY <1>1, <2>1, <2>2 DEF Clock, Active, Stamped, Times, Beginning
  <2>5. Collecting'
    BY <1>1, <2>1, <2>2 DEF Clock, Collecting
  <2>6. WatermarkIsOldestRead' /\ FreedIsUnused'
    BY <1>1, <2>1 DEF Clock, WatermarkIsOldestRead, FreedIsUnused
  <2>7. QED BY <2>3, <2>4, <2>5, <2>6 DEF Clock
<1>8. CASE RemoveTxn(t)
  <2>1. /\ pc[t] = "remove" /\ pc' = [pc EXCEPT ![t] = "update"]
        /\ IF read_ts[t] \in current_reads
           THEN /\ current_reads' = current_reads \ {read_ts[t]}
                /\ watermark' = WatermarkWithout(current_reads')
           ELSE current_reads' = current_reads /\ watermark' = watermark
        /\ UNCHANGED <<next_timestamp, freed, read_ts, commit_ts, latest_commit, active_ts,
                       gc_min, faults>>
    BY <1>8 DEF RemoveTxn, Goto, clocks, ghosts
  <2>2. current_reads' \subseteq current_reads /\ current_reads' \subseteq TimeType
    BY <1>1, <2>1
  <2>3. current_reads' # {} => Min(current_reads') \in current_reads
    BY <2>2, MinIsLeast
  <2>4. Times'
    BY <1>1, <2>1, <2>2, <2>3 DEF Clock, Times, WatermarkWithout
  <2>5. Active' /\ Stamped' /\ Collecting' /\ FreedIsUnused'
    BY <1>1, <2>1 DEF Clock, Active, Stamped, Collecting, FreedIsUnused, Beginning
  <2>6. WatermarkIsOldestRead'
    BY <2>1 DEF Clock, WatermarkIsOldestRead, WatermarkWithout
  <2>7. QED BY <2>4, <2>5, <2>6 DEF Clock
<1>9. CASE UpdateCommitTs(t)
  <2> DEFINE p == IF t \in Collectors THEN "gc" ELSE "ended"
  <2>1. /\ pc[t] = "update" /\ pc' = [pc EXCEPT ![t] = p] /\ p \in {"gc", "ended"}
        /\ latest_commit' = IF commit_ts[t] > latest_commit THEN commit_ts[t] ELSE latest_commit
        /\ watermark' = IF current_reads = {} /\ latest_commit' > watermark
                        THEN latest_commit' ELSE watermark
        /\ UNCHANGED <<next_timestamp, freed, read_ts, commit_ts, current_reads, active_ts,
                       gc_min, faults>>
    BY <1>9 DEF UpdateCommitTs, Goto, clocks, ghosts
  <2> HIDE DEF p
  <2>2. Times'
    BY <1>1, <2>1 DEF Clock, Times
  <2>3. Active' /\ Stamped' /\ Collecting' /\ FreedIsUnused'
    BY <1>1, <2>1 DEF Clock, Active, Stamped, Collecting, FreedIsUnused, Beginning
  <2>4. WatermarkIsOldestRead'
    BY <2>1 DEF Clock, WatermarkIsOldestRead
  <2>5. QED BY <2>2, <2>3, <2>4 DEF Clock
<1>10. CASE GcMinimum(t)
  <2> DEFINE S == {watermark} \cup {active_ts[u] : u \in Txn}
  <2>1. /\ S \subseteq TimeType /\ watermark \in S /\ \A u \in Txn : active_ts[u] \in S
    BY <1>1 DEF TypeOK
  <2>2. Min(S) \in Int /\ Min(S) <= watermark /\ \A u \in Txn : Min(S) <= active_ts[u]
    BY <2>1, MinIsLeast, TimesAreIntegers
  <2>3. /\ pc[t] = "gc"
        /\ \/ pc' = [pc EXCEPT ![t] = "ended"] /\ gc_min' = gc_min
           \/ pc' = [pc EXCEPT ![t] = "collect"] /\ gc_min' = [gc_min EXCEPT ![t] = Min(S)]
        /\ UNCHANGED <<next_timestamp, freed, read_ts, commit_ts, current_reads, latest_commit,
                       watermark, active_ts, faults>>
    BY <1>10 DEF GcMinimum, Goto, clocks, marks, ghosts
  <2> HIDE DEF S
  <2>4. Times' /\ WatermarkIsOldestRead'
    BY <2>3 DEF Clock, Times, WatermarkIsOldestRead
  <2>5. Active' /\ Stamped' /\ FreedIsUnused'
    BY <1>1, <2>3 DEF Clock, Active, Stamped, FreedIsUnused, Beginning
  <2>6. Collecting'
    <3>1. \A u \in Txn : commit_ts[u] # -1 /\ commit_ts[u] < Min(S) => pc[u] = "done"
      BY <1>1, <2>2 DEF Clock, Active, Stamped
    <3>2. gc_min \in [Txn -> TimeType]
      BY <1>1 DEF TypeOK
    <3>3. QED BY <1>1, <2>2, <2>3, <3>1, <3>2 DEF Clock, Collecting, Times
  <2>7. QED BY <2>4, <2>5, <2>6 DEF Clock
<1>11. CASE GcCollect(t)
  <2>1. /\ pc[t] = "collect" /\ pc' = [pc EXCEPT ![t] = "ended"]
        /\ freed' = freed \cup Collectable(t)
        /\ faults' = IF \A u \in Collectable(t) : commit_ts[u] # -1 THEN faults
                     ELSE faults \cup {"gc_window"}
        /\ UNCHANGED <<next_timestamp, read_ts, commit_ts, current_reads, latest_commit,
                       watermark, active_ts, gc_min>>
    BY <1>11 DEF GcCollect, Goto, clocks, marks
  <2>2. Times' /\ WatermarkIsOldestRead'
    BY <2>1 DEF Clock, Times, WatermarkIsOldestRead
  <2>3. Active' /\ Stamped' /\ Collecting'
    BY <1>1, <2>1 DEF Clock, Active, Stamped, Collecting, Beginning
  <2>4. FreedIsUnused'
    <3> SUFFICES ASSUME "gc_window" \notin faults', NEW u \in freed' PROVE pc'[u] = "done"
      BY DEF FreedIsUnused
    <3>1. "gc_window" \notin faults /\ \A v \in Collectable(t) : commit_ts[v] # -1
      BY <2>1
    <3>2. u \in Txn
      BY <1>1, <2>1 DEF Collectable, TypeOK
    <3>3. pc[u] = "done"
      BY <2>1, <3>1, <3>2 DEF Clock, FreedIsUnused, Collecting, Collectable
    <3>4. QED BY <1>1, <2>1, <3>2, <3>3
  <2>5. QED BY <2>2, <2>3, <2>4 DEF Clock
<1>12. CASE ThreadIdle(t)
  <2>1. /\ pc[t] = "ended" /\ pc' = [pc EXCEPT ![t] = "done"]
        /\ active_ts' = [active_ts EXCEPT ![t] = Infinity]
        /\ UNCHANGED <<next_timestamp, freed, read_ts, commit_ts, current_reads, latest_commit,
                       watermark, gc_min, faults>>
    BY <1>12 DEF ThreadIdle, Goto, clocks, marks, ghosts
  <2>2. Times' /\ WatermarkIsOldestRead'
    BY <2>1 DEF Clock, Times, WatermarkIsOldestRead
  <2>3. Active'
    <3>1. active_ts \in [Txn -> TimeType]
      BY <1>1 DEF TypeOK
    <3>2. QED BY <1>1, <2>1, <3>1 DEF Clock, Active
  <2>4. Stamped' /\ Collecting' /\ FreedIsUnused'
    BY <1>1, <2>1 DEF Clock, Stamped, Collecting, FreedIsUnused, Beginning
  <2>5. QED BY <2>2, <2>3, <2>4 DEF Clock
<1>13. QED
  BY <1>2, <1>3, <1>4, <1>5, <1>6, <1>7, <1>8, <1>9, <1>10, <1>11, <1>12 DEF End

LEMMA ClockStep == Base /\ Clock /\ [Next]_vars => Clock'
<1>1. ASSUME Clock, UNCHANGED vars PROVE Clock'
  BY <1>1 DEF Clock, Times, Active, Stamped, Collecting, WatermarkIsOldestRead, FreedIsUnused,
     vars, clocks, marks, ghosts
<1>2. QED BY <1>1, BeginClock, StatementClock, EndClock DEF Next

-----------------------------------------------------------------------------
(* Rollback: what a transaction has written it can put back *)

LEMMA RowTypes ==
    ASSUME TypeOK
    PROVE  /\ pc \in [Txn -> PcType] /\ aborted \subseteq Txn
           /\ todo \in [Txn -> SUBSET Rid] /\ write_set \in [Txn -> Seq(WriteRecords)]
           /\ slots \in [Rid -> SlotType] /\ durable \in [Rid -> SlotType]
           /\ shared \in [Rid -> SUBSET Txn] /\ lock \in [Rid -> Txn \cup {Nil}]
           /\ \A t \in Txn : \A i \in DOMAIN write_set[t] :
                  write_set[t][i] \in WriteRecords /\ write_set[t][i].rid \in Rid
<1>1. write_set \in [Txn -> Seq(WriteRecords)]
  BY TypeParts DEF TypeWork
<1>2. ASSUME NEW t \in Txn, NEW i \in DOMAIN write_set[t]
      PROVE  write_set[t][i] \in WriteRecords /\ write_set[t][i].rid \in Rid
  <2>1. write_set[t] \in Seq(WriteRecords)
    BY <1>1
  <2>2. i \in 1 .. Len(write_set[t])
    BY <2>1
  <2>3. write_set[t][i] \in WriteRecords
    BY <2>1, <2>2, ElementOfSeq
  <2>4. QED BY <2>3 DEF WriteRecords
<1>3. QED BY <1>1, <1>2 DEF TypeOK

\* Write records with one more at the end.
LEMMA AppendedRecord ==
    ASSUME TypeOK, NEW t \in Txn, NEW e
    PROVE  LET w == write_set[t]
               n == Len(w) + 1
               s == Append(w, e)
           IN  /\ DOMAIN s = DOMAIN w \cup {n} /\ n \notin DOMAIN w /\ s[n] = e
               /\ \A i \in DOMAIN w : s[i] = w[i]
<1>1. write_set[t] \in Seq(WriteRecords)
  BY RowTypes
<1>2. QED BY <1>1

LEMMA InitRows == Init => Rows
<1> SUFFICES ASSUME Init PROVE Rows
  OBVIOUS
<1>1. \A t \in Txn : write_set[t] = <<>> /\ DOMAIN write_set[t] = {} /\ pc[t] # "insert_lock"
  BY DEF Init
<1>2. Entries /\ Locked /\ Inserting /\ Free
  BY <1>1 DEF Init, Entries, Locked, Inserting, Free, Same
<1>3. Clean
  BY <1>1 DEF Init, Clean
<1>4. QED BY <1>2, <1>3 DEF Rows

\* A step that neither writes nor locks; it may drop what was to be written.
LEMMA RowsKept ==
    ASSUME TypeOK, Rows, NEW t \in Txn, NEW p,
           pc' = [pc EXCEPT ![t] = p], pc[t] # "insert_lock", p # "insert_lock",
           p \in Running => pc[t] \in Running,
           p \in Beginning \cup {"scan"} => pc[t] \in Beginning \cup {"scan"},
           UNCHANGED <<slots, durable, lock, shared, write_set>>,
           todo' = todo \/ todo' = [todo EXCEPT ![t] = {}],
           aborted' \subseteq aborted \cup {t},
           t \in aborted' => p \notin Running \cup {"undo"} /\ write_set[t] = <<>>
    PROVE  Rows'
<1> USE RowTypes
<1>1. \A u \in Txn : /\ pc'[u] = "insert_lock" <=> pc[u] = "insert_lock"
                     /\ pc[u] = "insert_lock" => todo'[u] = todo[u]
                     /\ todo'[u] \subseteq todo[u]
                     /\ pc'[u] \in Running => pc[u] \in Running
                     /\ pc'[u] \in Beginning \cup {"scan"} => pc[u] \in Beginning \cup {"scan"}
                     /\ u # t => pc'[u] = pc[u]
  OBVIOUS
<1> HIDE DEF Beginning, Running
<1>2. Entries'
  BY <1>1 DEF Rows, Entries
<1>3. Locked'
  BY <1>1, Constants DEF Rows, Locked, Writes, Same
<1>4. Clean'
  BY <1>1 DEF Rows, Clean
<1>5. Inserting'
  BY <1>1 DEF Rows, Inserting
<1>6. Free'
  BY <1>1 DEF Rows, Free, Unlocked, Same
<1>7. QED BY <1>2, <1>3, <1>4, <1>5, <1>6 DEF Rows

\* The records a transaction is inserting are nobody else's.
LEMMA ScanRows ==
    ASSUME Base, Rows, NoUnlockedInsert', NEW t \in Txn, NEW r \in Rid,
           ScanRecord(t, r) \/ ReadRecord(t, r)
    PROVE  Rows'
<1> USE RowTypes DEF Base
<1>1. /\ pc' = pc /\ pc[t] \in {"scan", "run"}
      /\ UNCHANGED <<slots, durable, lock, write_set, aborted>>
  <2>1. CASE ScanRecord(t, r)
    BY <2>1 DEF ScanRecord
  <2>2. CASE ReadRecord(t, r)
    BY <2>2 DEF ReadRecord, work
  <2>3. QED BY <2>1, <2>2
<1>2. shared' = shared \/ (Unlocked(r) /\ shared' = [shared EXCEPT ![r] = @ \cup {t}])
  BY DEF ScanRecord, ReadRecord, Seen, NoUnlockedInsert
<1>3. todo' = todo \/ (pc[t] = "scan" /\ todo' = [todo EXCEPT ![t] = @ \cup {r}])
  BY DEF ScanRecord, ReadRecord, work
<1>4. /\ \A u \in Txn : pc[u] = "insert_lock" => todo'[u] = todo[u]
      /\ \A u \in Txn : u # t => todo'[u] = todo[u]
      /\ todo' # todo => write_set[t] = <<>>
  BY <1>1, <1>3 DEF Rows, Clean
<1>5. Entries'
  BY <1>1, <1>4 DEF Rows, Entries
<1>6. Locked' /\ Clean'
  BY <1>1 DEF Rows, Locked, Clean, Writes, Same
<1>7. Inserting'
  <2> SUFFICES ASSUME NEW u \in Txn, pc'[u] = "insert_lock", NEW q \in todo'[u]
               PROVE  /\ todo'[u] = {q}
                      /\ lock'[q] = Nil /\ shared'[q] \subseteq {u}
                      /\ slots'[q].used /\ ~durable'[q].used
                      /\ \A v \in Txn : pc'[v] = "insert_lock" /\ q \in todo'[v] => v = u
    BY DEF Inserting
  <2>1. pc[u] = "insert_lock" /\ q \in todo[u] /\ q \in Rid
    BY <1>1, <1>4
  <2>2. shared'[q] = shared[q]
    BY <1>2, <2>1 DEF Unlocked
  <2>3. QED BY <1>1, <1>4, <2>1, <2>2 DEF Rows, Inserting
<1>8. Free'
  BY <1>1, <1>4 DEF Rows, Free, Unlocked, Same
<1>9. QED BY <1>5, <1>6, <1>7, <1>8 DEF Rows

\* Nobody has a write record of a record that is not locked.
LEMMA NoRecordOf ==
    ASSUME TypeOK, Rows, NEW r \in Rid, lock[r] = Nil, NEW u \in Txn, NEW i \in DOMAIN write_set[u]
    PROVE  write_set[u][i].rid # r
<1>1. lock[write_set[u][i].rid] = u
  BY DEF Rows, Entries
<1>2. QED BY <1>1, Constants

LEMMA WriteRows ==
    ASSUME Base, Rows, NEW t \in Txn, NEW r \in Rid, WriteRecord(t, r)
    PROVE  Rows'
<1> USE RowTypes DEF Base
<1> DEFINE e == [type |-> kind[t], rid |-> r, trx |-> slots[r].trx, roll |-> slots[r].roll]
           s == [used |-> ~(kind[t] = "delete"), trx |-> t, roll |-> [txn |-> t, idx |-> Len(undo[t])]]
           n == Len(write_set[t]) + 1
<1>1. /\ pc' = pc /\ pc[t] = "run" /\ r \in todo[t] /\ t \in shared[r] /\ lock[r] \in {Nil, t}
      /\ slots[r].used /\ shared' = shared /\ durable' = durable /\ aborted' = aborted
  <2>1. todo[t] # {} /\ r = Min(todo[t]) /\ todo[t] \subseteq TimeType
    BY Constants DEF WriteRecord, TimeType
  <2>2. r \in todo[t]
    BY <2>1, MinIsLeast
  <2>3. QED BY <2>2 DEF WriteRecord, CanLock, CanRead, ghosts
<1>2. /\ lock' = [lock EXCEPT ![r] = t] /\ slots' = [slots EXCEPT ![r] = s]
      /\ write_set' = [write_set EXCEPT ![t] = Append(@, e)]
      /\ todo' = [todo EXCEPT ![t] = @ \ {r}]
  BY DEF WriteRecord
<1>3. Unlocked(r)
  BY <1>1 DEF Unlocked, Rows, Inserting
<1>4. lock[r] = Nil
  <2> SUFFICES ASSUME lock[r] = t PROVE FALSE
    BY <1>1
  <2>1. Writes(t, r)
    BY <1>1, Constants DEF Rows, Locked, Running
  <2>2. PICK i \in DOMAIN write_set[t] : write_set[t][i].rid = r
    BY <2>1 DEF Writes
  <2>3. write_set[t][i].rid \notin todo[t]
    BY DEF Rows, Entries
  <2>4. QED BY <1>1, <2>2, <2>3
<1>5. durable[r] = [used |-> TRUE, trx |-> slots[r].trx, roll |-> slots[r].roll]
  <2>1. durable[r] = slots[r]
    BY <1>1, <1>3, <1>4 DEF Rows, Free, Same
  <2>2. QED BY <1>1, <2>1 DEF SlotType
<1>6. /\ e.rid = r /\ e.type # "insert" /\ e.trx = slots[r].trx /\ e.roll = slots[r].roll
  BY <1>1 DEF Doing
<1> HIDE DEF e, s, n
<1>7. /\ DOMAIN write_set'[t] = DOMAIN write_set[t] \cup {n} /\ n \notin DOMAIN write_set[t]
      /\ write_set'[t][n] = e /\ \A i \in DOMAIN write_set[t] : write_set'[t][i] = write_set[t][i]
      /\ \A u \in Txn : u # t => write_set'[u] = write_set[u]
  BY <1>2, AppendedRecord DEF n
<1>8. \A u \in Txn : \A i \in DOMAIN write_set[u] : write_set[u][i].rid # r
  BY <1>4, NoRecordOf
<1>9. Entries'
  <2> SUFFICES ASSUME NEW u \in Txn, NEW i \in DOMAIN write_set'[u]
               PROVE  LET x == write_set'[u][i] IN
                      /\ lock'[x.rid] = u /\ x.rid \notin todo'[u]
                      /\ \A j \in DOMAIN write_set'[u] : write_set'[u][j].rid = x.rid => j = i
                      /\ IF x.type = "insert" THEN ~durable'[x.rid].used
                         ELSE durable'[x.rid] = [used |-> TRUE, trx |-> x.trx, roll |-> x.roll]
    BY DEF Entries
  <2>1. CASE u = t /\ i = n
    <3>1. write_set'[u][i] = e /\ e.rid = r
      BY <1>6, <1>7, <2>1
    <3>2. lock'[r] = u /\ r \notin todo'[u]
      BY <1>2, <2>1
    <3>3. \A j \in DOMAIN write_set'[u] : write_set'[u][j].rid = r => j = i
      BY <1>7, <1>8, <2>1
    <3>4. durable'[r] = [used |-> TRUE, trx |-> e.trx, roll |-> e.roll] /\ e.type # "insert"
      BY <1>1, <1>5, <1>6
    <3>5. QED BY <3>1, <3>2, <3>3, <3>4
  <2>2. CASE i \in DOMAIN write_set[u] /\ write_set'[u][i] = write_set[u][i]
    <3> DEFINE x == write_set[u][i]
    <3>1. /\ x.rid # r /\ x.rid \in Rid /\ lock[x.rid] = u /\ x.rid \notin todo[u]
          /\ \A j \in DOMAIN write_set[u] : write_set[u][j].rid = x.rid => j = i
          /\ IF x.type = "insert" THEN ~durable[x.rid].used
             ELSE durable[x.rid] = [used |-> TRUE, trx |-> x.trx, roll |-> x.roll]
      BY <1>8, <2>2 DEF Rows, Entries
    <3> HIDE DEF x
    <3>2. \A j \in DOMAIN write_set'[u] : write_set'[u][j].rid = x.rid => j = i
      <4>1. CASE u = t
        <5>1. i \in DOMAIN write_set[t]
          BY <2>2, <4>1
        <5>2. ASSUME NEW j \in DOMAIN write_set'[t], write_set'[t][j].rid = x.rid PROVE j = i
          <6>1. j # n
            BY <1>6, <1>7, <3>1, <5>2
          <6>2. j \in DOMAIN write_set[t] /\ write_set[t][j].rid = x.rid
            BY <1>7, <5>2, <6>1
          <6>3. QED BY <3>1, <4>1, <6>2
        <5>3. QED BY <4>1, <5>2
      <4>2. CASE u # t
        BY <1>7, <3>1, <4>2
      <4>3. QED BY <4>1, <4>2
    <3>3. lock'[x.rid] = u /\ x.rid \notin todo'[u]
      BY <1>2, <3>1
    <3>4. QED BY <1>1, <2>2, <3>1, <3>2, <3>3 DEF x
  <2>3. QED BY <1>7, <2>1, <2>2
<1>10. Locked'
  <2> SUFFICES ASSUME NEW q \in Rid, lock'[q] # Nil
               PROVE  /\ ~Writes(lock[q], q)' => Same(q)'
                      /\ pc'[lock'[q]] \in Running => Writes(lock[q], q)'
    BY DEF Locked
  <2>1. CASE q = r
    <3>1. lock'[q] = t /\ n \in DOMAIN write_set'[t] /\ write_set'[t][n].rid = q
      BY <1>2, <1>6, <1>7, <2>1
    <3>2. Writes(lock[q], q)'
      BY <3>1 DEF Writes
    <3>3. QED BY <3>2
  <2>2. CASE q # r
    <3>1. lock'[q] = lock[q] /\ slots'[q] = slots[q] /\ lock[q] \in Txn
      BY <1>2, <2>2
    <3>2. Writes(lock[q], q) => Writes(lock[q], q)'
      BY <1>7, <3>1 DEF Writes
    <3>3. QED BY <1>1, <3>1, <3>2 DEF Rows, Locked, Same
  <2>3. QED BY <2>1, <2>2
<1>11. Clean'
  BY <1>1, <1>7 DEF Rows, Clean, Running, Beginning
<1>12. Inserting'
  BY <1>1, <1>2, <1>3 DEF Rows, Inserting, Unlocked
<1>13. Free'
  BY <1>1, <1>2, Constants DEF Rows, Free, Unlocked, Same
<1>14. QED BY <1>9, <1>10, <1>11, <1>12, <1>13 DEF Rows

LEMMA InsertSlotRows ==
    ASSUME Base, Rows, NoUnlockedInsert', NEW t \in Txn, NEW r \in Rid, InsertSlot(t, r)
    PROVE  Rows'
<1> USE RowTypes DEF Base
<1> DEFINE s == [used |-> TRUE, trx |-> t, roll |-> ZeroLink]
<1>1. /\ pc[t] = "run" /\ pc' = [pc EXCEPT ![t] = "insert_lock"]
      /\ write_set[t] = <<>> /\ ~slots[r].used
      /\ slots' = [slots EXCEPT ![r] = s] /\ todo' = [todo EXCEPT ![t] = {r}]
      /\ UNCHANGED <<durable, shared, lock, write_set, aborted>>
  BY DEF InsertSlot, Goto, locks
<1>2. lock[r] \in {Nil, t} /\ shared[r] \subseteq {t}
  BY DEF InsertSlot, NoUnlockedInsert, CanLock, CanRead
<1>3. lock[r] = Nil
  BY <1>1, <1>2, Constants DEF Rows, Locked, Writes, Running
<1>4. Unlocked(r)
  BY <1>1 DEF Unlocked, Rows, Inserting
<1>5. ~durable[r].used
  BY <1>1, <1>3, <1>4 DEF Rows, Free, Same
<1>6. s.used
  OBVIOUS
<1> HIDE DEF s
<1>7. \A u \in Txn : u # t => pc'[u] = pc[u] /\ todo'[u] = todo[u]
  BY <1>1
<1>8. pc'[t] = "insert_lock" /\ todo'[t] = {r} /\ DOMAIN write_set[t] = {}
  BY <1>1
<1>9. Entries'
  BY <1>1, <1>7, <1>8 DEF Rows, Entries
<1>10. Locked'
  BY <1>1, <1>3, <1>7, Constants DEF Rows, Locked, Writes, Same, Running
<1>11. Clean'
  BY <1>1, <1>7, <1>8 DEF Rows, Clean, Running
<1>12. Inserting'
  <2> SUFFICES ASSUME NEW u \in Txn, pc'[u] = "insert_lock", NEW q \in todo'[u]
               PROVE  /\ todo'[u] = {q}
                      /\ lock'[q] = Nil /\ shared'[q] \subseteq {u}
                      /\ slots'[q].used /\ ~durable'[q].used
                      /\ \A v \in Txn : pc'[v] = "insert_lock" /\ q \in todo'[v] => v = u
    BY DEF Inserting
  <2>1. CASE u = t
    <3>1. \A v \in Txn : pc'[v] = "insert_lock" /\ r \in todo'[v] => v = t
      BY <1>4, <1>7 DEF Unlocked
    <3>2. QED BY <1>1, <1>2, <1>3, <1>5, <1>6, <1>8, <2>1, <3>1
  <2>2. CASE u # t
    <3>1. pc[u] = "insert_lock" /\ q \in todo[u] /\ q \in Rid /\ q # r
      BY <1>4, <1>7, <2>2 DEF Unlocked
    <3>2. \A v \in Txn : pc'[v] = "insert_lock" /\ q \in todo'[v] => v = u
      <4>1. \A v \in Txn : pc'[v] = "insert_lock" /\ q \in todo'[v]
                            => pc[v] = "insert_lock" /\ q \in todo[v]
        BY <1>7, <1>8, <3>1
      <4>2. QED BY <3>1, <4>1 DEF Rows, Inserting
    <3>3. slots'[q] = slots[q]
      BY <1>1, <3>1
    <3>4. QED BY <1>1, <1>7, <2>2, <3>1, <3>2, <3>3 DEF Rows, Inserting
  <2>3. QED BY <2>1, <2>2
<1>13. Free'
  <2> SUFFICES ASSUME NEW q \in Rid, lock'[q] = Nil, Unlocked(q)' PROVE Same(q)'
    BY DEF Free
  <2>1. q # r
    BY <1>8 DEF Unlocked
  <2>2. Unlocked(q)
    BY <1>1, <1>7 DEF Unlocked
  <2>3. QED BY <1>1, <2>1, <2>2 DEF Rows, Free, Same
<1>14. QED BY <1>9, <1>10, <1>11, <1>12, <1>13 DEF Rows

LEMMA InsertLockRows ==
    ASSUME Base, Rows, NEW t \in Txn, NEW r \in Rid, InsertLock(t, r)
    PROVE  Rows'
<1> USE RowTypes DEF Base
<1> DEFINE e == [type |-> "insert", rid |-> r, trx |-> Nil, roll |-> NoLink]
           n == Len(write_set[t]) + 1
<1>1. /\ pc[t] = "insert_lock" /\ pc' = [pc EXCEPT ![t] = "run"] /\ r \in todo[t]
      /\ lock' = [lock EXCEPT ![r] = t] /\ todo' = [todo EXCEPT ![t] = {}]
      /\ write_set' = [write_set EXCEPT ![t] = Append(@, e)]
      /\ UNCHANGED <<slots, durable, shared, aborted>>
  BY DEF InsertLock, Goto, ghosts
<1>2. /\ todo[t] = {r} /\ lock[r] = Nil /\ ~durable[r].used
      /\ \A u \in Txn : pc[u] = "insert_lock" /\ r \in todo[u] => u = t
  BY <1>1 DEF Rows, Inserting
<1>3. e.rid = r /\ e.type = "insert"
  OBVIOUS
<1> HIDE DEF e, n
<1>4. /\ DOMAIN write_set'[t] = DOMAIN write_set[t] \cup {n} /\ n \notin DOMAIN write_set[t]
      /\ write_set'[t][n] = e /\ \A i \in DOMAIN write_set[t] : write_set'[t][i] = write_set[t][i]
      /\ \A u \in Txn : u # t => write_set'[u] = write_set[u]
  BY <1>1, AppendedRecord DEF n
<1>5. \A u \in Txn : \A i \in DOMAIN write_set[u] : write_set[u][i].rid # r
  BY <1>2, NoRecordOf
<1>6. \A u \in Txn : u # t => pc'[u] = pc[u] /\ todo'[u] = todo[u]
  BY <1>1
<1>7. pc'[t] = "run" /\ todo'[t] = {}
  BY <1>1
<1>8. Entries'
  <2> SUFFICES ASSUME NEW u \in Txn, NEW i \in DOMAIN write_set'[u]
               PROVE  LET x == write_set'[u][i] IN
                      /\ lock'[x.rid] = u /\ x.rid \notin todo'[u]
                      /\ \A j \in DOMAIN write_set'[u] : write_set'[u][j].rid = x.rid => j = i
                      /\ IF x.type = "insert" THEN ~durable'[x.rid].used
                         ELSE durable'[x.rid] = [used |-> TRUE, trx |-> x.trx, roll |-> x.roll]
    BY DEF Entries
  <2>1. CASE u = t /\ i = n
    <3>1. write_set'[u][i] = e /\ e.rid = r
      BY <1>3, <1>4, <2>1
    <3>2. lock'[r] = u /\ r \notin todo'[u]
      BY <1>1, <1>7, <2>1
    <3>3. \A j \in DOMAIN write_set'[u] : write_set'[u][j].rid = r => j = i
      BY <1>4, <1>5, <2>1
    <3>4. ~durable'[r].used
      BY <1>1, <1>2
    <3>5. QED BY <1>3, <3>1, <3>2, <3>3, <3>4
  <2>2. CASE i \in DOMAIN write_set[u] /\ write_set'[u][i] = write_set[u][i]
    <3> DEFINE x == write_set[u][i]
    <3>1. /\ x.rid # r /\ x.rid \in Rid /\ lock[x.rid] = u /\ x.rid \notin todo[u]
          /\ \A j \in DOMAIN write_set[u] : write_set[u][j].rid = x.rid => j = i
          /\ IF x.type = "insert" THEN ~durable[x.rid].used
             ELSE durable[x.rid] = [used |-> TRUE, trx |-> x.trx, roll |-> x.roll]
      BY <1>5, <2>2 DEF Rows, Entries
    <3> HIDE DEF x
    <3>2. ASSUME NEW j \in DOMAIN write_set'[u], write_set'[u][j].rid = x.rid PROVE j = i
      <4>1. j \in DOMAIN write_set[u] /\ write_set[u][j].rid = x.rid
        <5>1. CASE u = t
          <6>1. j # n
            BY <1>3, <1>4, <3>1, <3>2, <5>1
          <6>2. QED BY <1>4, <3>2, <5>1, <6>1
        <5>2. CASE u # t
          BY <1>4, <3>2, <5>2
        <5>3. QED BY <5>1, <5>2
      <4>2. QED BY <3>1, <4>1
    <3>3. lock'[x.rid] = u
      BY <1>1, <3>1
    <3>4. x.rid \notin todo'[u]
      BY <1>6, <1>7, <3>1
    <3>5. QED BY <1>1, <2>2, <3>1, <3>2, <3>3, <3>4 DEF x
  <2>3. QED BY <1>4, <2>1, <2>2
<1>9. Locked'
  <2> SUFFICES ASSUME NEW q \in Rid, lock'[q] # Nil
               PROVE  /\ ~Writes(lock[q], q)' => Same(q)'
                      /\ pc'[lock'[q]] \in Running => Writes(lock[q], q)'
    BY DEF Locked
  <2>1. CASE q = r
    <3>1. lock'[q] = t /\ n \in DOMAIN write_set'[t] /\ write_set'[t][n].rid = q
      BY <1>1, <1>3, <1>4, <2>1
    <3>2. Writes(lock[q], q)'
      BY <3>1 DEF Writes
    <3>3. QED BY <3>2
  <2>2. CASE q # r
    <3>1. lock'[q] = lock[q] /\ lock[q] \in Txn
      BY <1>1, <2>2
    <3>2. Writes(lock[q], q) => Writes(lock[q], q)'
      BY <1>4, <3>1 DEF Writes
    <3>3. pc'[lock[q]] \in Running => pc[lock[q]] \in Running
      BY <1>1, <1>6, <3>1 DEF Running
    <3>4. QED BY <1>1, <3>1, <3>2, <3>3 DEF Rows, Locked, Same
  <2>3. QED BY <2>1, <2>2
<1>10. Clean'
  BY <1>1, <1>4, <1>6, <1>7 DEF Rows, Clean, Running, Beginning
<1>11. Inserting'
  <2> SUFFICES ASSUME NEW u \in Txn, pc'[u] = "insert_lock", NEW q \in todo'[u]
               PROVE  /\ todo'[u] = {q}
                      /\ lock'[q] = Nil /\ shared'[q] \subseteq {u}
                      /\ slots'[q].used /\ ~durable'[q].used
                      /\ \A v \in Txn : pc'[v] = "insert_lock" /\ q \in todo'[v] => v = u
    BY DEF Inserting
  <2>1. u # t /\ pc[u] = "insert_lock" /\ q \in todo[u] /\ q \in Rid
    BY <1>6, <1>7
  <2>2. q # r
    BY <1>2, <2>1
  <2>3. lock'[q] = lock[q]
    BY <1>1, <2>2
  <2>4. \A v \in Txn : pc'[v] = "insert_lock" /\ q \in todo'[v] => pc[v] = "insert_lock" /\ q \in todo[v]
    BY <1>6, <1>7
  <2>5. QED BY <1>1, <1>6, <2>1, <2>3, <2>4 DEF Rows, Inserting
<1>12. Free'
  <2> SUFFICES ASSUME NEW q \in Rid, lock'[q] = Nil, Unlocked(q)' PROVE Same(q)'
    BY DEF Free
  <2>1. q # r /\ lock[q] = Nil
    BY <1>1, Constants
  <2>2. Unlocked(q)
    BY <1>2, <1>6, <2>1 DEF Unlocked
  <2>3. QED BY <1>1, <2>1, <2>2 DEF Rows, Free, Same
<1>13. QED BY <1>8, <1>9, <1>10, <1>11, <1>12 DEF Rows

LEMMA UndoWriteRows ==
    ASSUME Base, Rows, NEW t \in Txn, UndoWrite(t)
    PROVE  Rows'
<1> USE RowTypes DEF Base
<1> DEFINE n == Len(write_set[t])
           e == write_set[t][n]
           s == SubSeq(write_set[t], 1, n - 1)
           r == e.rid
<1>1. /\ pc[t] = "undo" /\ pc' = pc /\ write_set[t] # <<>> /\ slots' = Restored(e)
      /\ write_set' = [write_set EXCEPT ![t] = s]
      /\ UNCHANGED <<durable, shared, lock, todo, aborted>>
  BY DEF UndoWrite, ghosts, locks
<1>2. /\ n \in DOMAIN write_set[t] /\ e \in WriteRecords
      /\ DOMAIN s = DOMAIN write_set[t] \ {n} /\ \A i \in DOMAIN s : s[i] = write_set[t][i]
  <2>1. /\ n \in DOMAIN write_set[t] /\ e \in WriteRecords /\ DOMAIN write_set[t] = 1 .. n
        /\ DOMAIN s = 1 .. n - 1 /\ \A i \in DOMAIN s : s[i] = write_set[t][i]
    BY <1>1, LastRecord
  <2> HIDE DEF s, e
  <2>2. n \in Nat
    BY LenProperties
  <2> HIDE DEF n
  <2>3. QED BY <2>1, <2>2
<1>3. /\ r \in Rid /\ lock[r] = t
      /\ \A j \in DOMAIN write_set[t] : write_set[t][j].rid = r => j = n
      /\ IF e.type = "insert" THEN ~durable[r].used
         ELSE durable[r] = [used |-> TRUE, trx |-> e.trx, roll |-> e.roll]
  <2>1. r \in Rid
    BY <1>2
  <2>2. QED BY <1>2, <2>1 DEF Rows, Entries
<1> HIDE DEF s
<1>4. /\ \A q \in Rid : q # r => slots'[q] = slots[q]
      /\ slots'[r] = durable[r] \/ (~slots'[r].used /\ ~durable[r].used)
  <2>1. CASE e.type = "insert"
    <3>1. slots' = [slots EXCEPT ![r].used = FALSE]
      BY <1>1, <2>1 DEF Restored
    <3> HIDE DEF r
    <3>2. slots[r] \in SlotType
      BY <1>3
    <3>3. slots'[r].used = FALSE /\ \A q \in Rid : q # r => slots'[q] = slots[q]
      BY <1>3, <3>1, <3>2 DEF SlotType
    <3>4. QED BY <1>3, <2>1, <3>3
  <2>2. CASE e.type # "insert"
    <3>1. slots' = [slots EXCEPT ![r] = [used |-> TRUE, trx |-> e.trx, roll |-> e.roll]]
      BY <1>1, <2>2 DEF Restored
    <3> HIDE DEF r, e
    <3>2. QED BY <1>3, <2>2, <3>1
  <2>3. QED BY <2>1, <2>2
<1>5. /\ \A u \in Txn : u # t => write_set'[u] = write_set[u]
      /\ write_set'[t] = s
  BY <1>1
<1>6. \A u \in Txn : \A i \in DOMAIN write_set'[u] :
          i \in DOMAIN write_set[u] /\ write_set'[u][i] = write_set[u][i]
  BY <1>2, <1>5
<1> HIDE DEF n, e, r
<1>7. Entries'
  BY <1>1, <1>6 DEF Rows, Entries
<1>8. Locked'
  <2> SUFFICES ASSUME NEW q \in Rid, lock'[q] # Nil
               PROVE  /\ ~Writes(lock[q], q)' => Same(q)'
                      /\ pc'[lock'[q]] \in Running => Writes(lock[q], q)'
    BY DEF Locked
  <2>1. lock'[q] = lock[q] /\ lock[q] \in Txn
    BY <1>1
  <2>2. CASE q = r
    <3>1. Same(q)'
      BY <1>1, <1>4, <2>2 DEF Same
    <3>2. pc'[lock'[q]] \notin Running
      BY <1>1, <1>3, <2>2 DEF Running, Beginning
    <3>3. QED BY <3>1, <3>2
  <2>3. CASE q # r
    <3>1. Writes(lock[q], q) => Writes(lock[q], q)'
      <4> SUFFICES ASSUME NEW i \in DOMAIN write_set[lock[q]], write_set[lock[q]][i].rid = q
                   PROVE  Writes(lock[q], q)'
        BY DEF Writes
      <4>1. CASE lock[q] # t
        BY <1>5, <2>1, <4>1 DEF Writes
      <4>2. CASE lock[q] = t
        <5>1. i # n
          BY <2>3, <4>2 DEF n, e, r
        <5>2. i \in DOMAIN s /\ s[i].rid = q
          BY <1>2, <4>2, <5>1
        <5>3. QED BY <1>5, <2>1, <4>2, <5>2 DEF Writes
      <4>3. QED BY <4>1, <4>2
    <3>2. slots'[q] = slots[q]
      BY <1>4, <2>3
    <3>3. QED BY <1>1, <2>1, <3>1, <3>2 DEF Rows, Locked, Same
  <2>4. QED BY <2>2, <2>3
<1>9. Clean'
  BY <1>1, <1>5 DEF Rows, Clean, Running, Beginning
<1>10. Inserting'
  <2>1. \A q \in Rid : lock[q] = Nil => slots'[q] = slots[q]
    BY <1>3, <1>4, Constants
  <2>2. QED BY <1>1, <2>1 DEF Rows, Inserting
<1>11. Free'
  <2>1. \A q \in Rid : lock[q] = Nil => slots'[q] = slots[q]
    BY <1>3, <1>4, Constants
  <2>2. QED BY <1>1, <2>1 DEF Rows, Free, Unlocked, Same
<1>12. QED BY <1>7, <1>8, <1>9, <1>10, <1>11 DEF Rows

LEMMA ReleaseRows ==
    ASSUME Base, Rows, NEW t \in Txn, Release(t)
    PROVE  Rows'
<1> USE RowTypes DEF Base
<1>1. /\ pc[t] = "release" /\ pc' = [pc EXCEPT ![t] = "state"]
      /\ lock' = [r \in Rid |-> IF lock[r] = t THEN Nil ELSE lock[r]]
      /\ shared' = [r \in Rid |-> shared[r] \ {t}]
      /\ write_set' = [write_set EXCEPT ![t] = <<>>]
      /\ durable' = IF t \in aborted THEN durable
                    ELSE [r \in Rid |-> IF lock[r] = t THEN slots[r] ELSE durable[r]]
      /\ UNCHANGED <<slots, todo, aborted>>
  BY DEF Release, Goto
<1>2. /\ \A u \in Txn : u # t => pc'[u] = pc[u] /\ write_set'[u] = write_set[u]
      /\ pc'[t] = "state" /\ write_set'[t] = <<>> /\ DOMAIN write_set'[t] = {}
  BY <1>1
<1>3. \A r \in Rid : lock[r] # t => lock'[r] = lock[r] /\ durable'[r] = durable[r]
  BY <1>1
<1>4. \A r \in Rid : lock[r] = t => lock'[r] = Nil /\ Same(r)'
  <2> SUFFICES ASSUME NEW r \in Rid, lock[r] = t PROVE lock'[r] = Nil /\ Same(r)'
    OBVIOUS
  <2>1. lock'[r] = Nil
    BY <1>1
  <2>2. CASE t \in aborted
    <3>1. ~Writes(t, r)
      BY <2>2 DEF Rows, Clean, Writes
    <3>2. Same(r)
      BY <3>1, Constants DEF Rows, Locked
    <3>3. QED BY <1>1, <2>1, <2>2, <3>2 DEF Same
  <2>3. CASE t \notin aborted
    BY <1>1, <2>1, <2>3 DEF Same
  <2>4. QED BY <2>2, <2>3
<1>5. Entries'
  <2> SUFFICES ASSUME NEW u \in Txn, NEW i \in DOMAIN write_set'[u]
               PROVE  LET x == write_set'[u][i] IN
                      /\ lock'[x.rid] = u /\ x.rid \notin todo'[u]
                      /\ \A j \in DOMAIN write_set'[u] : write_set'[u][j].rid = x.rid => j = i
                      /\ IF x.type = "insert" THEN ~durable'[x.rid].used
                         ELSE durable'[x.rid] = [used |-> TRUE, trx |-> x.trx, roll |-> x.roll]
    BY DEF Entries
  <2>1. u # t /\ write_set'[u] = write_set[u] /\ i \in DOMAIN write_set[u]
    BY <1>2
  <2>2. write_set[u][i].rid \in Rid /\ lock[write_set[u][i].rid] = u
    BY <2>1 DEF Rows, Entries
  <2>3. QED BY <1>1, <1>3, <2>1, <2>2 DEF Rows, Entries
<1>6. Locked'
  <2> SUFFICES ASSUME NEW q \in Rid, lock'[q] # Nil
               PROVE  /\ ~Writes(lock[q], q)' => Same(q)'
                      /\ pc'[lock'[q]] \in Running => Writes(lock[q], q)'
    BY DEF Locked
  <2>1. lock[q] # t /\ lock'[q] = lock[q] /\ lock[q] \in Txn
    BY <1>3, <1>4
  <2>2. Writes(lock[q], q)' <=> Writes(lock[q], q)
    BY <1>2, <2>1 DEF Writes
  <2>3. QED BY <1>1, <1>2, <1>3, <2>1, <2>2 DEF Rows, Locked, Same
<1>7. Clean'
  BY <1>1, <1>2 DEF Rows, Clean, Running, Beginning
<1>8. Inserting'
  <2>1. \A u \in Txn : pc'[u] = "insert_lock" <=> pc[u] = "insert_lock"
    BY <1>1, <1>2
  <2>2. \A q \in Rid : lock[q] = Nil => lock'[q] = Nil /\ durable'[q] = durable[q]
    BY <1>3, Constants
  <2>3. \A q \in Rid : shared'[q] \subseteq shared[q]
    BY <1>1
  <2>4. QED BY <1>1, <2>1, <2>2, <2>3 DEF Rows, Inserting
<1>9. Free'
  <2> SUFFICES ASSUME NEW q \in Rid, lock'[q] = Nil, Unlocked(q)' PROVE Same(q)'
    BY DEF Free
  <2>1. Unlocked(q)
    BY <1>1, <1>2 DEF Unlocked
  <2>2. CASE lock[q] = t
    BY <1>4, <2>2
  <2>3. CASE lock[q] # t
    BY <1>1, <1>3, <2>1, <2>3 DEF Rows, Free, Same
  <2>4. QED BY <2>2, <2>3
<1>10. QED BY <1>5, <1>6, <1>7, <1>8, <1>9 DEF Rows

\* The rest neither writes nor locks.
LEMMA BeginRows ==
    ASSUME Base, Rows, NEW t \in Txn, Begin(t)
    PROVE  Rows'
<1>1. TypeOK
  BY DEF Base
<1>2. pc[t] \in Beginning
  <2>1. CASE BeginId(t)
    <3>1. pc[t] = "none"
      BY <2>1, Constants DEF Base, BeginId, Ids, Txn
    <3>2. QED BY <3>1 DEF Beginning
  <2>2. QED
    BY <2>1 DEF Begin, BeginReadTs, AddTxn, BeginLowLimit, BeginActiveIds, BeginRegister, Beginning
<1>3. PICK p \in Running : pc' = [pc EXCEPT ![t] = p]
  BY DEF Begin, BeginId, BeginReadTs, AddTxn, BeginLowLimit, BeginActiveIds, BeginRegister, Goto,
     Beginning, Running
<1>4. p # "insert_lock"
  <2>1. pc'[t] # "insert_lock"
    BY <1>1, RowTypes DEF Begin, BeginId, BeginReadTs, AddTxn, BeginLowLimit, BeginActiveIds,
       BeginRegister, Goto
  <2>2. QED BY <1>1, <1>3, <2>1, RowTypes
<1>5. UNCHANGED <<slots, durable, lock, shared, write_set, todo, aborted>>
  BY DEF Begin, BeginId, BeginReadTs, AddTxn, BeginLowLimit, BeginActiveIds, BeginRegister,
     table, locks, work, ghosts
<1>6. t \notin aborted
  BY <1>2 DEF Rows, Clean, Running
<1>7. pc[t] # "insert_lock" /\ pc[t] \in Running
  BY <1>2 DEF Beginning, Running
<1>8. QED BY <1>1, <1>2, <1>3, <1>4, <1>5, <1>6, <1>7, RowsKept

LEMMA StatementRows ==
    ASSUME Base, Rows, NoUnlockedInsert', NEW t \in Txn, Statement(t)
    PROVE  Rows'
<1>1. TypeOK
  BY DEF Base
<1>2. CASE ScanEnd(t)
  <2>1. /\ pc[t] = "scan" /\ pc' = [pc EXCEPT ![t] = "run"]
        /\ UNCHANGED <<slots, durable, lock, shared, write_set, todo, aborted>>
    BY <1>2 DEF ScanEnd, Goto, table, locks, work, ghosts
  <2>2. /\ t \notin aborted /\ "run" \in Running /\ pc[t] \in Running
        /\ "run" \notin Beginning \cup {"scan"}
    BY <2>1 DEF Rows, Clean, Running, Beginning
  <2>3. QED BY <1>1, <2>1, <2>2, RowsKept
<1>3. CASE Victim(t)
  <2>1. /\ pc[t] \in {"scan", "run", "insert_lock"} /\ pc' = [pc EXCEPT ![t] = "undo"]
        /\ todo' = [todo EXCEPT ![t] = {}]
        /\ UNCHANGED <<slots, durable, lock, shared, write_set, aborted>>
    BY <1>3 DEF Victim, Goto, table, locks, ghosts
  <2>2. pc[t] # "insert_lock"
    <3> SUFFICES ASSUME pc[t] = "insert_lock" PROVE FALSE
      OBVIOUS
    <3>1. PICK r \in todo[t] : ~CanLock(t, r)
      BY <1>3 DEF Victim
    <3>2. lock[r] = Nil /\ shared[r] \subseteq {t}
      BY DEF Rows, Inserting
    <3>3. QED BY <3>1, <3>2 DEF CanLock, CanRead
  <2>3. t \notin aborted /\ "undo" \notin Running
    BY <2>1 DEF Rows, Clean, Running, Beginning
  <2>4. "undo" \notin Beginning \cup {"scan"}
    BY DEF Beginning
  <2>5. QED BY <1>1, <2>1, <2>2, <2>3, <2>4, RowsKept
<1>4. CASE Fail(t)
  <2>1. PICK p \in {"ended", "release"} : pc' = [pc EXCEPT ![t] = p]
    BY <1>4 DEF Fail, Goto
  <2>2. /\ pc[t] \in {"scan", "run"} /\ todo' = [todo EXCEPT ![t] = {}]
        /\ UNCHANGED <<slots, durable, lock, shared, write_set, aborted>>
    BY <1>4 DEF Fail, table, locks, ghosts
  <2>3. t \notin aborted /\ p \notin Running /\ p \notin Beginning \cup {"scan"}
    BY <2>1, <2>2 DEF Rows, Clean, Running, Beginning
  <2>4. QED BY <1>1, <2>1, <2>2, <2>3, RowsKept
<1>5. CASE Commit(t)
  <2>1. /\ pc[t] = "run" /\ pc' = [pc EXCEPT ![t] = "release"]
        /\ UNCHANGED <<slots, durable, lock, shared, write_set, todo, aborted>>
    BY <1>5 DEF Commit, Goto, table, locks, work, ghosts
  <2>2. t \notin aborted /\ "release" \notin Running /\ "release" \notin Beginning \cup {"scan"}
    BY <2>1 DEF Rows, Clean, Running, Beginning
  <2>3. QED BY <1>1, <2>1, <2>2, RowsKept
<1>6. QED
  BY <1>2, <1>3, <1>4, <1>5, ScanRows, WriteRows, InsertSlotRows, InsertLockRows DEF Statement

LEMMA EndRows ==
    ASSUME Base, Rows, NEW t \in Txn, End(t)
    PROVE  Rows'
<1>1. TypeOK
  BY DEF Base
<1>2. CASE UndoEnd(t)
  <2>1. /\ pc[t] = "undo" /\ pc' = [pc EXCEPT ![t] = "release"] /\ write_set[t] = <<>>
        /\ aborted' = aborted \cup {t}
        /\ UNCHANGED <<slots, durable, lock, shared, write_set, todo>>
    BY <1>2 DEF UndoEnd, Goto, table, locks, work
  <2>2. "release" \notin Running \cup {"undo"} /\ "release" \notin Beginning \cup {"scan"}
    BY DEF Running, Beginning
  <2>3. QED BY <1>1, <2>1, <2>2, RowsKept
<1> DEFINE Stages == {"state", "stamp", "remove", "update", "gc", "collect", "ended", "done", "release"}
<1>3. ASSUME pc[t] \in Stages, NEW p \in Stages, pc' = [pc EXCEPT ![t] = p],
             UNCHANGED <<slots, durable, lock, shared, write_set, todo, aborted>>
      PROVE  Rows'
  <2>1. /\ p \notin Running \cup {"undo"} /\ p \notin Beginning \cup {"scan"}
        /\ p # "insert_lock" /\ pc[t] # "insert_lock"
    BY <1>3 DEF Running, Beginning
  <2>2. t \in aborted => write_set[t] = <<>>
    BY DEF Rows, Clean
  <2> HIDE DEF Stages
  <2>3. QED BY <1>1, <1>3, <2>1, <2>2, RowsKept
<1>4. ASSUME EndState(t) \/ EndCommitTs(t) \/ RemoveTxn(t) \/ CommitAborted(t) \/ ThreadIdle(t)
      PROVE  Rows'
  <2>1. pc[t] \in Stages /\ \E p \in Stages : pc' = [pc EXCEPT ![t] = p]
    BY <1>4 DEF EndState, EndCommitTs, RemoveTxn, CommitAborted, ThreadIdle, Goto
  <2>2. UNCHANGED <<slots, durable, lock, shared, write_set, todo, aborted>>
    BY <1>4 DEF EndState, EndCommitTs, RemoveTxn, CommitAborted, ThreadIdle,
       table, locks, work, ghosts
  <2> HIDE DEF Stages
  <2>3. QED BY <1>3, <2>1, <2>2
<1>5. ASSUME UpdateCommitTs(t) \/ GcMinimum(t) \/ GcCollect(t)
      PROVE  Rows'
  <2>1. pc[t] \in Stages /\ \E p \in Stages : pc' = [pc EXCEPT ![t] = p]
    BY <1>5 DEF UpdateCommitTs, GcMinimum, GcCollect, Goto
  <2>2. UNCHANGED <<slots, durable, lock, shared, write_set, todo, aborted>>
    BY <1>5 DEF UpdateCommitTs, GcMinimum, GcCollect, table, locks, work, ghosts
  <2> HIDE DEF Stages
  <2>3. QED BY <1>3, <2>1, <2>2
<1>6. QED BY <1>2, <1>4, <1>5, UndoWriteRows, ReleaseRows DEF End

LEMMA RowsStep == Base /\ Rows /\ [Next]_vars /\ NoUnlockedInsert' => Rows'
<1>1. ASSUME Rows, UNCHANGED vars PROVE Rows'
  BY <1>1 DEF Rows, Entries, Locked, Clean, Inserting, Free, Writes, Same, Unlocked,
     vars, table, locks, work, ghosts
<1>2. QED BY <1>1, BeginRows, StatementRows, EndRows DEF Next

\* A fault that has occurred is not forgotten.
LEMMA FaultsStay == [Next]_vars => faults \subseteq faults'
<1>1. ASSUME NEW t \in Txn, Begin(t) PROVE faults \subseteq faults'
  BY <1>1 DEF Begin, BeginId, BeginReadTs, AddTxn, BeginLowLimit, BeginActiveIds, BeginRegister,
     ghosts
<1>2. ASSUME NEW t \in Txn, Statement(t) PROVE faults \subseteq faults'
  <2>1. ASSUME NEW r \in Rid, WriteRecord(t, r) \/ InsertLock(t, r) PROVE faults \subseteq faults'
    BY <2>1 DEF WriteRecord, InsertLock, ghosts
  <2>2. ASSUME NEW r \in Rid, ScanRecord(t, r) \/ ReadRecord(t, r) \/ InsertSlot(t, r)
        PROVE  faults \subseteq faults'
    BY <2>2 DEF ScanRecord, ReadRecord, InsertSlot, Seen
  <2>3. ASSUME ScanEnd(t) \/ Victim(t) \/ Fail(t) \/ Commit(t) PROVE faults \subseteq faults'
    BY <2>3 DEF ScanEnd, Victim, Fail, Commit, ghosts
  <2>4. QED BY <1>2, <2>1, <2>2, <2>3 DEF Statement
<1>3. ASSUME NEW t \in Txn, End(t) PROVE faults \subseteq faults'
  BY <1>3 DEF End, UndoWrite, UndoEnd, Release, EndState, EndCommitTs, RemoveTxn, UpdateCommitTs,
     GcMinimum, GcCollect, CommitAborted, ThreadIdle, ghosts
<1>4. CASE UNCHANGED vars
  BY <1>4 DEF vars, ghosts
<1>5. QED BY <1>1, <1>2, <1>3, <1>4 DEF Next

LEMMA Invariant == Spec => []IInv
<1>1. Init => IInv
  BY InitBase, InitClock, InitRows DEF IInv
<1>2. IInv /\ [Next]_vars => IInv'
  <2> SUFFICES ASSUME IInv, [Next]_vars PROVE IInv'
    OBVIOUS
  <2>1. Base' /\ Clock'
    BY BaseStep, ClockStep DEF IInv
  <2>2. NoUnlockedInsert' => Rows'
    BY RowsStep, FaultsStay DEF IInv, NoUnlockedInsert
  <2>3. QED BY <2>1, <2>2 DEF IInv
<1>3. QED BY <1>1, <1>2, PTL DEF Spec

-----------------------------------------------------------------------------
\* Every reachable state is well typed: in particular no version is ever restored or
\* copied to an undo log without its writer and its link, and no transaction is
\* registered again after it has been deleted.
THEOREM TypeCorrect == Spec => []TypeOK
<1>1. IInv => TypeOK
  BY DEF IInv, Base
<1>2. QED BY <1>1, Invariant, PTL

\* The watermark is the oldest read time stamp of the transactions under way, in
\* whatever order AddTxn, RemoveTxn and UpdateCommitTs of different threads come.
THEOREM Watermark == Spec => []WatermarkIsOldestRead
<1>1. IInv => WatermarkIsOldestRead
  BY DEF IInv, Clock
<1>2. QED BY <1>1, Invariant, PTL

\* GarbageCollection deletes only transactions their threads have done with, as long
\* as none is collected between its final state and its commit time stamp.
THEOREM FreedAreDone == Spec => []FreedIsUnused
<1>1. IInv => FreedIsUnused
  BY DEF IInv, Clock
<1>2. QED BY <1>1, Invariant, PTL

\* A record that nobody writes is as the last committed transaction left it: abort
\* puts back what update_record, delete_record and insert_record have changed.
THEOREM RollbackRestores == Spec => []UnlockedRowsAreCommitted
<1>1. IInv => UnlockedRowsAreCommitted
  BY DEF IInv, NoUnlockedInsert, Rows, Free, Same, UnlockedRowsAreCommitted
<1>2. QED BY <1>1, Invariant, PTL

-----------------------------------------------------------------------------
(***************************************************************************)
(* What a SELECT reads.  What it reads through its ReadView was committed, *)
(* and it keeps its snapshot: the versions of a record form a chain        *)
(* through the undo logs, which writers and rollbacks lengthen and shorten *)
(* at its head, and only where the reader does not look.                   *)
(***************************************************************************)

(***************************************************************************)
(* What is read was committed.                                             *)
(***************************************************************************)


\* A transaction before it has its ReadView.
Viewless == Beginning \ {"register"}

\* The state of a transaction follows its thread.
States ==
    \A t \in Txn :
        /\ pc[t] \in Running => state[t] \in {"DEFAULT", "GROWING"}
        /\ pc[t] # "none" => state[t] # "DEFAULT"
        /\ pc[t] \in {"undo", "release"} => state[t] = "SHRINKING"
        /\ state[t] = "ABORTED" => t \in aborted

\* Once a transaction has ended it stays so: the second commit of an aborted one
\* changes nothing.
HasEnded(w) == w \in aborted \/ HasCommitted(w)

\* Who has been registered and is no longer in the map has ended.
Gone == \A w \in Txn : pc[w] \notin Beginning /\ w \notin txn_map => HasEnded(w)

\* Of the ids below low_limit_id_, those that are not in active_ids_ have ended.
Views ==
    /\ \A t \in Txn : view[t].low <= next_txn_id
    /\ "begin_race" \notin faults =>
           \A t \in Txn : pc[t] \notin Viewless =>
               \A w \in Txn : w < view[t].low /\ w # t => w \in view[t].active \/ HasEnded(w)

Reads == States /\ Gone /\ Views

-----------------------------------------------------------------------------
Inserts(t, r) == pc[t] = "insert_lock" /\ r \in todo[t]

\* Who has written a record, or is about to lock the one it has inserted, is its
\* writer; a SELECT writes nothing.
Own ==
    /\ \A t \in Txn, r \in Rid :
           slots[r].used /\ (Writes(t, r) \/ Inserts(t, r)) => slots[r].trx = t
    /\ \A t \in Txn : kind[t] = "select" => write_set[t] = <<>> /\ pc[t] # "insert_lock"

\* What has been committed is of committed transactions, and so are all old versions,
\* those in the undo logs of transactions that are rolled back among them.
Kept == \A r \in Rid : durable[r].used => durable[r].trx \in Txn /\ HasCommitted(durable[r].trx)
Logged == \A t \in Txn : \A i \in DOMAIN undo[t] : HasCommitted(undo[t][i].trx)

Written == Own /\ Kept /\ Logged

RInv == Reads /\ (NoUnlockedInsert => Written)

-----------------------------------------------------------------------------
(* How a transaction ends *)

LEMMA ViewTypes ==
    ASSUME TypeOK
    PROVE  /\ pc \in [Txn -> PcType] /\ aborted \subseteq Txn
           /\ state \in [Txn -> {"DEFAULT", "GROWING", "SHRINKING", "COMMITTED", "ABORTED"}]
           /\ kind \in [Txn -> {"select", "update", "insert", "delete"}]
           /\ view \in [Txn -> [low : Nat, active : SUBSET Txn]]
           /\ txn_map \subseteq Txn /\ next_txn_id \in Int
           /\ \A t \in Txn : t \in Int /\ view[t].low \in Int /\ view[t].active \subseteq Txn
<1>1. /\ view \in [Txn -> [low : Nat, active : SUBSET Txn]] /\ next_txn_id \in 1 .. MaxTxn + 1
      /\ pc \in [Txn -> PcType] /\ aborted \subseteq Txn /\ txn_map \subseteq Txn
      /\ state \in [Txn -> {"DEFAULT", "GROWING", "SHRINKING", "COMMITTED", "ABORTED"}]
      /\ kind \in [Txn -> {"select", "update", "insert", "delete"}]
  BY DEF TypeOK
<1>2. next_txn_id \in Int
  BY <1>1, Constants
<1>3. \A t \in Txn : t \in Int /\ view[t].low \in Int /\ view[t].active \subseteq Txn
  BY <1>1, Constants
<1>4. QED BY <1>1, <1>2, <1>3

\* What a step of t does to its state, and to nobody else's.
Moved(t) ==
    /\ \A u \in Txn \ {t} : pc'[u] = pc[u] /\ state'[u] = state[u]
    /\ aborted' = aborted \/ aborted' = aborted \cup {t}
    /\ pc'[t] \in Running => state'[t] \in {"DEFAULT", "GROWING"}
    /\ pc'[t] # "none" /\ state'[t] # "DEFAULT"
    /\ pc'[t] \in {"undo", "release"} => state'[t] = "SHRINKING"
    /\ state'[t] = "ABORTED" => t \in aborted'
    /\ HasCommitted(t) => HasCommitted(t)'

LEMMA BeginMoves ==
    ASSUME Base, States, NEW t \in Txn, Begin(t)
    PROVE  Moved(t)
<1> USE ViewTypes DEF Base
<1>1. CASE BeginId(t)
  <2>1. pc[t] = "none"
    BY <1>1, Constants DEF BeginId, Ids, Txn
  <2>2. /\ pc' = [pc EXCEPT ![t] = "read_ts"] /\ state' = [state EXCEPT ![t] = "GROWING"]
        /\ aborted' = aborted
    BY <1>1 DEF BeginId, Goto, ghosts
  <2>3. state[t] \in {"DEFAULT", "GROWING"}
    BY <2>1 DEF States, Running, Beginning
  <2>4. QED BY <2>2, <2>3 DEF Moved, HasCommitted
<1>2. ASSUME BeginReadTs(t) \/ AddTxn(t) \/ BeginLowLimit(t) \/ BeginActiveIds(t) \/ BeginRegister(t)
      PROVE  Moved(t)
  <2>1. pc[t] \in Running \ {"none"} /\ pc'[t] \in Running \ {"none"}
    BY <1>2 DEF BeginReadTs, AddTxn, BeginLowLimit, BeginActiveIds, BeginRegister, Goto,
       Running, Beginning
  <2>2. /\ \A u \in Txn \ {t} : pc'[u] = pc[u]
        /\ UNCHANGED <<state, aborted>>
    BY <1>2 DEF BeginReadTs, AddTxn, BeginLowLimit, BeginActiveIds, BeginRegister, Goto, ghosts
  <2>3. state[t] = "GROWING" /\ pc'[t] \notin {"undo", "release"}
    BY <2>1 DEF States, Running, Beginning
  <2>4. QED BY <2>1, <2>2, <2>3 DEF Moved, HasCommitted
<1>3. QED BY <1>1, <1>2 DEF Begin

LEMMA StatementMoves ==
    ASSUME Base, States, NEW t \in Txn, Statement(t)
    PROVE  Moved(t)
<1> USE ViewTypes DEF Base
<1>1. ASSUME pc[t] \in Running \ {"none"}, pc'[t] \in Running \ {"none"},
             \A u \in Txn \ {t} : pc'[u] = pc[u], UNCHANGED <<state, aborted>>
      PROVE  Moved(t)
  <2>1. state[t] = "GROWING" /\ pc'[t] \notin {"undo", "release"}
    BY <1>1 DEF States, Running, Beginning
  <2>2. QED BY <1>1, <2>1 DEF Moved, HasCommitted
<1>2. ASSUME NEW r \in Rid, ScanRecord(t, r) \/ ReadRecord(t, r) \/ WriteRecord(t, r)
      PROVE  Moved(t)
  <2>1. pc[t] \in {"scan", "run"} /\ UNCHANGED <<pc, state, aborted>>
    BY <1>2 DEF ScanRecord, ReadRecord, WriteRecord, ghosts
  <2>2. QED BY <1>1, <2>1 DEF Running, Beginning
<1>3. ASSUME NEW r \in Rid, InsertSlot(t, r) \/ InsertLock(t, r)
      PROVE  Moved(t)
  <2>1. /\ pc[t] \in {"run", "insert_lock"} /\ pc'[t] \in {"run", "insert_lock"}
        /\ \A u \in Txn \ {t} : pc'[u] = pc[u]
        /\ UNCHANGED <<state, aborted>>
    BY <1>3 DEF InsertSlot, InsertLock, Goto, ghosts
  <2>2. QED BY <1>1, <2>1 DEF Running, Beginning
<1>4. CASE ScanEnd(t)
  <2>1. /\ pc[t] = "scan" /\ pc'[t] = "run" /\ \A u \in Txn \ {t} : pc'[u] = pc[u]
        /\ UNCHANGED <<state, aborted>>
    BY <1>4 DEF ScanEnd, Goto, ghosts
  <2>2. QED BY <1>1, <2>1 DEF Running, Beginning
<1>5. CASE Victim(t) \/ Fail(t) \/ Commit(t)
  <2>1. pc[t] \in {"scan", "run", "insert_lock"} /\ aborted' = aborted
    BY <1>5 DEF Victim, Fail, Commit, ghosts
  <2>2. state[t] = "GROWING"
    BY <2>1 DEF States, Running, Beginning
  <2>3. \A u \in Txn \ {t} : pc'[u] = pc[u] /\ state'[u] = state[u]
    BY <1>5 DEF Victim, Fail, Commit, Goto
  <2>4. \/ pc'[t] \in {"undo", "release"} /\ state'[t] = "SHRINKING"
        \/ pc'[t] = "ended" /\ state'[t] = state[t]
    BY <1>5 DEF Victim, Fail, Commit, Goto
  <2>5. QED BY <2>1, <2>2, <2>3, <2>4 DEF Moved, HasCommitted, Running, Beginning
<1>6. QED BY <1>2, <1>3, <1>4, <1>5 DEF Statement

LEMMA EndMoves ==
    ASSUME Base, States, NEW t \in Txn, End(t)
    PROVE  Moved(t)
<1> USE ViewTypes DEF Base
<1>1. CASE UndoWrite(t)
  BY <1>1 DEF UndoWrite, ghosts, States, Moved, HasCommitted, Running, Beginning
<1>2. CASE UndoEnd(t)
  BY <1>2 DEF UndoEnd, Goto, States, Moved, HasCommitted, Running, Beginning
<1>3. CASE Release(t)
  BY <1>3 DEF Release, Goto, States, Moved, HasCommitted, Running, Beginning
<1>4. CASE EndState(t)
  BY <1>4 DEF EndState, Goto, ghosts, States, Moved, HasCommitted, Running, Beginning
<1>5. CASE CommitAborted(t)
  BY <1>5 DEF CommitAborted, Goto, ghosts, States, Moved, HasCommitted, Running, Beginning
<1>6. ASSUME EndCommitTs(t) \/ RemoveTxn(t) \/ UpdateCommitTs(t) \/ GcMinimum(t) \/ GcCollect(t)
             \/ ThreadIdle(t)
      PROVE  Moved(t)
  <2>1. /\ pc[t] \in {"stamp", "remove", "update", "gc", "collect", "ended"}
        /\ pc'[t] \in {"remove", "update", "gc", "collect", "ended", "done"}
        /\ \A u \in Txn \ {t} : pc'[u] = pc[u]
        /\ UNCHANGED <<state, aborted>>
    BY <1>6 DEF EndCommitTs, RemoveTxn, UpdateCommitTs, GcMinimum, GcCollect, ThreadIdle,
       Goto, ghosts
  <2>2. QED BY <2>1 DEF States, Moved, HasCommitted, Running, Beginning
<1>7. QED BY <1>1, <1>2, <1>3, <1>4, <1>5, <1>6 DEF End

LEMMA Moves ==
    ASSUME Base, States, NEW t \in Txn, Begin(t) \/ Statement(t) \/ End(t)
    PROVE  Moved(t)
BY BeginMoves, StatementMoves, EndMoves

\* The state follows the thread, and what has committed or ended has done so for good.
LEMMA StatesStep ==
    ASSUME Base, States, NEW t \in Txn, Moved(t)
    PROVE  /\ States'
           /\ \A w \in Txn : HasCommitted(w) => HasCommitted(w)'
           /\ \A w \in Txn : HasEnded(w) => HasEnded(w)'
<1>1. States'
  BY DEF States, Moved
<1>2. \A w \in Txn : HasCommitted(w) => HasCommitted(w)'
  BY DEF HasCommitted, Moved
<1>3. \A w \in Txn : HasEnded(w) => HasEnded(w)'
  BY <1>2 DEF HasEnded, Moved
<1>4. QED BY <1>1, <1>2, <1>3

-----------------------------------------------------------------------------
(* What a view takes for committed has ended *)

\* What most steps of t leave of the map and of the views.
Viewed(t) ==
    /\ \A u \in Txn \ {t} : view'[u] = view[u]
    /\ pc'[t] \notin Viewless => pc[t] \notin Viewless /\ view'[t] = view[t]
    /\ view'[t] = view[t] \/ view'[t].low = next_txn_id
    /\ next_txn_id' \in Int /\ next_txn_id <= next_txn_id'
    /\ txn_map \subseteq txn_map'
    /\ pc[t] \in Beginning => pc'[t] \in Beginning \/ t \in txn_map'

LEMMA BeginViewed ==
    ASSUME Base, NEW t \in Txn, Begin(t), ~BeginActiveIds(t)
    PROVE  Viewed(t)
<1> USE ViewTypes DEF Base
<1>1. CASE BeginId(t)
  <2>1. pc'[t] = "read_ts" /\ next_txn_id' = next_txn_id + 1 /\ UNCHANGED <<view, txn_map>>
    BY <1>1 DEF BeginId, Goto
  <2>2. QED BY <2>1 DEF Viewed, Viewless, Beginning
<1>2. CASE BeginReadTs(t) \/ AddTxn(t)
  <2>1. pc'[t] \in {"add", "low_limit"} /\ UNCHANGED <<next_txn_id, view, txn_map>>
    BY <1>2 DEF BeginReadTs, AddTxn, Goto, clocks
  <2>2. QED BY <2>1 DEF Viewed, Viewless, Beginning
<1>3. CASE BeginLowLimit(t)
  <2>1. /\ pc'[t] = "active_ids" /\ view' = [view EXCEPT ![t].low = next_txn_id]
        /\ UNCHANGED <<next_txn_id, txn_map>>
    BY <1>3 DEF BeginLowLimit, Goto, clocks
  <2>2. view'[t].low = next_txn_id /\ \A u \in Txn \ {t} : view'[u] = view[u]
    BY <2>1
  <2>3. QED BY <2>1, <2>2 DEF Viewed, Viewless, Beginning
<1>4. CASE BeginRegister(t)
  <2>1. /\ pc[t] = "register" /\ txn_map' = txn_map \cup {t} /\ UNCHANGED <<next_txn_id, view>>
    BY <1>4 DEF BeginRegister, clocks
  <2>2. QED BY <2>1 DEF Viewed, Viewless, Beginning
<1>5. QED BY <1>1, <1>2, <1>3, <1>4 DEF Begin

LEMMA LaterViewed ==
    ASSUME Base, NEW t \in Txn, Statement(t) \/ End(t), ~GcCollect(t)
    PROVE  Viewed(t)
<1> USE ViewTypes DEF Base
<1>1. pc[t] \notin Beginning
  <2>1. ASSUME NEW r \in Rid, \/ ScanRecord(t, r) \/ ReadRecord(t, r) \/ WriteRecord(t, r)
                              \/ InsertSlot(t, r) \/ InsertLock(t, r)
        PROVE  pc[t] \notin Beginning
    BY <2>1 DEF ScanRecord, ReadRecord, WriteRecord, InsertSlot, InsertLock, Beginning
  <2>2. ASSUME ScanEnd(t) \/ Victim(t) \/ Fail(t) \/ Commit(t)
        PROVE  pc[t] \notin Beginning
    BY <2>2 DEF ScanEnd, Victim, Fail, Commit, Beginning
  <2>3. CASE End(t)
    BY <2>3 DEF End, UndoWrite, UndoEnd, Release, EndState, EndCommitTs, RemoveTxn, UpdateCommitTs,
       GcMinimum, CommitAborted, ThreadIdle, Beginning
  <2>4. QED BY <2>1, <2>2, <2>3 DEF Statement
<1>2. UNCHANGED <<next_txn_id, view, txn_map>>
  <2>1. ASSUME NEW r \in Rid, \/ ScanRecord(t, r) \/ ReadRecord(t, r) \/ WriteRecord(t, r)
                              \/ InsertSlot(t, r) \/ InsertLock(t, r)
        PROVE  UNCHANGED <<next_txn_id, view, txn_map>>
    BY <2>1 DEF ScanRecord, ReadRecord, WriteRecord, InsertSlot, InsertLock, clocks
  <2>2. ASSUME ScanEnd(t) \/ Victim(t) \/ Fail(t) \/ Commit(t)
        PROVE  UNCHANGED <<next_txn_id, view, txn_map>>
    BY <2>2 DEF ScanEnd, Victim, Fail, Commit, clocks
  <2>3. CASE End(t)
    BY <2>3 DEF End, UndoWrite, UndoEnd, Release, EndState, EndCommitTs, RemoveTxn, UpdateCommitTs,
       GcMinimum, CommitAborted, ThreadIdle, clocks
  <2>4. QED BY <2>1, <2>2, <2>3 DEF Statement
<1>3. QED BY <1>1, <1>2 DEF Viewed, Viewless

LEMMA ViewedReads ==
    ASSUME Base, Reads, NEW t \in Txn, Moved(t), Viewed(t), faults \subseteq faults'
    PROVE  Reads'
<1> USE ViewTypes DEF Base
<1>1. States' /\ \A w \in Txn : HasEnded(w) => HasEnded(w)'
  BY StatesStep DEF Reads
<1>2. Gone'
  BY <1>1 DEF Gone, Reads, Moved, Viewed
<1>3. \A u \in Txn : view'[u].low <= next_txn_id'
  <2> TAKE u \in Txn
  <2>1. view[u].low <= next_txn_id /\ (view'[u] = view[u] \/ view'[u].low = next_txn_id)
    BY DEF Reads, Views, Viewed
  <2>2. view'[u].low \in Int /\ view'[u].low <= next_txn_id
    BY <2>1
  <2>3. QED BY <2>2 DEF Viewed
<1>4. ASSUME "begin_race" \notin faults', NEW u \in Txn, pc'[u] \notin Viewless,
             NEW w \in Txn, w < view'[u].low, w # u
      PROVE  w \in view'[u].active \/ HasEnded(w)'
  <2>1. pc[u] \notin Viewless /\ view'[u] = view[u]
    BY <1>4 DEF Moved, Viewed
  <2>2. QED BY <1>1, <1>4, <2>1 DEF Reads, Views
<1>5. QED BY <1>1, <1>2, <1>3, <1>4 DEF Reads, Views

\* A transaction that was neither in the map nor on its way to it has ended, and so
\* has one whose state is not GROWING or SHRINKING.
LEMMA ActiveIdsReads ==
    ASSUME Base, Reads, NEW t \in Txn, BeginActiveIds(t)
    PROVE  Reads'
<1> USE ViewTypes DEF Base
<1>1. /\ pc[t] = "active_ids" /\ pc'[t] = "register"
      /\ view' = [view EXCEPT ![t].active = {u \in txn_map : state[u] \in {"GROWING", "SHRINKING"}}]
      /\ faults' = IF Unregistered(t) = {} THEN faults ELSE faults \cup {"begin_race"}
      /\ UNCHANGED <<next_txn_id, state, aborted, txn_map>>
  BY DEF BeginActiveIds, Goto, clocks
<1>2. Moved(t)
  BY Moves DEF Begin, Reads
<1>3. States' /\ \A w \in Txn : HasEnded(w) => HasEnded(w)'
  BY <1>2, StatesStep DEF Reads
<1>4. Gone'
  BY <1>1, <1>2, <1>3 DEF Gone, Reads, Moved, Beginning
<1>5. /\ \A u \in Txn \ {t} : view'[u] = view[u]
      /\ view'[t].low = view[t].low
      /\ view'[t].active = {u \in txn_map : state[u] \in {"GROWING", "SHRINKING"}}
  BY <1>1
<1>6. ASSUME Unregistered(t) = {}, NEW w \in Txn, w < view[t].low, w # t
      PROVE  w \in view'[t].active \/ HasEnded(w)
  <2>1. w < next_txn_id
    BY <1>6 DEF Reads, Views
  <2>2. pc[w] # "none"
    BY <2>1 DEF Ids
  <2>3. pc[w] \notin {"read_ts", "add", "low_limit", "active_ids", "register"}
    BY <1>6 DEF Unregistered
  <2>4. pc[w] \notin Beginning
    BY <2>2, <2>3 DEF Beginning
  <2>5. CASE w \notin txn_map
    BY <2>4, <2>5 DEF Reads, Gone
  <2>6. CASE w \in txn_map /\ state[w] \notin {"GROWING", "SHRINKING"}
    BY <2>2, <2>6 DEF Reads, States, HasEnded, HasCommitted
  <2>7. QED BY <1>5, <2>5, <2>6
<1>7. ASSUME "begin_race" \notin faults', NEW u \in Txn, pc'[u] \notin Viewless,
             NEW w \in Txn, w < view'[u].low, w # u
      PROVE  w \in view'[u].active \/ HasEnded(w)'
  <2>1. "begin_race" \notin faults /\ Unregistered(t) = {}
    BY <1>1, <1>7
  <2>2. CASE u = t
    BY <1>3, <1>5, <1>6, <1>7, <2>1, <2>2
  <2>3. CASE u # t
    <3>1. pc[u] \notin Viewless /\ view'[u] = view[u]
      BY <1>2, <1>5, <1>7, <2>3 DEF Moved
    <3>2. QED BY <1>3, <1>7, <2>1, <3>1 DEF Reads, Views
  <2>4. QED BY <2>2, <2>3
<1>8. \A u \in Txn : view'[u].low <= next_txn_id'
  BY <1>1, <1>5 DEF Reads, Views
<1>9. QED BY <1>3, <1>4, <1>7, <1>8 DEF Reads, Views

LEMMA CollectReads ==
    ASSUME Base, Reads, NEW t \in Txn, GcCollect(t)
    PROVE  Reads'
<1> USE ViewTypes DEF Base
<1>1. /\ pc[t] = "collect" /\ pc'[t] = "ended" /\ txn_map' = txn_map \ Collectable(t)
      /\ faults \subseteq faults' /\ UNCHANGED <<next_txn_id, view>>
  BY DEF GcCollect, Goto, clocks
<1>2. Moved(t)
  BY Moves DEF End, Reads
<1>3. States' /\ \A w \in Txn : HasEnded(w) => HasEnded(w)'
  BY <1>2, StatesStep DEF Reads
<1>4. \A w \in Collectable(t) : HasEnded(w)
  BY DEF Collectable, Reads, States, HasEnded, HasCommitted
<1>5. pc[t] \notin Viewless /\ pc[t] \notin Beginning
  BY <1>1 DEF Viewless, Beginning
<1>6. Gone'
  BY <1>1, <1>2, <1>3, <1>4, <1>5 DEF Gone, Reads, Moved
<1>7. Views'
  BY <1>1, <1>2, <1>3, <1>5 DEF Views, Reads, Moved
<1>8. QED BY <1>3, <1>6, <1>7 DEF Reads

LEMMA ReadsStep == Base /\ Reads /\ [Next]_vars => Reads'
<1>1. ASSUME Reads, UNCHANGED vars PROVE Reads'
  BY <1>1 DEF Reads, States, Gone, Views, HasEnded, HasCommitted, vars, clocks, ghosts
<1>2. ASSUME Base, Reads, [Next]_vars, NEW t \in Txn, Begin(t) \/ Statement(t) \/ End(t)
      PROVE  Reads'
  <2>1. Moved(t) /\ faults \subseteq faults'
    BY <1>2, Moves, FaultsStay DEF Reads
  <2>2. CASE BeginActiveIds(t)
    BY <1>2, <2>2, ActiveIdsReads
  <2>3. CASE GcCollect(t)
    BY <1>2, <2>3, CollectReads
  <2>4. CASE ~BeginActiveIds(t) /\ ~GcCollect(t)
    <3>1. Viewed(t)
      BY <1>2, <2>4, BeginViewed, LaterViewed
    <3>2. QED BY <1>2, <2>1, <3>1, ViewedReads
  <2>5. QED BY <2>2, <2>3, <2>4
<1>3. QED BY <1>1, <1>2 DEF Next

-----------------------------------------------------------------------------
(* Only committed versions are overwritten *)

LEMMA UndoTypes ==
    ASSUME TypeOK
    PROVE  /\ undo \in [Txn -> Seq([trx : Txn, roll : Link, deleted : BOOLEAN])]
           /\ \A t \in Txn : \A i \in DOMAIN undo[t] :
                  undo[t][i].trx \in Txn /\ undo[t][i].roll \in Link
<1>1. undo \in [Txn -> Seq([trx : Txn, roll : Link, deleted : BOOLEAN])]
  BY DEF TypeOK
<1>2. ASSUME NEW t \in Txn, NEW i \in DOMAIN undo[t]
      PROVE  undo[t][i].trx \in Txn /\ undo[t][i].roll \in Link
  <2>1. undo[t] \in Seq([trx : Txn, roll : Link, deleted : BOOLEAN])
    BY <1>1
  <2>2. i \in 1 .. Len(undo[t])
    BY <2>1
  <2>3. undo[t][i] \in [trx : Txn, roll : Link, deleted : BOOLEAN]
    BY <2>1, <2>2, ElementOfSeq
  <2>4. QED BY <2>3
<1>3. QED BY <1>1, <1>2

\* A record that nobody has locked, or whose holder has not written it, is as it was
\* committed; so its writer has committed or is at work on it.
LEMMA WriterKnown ==
    ASSUME Base, Rows, Written, NEW r \in Rid, slots[r].used
    PROVE  /\ HasCommitted(slots[r].trx) \/ \E t \in Txn : Writes(t, r) \/ Inserts(t, r)
           /\ lock[r] = Nil /\ Unlocked(r) => HasCommitted(slots[r].trx)
           /\ \A t \in Txn : lock[r] = t /\ ~Writes(t, r) => HasCommitted(slots[r].trx)
<1> USE RowTypes DEF Base
<1>1. Same(r) => HasCommitted(slots[r].trx)
  BY DEF Same, Written, Kept
<1>2. lock[r] = Nil /\ Unlocked(r) => HasCommitted(slots[r].trx)
  BY <1>1 DEF Rows, Free
<1>3. \A t \in Txn : lock[r] = t /\ ~Writes(t, r) => HasCommitted(slots[r].trx)
  BY <1>1, Constants DEF Rows, Locked
<1>4. ~Unlocked(r) => \E t \in Txn : Inserts(t, r)
  BY DEF Unlocked, Inserts
<1>5. lock[r] = Nil \/ lock[r] \in Txn
  OBVIOUS
<1>6. QED BY <1>2, <1>3, <1>4, <1>5

\* A step that writes nothing.
LEMMA WrittenKept ==
    ASSUME Base, Rows, Written, NEW t \in Txn,
           \A w \in Txn : HasCommitted(w) => HasCommitted(w)',
           UNCHANGED <<slots, durable, undo, write_set>>,
           \A u \in Txn, r \in Rid : Inserts(u, r)' => Inserts(u, r),
           \A u \in Txn : kind'[u] = kind[u] \/ write_set[u] = <<>>,
           \A u \in Txn : pc'[u] = "insert_lock" => pc[u] = "insert_lock" /\ kind'[u] = kind[u]
    PROVE  Written'
<1> USE RowTypes DEF Base
<1>1. \A u \in Txn, r \in Rid : Writes(u, r)' <=> Writes(u, r)
  BY DEF Writes
<1>2. Own'
  <2>1. \A u \in Txn, r \in Rid :
            slots'[r].used /\ (Writes(u, r)' \/ Inserts(u, r)') => slots'[r].trx = u
    BY <1>1 DEF Written, Own
  <2>2. \A u \in Txn : kind'[u] = "select" => write_set'[u] = <<>> /\ pc'[u] # "insert_lock"
    BY DEF Written, Own
  <2>3. QED BY <2>1, <2>2 DEF Own
<1>3. Kept'
  BY DEF Written, Kept
<1>4. Logged'
  BY UndoTypes DEF Written, Logged
<1>5. QED BY <1>2, <1>3, <1>4 DEF Written

LEMMA WriteWritten ==
    ASSUME Base, Rows, Written, NEW t \in Txn, NEW r \in Rid, WriteRecord(t, r)
    PROVE  Written'
<1> USE RowTypes DEF Base
<1> DEFINE e == [type |-> kind[t], rid |-> r, trx |-> slots[r].trx, roll |-> slots[r].roll]
           s == [used |-> ~(kind[t] = "delete"), trx |-> t, roll |-> [txn |-> t, idx |-> Len(undo[t])]]
           v == [trx |-> slots[r].trx, roll |-> slots[r].roll, deleted |-> kind[t] = "delete"]
           n == Len(write_set[t]) + 1
<1>1. /\ pc' = pc /\ pc[t] = "run" /\ r \in todo[t] /\ t \in shared[r] /\ lock[r] \in {Nil, t}
      /\ slots[r].used /\ UNCHANGED <<durable, aborted, state, kind>>
  <2>1. todo[t] # {} /\ r = Min(todo[t]) /\ todo[t] \subseteq TimeType
    BY Constants DEF WriteRecord, TimeType
  <2>2. r \in todo[t]
    BY <2>1, MinIsLeast
  <2>3. QED BY <2>2 DEF WriteRecord, CanLock, CanRead, ghosts
<1>2. /\ slots' = [slots EXCEPT ![r] = s]
      /\ write_set' = [write_set EXCEPT ![t] = Append(@, e)]
      /\ undo' = [undo EXCEPT ![t] = Append(@, v)]
      /\ todo' = [todo EXCEPT ![t] = @ \ {r}]
  BY DEF WriteRecord
<1>3. \A u \in Txn : ~Inserts(u, r)
  BY <1>1 DEF Inserts, Rows, Inserting
<1>4. \A u \in Txn : ~Writes(u, r)
  <2> SUFFICES ASSUME NEW u \in Txn, NEW i \in DOMAIN write_set[u], write_set[u][i].rid = r
               PROVE  FALSE
    BY DEF Writes
  <2>1. lock[r] = u /\ r \notin todo[u]
    BY DEF Rows, Entries
  <2>2. QED BY <1>1, <2>1, Constants
<1>5. HasCommitted(slots[r].trx)
  BY <1>1, <1>3, <1>4, WriterKnown
<1>6. kind[t] \in {"update", "delete"} /\ e.rid = r /\ s.trx = t /\ v.trx = slots[r].trx
  BY <1>1 DEF Doing
<1> HIDE DEF e, s, v, n
<1>7. /\ DOMAIN write_set'[t] = DOMAIN write_set[t] \cup {n} /\ write_set'[t][n] = e
      /\ \A i \in DOMAIN write_set[t] : write_set'[t][i] = write_set[t][i]
      /\ \A u \in Txn : u # t => write_set'[u] = write_set[u]
  BY <1>2, AppendedRecord DEF n
<1>8. ASSUME NEW u \in Txn, NEW q \in Rid, slots'[q].used, Writes(u, q)' \/ Inserts(u, q)'
      PROVE  slots'[q].trx = u
  <2>1. CASE q = r
    <3>1. slots'[q].trx = t
      BY <1>2, <1>6, <2>1
    <3>2. u # t => ~Writes(u, r)' /\ ~Inserts(u, r)'
      BY <1>1, <1>2, <1>3, <1>4, <1>7 DEF Writes, Inserts
    <3>3. QED BY <1>8, <2>1, <3>1, <3>2
  <2>2. CASE q # r
    <3>1. slots'[q] = slots[q]
      BY <1>2, <2>2
    <3>2. Writes(u, q)' => Writes(u, q)
      <4> SUFFICES ASSUME NEW i \in DOMAIN write_set'[u], write_set'[u][i].rid = q
                   PROVE  Writes(u, q)
        BY DEF Writes
      <4>1. i \in DOMAIN write_set[u] /\ write_set[u][i].rid = q
        BY <1>6, <1>7, <2>2
      <4>2. QED BY <4>1 DEF Writes
    <3>3. Inserts(u, q)' => Inserts(u, q)
      BY <1>1, <1>2 DEF Inserts
    <3>4. QED BY <1>8, <3>1, <3>2, <3>3 DEF Written, Own
  <2>3. QED BY <2>1, <2>2
<1>9. \A u \in Txn : kind'[u] = "select" => write_set'[u] = <<>> /\ pc'[u] # "insert_lock"
  BY <1>1, <1>6, <1>7 DEF Written, Own
<1>10. Own'
  BY <1>8, <1>9 DEF Own
<1>11. \A w \in Txn : HasCommitted(w)' <=> HasCommitted(w)
  BY <1>1 DEF HasCommitted
<1>12. Kept'
  BY <1>1, <1>11 DEF Written, Kept
<1>13. Logged'
  <2> SUFFICES ASSUME NEW u \in Txn, NEW i \in DOMAIN undo'[u] PROVE HasCommitted(undo[u][i].trx)'
    BY DEF Logged
  <2>1. PICK x \in Txn : x = slots[r].trx
    BY <1>1 DEF Versions
  <2>2. undo[t] \in Seq([trx : Txn, roll : Link, deleted : BOOLEAN]) /\ DOMAIN undo = Txn
    BY UndoTypes
  <2>3. u = t => (i \in DOMAIN undo[t] /\ undo'[u][i] = undo[t][i]) \/ undo'[u][i] = v
    BY <1>2, <2>2
  <2>4. u # t => undo'[u] = undo[u]
    BY <1>2, <2>2
  <2>5. HasCommitted(x)' /\ v.trx = x
    BY <1>5, <1>6, <1>11, <2>1
  <2>6. CASE undo'[u][i] = v
    BY <2>5, <2>6
  <2>7. CASE i \in DOMAIN undo[u] /\ undo'[u][i] = undo[u][i]
    <3>1. undo[u][i].trx \in Txn /\ HasCommitted(undo[u][i].trx)
      BY <2>7, UndoTypes DEF Written, Logged
    <3>2. QED BY <1>11, <2>7, <3>1
  <2>8. QED BY <2>3, <2>4, <2>6, <2>7
<1>14. QED BY <1>10, <1>12, <1>13 DEF Written

LEMMA InsertSlotWritten ==
    ASSUME Base, Rows, Written, NoUnlockedInsert', NEW t \in Txn, NEW r \in Rid, InsertSlot(t, r)
    PROVE  Written'
<1> USE RowTypes DEF Base
<1> DEFINE s == [used |-> TRUE, trx |-> t, roll |-> ZeroLink]
<1>1. /\ pc[t] = "run" /\ kind[t] = "insert" /\ pc' = [pc EXCEPT ![t] = "insert_lock"]
      /\ write_set[t] = <<>> /\ ~slots[r].used
      /\ slots' = [slots EXCEPT ![r] = s] /\ todo' = [todo EXCEPT ![t] = {r}]
      /\ UNCHANGED <<undo, write_set, durable, aborted, state, kind>>
  BY DEF InsertSlot, Goto
<1>2. CanLock(t, r)
  BY DEF InsertSlot, NoUnlockedInsert
<1>3. \A u \in Txn : u # t => ~Writes(u, r) /\ ~Inserts(u, r)
  <2> SUFFICES ASSUME NEW u \in Txn, u # t PROVE ~Writes(u, r) /\ ~Inserts(u, r)
    OBVIOUS
  <2>1. ~Writes(u, r)
    <3> SUFFICES ASSUME NEW i \in DOMAIN write_set[u], write_set[u][i].rid = r PROVE FALSE
      BY DEF Writes
    <3>1. lock[r] = u
      BY DEF Rows, Entries
    <3>2. QED BY <1>2, <3>1, Constants DEF CanLock, CanRead
  <2>2. ~Inserts(u, r)
    BY <1>1 DEF Inserts, Rows, Inserting
  <2>3. QED BY <2>1, <2>2
<1>4. ASSUME NEW u \in Txn, NEW q \in Rid, slots'[q].used, Writes(u, q)' \/ Inserts(u, q)'
      PROVE  slots'[q].trx = u
  <2>1. Writes(u, q)' <=> Writes(u, q)
    BY <1>1 DEF Writes
  <2>2. Inserts(u, q)' => Inserts(u, q) \/ (u = t /\ q = r)
    BY <1>1 DEF Inserts
  <2>3. CASE q = r
    BY <1>1, <1>3, <1>4, <2>1, <2>2, <2>3
  <2>4. CASE q # r
    BY <1>1, <1>4, <2>1, <2>2, <2>4 DEF Written, Own
  <2>5. QED BY <2>3, <2>4
<1>5. Own'
  BY <1>1, <1>4 DEF Own, Written
<1>6. \A w \in Txn : HasCommitted(w) => HasCommitted(w)'
  BY <1>1 DEF HasCommitted
<1>7. Kept' /\ Logged'
  BY <1>1, <1>6, UndoTypes DEF Written, Kept, Logged
<1>8. QED BY <1>5, <1>7 DEF Written

LEMMA InsertLockWritten ==
    ASSUME Base, Rows, Written, NEW t \in Txn, NEW r \in Rid, InsertLock(t, r)
    PROVE  Written'
<1> USE RowTypes DEF Base
<1> DEFINE e == [type |-> "insert", rid |-> r, trx |-> Nil, roll |-> NoLink]
           n == Len(write_set[t]) + 1
<1>1. /\ pc[t] = "insert_lock" /\ pc' = [pc EXCEPT ![t] = "run"] /\ r \in todo[t]
      /\ write_set' = [write_set EXCEPT ![t] = Append(@, e)]
      /\ todo' = [todo EXCEPT ![t] = {}] /\ e.rid = r
      /\ UNCHANGED <<slots, undo, durable, aborted, state, kind>>
  BY DEF InsertLock, Goto, ghosts
<1> HIDE DEF e, n
<1>2. /\ DOMAIN write_set'[t] = DOMAIN write_set[t] \cup {n} /\ write_set'[t][n] = e
      /\ \A i \in DOMAIN write_set[t] : write_set'[t][i] = write_set[t][i]
      /\ \A u \in Txn : u # t => write_set'[u] = write_set[u]
  BY <1>1, AppendedRecord DEF n
<1>3. \A u \in Txn, q \in Rid : Writes(u, q)' => Writes(u, q) \/ (u = t /\ q = r)
  BY <1>1, <1>2 DEF Writes
<1>4. Inserts(t, r) /\ \A u \in Txn, q \in Rid : Inserts(u, q)' => Inserts(u, q)
  BY <1>1 DEF Inserts
<1>5. \A u \in Txn, q \in Rid :
          slots'[q].used /\ (Writes(u, q)' \/ Inserts(u, q)') => slots'[q].trx = u
  BY <1>1, <1>3, <1>4 DEF Written, Own
<1>6. Own'
  BY <1>1, <1>2, <1>5 DEF Own, Written
<1>7. \A w \in Txn : HasCommitted(w) => HasCommitted(w)'
  BY <1>1 DEF HasCommitted
<1>8. Kept' /\ Logged'
  BY <1>1, <1>7, UndoTypes DEF Written, Kept, Logged
<1>9. QED BY <1>6, <1>8 DEF Written

LEMMA UndoWritten ==
    ASSUME Base, Rows, Written, NEW t \in Txn, UndoWrite(t)
    PROVE  Written'
<1> USE RowTypes DEF Base
<1> DEFINE n == Len(write_set[t])
           e == write_set[t][n]
           s == SubSeq(write_set[t], 1, n - 1)
           r == e.rid
<1>1. /\ pc[t] = "undo" /\ pc' = pc /\ write_set[t] # <<>> /\ slots' = Restored(e)
      /\ write_set' = [write_set EXCEPT ![t] = s]
      /\ UNCHANGED <<undo, durable, todo, aborted, state, kind>>
  BY DEF UndoWrite, ghosts
<1>2. /\ n \in DOMAIN write_set[t] /\ e \in WriteRecords /\ s \in Seq(WriteRecords)
      /\ DOMAIN s = DOMAIN write_set[t] \ {n} /\ \A i \in DOMAIN s : s[i] = write_set[t][i]
  <2>1. /\ n \in DOMAIN write_set[t] /\ e \in WriteRecords /\ DOMAIN write_set[t] = 1 .. n
        /\ s \in Seq(WriteRecords)
        /\ DOMAIN s = 1 .. n - 1 /\ \A i \in DOMAIN s : s[i] = write_set[t][i]
    BY <1>1, LastRecord
  <2> HIDE DEF s, e
  <2>2. n \in Nat
    BY LenProperties
  <2> HIDE DEF n
  <2>3. QED BY <2>1, <2>2
<1>3. /\ r \in Rid /\ lock[r] = t
      /\ \A j \in DOMAIN write_set[t] : write_set[t][j].rid = r => j = n
  <2>1. r \in Rid
    BY <1>2
  <2>2. QED BY <1>2, <2>1 DEF Rows, Entries
<1> HIDE DEF s
<1>4. \A q \in Rid : q # r => slots'[q] = slots[q]
  BY <1>1, <1>3 DEF Restored
<1>5. /\ \A u \in Txn : u # t => write_set'[u] = write_set[u]
      /\ write_set'[t] = s
  BY <1>1
<1> HIDE DEF n, e
<1>6. \A u \in Txn : u # t => ~Writes(u, r)
  <2> SUFFICES ASSUME NEW u \in Txn, u # t, NEW i \in DOMAIN write_set[u], write_set[u][i].rid = r
               PROVE  FALSE
    BY DEF Writes
  <2> HIDE DEF r
  <2>1. lock[r] = u
    BY DEF Rows, Entries
  <2>2. QED BY <1>3, <2>1
<1> HIDE DEF r
<1>7. \A u \in Txn : ~Inserts(u, r)
  BY <1>3, Constants DEF Inserts, Rows, Inserting
<1>8. \A u \in Txn, q \in Rid : Writes(u, q)' => Writes(u, q) /\ q # r
  <2> SUFFICES ASSUME NEW u \in Txn, NEW q \in Rid, NEW i \in DOMAIN write_set'[u],
                      write_set'[u][i].rid = q
               PROVE  Writes(u, q) /\ q # r
    BY DEF Writes
  <2>1. CASE u = t
    BY <1>2, <1>3, <1>5, <2>1 DEF Writes
  <2>2. CASE u # t
    BY <1>5, <1>6, <2>2 DEF Writes
  <2>3. QED BY <2>1, <2>2
<1>9. \A u \in Txn, q \in Rid : Inserts(u, q)' => Inserts(u, q) /\ q # r
  BY <1>1, <1>7 DEF Inserts
<1>10. \A u \in Txn, q \in Rid :
          slots'[q].used /\ (Writes(u, q)' \/ Inserts(u, q)') => slots'[q].trx = u
  BY <1>4, <1>8, <1>9 DEF Written, Own
<1>11. \A u \in Txn : kind'[u] = "select" => write_set'[u] = <<>> /\ pc'[u] # "insert_lock"
  BY <1>1, <1>5 DEF Written, Own
<1>12. Own'
  BY <1>10, <1>11 DEF Own
<1>13. \A w \in Txn : HasCommitted(w) => HasCommitted(w)'
  BY <1>1 DEF HasCommitted
<1>14. Kept' /\ Logged'
  BY <1>1, <1>13, UndoTypes DEF Written, Kept, Logged
<1>15. QED BY <1>12, <1>14 DEF Written

\* What a committing transaction has written is now committed.
LEMMA ReleaseWritten ==
    ASSUME Base, States, Rows, Written, NEW t \in Txn, Release(t)
    PROVE  Written'
<1> USE RowTypes DEF Base
<1>1. /\ pc[t] = "release" /\ pc' = [pc EXCEPT ![t] = "state"]
      /\ write_set' = [write_set EXCEPT ![t] = <<>>]
      /\ durable' = IF t \in aborted THEN durable
                    ELSE [r \in Rid |-> IF lock[r] = t THEN slots[r] ELSE durable[r]]
      /\ UNCHANGED <<slots, undo, todo, aborted, state, kind>>
  BY DEF Release, Goto
<1>2. \A w \in Txn : HasCommitted(w) => HasCommitted(w)'
  BY <1>1 DEF HasCommitted
<1>3. t \notin aborted => HasCommitted(t)'
  BY <1>1 DEF States, HasCommitted
<1>4. \A u \in Txn : \/ write_set'[u] = write_set[u]
                     \/ write_set'[u] = <<>> /\ DOMAIN write_set'[u] = {}
  BY <1>1
<1>5. \A u \in Txn, q \in Rid : Writes(u, q)' => Writes(u, q)
  BY <1>4 DEF Writes
<1>6. \A u \in Txn, q \in Rid : Inserts(u, q)' => Inserts(u, q)
  BY <1>1 DEF Inserts
<1>7. Own'
  BY <1>1, <1>4, <1>5, <1>6 DEF Written, Own
<1>8. Kept'
  <2> SUFFICES ASSUME NEW r \in Rid, durable'[r].used
               PROVE  durable'[r].trx \in Txn /\ HasCommitted(durable[r].trx)'
    BY DEF Kept
  <2>1. CASE durable'[r] = durable[r]
    BY <1>2, <2>1 DEF Written, Kept
  <2>2. CASE t \notin aborted /\ lock[r] = t /\ durable'[r] = slots[r]
    <3>1. slots[r].trx \in Txn
      BY <2>2 DEF Versions
    <3>2. Writes(t, r) => slots[r].trx = t
      BY <2>2 DEF Written, Own
    <3>3. ~Writes(t, r) => HasCommitted(slots[r].trx)
      BY <2>2, WriterKnown
    <3>4. QED BY <1>2, <1>3, <2>2, <3>1, <3>2, <3>3
  <2>3. QED BY <1>1, <2>1, <2>2
<1>9. Logged'
  BY <1>1, <1>2, UndoTypes DEF Written, Logged
<1>10. QED BY <1>7, <1>8, <1>9 DEF Written

\* The rest writes nothing and inserts nothing.
LEMMA QuietWritten ==
    ASSUME Base, Rows, Written, NEW t \in Txn,
           \A w \in Txn : HasCommitted(w) => HasCommitted(w)',
           UNCHANGED <<slots, durable, undo, write_set>>,
           kind' = kind \/ (write_set[t] = <<>> /\ \A u \in Txn \ {t} : kind'[u] = kind[u]),
           pc'[t] # "insert_lock",
           \A u \in Txn \ {t} : pc'[u] = pc[u] /\ todo'[u] = todo[u]
    PROVE  Written'
<1>1. \A u \in Txn, r \in Rid : Inserts(u, r)' => Inserts(u, r)
  BY DEF Inserts
<1>2. \A u \in Txn : kind'[u] = kind[u] \/ write_set[u] = <<>>
  OBVIOUS
<1>3. \A u \in Txn : pc'[u] = "insert_lock" => pc[u] = "insert_lock" /\ kind'[u] = kind[u]
  OBVIOUS
<1>4. QED BY <1>1, <1>2, <1>3, WrittenKept

LEMMA BeginWritten ==
    ASSUME Base, Rows, Written, NEW t \in Txn, Begin(t),
           \A w \in Txn : HasCommitted(w) => HasCommitted(w)'
    PROVE  Written'
<1> USE RowTypes, ViewTypes DEF Base
<1>1. UNCHANGED <<slots, durable, undo, write_set, todo>>
  BY DEF Begin, BeginId, BeginReadTs, AddTxn, BeginLowLimit, BeginActiveIds, BeginRegister,
     table, work, ghosts
<1>2. CASE BeginId(t)
  <2>1. pc[t] = "none"
    BY <1>2, Constants DEF BeginId, Ids, Txn
  <2>2. write_set[t] = <<>>
    BY <2>1 DEF Rows, Clean, Beginning
  <2>3. /\ pc' = [pc EXCEPT ![t] = "read_ts"]
        /\ \A u \in Txn \ {t} : kind'[u] = kind[u]
    BY <1>2 DEF BeginId, Goto
  <2>4. pc'[t] # "insert_lock" /\ \A u \in Txn \ {t} : pc'[u] = pc[u] /\ todo'[u] = todo[u]
    BY <1>1, <2>3
  <2>5. QED BY <1>1, <2>2, <2>3, <2>4, QuietWritten
<1>3. ASSUME BeginReadTs(t) \/ AddTxn(t) \/ BeginLowLimit(t) \/ BeginActiveIds(t) \/ BeginRegister(t)
      PROVE  Written'
  <2>1. /\ kind' = kind /\ pc'[t] # "insert_lock"
        /\ \A u \in Txn \ {t} : pc'[u] = pc[u] /\ todo'[u] = todo[u]
    BY <1>1, <1>3 DEF BeginReadTs, AddTxn, BeginLowLimit, BeginActiveIds, BeginRegister, Goto
  <2>2. QED BY <1>1, <2>1, QuietWritten
<1>4. QED BY <1>2, <1>3 DEF Begin

LEMMA StatementWritten ==
    ASSUME Base, Rows, Written, NoUnlockedInsert', NEW t \in Txn, Statement(t),
           \A w \in Txn : HasCommitted(w) => HasCommitted(w)'
    PROVE  Written'
<1> USE RowTypes, ViewTypes DEF Base
<1>1. ASSUME NEW r \in Rid, ScanRecord(t, r) \/ ReadRecord(t, r)
      PROVE  Written'
  <2>1. /\ pc[t] \in {"scan", "run"} /\ UNCHANGED <<pc, kind, slots, durable, undo, write_set>>
        /\ \A u \in Txn \ {t} : todo'[u] = todo[u]
    BY <1>1 DEF ScanRecord, ReadRecord, work
  <2>2. QED BY <2>1, QuietWritten
<1>2. ASSUME ScanEnd(t) \/ Victim(t) \/ Fail(t) \/ Commit(t)
      PROVE  Written'
  <2>1. UNCHANGED <<kind, slots, durable, undo, write_set>>
    BY <1>2 DEF ScanEnd, Victim, Fail, Commit, table, work, ghosts
  <2>2. pc'[t] # "insert_lock" /\ \A u \in Txn \ {t} : pc'[u] = pc[u] /\ todo'[u] = todo[u]
    BY <1>2 DEF ScanEnd, Victim, Fail, Commit, Goto, work
  <2>3. QED BY <2>1, <2>2, QuietWritten
<1>3. QED BY <1>1, <1>2, WriteWritten, InsertSlotWritten, InsertLockWritten DEF Statement

LEMMA EndWritten ==
    ASSUME Base, States, Rows, Written, NEW t \in Txn, End(t),
           \A w \in Txn : HasCommitted(w) => HasCommitted(w)'
    PROVE  Written'
<1> USE RowTypes, ViewTypes DEF Base
<1>1. ASSUME UndoEnd(t) \/ EndState(t) \/ EndCommitTs(t) \/ RemoveTxn(t) \/ UpdateCommitTs(t)
             \/ GcMinimum(t) \/ GcCollect(t) \/ CommitAborted(t) \/ ThreadIdle(t)
      PROVE  Written'
  <2>1. UNCHANGED <<kind, slots, durable, undo, write_set, todo>>
    BY <1>1 DEF UndoEnd, EndState, EndCommitTs, RemoveTxn, UpdateCommitTs, GcMinimum, GcCollect,
       CommitAborted, ThreadIdle, table, work, ghosts
  <2>2. pc'[t] # "insert_lock" /\ \A u \in Txn \ {t} : pc'[u] = pc[u]
    BY <1>1 DEF UndoEnd, EndState, EndCommitTs, RemoveTxn, UpdateCommitTs, GcMinimum, GcCollect,
       CommitAborted, ThreadIdle, Goto
  <2>3. QED BY <2>1, <2>2, QuietWritten
<1>2. QED BY <1>1, UndoWritten, ReleaseWritten DEF End

LEMMA WrittenStep ==
    Base /\ States /\ Rows /\ Written /\ [Next]_vars /\ NoUnlockedInsert' => Written'
<1>1. ASSUME Written, UNCHANGED vars PROVE Written'
  BY <1>1 DEF Written, Own, Kept, Logged, Writes, Inserts, HasCommitted, vars, table, work, ghosts
<1>2. ASSUME Base, States, Rows, Written, NoUnlockedInsert', NEW t \in Txn,
             Begin(t) \/ Statement(t) \/ End(t)
      PROVE  Written'
  <2>1. \A w \in Txn : HasCommitted(w) => HasCommitted(w)'
    BY <1>2, Moves, StatesStep
  <2>2. QED BY <1>2, <2>1, BeginWritten, StatementWritten, EndWritten
<1>3. QED BY <1>1, <1>2 DEF Next

LEMMA InitReads == Init => RInv
<1> SUFFICES ASSUME Init PROVE RInv
  OBVIOUS
<1>1. States
  BY DEF Init, States, Running, Beginning
<1>2. Gone
  BY DEF Init, Gone, Beginning
<1>3. Views
  BY Constants DEF Init, Views
<1>4. Own
  <2>1. \A t \in Txn : write_set[t] = <<>> /\ DOMAIN write_set[t] = {} /\ pc[t] # "insert_lock"
    BY DEF Init
  <2>2. QED BY <2>1 DEF Own, Writes, Inserts
<1>5. Kept
  BY Constants DEF Init, Kept, HasCommitted, Unused
<1>6. Logged
  <2>1. \A t \in Txn : DOMAIN undo[t] = {}
    BY DEF Init
  <2>2. QED BY <2>1 DEF Logged
<1>7. QED BY <1>1, <1>2, <1>3, <1>4, <1>5, <1>6 DEF RInv, Reads, Written

LEMMA ReadInvariant == Spec => [](IInv /\ RInv)
<1>1. Init => RInv
  BY InitReads
<1>2. IInv /\ RInv /\ [Next]_vars => RInv'
  <2> SUFFICES ASSUME IInv, RInv, [Next]_vars PROVE RInv'
    OBVIOUS
  <2>1. Reads'
    BY ReadsStep DEF IInv, RInv
  <2>2. NoUnlockedInsert' => NoUnlockedInsert
    BY FaultsStay DEF NoUnlockedInsert
  <2>3. NoUnlockedInsert' => Written'
    BY <2>2, WrittenStep DEF IInv, RInv, Reads
  <2>4. QED BY <2>1, <2>3 DEF RInv
<1>3. QED BY <1>1, <1>2, Invariant, PTL DEF Spec

-----------------------------------------------------------------------------
(* The versions of a record *)

VersionType == [trx : Txn \cup {Absent, Undefined}, roll : Link \cup {NoLink}]

LEMMA OlderVersion ==
    ASSUME Base, Logged, NEW v \in VersionType
    PROVE  Older(v) \in VersionType /\ (Older(v).trx \in Txn => HasCommitted(Older(v).trx))
<1> DEFINE a == [trx |-> Absent, roll |-> NoLink]
           b == [trx |-> Undefined, roll |-> NoLink]
           u == undo[v.roll.txn][v.roll.idx + 1]
<1>1. a \in VersionType /\ b \in VersionType /\ a.trx \notin Txn /\ b.trx \notin Txn
  BY Constants DEF VersionType, Absent, Undefined
<1>2. ASSUME v.roll # NoLink, v.roll.txn \in txn_map, ~(v.roll.idx >= Len(undo[v.roll.txn]))
      PROVE  u.trx \in Txn /\ u.roll \in Link /\ HasCommitted(u.trx)
  <2>1. v.roll \in Link
    BY <1>2 DEF VersionType
  <2>2. v.roll.txn \in Txn /\ v.roll.idx \in Nat
    BY <2>1 DEF Link
  <2>3. undo[v.roll.txn] \in Seq([trx : Txn, roll : Link, deleted : BOOLEAN])
    BY <2>2, UndoTypes DEF Base
  <2>4. v.roll.idx + 1 \in DOMAIN undo[v.roll.txn]
    BY <1>2, <2>2, <2>3
  <2>5. QED BY <2>2, <2>4, UndoTypes DEF Base, Logged
<1>3. ASSUME u.trx \in Txn, u.roll \in Link
      PROVE  [trx |-> u.trx, roll |-> u.roll] \in VersionType
  BY <1>3 DEF VersionType
<1> HIDE DEF a, b, u
<1>4. Older(v) = IF v.roll = NoLink \/ v.roll.txn \notin txn_map THEN a
                 ELSE IF v.roll.idx >= Len(undo[v.roll.txn]) THEN b
                 ELSE IF u.deleted THEN a
                 ELSE [trx |-> u.trx, roll |-> u.roll]
  BY DEF Older, a, b, u
<1>5. QED BY <1>1, <1>2, <1>3, <1>4

\* Row(t, r) is well defined: the versions it goes through exist ...
LEMMA VersionsExist ==
    ASSUME NEW first, NEW m \in Nat
    PROVE  \E g : g = [n \in 0 .. m |-> IF n = 0 THEN first ELSE Older(g[n - 1])]
<1> DEFINE Exists(k) == \E g : g = [n \in 0 .. k |-> IF n = 0 THEN first ELSE Older(g[n - 1])]
           S == {k \in Nat : ~Exists(k)}
<1> SUFFICES ASSUME S # {} PROVE FALSE
  OBVIOUS
<1>1. PICK k \in S : \A y \in S : k <= y
  <2>1. S \subseteq TimeType
    BY DEF TimeType
  <2> HIDE DEF S
  <2>2. QED BY <2>1, MinIsLeast
<1>2. k \in Nat /\ ~Exists(k)
  OBVIOUS
<1>3. k # 0
  <2>1. Exists(0)
    <3> DEFINE g == [n \in 0 .. 0 |-> first]
    <3>1. g = [n \in 0 .. 0 |-> IF n = 0 THEN first ELSE Older(g[n - 1])]
      OBVIOUS
    <3>2. QED BY <3>1
  <2>2. QED BY <1>2, <2>1
<1>4. Exists(k - 1)
  <2>1. k - 1 \in Nat /\ ~(k <= k - 1)
    BY <1>2, <1>3
  <2>2. k - 1 \notin S
    BY <1>1, <2>1
  <2>3. QED BY <2>1, <2>2
<1>5. PICK g : g = [n \in 0 .. k - 1 |-> IF n = 0 THEN first ELSE Older(g[n - 1])]
  BY <1>4
<1>6. Exists(k)
  <2> DEFINE h == [n \in 0 .. k |-> IF n = k THEN Older(g[k - 1]) ELSE g[n]]
  <2>1. \A n \in 0 .. k : h[n] = IF n = 0 THEN first ELSE Older(h[n - 1])
    <3> TAKE n \in 0 .. k
    <3>1. CASE n = k
      <4>1. n # 0 /\ n - 1 \in 0 .. k /\ n - 1 # k
        BY <1>2, <1>3, <3>1
      <4>2. h[n - 1] = g[k - 1] /\ h[n] = Older(g[k - 1])
        BY <3>1, <4>1
      <4>3. QED BY <4>1, <4>2
    <3>2. CASE n # k
      <4>1. n \in 0 .. k - 1 /\ h[n] = g[n]
        BY <1>2, <3>2
      <4>2. n # 0 => n - 1 \in 0 .. k /\ n - 1 # k
        BY <1>2, <4>1
      <4>3. n # 0 => h[n - 1] = g[n - 1]
        BY <4>2
      <4> HIDE DEF h
      <4>4. g[n] = IF n = 0 THEN first ELSE Older(g[n - 1])
        BY <1>5, <4>1
      <4>5. QED BY <4>1, <4>3, <4>4
    <3>3. QED BY <3>1, <3>2
  <2>2. h = [n \in 0 .. k |-> h[n]]
    OBVIOUS
  <2> HIDE DEF h
  <2>3. h = [n \in 0 .. k |-> IF n = 0 THEN first ELSE Older(h[n - 1])]
    BY <2>1, <2>2
  <2>4. QED BY <2>3
<1>7. QED BY <1>2, <1>6

\* ... and the one it ends at is the record itself, when t sees its writer, or an old
\* version; these are of committed transactions.
LEMMA RowWriter ==
    ASSUME Base, Logged, NEW t \in Txn, NEW r \in Rid, NEW w \in Txn, Row(t, r) = w
    PROVE  /\ slots[r].used
           /\ HasCommitted(w) \/ (w = slots[r].trx /\ is_visible(t, w))
<1> DEFINE first == [trx |-> slots[r].trx, roll |-> slots[r].roll]
           N == 0 .. MaxTxn + 1
           version == CHOOSE f : f = [n \in N |-> IF n = 0 THEN first ELSE Older(f[n - 1])]
           Ends(n) == version[n].trx \in {Absent, Undefined} \/ is_visible(t, version[n].trx)
           E == {n \in N : Ends(n)}
<1>1. Row(t, r) = IF ~slots[r].used THEN Absent
                  ELSE IF \E n \in N : Ends(n) THEN version[Min(E)].trx ELSE Endless
  BY DEF Row
<1>2. w # Absent /\ w # Undefined /\ w # Endless
  BY Constants DEF Absent, Undefined, Endless
<1>3. slots[r].used /\ E # {} /\ w = version[Min(E)].trx
  BY <1>1, <1>2
<1>4. version = [n \in N |-> IF n = 0 THEN first ELSE Older(version[n - 1])]
  <2>1. MaxTxn + 1 \in Nat
    BY Constants
  <2>2. \E f : f = [n \in N |-> IF n = 0 THEN first ELSE Older(f[n - 1])]
    BY <2>1, VersionsExist
  <2>3. QED BY <2>2
<1>5. first \in VersionType
  BY <1>3 DEF Base, Versions, VersionType
<1>6. Min(E) \in E
  <2>1. E \subseteq TimeType
    BY Constants DEF TimeType
  <2> HIDE DEF E
  <2>2. QED BY <1>3, <2>1, MinIsLeast
<1> HIDE DEF version
<1>7. version[0] = first
  BY <1>4, Constants
<1> HIDE DEF first
<1>8. \A n \in N : n # 0 => n - 1 \in N /\ version[n] = Older(version[n - 1])
  BY <1>4, Constants
<1>9. \A n \in N : version[n] \in VersionType
  <2> DEFINE S == {n \in N : version[n] \notin VersionType}
  <2> SUFFICES ASSUME S # {} PROVE FALSE
    OBVIOUS
  <2>1. S \subseteq TimeType
    BY Constants DEF TimeType
  <2>2. PICK k \in S : \A y \in S : k <= y
    <3> HIDE DEF S
    <3>1. QED BY <2>1, MinIsLeast
  <2>3. k \in N /\ version[k] \notin VersionType
    OBVIOUS
  <2>4. k # 0
    BY <1>5, <1>7, <2>3
  <2>5. k - 1 \in N /\ ~(k <= k - 1)
    BY <1>8, <2>3, <2>4
  <2>6. version[k - 1] \in VersionType
    BY <2>2, <2>5
  <2>7. QED BY <1>8, <2>3, <2>4, <2>6, OlderVersion
<1>10. PICK n \in N : n = Min(E) /\ Ends(n)
  BY <1>6
<1>11. w = version[n].trx
  BY <1>3, <1>10
<1>12. CASE n = 0
  <2>1. w = slots[r].trx
    BY <1>7, <1>11, <1>12 DEF first
  <2>2. is_visible(t, w)
    BY <1>2, <1>10, <1>11
  <2>3. QED BY <1>3, <2>1, <2>2
<1>13. CASE n # 0
  <2>1. n - 1 \in N /\ version[n] = Older(version[n - 1])
    BY <1>8, <1>13
  <2>2. HasCommitted(w)
    BY <1>9, <1>11, <2>1, OlderVersion
  <2>3. QED BY <1>3, <2>2
<1>14. QED BY <1>12, <1>13

LEMMA Visible ==
    ASSUME Base, NEW t \in Txn, NEW w \in Txn, is_visible(t, w), w # t
    PROVE  w < view[t].low /\ w \notin view[t].active
<1> DEFINE S == view[t].active \cup {view[t].low}
<1>1. /\ w \in Int /\ view[t].low \in Nat
      /\ \A y \in view[t].active : y \in Int /\ y \in TimeType
  <2>1. w \in Txn /\ view[t].low \in Nat /\ view[t].active \subseteq Txn
    BY DEF Base, TypeOK
  <2>2. \A y \in Txn : y \in Int /\ y \in TimeType
    BY Constants DEF TimeType
  <2>3. QED BY <2>1, <2>2
<1>2. Min(S) <= view[t].low /\ \A y \in view[t].active : Min(S) <= y
  <2>1. S # {} /\ S \subseteq TimeType
    <3>1. view[t].low \in TimeType
      BY <1>1 DEF TimeType
    <3>2. QED BY <1>1, <3>1
  <2>2. view[t].low \in S /\ view[t].active \subseteq S
    OBVIOUS
  <2> HIDE DEF S
  <2>3. QED BY <2>1, <2>2, MinIsLeast
<1>3. Min(S) \in Int
  <2>1. S # {} /\ S \subseteq TimeType /\ S \subseteq Int
    <3>1. view[t].low \in TimeType /\ view[t].low \in Int
      BY <1>1 DEF TimeType
    <3>2. QED BY <1>1, <3>1
  <2> HIDE DEF S
  <2>2. QED BY <2>1, MinIsLeast
<1>4. w < Min(S) \/ (w < view[t].low /\ w \notin view[t].active)
  BY DEF is_visible
<1> HIDE DEF S
<1>5. CASE w < Min(S)
  <2>1. w < view[t].low
    BY <1>1, <1>2, <1>3, <1>5
  <2>2. \A y \in view[t].active : w < y
    BY <1>1, <1>2, <1>3, <1>5
  <2>3. w \notin view[t].active
    BY <1>1, <2>2
  <2>4. QED BY <2>1, <2>3
<1>6. QED BY <1>4, <1>5

LEMMA CommittedRead ==
    ASSUME Base, Rows, Reads, Written, "begin_race" \notin faults,
           NEW t \in Txn, NEW r \in Rid, NEW w \in Txn, Reading(t), Row(t, r) = w
    PROVE  HasCommitted(w)
<1>1. CASE w = slots[r].trx /\ is_visible(t, w) /\ slots[r].used
  <2> SUFFICES ASSUME ~HasCommitted(w) PROVE FALSE
    OBVIOUS
  <2>1. PICK u \in Txn : Writes(u, r) \/ Inserts(u, r)
    BY <1>1, WriterKnown
  <2>2. u = w
    BY <1>1, <2>1 DEF Written, Own
  <2>3. w # t
    BY <2>1, <2>2 DEF Reading, Written, Own, Writes, Inserts
  <2>4. w < view[t].low /\ w \notin view[t].active
    BY <1>1, <2>3, Visible
  <2>5. pc[t] \notin Viewless
    BY DEF Reading, Viewless, Beginning
  <2>6. w \in aborted
    BY <2>3, <2>4, <2>5 DEF Reads, Views, HasEnded
  <2>7. ~Writes(w, r) /\ ~Inserts(w, r)
    BY <2>6 DEF Rows, Clean, Writes, Inserts, Running
  <2>8. QED BY <2>1, <2>2, <2>7
<1>2. QED BY <1>1, RowWriter DEF Written

-----------------------------------------------------------------------------
\* A SELECT sees no version whose writer has not committed, at whatever moment it
\* reads a record and however many undo logs it goes through: get_visible_record,
\* is_visible and begin, with rollback, deletion and garbage collection around them.
THEOREM CommittedReads == Spec => []ReadsCommittedWithoutRace
<1>1. IInv /\ RInv => ReadsCommittedWithoutRace
  BY CommittedRead DEF IInv, RInv, NoUnlockedInsert, ReadsCommittedWithoutRace, ReadsCommitted
<1>2. QED BY <1>1, ReadInvariant, PTL

(***************************************************************************)
(* What is read stays the same.                                            *)
(***************************************************************************)

\* A version links to the undo log of its writer, or where a memset has left it:
\* to that of transaction 0, which is empty.
Linked(x) == x.roll.txn = x.trx \/ x.roll = ZeroLink
Links ==
    /\ pc[0] = "done" /\ undo[0] = <<>>
    /\ \A r \in Rid : slots[r].used => Linked(slots[r])
    /\ \A t \in Txn : \A i \in DOMAIN undo[t] : Linked(undo[t][i])
    /\ \A t \in Txn : \A i \in DOMAIN write_set[t] :
           write_set[t][i].type # "insert" => Linked(write_set[t][i])

-----------------------------------------------------------------------------
\* The write records of an update or delete go with its undo log, one for one ...
Undoes ==
    /\ \A t \in Txn : pc[t] \in Beginning \cup {"scan"} => undo[t] = <<>>
    /\ \A t \in Txn : pc[t] = "insert_lock" => kind[t] = "insert"
    /\ \A t \in Txn : pc[t] = "run" /\ kind[t] \in {"update", "delete"} =>
                          Len(undo[t]) = Len(write_set[t])
    /\ \A t \in Txn : \A i \in DOMAIN write_set[t] :
           LET e == write_set[t][i] IN e.type # "insert" =>
               /\ i \in DOMAIN undo[t]
               /\ undo[t][i] = [trx |-> e.trx, roll |-> e.roll, deleted |-> e.type = "delete"]

\* ... and what it has written points there.
Points ==
    \A t \in Txn : \A i \in DOMAIN write_set[t] :
        LET e == write_set[t][i] IN e.type # "insert" =>
            slots[e.rid] = [used |-> e.type = "update", trx |-> t, roll |-> [txn |-> t, idx |-> i - 1]]

\* The transactions can be ranked so that each replaces only versions of lower ones.
Ranks(rank) == \A t \in Txn : \A i \in DOMAIN undo[t] : rank[undo[t][i].trx] < rank[t]
Ranked == \E rank \in [Txn -> Nat] : Ranks(rank)

Trail == Undoes /\ Points /\ Ranked

-----------------------------------------------------------------------------
\* A transaction that is not rolled back gets its commit time stamp once.
Ending == {"remove", "update", "gc", "collect", "ended", "done"}
Stamps ==
    \A w \in Txn \ aborted :
        /\ pc[w] = "stamp" => state[w] = "COMMITTED"
        /\ commit_ts[w] # -1 => state[w] = "COMMITTED" /\ pc[w] \in Ending

\* A reader's time stamp is its own, and counted until it ends.
Timed(t) == pc[t] \notin {"none", "read_ts"}
Viewing == {"register", "scan", "run", "insert_lock"}
Counting == {"low_limit", "active_ids"} \cup Viewing
Counted ==
    /\ \A t, u \in Txn : Timed(t) /\ Timed(u) /\ read_ts[t] = read_ts[u] => t = u
    /\ \A t \in Txn : pc[t] \in Counting => read_ts[t] \in current_reads

\* Whom t does not see: those that began after it, or had not ended when it began.
Hides(t, w) == w # t /\ (w >= view[t].low \/ (pc[t] \in Viewing /\ w \in view[t].active))

\* They commit after its time stamp, and no collector takes them for older.
After(t, w) == read_ts[t] < commit_ts[w] /\ \A c \in Txn : pc[c] = "collect" => gc_min[c] <= commit_ts[w]
Later ==
    \A t \in Txn : pc[t] \in {"active_ids"} \cup Viewing =>
        \A w \in Txn : Hides(t, w) /\ w \notin aborted /\ commit_ts[w] # -1 => After(t, w)

SInv == Links /\ Stamps /\ Counted /\ Later /\ (NoUnlockedInsert => Trail)

-----------------------------------------------------------------------------
(* Links lead to the writer's undo log *)

\* What a step may do to the records and the undo logs.
Quiet == UNCHANGED <<slots, undo, write_set>>

\* Few steps touch them.
LEMMA QuietOrNot ==
    ASSUME NEW t \in Txn, Begin(t) \/ Statement(t) \/ End(t)
    PROVE  \/ Quiet
           \/ \E r \in Rid : WriteRecord(t, r) \/ InsertSlot(t, r) \/ InsertLock(t, r)
           \/ UndoWrite(t) \/ Release(t)
<1>1. CASE Begin(t)
  BY <1>1 DEF Quiet, Begin, BeginId, BeginReadTs, AddTxn, BeginLowLimit, BeginActiveIds, BeginRegister,
     table, work
<1>2. CASE Statement(t)
  <2>1. ASSUME NEW r \in Rid, ScanRecord(t, r) \/ ReadRecord(t, r) PROVE Quiet
    BY <2>1 DEF Quiet, ScanRecord, ReadRecord, work
  <2>2. ASSUME ScanEnd(t) \/ Victim(t) \/ Fail(t) \/ Commit(t) PROVE Quiet
    BY <2>2 DEF Quiet, ScanEnd, Victim, Fail, Commit, table, work
  <2>3. QED BY <1>2, <2>1, <2>2 DEF Statement
<1>3. CASE End(t)
  <2>1. ASSUME \/ UndoEnd(t) \/ EndState(t) \/ EndCommitTs(t) \/ RemoveTxn(t) \/ UpdateCommitTs(t)
               \/ GcMinimum(t) \/ GcCollect(t) \/ CommitAborted(t) \/ ThreadIdle(t)
        PROVE  Quiet
    BY <2>1 DEF Quiet, UndoEnd, EndState, EndCommitTs, RemoveTxn, UpdateCommitTs, GcMinimum, GcCollect,
       CommitAborted, ThreadIdle, table, work
  <2>2. QED BY <1>3, <2>1 DEF End
<1>4. QED BY <1>1, <1>2, <1>3

\* A transaction that is done does nothing.
LEMMA DoneIsDone ==
    ASSUME Base, NEW t \in Txn, Begin(t) \/ Statement(t) \/ End(t)
    PROVE  pc[t] # "done"
<1>1. CASE Begin(t)
  <2>1. BeginId(t) => pc[t] = "none"
    BY Constants, ViewTypes DEF Base, BeginId, Ids, Txn
  <2>2. QED BY <1>1, <2>1 DEF Begin, BeginReadTs, AddTxn, BeginLowLimit, BeginActiveIds, BeginRegister
<1>2. CASE Statement(t)
  BY <1>2 DEF Statement, ScanRecord, ReadRecord, WriteRecord, InsertSlot, InsertLock, ScanEnd, Victim,
     Fail, Commit
<1>3. CASE End(t)
  BY <1>3 DEF End, UndoWrite, UndoEnd, Release, EndState, EndCommitTs, RemoveTxn, UpdateCommitTs,
     GcMinimum, GcCollect, CommitAborted, ThreadIdle
<1>4. QED BY <1>1, <1>2, <1>3

\* A sequence with one more element.
Extended(old, new, x) ==
    /\ Len(new) = Len(old) + 1 /\ DOMAIN new = DOMAIN old \cup {Len(new)} /\ Len(new) \notin DOMAIN old
    /\ new[Len(new)] = x /\ \A i \in DOMAIN old : new[i] = old[i]

\* Append makes one.
LEMMA AppendExtends ==
    ASSUME NEW S, NEW s \in Seq(S), NEW x
    PROVE  Extended(s, Append(s, x), x)
<1>1. Len(s) \in Nat /\ DOMAIN s = 1 .. Len(s)
  OBVIOUS
<1>2. Len(Append(s, x)) = Len(s) + 1 /\ DOMAIN Append(s, x) = 1 .. Len(s) + 1
  OBVIOUS
<1>3. Append(s, x)[Len(s) + 1] = x /\ \A i \in 1 .. Len(s) : Append(s, x)[i] = s[i]
  OBVIOUS
<1>4. QED BY <1>1, <1>2, <1>3 DEF Extended

\* What update_record and delete_record make of a record, log as its old version, and
\* note for a rollback.
NewSlot(t) ==
    [used |-> kind[t] # "delete", trx |-> t, roll |-> [txn |-> t, idx |-> Len(undo[t])]]
OldVersion(t, r) ==
    [trx |-> slots[r].trx, roll |-> slots[r].roll, deleted |-> kind[t] = "delete"]
WriteOf(t, r) == [type |-> kind[t], rid |-> r, trx |-> slots[r].trx, roll |-> slots[r].roll]
InsertOf(r) == [type |-> "insert", rid |-> r, trx |-> Nil, roll |-> NoLink]

\* WriteRecord in these terms.
LEMMA WriteMakes ==
    ASSUME Base, NEW t \in Txn, NEW r \in Rid, WriteRecord(t, r)
    PROVE  /\ pc[t] = "run" /\ kind[t] \in {"update", "delete"} /\ slots[r].used /\ r \in todo[t]
           /\ slots' = [slots EXCEPT ![r] = NewSlot(t)]
           /\ Extended(write_set[t], write_set'[t], WriteOf(t, r))
           /\ Extended(undo[t], undo'[t], OldVersion(t, r))
           /\ \A u \in Txn : u # t => write_set'[u] = write_set[u]
           /\ \A u \in Txn : u # t => undo'[u] = undo[u]
           /\ UNCHANGED <<pc, kind, state, txn_map, view, aborted>>
<1> USE RowTypes, UndoTypes DEF Base
<1>1. /\ pc[t] = "run" /\ r \in todo[t] /\ slots[r].used
      /\ UNCHANGED <<pc, kind, state, txn_map, view, aborted>>
  <2>1. todo[t] # {} /\ r = Min(todo[t]) /\ todo[t] \subseteq TimeType
    BY Constants DEF WriteRecord, TimeType
  <2>2. r \in todo[t]
    BY <2>1, MinIsLeast
  <2>3. QED BY <2>2 DEF WriteRecord, ghosts
<1>2. kind[t] \in {"update", "delete"}
  BY <1>1 DEF Doing
<1>3. /\ slots' = [slots EXCEPT ![r] = NewSlot(t)]
      /\ write_set' = [write_set EXCEPT ![t] = Append(@, WriteOf(t, r))]
      /\ undo' = [undo EXCEPT ![t] = Append(@, OldVersion(t, r))]
  BY DEF WriteRecord, NewSlot, WriteOf, OldVersion
<1>4. Extended(write_set[t], write_set'[t], WriteOf(t, r))
  <2>1. write_set'[t] = Append(write_set[t], WriteOf(t, r)) /\ write_set[t] \in Seq(WriteRecords)
    BY <1>3
  <2>2. QED BY <2>1, AppendExtends
<1>5. Extended(undo[t], undo'[t], OldVersion(t, r))
  <2>1. /\ undo'[t] = Append(undo[t], OldVersion(t, r))
        /\ undo[t] \in Seq([trx : Txn, roll : Link, deleted : BOOLEAN])
    BY <1>3
  <2>2. QED BY <2>1, AppendExtends
<1>6. \A u \in Txn : u # t => write_set'[u] = write_set[u] /\ undo'[u] = undo[u]
  BY <1>3
<1>7. QED BY <1>1, <1>2, <1>3, <1>4, <1>5, <1>6

\* UndoWrite in terms of the last write record.
LEMMA UndoTakes ==
    ASSUME Base, NEW t \in Txn, UndoWrite(t)
    PROVE  LET n == Len(write_set[t])
               e == write_set[t][n]
           IN  /\ pc[t] = "undo" /\ n \in DOMAIN write_set[t] /\ e \in WriteRecords
               /\ slots' = Restored(e)
               /\ DOMAIN write_set'[t] = DOMAIN write_set[t] \ {n}
               /\ \A i \in DOMAIN write_set'[t] : write_set'[t][i] = write_set[t][i]
               /\ \A u \in Txn : u # t => write_set'[u] = write_set[u]
               /\ UNCHANGED <<pc, kind, state, txn_map, view, undo, aborted>>
<1> DEFINE n == Len(write_set[t])
           e == write_set[t][n]
           s == SubSeq(write_set[t], 1, n - 1)
<1> USE RowTypes DEF Base
<1>1. /\ pc[t] = "undo" /\ write_set[t] # <<>> /\ slots' = Restored(e)
      /\ write_set' = [write_set EXCEPT ![t] = s]
      /\ UNCHANGED <<pc, kind, state, txn_map, view, undo, aborted>>
  BY DEF UndoWrite, ghosts
<1>2. /\ n \in DOMAIN write_set[t] /\ e \in WriteRecords /\ DOMAIN write_set[t] = 1 .. n
      /\ DOMAIN s = 1 .. n - 1 /\ \A i \in DOMAIN s : s[i] = write_set[t][i]
  BY <1>1, LastRecord
<1>3. write_set'[t] = s /\ \A u \in Txn : u # t => write_set'[u] = write_set[u]
  BY <1>1
<1> HIDE DEF s, e
<1>4. n \in Nat
  BY LenProperties
<1> HIDE DEF n
<1>5. 1 .. n - 1 = (1 .. n) \ {n}
  BY <1>4
<1>6. QED BY <1>1, <1>2, <1>3, <1>5 DEF e, n

\* InsertSlot and InsertLock likewise.
LEMMA InsertMakes ==
    ASSUME Base, NEW t \in Txn, NEW r \in Rid, InsertSlot(t, r)
    PROVE  /\ pc[t] = "run" /\ kind[t] = "insert" /\ write_set[t] = <<>>
           /\ pc' = [pc EXCEPT ![t] = "insert_lock"]
           /\ ~slots[r].used /\ slots' = [slots EXCEPT ![r] = [used |-> TRUE, trx |-> t, roll |-> ZeroLink]]
           /\ UNCHANGED <<undo, write_set, kind>>
BY DEF InsertSlot, Goto

\* InsertLock appends its write record.
LEMMA LockMakes ==
    ASSUME Base, NEW t \in Txn, NEW r \in Rid, InsertLock(t, r)
    PROVE  /\ pc[t] = "insert_lock" /\ pc' = [pc EXCEPT ![t] = "run"]
           /\ Extended(write_set[t], write_set'[t], InsertOf(r))
           /\ \A u \in Txn : u # t => write_set'[u] = write_set[u]
           /\ UNCHANGED <<slots, undo, kind>>
<1> USE RowTypes DEF Base
<1>1. /\ pc[t] = "insert_lock" /\ pc' = [pc EXCEPT ![t] = "run"] /\ UNCHANGED <<slots, undo, kind>>
      /\ write_set' = [write_set EXCEPT ![t] = Append(@, InsertOf(r))]
  BY DEF InsertLock, Goto, InsertOf
<1>2. write_set'[t] = Append(write_set[t], InsertOf(r)) /\ write_set[t] \in Seq(WriteRecords)
  BY <1>1
<1>3. \A u \in Txn : u # t => write_set'[u] = write_set[u]
  BY <1>1
<1>4. QED BY <1>1, <1>2, <1>3, AppendExtends

\* No step makes a version link anywhere else.
LEMMA LinksStep == Base /\ Links /\ [Next]_vars => Links'
<1>1. ASSUME Links, UNCHANGED vars PROVE Links'
  BY <1>1 DEF Links, Linked, vars, table, work
<1>2. ASSUME Base, Links, NEW t \in Txn, Begin(t) \/ Statement(t) \/ End(t) PROVE Links'
  <2> USE RowTypes, UndoTypes, Constants DEF Base
  <2>1. pc'[0] = "done"
    <3>1. 0 # t
      BY <1>2, DoneIsDone DEF Links
    <3>2. \A p : pc' = [pc EXCEPT ![t] = p] => pc'[0] = pc[0]
      BY <3>1
    <3>3. CASE Begin(t)
      BY <1>2, <3>2, <3>3 DEF Links, Begin, BeginId, BeginReadTs, AddTxn, BeginLowLimit, BeginActiveIds,
         BeginRegister, Goto
    <3>4. CASE Statement(t)
      BY <1>2, <3>2, <3>4 DEF Links, Statement, ScanRecord, ReadRecord, WriteRecord, InsertSlot,
         InsertLock, ScanEnd, Victim, Fail, Commit, Goto
    <3>5. CASE End(t)
      BY <1>2, <3>2, <3>5 DEF Links, End, UndoWrite, UndoEnd, Release, EndState, EndCommitTs, RemoveTxn,
         UpdateCommitTs, GcMinimum, GcCollect, CommitAborted, ThreadIdle, Goto
    <3>6. QED BY <1>2, <3>3, <3>4, <3>5
  <2>2. CASE Quiet
    BY <1>2, <2>1, <2>2 DEF Quiet, Links, Linked
  <2>3. ASSUME NEW r \in Rid, WriteRecord(t, r) PROVE Links'
    <3>1. Linked(slots[r])
      BY <1>2, <2>3, WriteMakes DEF Links
    <3>2. 0 # t
      BY <1>2, DoneIsDone DEF Links
    <3>3. Linked(NewSlot(t)) /\ Linked(WriteOf(t, r)) /\ Linked(OldVersion(t, r))
      BY <3>1 DEF Linked, NewSlot, WriteOf, OldVersion
    <3>4. /\ slots' = [slots EXCEPT ![r] = NewSlot(t)]
          /\ Extended(write_set[t], write_set'[t], WriteOf(t, r))
          /\ Extended(undo[t], undo'[t], OldVersion(t, r))
          /\ \A u \in Txn : u # t => write_set'[u] = write_set[u]
          /\ \A u \in Txn : u # t => undo'[u] = undo[u]
      BY <1>2, <2>3, WriteMakes
    <3>5. \A q \in Rid : slots'[q].used => Linked(slots'[q])
      BY <1>2, <3>3, <3>4 DEF Links
    <3>6. ASSUME NEW u \in Txn, NEW i \in DOMAIN undo'[u] PROVE Linked(undo'[u][i])
      <4>1. undo'[u][i] = OldVersion(t, r) \/ (i \in DOMAIN undo[u] /\ undo'[u][i] = undo[u][i])
        BY <3>4, <3>6 DEF Extended
      <4>2. QED BY <1>2, <3>3, <4>1 DEF Links
    <3>7. ASSUME NEW u \in Txn, NEW i \in DOMAIN write_set'[u], write_set'[u][i].type # "insert"
          PROVE  Linked(write_set'[u][i])
      <4>1. \/ write_set'[u][i] = WriteOf(t, r)
            \/ i \in DOMAIN write_set[u] /\ write_set'[u][i] = write_set[u][i]
        BY <3>4, <3>7 DEF Extended
      <4>2. QED BY <1>2, <3>3, <3>7, <4>1 DEF Links
    <3>8. undo'[0] = <<>>
      BY <1>2, <3>2, <3>4 DEF Links
    <3>9. QED BY <2>1, <3>5, <3>6, <3>7, <3>8 DEF Links, Linked
  <2>4. ASSUME NEW r \in Rid, InsertSlot(t, r) PROVE Links'
    <3> DEFINE s == [used |-> TRUE, trx |-> t, roll |-> ZeroLink]
    <3>1. Linked(s)
      BY DEF Linked
    <3>2. slots' = [slots EXCEPT ![r] = s] /\ UNCHANGED <<undo, write_set>>
      BY <1>2, <2>4, InsertMakes
    <3> HIDE DEF s
    <3>3. \A q \in Rid : slots'[q].used => Linked(slots'[q])
      BY <1>2, <3>1, <3>2 DEF Links
    <3>4. QED BY <1>2, <2>1, <3>2, <3>3 DEF Links, Linked
  <2>5. ASSUME NEW r \in Rid, InsertLock(t, r) PROVE Links'
    <3>1. /\ UNCHANGED <<slots, undo>>
          /\ Extended(write_set[t], write_set'[t], InsertOf(r))
          /\ \A u \in Txn : u # t => write_set'[u] = write_set[u]
      BY <1>2, <2>5, LockMakes
    <3>2. /\ \A u \in Txn : \A i \in DOMAIN write_set'[u] :
                \/ write_set'[u][i].type = "insert"
                \/ i \in DOMAIN write_set[u] /\ write_set'[u][i] = write_set[u][i]
      BY <3>1 DEF Extended, InsertOf
    <3>3. \A u \in Txn : \A i \in DOMAIN write_set'[u] :
              write_set'[u][i].type # "insert" => Linked(write_set'[u][i])
      BY <1>2, <3>1, <3>2 DEF Links
    <3>4. \A q \in Rid : slots'[q].used => Linked(slots'[q])
      BY <1>2, <3>1 DEF Links
    <3>5. QED BY <1>2, <2>1, <3>1, <3>3, <3>4 DEF Links, Linked
  <2>6. CASE UndoWrite(t)
    <3> DEFINE n == Len(write_set[t])
               e == write_set[t][n]
    <3>1. /\ n \in DOMAIN write_set[t] /\ e \in WriteRecords /\ slots' = Restored(e) /\ undo' = undo
          /\ \A u \in Txn : \A i \in DOMAIN write_set'[u] :
                 i \in DOMAIN write_set[u] /\ write_set'[u][i] = write_set[u][i]
      BY <1>2, <2>6, UndoTakes
    <3>2. e.type # "insert" => Linked(e)
      BY <1>2, <3>1 DEF Links
    <3> HIDE DEF n, e
    <3>3. \A q \in Rid : slots'[q].used => Linked(slots'[q])
      <4> SUFFICES ASSUME NEW q \in Rid, slots'[q].used PROVE Linked(slots'[q])
        OBVIOUS
      <4>1. e.rid \in Rid
        BY <3>1 DEF WriteRecords
      <4>2. CASE q # e.rid
        BY <1>2, <3>1, <4>1, <4>2 DEF Restored, Links
      <4>3. CASE q = e.rid
        <5>1. e.type # "insert"
          <6> SUFFICES ASSUME e.type = "insert" PROVE FALSE
            OBVIOUS
          <6>1. slots' = [slots EXCEPT ![e.rid].used = FALSE]
            BY <3>1 DEF Restored
          <6>2. slots[q] \in SlotType /\ slots \in [Rid -> SlotType]
            BY <1>2
          <6>3. slots'[q].used = FALSE
            BY <4>1, <4>3, <6>1, <6>2 DEF SlotType
          <6>4. QED BY <6>3
        <5>2. slots'[q] = [used |-> TRUE, trx |-> e.trx, roll |-> e.roll]
          BY <1>2, <3>1, <4>1, <4>3, <5>1 DEF Restored
        <5>3. QED BY <3>2, <5>1, <5>2 DEF Linked
      <4>4. QED BY <4>2, <4>3
    <3>4. \A u \in Txn : \A i \in DOMAIN write_set'[u] :
              write_set'[u][i].type # "insert" => Linked(write_set'[u][i])
      BY <1>2, <3>1 DEF Links
    <3>5. undo'[0] = <<>> /\ \A u \in Txn : \A i \in DOMAIN undo'[u] : Linked(undo'[u][i])
      BY <1>2, <3>1 DEF Links
    <3>6. QED BY <2>1, <3>3, <3>4, <3>5 DEF Links, Linked
  <2>7. CASE Release(t)
    <3>1. UNCHANGED <<slots, undo>> /\ write_set' = [write_set EXCEPT ![t] = <<>>]
      BY <2>7 DEF Release
    <3>2. \A u \in Txn : \A i \in DOMAIN write_set'[u] :
              i \in DOMAIN write_set[u] /\ write_set'[u][i] = write_set[u][i]
      BY <3>1
    <3>3. \A u \in Txn : \A i \in DOMAIN write_set'[u] :
              write_set'[u][i].type # "insert" => Linked(write_set'[u][i])
      BY <1>2, <3>2 DEF Links
    <3>4. \A q \in Rid : slots'[q].used => Linked(slots'[q])
      BY <1>2, <3>1 DEF Links
    <3>5. QED BY <1>2, <2>1, <3>1, <3>3, <3>4 DEF Links, Linked
  <2>8. QED BY <1>2, <2>2, <2>3, <2>4, <2>5, <2>6, <2>7, QuietOrNot
<1>3. QED BY <1>1, <1>2 DEF Next

-----------------------------------------------------------------------------
(* Write records and undo logs *)

\* Nobody has a write record of the record that is written.
LEMMA WriteOnce ==
    ASSUME Base, Rows, NEW t \in Txn, NEW r \in Rid, WriteRecord(t, r)
    PROVE  \A u \in Txn : ~Writes(u, r) /\ ~Inserts(u, r)
<1> USE RowTypes DEF Base
<1>1. /\ pc[t] = "run" /\ r \in todo[t] /\ t \in shared[r] /\ lock[r] \in {Nil, t}
  BY WriteMakes DEF WriteRecord, CanLock, CanRead
<1>2. \A u \in Txn : ~Inserts(u, r)
  BY <1>1 DEF Inserts, Rows, Inserting
<1>3. \A u \in Txn : ~Writes(u, r)
  <2> SUFFICES ASSUME NEW u \in Txn, NEW i \in DOMAIN write_set[u], write_set[u][i].rid = r
               PROVE  FALSE
    BY DEF Writes
  <2>1. lock[r] = u /\ r \notin todo[u]
    BY DEF Rows, Entries
  <2>2. QED BY <1>1, <2>1, Constants
<1>4. QED BY <1>2, <1>3

\* A step that touches no record keeps the trail.
LEMMA QuietTrail ==
    ASSUME Base, Rows, Trail, NEW t \in Txn, Begin(t) \/ Statement(t) \/ End(t), Quiet,
           \A r \in Rid : ~InsertSlot(t, r) /\ ~InsertLock(t, r)
    PROVE  Trail'
<1> USE RowTypes, UndoTypes, ViewTypes DEF Base
<1>1. Points' /\ Ranked'
  BY DEF Trail, Points, Ranked, Ranks, Quiet
<1>2. /\ \A u \in Txn \ {t} : pc'[u] = pc[u] /\ kind'[u] = kind[u]
      /\ pc[t] = "none" \/ kind'[t] = kind[t]
      /\ pc'[t] \in Beginning \cup {"scan"} => pc[t] \in Beginning \cup {"scan"}
      /\ pc'[t] # "insert_lock"
      /\ pc'[t] = "run" => \/ pc[t] \in {"run", "scan"} /\ kind'[t] = kind[t]
                           \/ pc[t] = "register" /\ kind'[t] \notin {"update", "delete"}
  <2>1. CASE Begin(t)
    <3>1. CASE BeginId(t)
      <4>1. pc[t] = "none" /\ pc' = [pc EXCEPT ![t] = "read_ts"] /\ \A u \in Txn \ {t} : kind'[u] = kind[u]
        BY <3>1, Constants DEF BeginId, Ids, Goto, Txn
      <4>2. QED BY <4>1 DEF Beginning
    <3>2. CASE BeginReadTs(t) \/ AddTxn(t) \/ BeginLowLimit(t) \/ BeginActiveIds(t)
      BY <3>2 DEF BeginReadTs, AddTxn, BeginLowLimit, BeginActiveIds, Goto, Beginning
    <3>3. CASE BeginRegister(t)
      BY <3>3 DEF BeginRegister, Goto, Beginning
    <3>4. QED BY <2>1, <3>1, <3>2, <3>3 DEF Begin
  <2>2. CASE Statement(t)
    <3>1. ASSUME NEW r \in Rid, ScanRecord(t, r) \/ ReadRecord(t, r) \/ WriteRecord(t, r)
          PROVE  pc[t] \in {"scan", "run"} /\ UNCHANGED <<pc, kind>>
      BY <3>1 DEF ScanRecord, ReadRecord, WriteRecord
    <3>2. CASE ScanEnd(t) \/ Victim(t) \/ Fail(t) \/ Commit(t)
      BY <3>2 DEF ScanEnd, Victim, Fail, Commit, Goto, Beginning
    <3>3. QED BY <2>2, <3>1, <3>2 DEF Statement
  <2>3. CASE End(t)
    <3>1. CASE UndoWrite(t)
      BY <3>1 DEF UndoWrite, Beginning
    <3>2. CASE \/ UndoEnd(t) \/ Release(t) \/ EndState(t) \/ EndCommitTs(t) \/ RemoveTxn(t)
               \/ UpdateCommitTs(t) \/ GcMinimum(t) \/ GcCollect(t) \/ CommitAborted(t) \/ ThreadIdle(t)
      <4>1. kind' = kind /\ pc'[t] \notin Running /\ \A u \in Txn \ {t} : pc'[u] = pc[u]
        BY <3>2 DEF UndoEnd, Release, EndState, EndCommitTs, RemoveTxn,
           UpdateCommitTs, GcMinimum, GcCollect, CommitAborted, ThreadIdle, Goto, Running, Beginning
      <4>2. QED BY <4>1 DEF Running, Beginning
    <3>3. QED BY <2>3, <3>1, <3>2 DEF End
  <2>4. QED BY <2>1, <2>2, <2>3
<1>3. Undoes'
  <2>1. ASSUME NEW u \in Txn, pc'[u] \in Beginning \cup {"scan"} PROVE undo'[u] = <<>>
    BY <1>2, <2>1 DEF Quiet, Trail, Undoes
  <2>2. ASSUME NEW u \in Txn, pc'[u] = "insert_lock" PROVE kind'[u] = "insert"
    BY <1>2, <2>2 DEF Trail, Undoes
  <2>3. ASSUME NEW u \in Txn, pc'[u] = "run", kind'[u] \in {"update", "delete"}
        PROVE  Len(undo'[u]) = Len(write_set'[u])
    <3>1. CASE pc[u] = "run" /\ kind'[u] = kind[u]
      BY <2>3, <3>1 DEF Quiet, Trail, Undoes
    <3>2. CASE pc[u] = "scan"
      <4>1. undo[u] = <<>> /\ write_set[u] = <<>>
        BY <3>2 DEF Trail, Undoes, Rows, Clean
      <4>2. QED BY <4>1 DEF Quiet
    <3>3. QED BY <1>2, <2>3, <3>1, <3>2
  <2>4. \A u \in Txn : \A i \in DOMAIN write_set'[u] :
           LET e == write_set'[u][i] IN e.type # "insert" =>
               /\ i \in DOMAIN undo'[u]
               /\ undo'[u][i] = [trx |-> e.trx, roll |-> e.roll, deleted |-> e.type = "delete"]
    BY DEF Quiet, Trail, Undoes
  <2>5. QED BY <2>1, <2>2, <2>3, <2>4 DEF Undoes
<1>4. QED BY <1>1, <1>3 DEF Trail

\* The version replaced is of a transaction that has committed: it replaces nothing
\* any more, nor has anybody replaced a version of the one that writes.
LEMMA WriteRanked ==
    ASSUME Base, States, Rows, Written, Ranked, NEW t \in Txn, NEW r \in Rid, WriteRecord(t, r)
    PROVE  Ranked'
<1> USE RowTypes, UndoTypes DEF Base
<1>1. Extended(undo[t], undo'[t], OldVersion(t, r)) /\ \A u \in Txn : u # t => undo'[u] = undo[u]
  BY WriteMakes
<1>2. PICK rank \in [Txn -> Nat] : Ranks(rank)
  BY DEF Ranked
<1>3. PICK w \in Txn : w = slots[r].trx /\ HasCommitted(w)
  <2>1. slots[r].used
    BY WriteMakes
  <2>2. slots[r].trx \in Txn
    BY <2>1 DEF Versions
  <2>3. HasCommitted(slots[r].trx)
    BY <2>1, WriteOnce, WriterKnown
  <2>4. QED BY <2>2, <2>3
<1>4. ~HasCommitted(t)
  BY WriteMakes DEF HasCommitted, States, Running
<1>5. w # t
  BY <1>3, <1>4
<1> DEFINE new == [rank EXCEPT ![t] = rank[t] + rank[w] + 1]
<1>6. new \in [Txn -> Nat] /\ new[w] = rank[w] /\ \A u \in Txn : u # t => new[u] = rank[u]
  BY <1>5
<1>7. rank[t] \in Nat /\ rank[w] \in Nat /\ new[t] = rank[t] + rank[w] + 1
  OBVIOUS
<1> HIDE DEF new
<1>8. rank[t] < new[t] /\ new[w] < new[t]
  BY <1>6, <1>7
<1>9. OldVersion(t, r).trx = w
  BY <1>3 DEF OldVersion
<1>10. ASSUME NEW u \in Txn, NEW i \in DOMAIN undo'[u] PROVE new[undo'[u][i].trx] < new[u]
  <2>1. \/ u = t /\ undo'[u][i] = OldVersion(t, r)
        \/ i \in DOMAIN undo[u] /\ undo'[u][i] = undo[u][i]
    BY <1>1, <1>10 DEF Extended
  <2>2. CASE u = t /\ undo'[u][i] = OldVersion(t, r)
    BY <1>8, <1>9, <2>2
  <2>3. CASE i \in DOMAIN undo[u] /\ undo'[u][i] = undo[u][i]
    <3>1. PICK x \in Txn : x = undo[u][i].trx
      BY <1>10, <2>3
    <3>2. HasCommitted(x)
      BY <1>10, <2>3, <3>1 DEF Written, Logged
    <3>3. x # t
      BY <1>4, <3>2
    <3>4. rank[x] < rank[u]
      BY <1>2, <1>10, <2>3, <3>1 DEF Ranks
    <3>5. new[x] = rank[x] /\ rank[x] \in Nat /\ rank[u] \in Nat
      BY <1>6, <1>10, <3>3
    <3>6. new[u] \in Nat /\ rank[u] <= new[u]
      <4>1. u # t => new[u] = rank[u]
        BY <1>6, <1>10
      <4>2. new[u] \in Nat
        BY <1>6, <1>10
      <4>3. rank[u] \in Nat
        BY <1>10
      <4>4. CASE u = t
        BY <1>8, <4>2, <4>3, <4>4
      <4>5. CASE u # t
        BY <4>1, <4>3, <4>5
      <4>6. QED BY <4>2, <4>4, <4>5
    <3>7. new[x] < new[u]
      BY <3>4, <3>5, <3>6
    <3>8. QED BY <2>3, <3>1, <3>7
  <2>4. QED BY <2>1, <2>2, <2>3
<1>11. Ranks(new)'
  BY <1>10 DEF Ranks
<1>12. QED BY <1>6, <1>11 DEF Ranked

\* So the trail goes on over a write.
LEMMA WriteTrail ==
    ASSUME Base, States, Rows, Written, Trail, NEW t \in Txn, NEW r \in Rid, WriteRecord(t, r)
    PROVE  Trail'
<1> USE RowTypes, UndoTypes DEF Base
<1> DEFINE n == Len(write_set[t]) + 1
           e == WriteOf(t, r)
           v == OldVersion(t, r)
           s == NewSlot(t)
<1>1. /\ pc[t] = "run" /\ kind[t] \in {"update", "delete"} /\ Len(undo[t]) = Len(write_set[t])
      /\ UNCHANGED <<pc, kind>>
  BY WriteMakes DEF Trail, Undoes
<1>2. slots' = [slots EXCEPT ![r] = s]
  BY WriteMakes
<1>3. /\ n \in DOMAIN undo'[t] /\ undo'[t][n] = v /\ write_set'[t][n] = e
      /\ \A i \in DOMAIN undo[t] : i \in DOMAIN undo'[t] /\ undo'[t][i] = undo[t][i]
      /\ DOMAIN write_set'[t] = DOMAIN write_set[t] \cup {n}
      /\ \A i \in DOMAIN write_set[t] : write_set'[t][i] = write_set[t][i]
      /\ Len(write_set'[t]) = n /\ Len(undo'[t]) = n
  <2>1. Extended(undo[t], undo'[t], v) /\ Extended(write_set[t], write_set'[t], e)
    BY WriteMakes
  <2> HIDE DEF e, v
  <2>2. QED BY <1>1, <2>1 DEF Extended
<1>4. \A u \in Txn : u # t => write_set'[u] = write_set[u] /\ undo'[u] = undo[u]
  BY WriteMakes
<1>5. /\ e.rid = r /\ e.type = kind[t] /\ e.trx = v.trx /\ e.roll = v.roll
      /\ v = [trx |-> e.trx, roll |-> e.roll, deleted |-> e.type = "delete"]
      /\ s = [used |-> e.type = "update", trx |-> t, roll |-> [txn |-> t, idx |-> n - 1]]
  <2>1. Len(write_set[t]) = n - 1
    BY LenProperties
  <2> HIDE DEF n
  <2>2. QED BY <1>1, <2>1 DEF WriteOf, OldVersion, NewSlot
<1> HIDE DEF n, e, v, s
<1>6. ASSUME NEW u \in Txn, NEW i \in DOMAIN write_set'[u]
      PROVE  \/ u = t /\ i = n
             \/ i \in DOMAIN write_set[u] /\ write_set'[u][i] = write_set[u][i]
  <2>1. CASE u = t
    BY <1>3, <1>6, <2>1
  <2>2. CASE u # t
    BY <1>4, <1>6, <2>2
  <2>3. QED BY <2>1, <2>2
<1>7. Undoes'
  <2>1. \A u \in Txn : pc'[u] \in Beginning \cup {"scan"} => undo'[u] = <<>>
    BY <1>1, <1>4 DEF Trail, Undoes, Beginning
  <2>2. \A u \in Txn : pc'[u] = "insert_lock" => kind'[u] = "insert"
    BY <1>1 DEF Trail, Undoes
  <2>3. \A u \in Txn : pc'[u] = "run" /\ kind'[u] \in {"update", "delete"} =>
                           Len(undo'[u]) = Len(write_set'[u])
    BY <1>1, <1>3, <1>4 DEF Trail, Undoes
  <2>4. ASSUME NEW u \in Txn, NEW i \in DOMAIN write_set'[u], write_set'[u][i].type # "insert"
        PROVE  /\ i \in DOMAIN undo'[u]
               /\ undo'[u][i] = [trx |-> write_set'[u][i].trx, roll |-> write_set'[u][i].roll,
                                 deleted |-> write_set'[u][i].type = "delete"]
    <3>1. CASE u = t /\ i = n
      BY <1>3, <1>5, <3>1
    <3>2. CASE i \in DOMAIN write_set[u] /\ write_set'[u][i] = write_set[u][i]
      <4>1. /\ i \in DOMAIN undo[u]
            /\ undo[u][i] = [trx |-> write_set[u][i].trx, roll |-> write_set[u][i].roll,
                             deleted |-> write_set[u][i].type = "delete"]
        BY <2>4, <3>2 DEF Trail, Undoes
      <4>2. i \in DOMAIN undo'[u] /\ undo'[u][i] = undo[u][i]
        BY <1>3, <1>4, <2>4, <4>1
      <4>3. QED BY <3>2, <4>1, <4>2
    <3>3. QED BY <1>6, <2>4, <3>1, <3>2
  <2>5. QED BY <2>1, <2>2, <2>3, <2>4 DEF Undoes
<1>8. Points'
  <2> SUFFICES ASSUME NEW u \in Txn, NEW i \in DOMAIN write_set'[u], write_set'[u][i].type # "insert"
               PROVE  slots'[write_set'[u][i].rid] =
                          [used |-> write_set'[u][i].type = "update", trx |-> u,
                           roll |-> [txn |-> u, idx |-> i - 1]]
    BY DEF Points
  <2>1. CASE u = t /\ i = n
    BY <1>2, <1>3, <1>5, <2>1
  <2>2. CASE i \in DOMAIN write_set[u] /\ write_set'[u][i] = write_set[u][i]
    <3>1. write_set[u][i].rid # r /\ write_set[u][i].rid \in Rid
      BY <2>2, WriteOnce DEF Writes
    <3>2. slots[write_set[u][i].rid] = [used |-> write_set[u][i].type = "update", trx |-> u,
                                       roll |-> [txn |-> u, idx |-> i - 1]]
      BY <2>2 DEF Trail, Points
    <3>3. QED BY <1>2, <2>2, <3>1, <3>2
  <2>3. QED BY <1>6, <2>1, <2>2
<1>9. QED BY <1>7, <1>8, WriteRanked DEF Trail

\* What is still to be rolled back is as it was, but for the records inserted.
StillThere ==
    \A u \in Txn : \A i \in DOMAIN write_set'[u] :
        \/ write_set'[u][i].type = "insert"
        \/ /\ i \in DOMAIN write_set[u] /\ write_set'[u][i] = write_set[u][i]
           /\ slots'[write_set[u][i].rid] = slots[write_set[u][i].rid]

\* A step that writes nothing new and keeps the records that have been written.
LEMMA KeptTrail ==
    ASSUME Trail, NEW t \in Txn, undo' = undo, StillThere,
           \A u \in Txn : u # t => pc'[u] = pc[u] /\ kind'[u] = kind[u] /\ write_set'[u] = write_set[u],
           pc'[t] \notin Beginning \cup {"scan"}, pc'[t] = "insert_lock" => kind'[t] = "insert",
           pc'[t] = "run" => kind'[t] \notin {"update", "delete"}
    PROVE  Trail'
<1>1. Undoes'
  <2>1. \A u \in Txn : pc'[u] \in Beginning \cup {"scan"} => undo'[u] = <<>>
    BY DEF Trail, Undoes
  <2>2. \A u \in Txn : pc'[u] = "insert_lock" => kind'[u] = "insert"
    BY DEF Trail, Undoes
  <2>3. \A u \in Txn : pc'[u] = "run" /\ kind'[u] \in {"update", "delete"} =>
                           Len(undo'[u]) = Len(write_set'[u])
    BY DEF Trail, Undoes
  <2>4. ASSUME NEW u \in Txn, NEW i \in DOMAIN write_set'[u], write_set'[u][i].type # "insert"
        PROVE  /\ i \in DOMAIN undo'[u]
               /\ undo'[u][i] = [trx |-> write_set'[u][i].trx, roll |-> write_set'[u][i].roll,
                                 deleted |-> write_set'[u][i].type = "delete"]
    <3>1. i \in DOMAIN write_set[u] /\ write_set'[u][i] = write_set[u][i]
      BY <2>4 DEF StillThere
    <3>2. QED BY <2>4, <3>1 DEF Trail, Undoes
  <2>5. QED BY <2>1, <2>2, <2>3, <2>4 DEF Undoes
<1>2. Points'
  <2> SUFFICES ASSUME NEW u \in Txn, NEW i \in DOMAIN write_set'[u], write_set'[u][i].type # "insert"
               PROVE  slots'[write_set'[u][i].rid] =
                          [used |-> write_set'[u][i].type = "update", trx |-> u,
                           roll |-> [txn |-> u, idx |-> i - 1]]
    BY DEF Points
  <2>1. /\ i \in DOMAIN write_set[u] /\ write_set'[u][i] = write_set[u][i]
        /\ slots'[write_set[u][i].rid] = slots[write_set[u][i].rid]
    BY DEF StillThere
  <2>2. QED BY <2>1 DEF Trail, Points
<1>3. Ranked'
  BY DEF Trail, Ranked, Ranks
<1>4. QED BY <1>1, <1>2, <1>3 DEF Trail

\* An insert lays none.
LEMMA InsertTrail ==
    ASSUME Base, Rows, Trail, NoUnlockedInsert', NEW t \in Txn, NEW r \in Rid,
           InsertSlot(t, r) \/ InsertLock(t, r)
    PROVE  Trail'
<1> USE RowTypes, ViewTypes DEF Base
<1>1. CASE InsertSlot(t, r)
  <2>1. /\ kind[t] = "insert" /\ write_set[t] = <<>> /\ pc' = [pc EXCEPT ![t] = "insert_lock"]
        /\ slots' = [slots EXCEPT ![r] = [used |-> TRUE, trx |-> t, roll |-> ZeroLink]]
        /\ UNCHANGED <<undo, write_set, kind>>
    BY <1>1, InsertMakes
  <2>2. lock[r] \in {Nil, t}
    BY <1>1 DEF InsertSlot, NoUnlockedInsert, CanLock, CanRead
  <2>3. ASSUME NEW u \in Txn, NEW i \in DOMAIN write_set[u]
        PROVE  write_set[u][i].rid # r /\ write_set[u][i].rid \in Rid
    <3>1. lock[write_set[u][i].rid] = u
      BY <2>3 DEF Rows, Entries
    <3>2. u # t
      BY <2>1, <2>3
    <3>3. u # Nil
      BY <2>3, Constants
    <3>4. QED BY <2>2, <2>3, <3>1, <3>2, <3>3
  <2>4. StillThere
    BY <2>1, <2>3 DEF StillThere
  <2>5. /\ pc'[t] = "insert_lock" /\ kind'[t] = "insert"
        /\ \A u \in Txn : u # t => pc'[u] = pc[u] /\ kind'[u] = kind[u] /\ write_set'[u] = write_set[u]
    BY <2>1
  <2>6. pc'[t] \notin Beginning \cup {"scan"}
    BY <2>5 DEF Beginning
  <2>7. QED BY <2>1, <2>4, <2>5, <2>6, KeptTrail
<1>2. CASE InsertLock(t, r)
  <2>1. /\ pc[t] = "insert_lock" /\ pc' = [pc EXCEPT ![t] = "run"] /\ UNCHANGED <<slots, undo, kind>>
        /\ Extended(write_set[t], write_set'[t], InsertOf(r))
        /\ \A u \in Txn : u # t => write_set'[u] = write_set[u]
    BY <1>2, LockMakes
  <2>2. kind'[t] = "insert"
    BY <2>1 DEF Trail, Undoes
  <2>3. ASSUME NEW u \in Txn, NEW i \in DOMAIN write_set'[u]
        PROVE  \/ write_set'[u][i].type = "insert"
               \/ i \in DOMAIN write_set[u] /\ write_set'[u][i] = write_set[u][i]
    <3>1. CASE u = t
      BY <2>1, <2>3, <3>1 DEF Extended, InsertOf
    <3>2. CASE u # t
      BY <2>1, <2>3, <3>2
    <3>3. QED BY <3>1, <3>2
  <2>4. /\ pc'[t] = "run"
        /\ \A u \in Txn : u # t => pc'[u] = pc[u] /\ kind'[u] = kind[u] /\ write_set'[u] = write_set[u]
    BY <2>1
  <2>5. pc'[t] \notin Beginning \cup {"scan"}
    BY <2>4 DEF Beginning
  <2>6. StillThere
    BY <2>1, <2>3 DEF StillThere
  <2>7. QED BY <2>1, <2>2, <2>4, <2>5, <2>6, KeptTrail
<1>3. QED BY <1>1, <1>2

\* A rollback takes the trail up from its end, the release of the locks leaves it.
LEMMA EndTrail ==
    ASSUME Base, Rows, Trail, NEW t \in Txn, UndoWrite(t) \/ Release(t)
    PROVE  Trail'
<1> USE RowTypes, ViewTypes DEF Base
<1>1. CASE UndoWrite(t)
  <2> DEFINE n == Len(write_set[t])
             e == write_set[t][n]
  <2>1. /\ pc[t] = "undo" /\ n \in DOMAIN write_set[t] /\ e \in WriteRecords /\ slots' = Restored(e)
        /\ DOMAIN write_set'[t] = DOMAIN write_set[t] \ {n}
        /\ \A i \in DOMAIN write_set'[t] : write_set'[t][i] = write_set[t][i]
        /\ \A u \in Txn : u # t => write_set'[u] = write_set[u]
        /\ UNCHANGED <<pc, kind, undo>>
    BY <1>1, UndoTakes
  <2> HIDE DEF n
  <2>2. e.rid \in Rid /\ \A q \in Rid : q # e.rid => slots'[q] = slots[q]
    BY <2>1 DEF Restored
  <2>3. ASSUME NEW u \in Txn, NEW i \in DOMAIN write_set[u], u # t \/ i # n
        PROVE  write_set[u][i].rid # e.rid /\ write_set[u][i].rid \in Rid
    <3>1. lock[e.rid] = t /\ \A j \in DOMAIN write_set[t] : write_set[t][j].rid = e.rid => j = n
      BY <2>1 DEF Rows, Entries
    <3>2. lock[write_set[u][i].rid] = u
      BY <2>3 DEF Rows, Entries
    <3>3. CASE u = t
      BY <2>3, <3>1, <3>3
    <3>4. CASE u # t
      BY <2>3, <3>1, <3>2, <3>4
    <3>5. QED BY <3>3, <3>4
  <2> HIDE DEF e
  <2>4. \A u \in Txn : \A i \in DOMAIN write_set'[u] :
            /\ i \in DOMAIN write_set[u] /\ write_set'[u][i] = write_set[u][i]
            /\ u # t \/ i # n
    BY <2>1
  <2>5. StillThere
    BY <2>2, <2>3, <2>4 DEF StillThere
  <2>6. pc'[t] \notin Beginning \cup {"scan"} /\ pc'[t] \notin {"insert_lock", "run"}
    BY <2>1 DEF Beginning
  <2>7. \A u \in Txn : u # t => pc'[u] = pc[u] /\ kind'[u] = kind[u] /\ write_set'[u] = write_set[u]
    BY <2>1
  <2>8. QED BY <2>1, <2>5, <2>6, <2>7, KeptTrail
<1>2. CASE Release(t)
  <2>1. /\ UNCHANGED <<slots, undo, kind>> /\ write_set' = [write_set EXCEPT ![t] = <<>>]
        /\ pc' = [pc EXCEPT ![t] = "state"]
    BY <1>2 DEF Release, Goto
  <2>2. StillThere
    BY <2>1 DEF StillThere
  <2>3. /\ pc'[t] = "state"
        /\ \A u \in Txn : u # t => pc'[u] = pc[u] /\ kind'[u] = kind[u] /\ write_set'[u] = write_set[u]
    BY <2>1
  <2>4. pc'[t] \notin Beginning \cup {"scan"}
    BY <2>3 DEF Beginning
  <2>5. QED BY <2>1, <2>2, <2>3, <2>4, KeptTrail
<1>3. QED BY <1>1, <1>2

\* The trail, over all steps.
LEMMA TrailStep ==
    Base /\ States /\ Rows /\ Written /\ Trail /\ [Next]_vars /\ NoUnlockedInsert' => Trail'
<1>1. ASSUME Trail, UNCHANGED vars PROVE Trail'
  BY <1>1 DEF Trail, Undoes, Points, Ranked, Ranks, vars, table, work
<1>2. ASSUME Base, States, Rows, Written, Trail, NoUnlockedInsert', NEW t \in Txn,
             Begin(t) \/ Statement(t) \/ End(t)
      PROVE  Trail'
  <2>1. CASE \E r \in Rid : WriteRecord(t, r) \/ InsertSlot(t, r) \/ InsertLock(t, r)
    BY <1>2, <2>1, WriteTrail, InsertTrail
  <2>2. CASE UndoWrite(t) \/ Release(t)
    BY <1>2, <2>2, EndTrail
  <2>3. QED BY <1>2, <2>1, <2>2, QuietOrNot, QuietTrail
<1>3. QED BY <1>1, <1>2 DEF Next

-----------------------------------------------------------------------------
(* Who is hidden from a reader *)

\* What a step of t does to the time stamps and views of others: nothing.
Alone(t) ==
    /\ \A u \in Txn : u # t =>
           /\ pc'[u] = pc[u] /\ state'[u] = state[u] /\ read_ts'[u] = read_ts[u]
           /\ commit_ts'[u] = commit_ts[u] /\ view'[u] = view[u] /\ gc_min'[u] = gc_min[u]
    /\ aborted \subseteq aborted'

\* It holds of every step.
LEMMA StepAlone ==
    ASSUME Base, NEW t \in Txn, Begin(t) \/ Statement(t) \/ End(t)
    PROVE  Alone(t)
<1> USE TimeTypes, ViewTypes DEF Base
<1>1. CASE Begin(t)
  <2>1. CASE BeginId(t)
    BY <2>1 DEF Alone, BeginId, Goto, ghosts
  <2>2. CASE BeginReadTs(t)
    BY <2>2 DEF Alone, BeginReadTs, Goto, ghosts
  <2>3. CASE AddTxn(t)
    BY <2>3 DEF Alone, AddTxn, Goto, ghosts
  <2>4. CASE BeginLowLimit(t) \/ BeginActiveIds(t)
    BY <2>4 DEF Alone, BeginLowLimit, BeginActiveIds, Goto, ghosts
  <2>5. CASE BeginRegister(t)
    BY <2>5 DEF Alone, BeginRegister, Goto, ghosts
  <2>6. QED BY <1>1, <2>1, <2>2, <2>3, <2>4, <2>5 DEF Begin
<1>2. CASE Statement(t)
  <2>1. ASSUME NEW r \in Rid, \/ ScanRecord(t, r) \/ ReadRecord(t, r) \/ WriteRecord(t, r)
                              \/ InsertSlot(t, r) \/ InsertLock(t, r)
        PROVE  Alone(t)
    BY <2>1 DEF Alone, ScanRecord, ReadRecord, WriteRecord, InsertSlot, InsertLock, Goto, ghosts
  <2>2. CASE ScanEnd(t) \/ Victim(t) \/ Fail(t) \/ Commit(t)
    BY <2>2 DEF Alone, ScanEnd, Victim, Fail, Commit, Goto, ghosts
  <2>3. QED BY <1>2, <2>1, <2>2 DEF Statement
<1>3. CASE End(t)
  <2>1. CASE UndoWrite(t) \/ UndoEnd(t) \/ Release(t) \/ EndState(t) \/ CommitAborted(t)
    BY <2>1 DEF Alone, UndoWrite, UndoEnd, Release, EndState, CommitAborted, Goto, ghosts
  <2>2. CASE EndCommitTs(t)
    BY <2>2 DEF Alone, EndCommitTs, Goto, ghosts
  <2>3. CASE RemoveTxn(t)
    <3>1. pc' = [pc EXCEPT ![t] = "update"] /\ UNCHANGED <<state, read_ts, commit_ts, view, gc_min, aborted>>
      BY <2>3 DEF RemoveTxn, Goto, ghosts
    <3>2. QED BY <3>1 DEF Alone
  <2>4. CASE UpdateCommitTs(t) \/ GcCollect(t) \/ ThreadIdle(t)
    <3>1. /\ \E p : pc' = [pc EXCEPT ![t] = p]
          /\ UNCHANGED <<state, read_ts, commit_ts, view, gc_min, aborted>>
      BY <2>4 DEF UpdateCommitTs, GcCollect, ThreadIdle, Goto, ghosts
    <3>2. QED BY <3>1 DEF Alone
  <2>5. CASE GcMinimum(t)
    <3>1. /\ \E p : pc' = [pc EXCEPT ![t] = p]
          /\ \E m : gc_min' = gc_min \/ gc_min' = [gc_min EXCEPT ![t] = m]
          /\ UNCHANGED <<state, read_ts, commit_ts, view, aborted>>
      BY <2>5 DEF GcMinimum, Goto, ghosts
    <3>2. gc_min \in [Txn -> TimeType]
      BY DEF TypeOK
    <3>3. \A u \in Txn : u # t => gc_min'[u] = gc_min[u]
      BY <3>1, <3>2
    <3>4. \A u \in Txn : u # t => pc'[u] = pc[u]
      BY <3>1
    <3>5. QED BY <3>1, <3>3, <3>4 DEF Alone
  <2>6. QED BY <1>3, <2>1, <2>2, <2>3, <2>4, <2>5 DEF End
<1>4. QED BY <1>1, <1>2, <1>3

\* A step after which t has its time stamp as it should keeps the stamps.
LEMMA StampsKept ==
    ASSUME Stamps, NEW t \in Txn, Alone(t),
           t \notin aborted' =>
               /\ pc'[t] = "stamp" => state'[t] = "COMMITTED"
               /\ commit_ts'[t] # -1 => state'[t] = "COMMITTED" /\ pc'[t] \in Ending
    PROVE  Stamps'
BY DEF Stamps, Alone

\* Only EndCommitTs stamps, after EndState, and what is done stays done.
LEMMA StampsStep == Base /\ Clock /\ States /\ Stamps /\ [Next]_vars => Stamps'
<1>1. ASSUME Stamps, UNCHANGED vars PROVE Stamps'
  BY <1>1 DEF Stamps, vars, ghosts
<1>2. ASSUME Base, Clock, States, Stamps, NEW t \in Txn, Begin(t) \/ Statement(t) \/ End(t)
      PROVE  Stamps'
  <2> USE TimeTypes, ViewTypes DEF Base
  <2> DEFINE Good == t \notin aborted' =>
                         /\ pc'[t] = "stamp" => state'[t] = "COMMITTED"
                         /\ commit_ts'[t] # -1 => state'[t] = "COMMITTED" /\ pc'[t] \in Ending
  <2>1. Alone(t)
    BY <1>2, StepAlone
  <2>2. CASE Begin(t)
    <3>1. pc[t] \in Beginning
      BY <1>2, <2>2, Constants DEF Begin, BeginId, BeginReadTs, AddTxn, BeginLowLimit, BeginActiveIds,
         BeginRegister, Beginning, Ids, Txn
    <3>2. commit_ts[t] = -1
      BY <1>2, <3>1 DEF Clock, Stamped
    <3>3. commit_ts' = commit_ts /\ pc'[t] # "stamp"
      BY <1>2, <2>2 DEF Begin, BeginId, BeginReadTs, AddTxn, BeginLowLimit, BeginActiveIds,
         BeginRegister, Goto
    <3>4. Good
      BY <3>2, <3>3
    <3>5. QED BY <1>2, <2>1, <3>4, StampsKept
  <2>3. CASE Statement(t)
    <3>1. pc[t] \in {"scan", "run", "insert_lock"} /\ commit_ts' = commit_ts /\ aborted' = aborted
      BY <2>3 DEF Statement, ScanRecord, ReadRecord, WriteRecord, InsertSlot, InsertLock, ScanEnd, Victim,
         Fail, Commit, ghosts
    <3>2. t \notin aborted => commit_ts[t] = -1
      BY <1>2, <3>1 DEF Stamps, Ending
    <3>3. pc'[t] # "stamp"
      BY <1>2, <2>3, <3>1 DEF Statement, ScanRecord, ReadRecord, WriteRecord, InsertSlot, InsertLock,
         ScanEnd, Victim,
         Fail, Commit, Goto
    <3>4. Good
      BY <3>1, <3>2, <3>3
    <3>5. QED BY <1>2, <2>1, <3>4, StampsKept
  <2>4. CASE UndoWrite(t) \/ UndoEnd(t) \/ Release(t)
    <3>1. /\ pc[t] \in {"undo", "release"} /\ pc'[t] # "stamp" /\ commit_ts' = commit_ts
          /\ aborted \subseteq aborted'
      BY <1>2, <2>4 DEF UndoWrite, UndoEnd, Release, Goto, ghosts
    <3>2. t \notin aborted => commit_ts[t] = -1
      BY <1>2, <3>1 DEF Stamps, Ending
    <3>3. Good
      BY <3>1, <3>2
    <3>4. QED BY <1>2, <2>1, <3>3, StampsKept
  <2>5. CASE EndState(t)
    <3>1. /\ pc[t] = "state" /\ commit_ts' = commit_ts /\ aborted' = aborted
          /\ t \notin aborted => state'[t] = "COMMITTED"
      BY <1>2, <2>5 DEF EndState, ghosts
    <3>2. t \notin aborted => commit_ts[t] = -1
      BY <1>2, <3>1 DEF Stamps, Ending
    <3>3. Good
      BY <3>1, <3>2
    <3>4. QED BY <1>2, <2>1, <3>3, StampsKept
  <2>6. CASE EndCommitTs(t)
    <3>1. pc[t] = "stamp" /\ pc'[t] = "remove" /\ state' = state /\ aborted' = aborted
      BY <1>2, <2>6 DEF EndCommitTs, Goto, ghosts
    <3>2. Good
      BY <1>2, <3>1 DEF Stamps, Ending
    <3>3. QED BY <1>2, <2>1, <3>2, StampsKept
  <2>7. CASE CommitAborted(t)
    <3>1. t \in aborted /\ aborted' = aborted
      BY <1>2, <2>7 DEF CommitAborted, States, ghosts
    <3>2. Good
      BY <3>1
    <3>3. QED BY <1>2, <2>1, <3>2, StampsKept
  <2>8. CASE RemoveTxn(t) \/ UpdateCommitTs(t) \/ GcMinimum(t) \/ GcCollect(t) \/ ThreadIdle(t)
    <3>1. pc'[t] \in Ending /\ UNCHANGED <<state, commit_ts, aborted>>
      BY <1>2, <2>8 DEF RemoveTxn, UpdateCommitTs, GcMinimum, GcCollect, ThreadIdle, Goto, Ending, ghosts
    <3>2. Good
      BY <1>2, <3>1 DEF Stamps, Ending
    <3>3. QED BY <1>2, <2>1, <3>2, StampsKept
  <2>9. QED BY <1>2, <2>2, <2>3, <2>4, <2>5, <2>6, <2>7, <2>8 DEF End
<1>3. QED BY <1>1, <1>2 DEF Next

\* The time stamps of the readers under way are theirs alone and are all counted.
LEMMA CountedKept ==
    ASSUME Counted, NEW t \in Txn, Alone(t), read_ts' = read_ts,
           Timed(t)' => Timed(t),
           pc'[t] \in Counting => pc[t] \in Counting \/ read_ts[t] \in current_reads',
           \A x \in current_reads :
               x \in current_reads' \/ (x = read_ts[t] /\ Timed(t) /\ pc'[t] \notin Counting)
    PROVE  Counted'
<1>1. \A u \in Txn : Timed(u)' => Timed(u)
  BY DEF Alone, Timed
<1>2. \A u, w \in Txn : Timed(u)' /\ Timed(w)' /\ read_ts'[u] = read_ts'[w] => u = w
  BY <1>1 DEF Counted
<1>3. ASSUME NEW u \in Txn, pc'[u] \in Counting PROVE read_ts'[u] \in current_reads'
  <2>1. CASE u = t
    BY <1>3, <2>1 DEF Counted
  <2>2. CASE u # t
    <3>1. pc[u] \in Counting
      BY <1>3, <2>2 DEF Alone
    <3>2. Timed(u)
      BY <3>1 DEF Timed, Counting, Viewing
    <3>3. read_ts[u] \in current_reads
      BY <3>1 DEF Counted
    <3>4. Timed(t) => read_ts[u] # read_ts[t]
      BY <2>2, <3>2 DEF Counted
    <3>5. QED BY <3>3, <3>4
  <2>3. QED BY <2>1, <2>2
<1>4. QED BY <1>2, <1>3 DEF Counted, Timed

\* AddTxn counts a reader, RemoveTxn takes away only the one that ends.
LEMMA CountedStep == Base /\ Clock /\ Counted /\ [Next]_vars => Counted'
<1>1. ASSUME Counted, UNCHANGED vars PROVE Counted'
  BY <1>1 DEF Counted, Timed, vars, marks
<1>2. ASSUME Base, Clock, Counted, NEW t \in Txn, Begin(t) \/ Statement(t) \/ End(t)
      PROVE  Counted'
  <2> USE TimeTypes, ViewTypes DEF Base
  <2>1. Alone(t)
    BY <1>2, StepAlone
  <2>2. CASE BeginId(t)
    <3>1. pc'[t] = "read_ts" /\ UNCHANGED <<read_ts, current_reads>>
      BY <1>2, <2>2 DEF BeginId, Goto, marks
    <3>2. QED BY <1>2, <2>1, <3>1, CountedKept DEF Timed, Counting, Viewing
  <2>3. CASE BeginReadTs(t)
    <3>1. /\ pc[t] = "read_ts" /\ pc'[t] = "add" /\ read_ts' = [read_ts EXCEPT ![t] = next_timestamp]
          /\ current_reads' = current_reads
      BY <1>2, <2>3 DEF BeginReadTs, Goto, marks
    <3>2. read_ts'[t] = next_timestamp /\ \A u \in Txn : read_ts[u] < next_timestamp
      <4>1. read_ts \in [Txn -> TimeType]
        BY <1>2 DEF TypeOK
      <4>2. QED BY <1>2, <3>1, <4>1 DEF Clock, Times
    <3>3. \A u \in Txn : u # t => read_ts'[u] = read_ts[u] /\ read_ts[u] # next_timestamp
      BY <1>2, <2>1, <3>2 DEF Alone
    <3>4. \A u, w \in Txn : Timed(u)' /\ Timed(w)' /\ read_ts'[u] = read_ts'[w] => u = w
      <4>1. \A u \in Txn : u # t /\ Timed(u)' => Timed(u)
        BY <2>1 DEF Timed, Alone
      <4>2. QED BY <1>2, <3>2, <3>3, <4>1 DEF Counted
    <3>5. \A u \in Txn : pc'[u] \in Counting => read_ts'[u] \in current_reads'
      BY <1>2, <2>1, <3>1 DEF Counted, Alone, Counting, Viewing
    <3>6. QED BY <3>4, <3>5 DEF Counted, Timed
  <2>4. CASE AddTxn(t)
    <3>1. /\ pc[t] = "add" /\ current_reads' = current_reads \cup {read_ts[t]} /\ read_ts' = read_ts
      BY <2>4 DEF AddTxn
    <3>2. QED BY <1>2, <2>1, <3>1, CountedKept DEF Timed
  <2>5. CASE RemoveTxn(t)
    <3>1. /\ pc[t] = "remove" /\ pc'[t] = "update" /\ read_ts' = read_ts
          /\ \A x \in current_reads : x \in current_reads' \/ x = read_ts[t]
      BY <1>2, <2>5 DEF RemoveTxn, Goto
    <3>2. QED BY <1>2, <2>1, <3>1, CountedKept DEF Timed, Counting, Viewing
  <2>6. ASSUME BeginLowLimit(t) \/ BeginActiveIds(t) \/ BeginRegister(t)
        PROVE  Counted'
    <3>1. /\ pc[t] \in Counting /\ pc'[t] \in Counting /\ UNCHANGED <<read_ts, current_reads>>
      BY <1>2, <2>6 DEF BeginLowLimit, BeginActiveIds, BeginRegister, Goto, marks, Counting, Viewing
    <3>2. Timed(t)
      BY <3>1 DEF Timed, Counting, Viewing
    <3>3. QED BY <1>2, <2>1, <3>1, <3>2, CountedKept
  <2>7. CASE Statement(t)
    <3>1. pc[t] \in {"scan", "run", "insert_lock"} /\ UNCHANGED <<read_ts, current_reads>>
      BY <2>7 DEF Statement, ScanRecord, ReadRecord, WriteRecord, InsertSlot, InsertLock, ScanEnd, Victim,
         Fail, Commit, marks
    <3>2. Timed(t) /\ pc[t] \in Counting
      BY <3>1 DEF Timed, Counting, Viewing
    <3>3. QED BY <1>2, <2>1, <3>1, <3>2, CountedKept
  <2>8. ASSUME End(t), ~RemoveTxn(t)
        PROVE  Counted'
    <3>1. /\ pc[t] \notin {"none", "read_ts"} /\ UNCHANGED <<read_ts, current_reads>>
      BY <2>8 DEF End, UndoWrite, UndoEnd, Release, EndState, EndCommitTs, UpdateCommitTs, GcMinimum,
         GcCollect, CommitAborted, ThreadIdle, marks
    <3>2. pc'[t] \notin Counting
      BY <1>2, <2>8 DEF End, UndoWrite, UndoEnd, Release, EndState, EndCommitTs, UpdateCommitTs, GcMinimum,
         GcCollect, CommitAborted, ThreadIdle, Goto, Counting, Viewing
    <3>3. QED BY <1>2, <2>1, <3>1, <3>2, CountedKept DEF Timed
  <2>9. QED BY <1>2, <2>2, <2>3, <2>4, <2>5, <2>6, <2>7, <2>8 DEF Begin
<1>3. QED BY <1>1, <1>2 DEF Next

\* A step after which t hides nobody new, gets no earlier time stamp, nor a later
\* minimum for collection.
LEMMA LaterKept ==
    ASSUME Base, Later, NEW t \in Txn, Alone(t),
           pc'[t] \in {"active_ids"} \cup Viewing =>
               pc[t] \in {"active_ids"} \cup Viewing /\ read_ts'[t] = read_ts[t],
           pc'[t] \in {"active_ids"} \cup Viewing =>
               \A w \in Txn : Hides(t, w)' => Hides(t, w) \/ commit_ts'[w] = -1 \/ w \in aborted,
           commit_ts'[t] = commit_ts[t],
           pc'[t] = "collect" => pc[t] = "collect" /\ gc_min'[t] = gc_min[t]
    PROVE  Later'
<1> SUFFICES ASSUME NEW u \in Txn, pc'[u] \in {"active_ids"} \cup Viewing,
                    NEW w \in Txn, Hides(u, w)', w \notin aborted', commit_ts'[w] # -1
             PROVE  After(u, w)'
  BY DEF Later
<1>1. commit_ts'[w] = commit_ts[w] /\ w \notin aborted
  BY DEF Alone
<1>2. pc[u] \in {"active_ids"} \cup Viewing /\ read_ts'[u] = read_ts[u]
  BY DEF Alone
<1>3. Hides(u, w)
  <2>1. CASE u = t
    BY <1>1, <2>1
  <2>2. CASE u # t
    BY <2>2 DEF Alone, Hides
  <2>3. QED BY <2>1, <2>2
<1>4. After(u, w)
  BY <1>1, <1>2, <1>3 DEF Later
<1>5. \A c \in Txn : pc'[c] = "collect" => pc[c] = "collect" /\ gc_min'[c] = gc_min[c]
  BY DEF Alone
<1>6. QED BY <1>1, <1>2, <1>4, <1>5 DEF After

\* What a reader does not see is stamped after it: BeginLowLimit and BeginActiveIds take
\* its view when others have no stamp yet, EndCommitTs takes a new time stamp.
LEMMA LaterStep == Base /\ Clock /\ States /\ Stamps /\ Counted /\ Later /\ [Next]_vars => Later'
<1>1. ASSUME Later, UNCHANGED vars PROVE Later'
  BY <1>1 DEF Later, Hides, After, vars, ghosts
<1>2. ASSUME Base, Clock, States, Stamps, Counted, Later, NEW t \in Txn,
             Begin(t) \/ Statement(t) \/ End(t)
      PROVE  Later'
  <2> USE TimeTypes, ViewTypes DEF Base
  <2>1. Alone(t)
    BY <1>2, StepAlone
  <2> DEFINE Looking == {"active_ids"} \cup Viewing
  <2>2. ASSUME pc'[t] \notin Looking, commit_ts' = commit_ts, pc'[t] # "collect"
        PROVE  Later'
    BY <1>2, <2>1, <2>2, LaterKept
  <2>3. ASSUME pc[t] \in Looking, pc'[t] \in Looking => (pc'[t] \in Viewing => pc[t] \in Viewing),
               UNCHANGED <<read_ts, commit_ts, view>>, pc'[t] # "collect"
        PROVE  Later'
    <3>1. pc'[t] \in Looking => \A w \in Txn : Hides(t, w)' => Hides(t, w)
      BY <2>3 DEF Hides
    <3>2. QED BY <1>2, <2>1, <2>3, <3>1, LaterKept
  <2>4. CASE BeginId(t) \/ BeginReadTs(t) \/ AddTxn(t)
    <3>1. pc'[t] \in {"read_ts", "add", "low_limit"} /\ commit_ts' = commit_ts
      BY <1>2, <2>4 DEF BeginId, BeginReadTs, AddTxn, Goto
    <3>2. QED BY <2>2, <3>1 DEF Viewing
  <2>5. CASE BeginLowLimit(t)
    <3>1. /\ pc[t] = "low_limit" /\ pc'[t] = "active_ids" /\ view'[t].low = next_txn_id
          /\ UNCHANGED <<read_ts, commit_ts, gc_min>>
      BY <1>2, <2>5 DEF BeginLowLimit, Goto
    <3>2. ASSUME NEW w \in Txn, w >= next_txn_id PROVE commit_ts[w] = -1
      BY <1>2, <3>2 DEF Ids, Clock, Stamped, Beginning
    <3> SUFFICES ASSUME NEW u \in Txn, pc'[u] \in Looking,
                        NEW w \in Txn, Hides(u, w)', w \notin aborted', commit_ts'[w] # -1
                 PROVE  After(u, w)'
      BY DEF Later
    <3>3. u # t
      <4>1. ASSUME u = t PROVE FALSE
        <5>1. w >= next_txn_id
          BY <3>1, <4>1 DEF Hides, Viewing
        <5>2. QED BY <3>1, <3>2, <5>1
      <4>2. QED BY <4>1
    <3>4. pc[u] \in Looking /\ Hides(u, w) /\ w \notin aborted
      BY <2>1, <3>3 DEF Alone, Hides
    <3>5. After(u, w)
      BY <1>2, <3>1, <3>4 DEF Later
    <3>6. \A c \in Txn : pc'[c] = "collect" => pc[c] = "collect"
      BY <2>1, <3>1 DEF Alone
    <3>7. QED BY <3>1, <3>5, <3>6 DEF After
  <2>6. CASE BeginActiveIds(t)
    <3>1. /\ pc[t] = "active_ids" /\ pc'[t] = "register"
          /\ view'[t].low = view[t].low
          /\ view'[t].active = {u \in txn_map : state[u] \in {"GROWING", "SHRINKING"}}
          /\ UNCHANGED <<read_ts, commit_ts, gc_min>>
      BY <1>2, <2>6 DEF BeginActiveIds, Goto
    <3>2. \A w \in Txn : Hides(t, w)' => Hides(t, w) \/ commit_ts'[w] = -1 \/ w \in aborted
      BY <1>2, <3>1 DEF Hides, Stamps
    <3>3. QED BY <1>2, <2>1, <3>1, <3>2, LaterKept
  <2>7. CASE BeginRegister(t) \/ Statement(t)
    <3>1. /\ pc[t] \in Viewing /\ UNCHANGED <<read_ts, commit_ts, view>>
      BY <2>7 DEF BeginRegister, Statement, ScanRecord, ReadRecord, WriteRecord, InsertSlot, InsertLock,
         ScanEnd, Victim, Fail, Commit, Viewing
    <3>2. pc'[t] # "collect"
      <4>1. CASE BeginRegister(t)
        BY <1>2, <4>1 DEF BeginRegister, Goto
      <4>2. CASE Statement(t)
        BY <1>2, <4>2 DEF Statement, ScanRecord, ReadRecord, WriteRecord, InsertSlot, InsertLock,
           ScanEnd, Victim, Fail, Commit, Goto
      <4>3. QED BY <2>7, <4>1, <4>2
    <3>3. QED BY <2>3, <3>1, <3>2
  <2>8. CASE EndCommitTs(t)
    <3>1. /\ pc[t] = "stamp" /\ pc'[t] = "remove" /\ commit_ts' = [commit_ts EXCEPT ![t] = next_timestamp]
          /\ UNCHANGED <<read_ts, view, gc_min>>
      BY <1>2, <2>8 DEF EndCommitTs, Goto
    <3> SUFFICES ASSUME NEW u \in Txn, pc'[u] \in Looking,
                        NEW w \in Txn, Hides(u, w)', w \notin aborted', commit_ts'[w] # -1
                 PROVE  After(u, w)'
      BY DEF Later
    <3>2. u # t /\ pc[u] = pc'[u] /\ w \notin aborted
      BY <2>1, <3>1 DEF Alone, Viewing
    <3>3. \A c \in Txn : pc'[c] = "collect" => pc[c] = "collect"
      BY <2>1, <3>1 DEF Alone
    <3>4. CASE w = t
      <4>1. commit_ts'[w] = next_timestamp
        <5>1. commit_ts \in [Txn -> TimeType]
          BY <1>2 DEF TypeOK
        <5>2. QED BY <3>1, <3>4, <5>1
      <4>2. read_ts[u] < next_timestamp /\ \A c \in Txn : pc[c] = "collect" => gc_min[c] <= next_timestamp
        BY <1>2 DEF Clock, Times, Collecting
      <4>3. QED BY <3>1, <3>3, <4>1, <4>2 DEF After
    <3>5. CASE w # t
      <4>1. Hides(u, w) /\ commit_ts'[w] = commit_ts[w]
        BY <2>1, <3>1, <3>2, <3>5 DEF Alone, Hides
      <4>2. After(u, w)
        BY <1>2, <3>2, <4>1 DEF Later
      <4>3. QED BY <3>1, <3>3, <4>1, <4>2 DEF After
    <3>6. QED BY <3>4, <3>5
  <2>9. CASE GcMinimum(t)
    <3>1. /\ pc[t] = "gc" /\ pc'[t] \in {"ended", "collect"} /\ UNCHANGED <<read_ts, commit_ts, view>>
          /\ \A u \in Txn : u # t => gc_min'[u] = gc_min[u]
          /\ aborted' = aborted
      BY <1>2, <2>1, <2>9 DEF GcMinimum, Goto, Alone, ghosts
    <3>2. pc'[t] = "collect" => gc_min'[t] <= watermark
      <4> DEFINE A == {watermark} \cup {active_ts[u] : u \in Txn}
      <4>1. A \subseteq TimeType /\ watermark \in A /\ A # {}
        BY <1>2 DEF TypeOK
      <4>2. pc'[t] = "collect" => gc_min' = [gc_min EXCEPT ![t] = Min(A)]
        BY <1>2, <2>9 DEF GcMinimum, Goto
      <4> HIDE DEF A
      <4>3. Min(A) <= watermark
        BY <4>1, MinIsLeast
      <4>4. gc_min \in [Txn -> TimeType]
        BY <1>2 DEF TypeOK
      <4>5. QED BY <4>2, <4>3, <4>4
    <3> SUFFICES ASSUME NEW u \in Txn, pc'[u] \in Looking,
                        NEW w \in Txn, Hides(u, w)', w \notin aborted', commit_ts'[w] # -1
                 PROVE  After(u, w)'
      BY DEF Later
    <3>3. u # t /\ pc[u] = pc'[u] /\ w \notin aborted /\ Hides(u, w)
      BY <2>1, <3>1 DEF Alone, Viewing, Hides
    <3>4. After(u, w)
      BY <1>2, <3>1, <3>3 DEF Later
    <3>5. watermark <= read_ts[u]
      <4>1. read_ts[u] \in current_reads
        BY <1>2, <3>3 DEF Counted, Counting
      <4>2. watermark = Min(current_reads)
        BY <1>2, <4>1 DEF Clock, WatermarkIsOldestRead
      <4>3. QED BY <1>2, <4>1, <4>2, MinIsLeast
    <3>6. ASSUME NEW c \in Txn, pc'[c] = "collect" PROVE gc_min'[c] <= commit_ts[w]
      <4>1. CASE c # t
        BY <2>1, <3>4, <3>6, <4>1 DEF Alone, After
      <4>2. CASE c = t
        <5>1. gc_min'[t] <= watermark /\ read_ts[u] < commit_ts[w]
          BY <3>2, <3>4, <3>6, <4>2 DEF After
        <5>2. gc_min'[t] \in Int
          <6>1. TypeOK'
            BY <1>2, BaseStep DEF Next
          <6>2. QED BY <6>1 DEF TypeOK, TimeType
        <5>3. watermark \in Int /\ read_ts[u] \in Int /\ commit_ts[w] \in Int
          BY <1>2
        <5>4. QED BY <3>5, <4>2, <5>1, <5>2, <5>3
      <4>3. QED BY <4>1, <4>2
    <3>7. QED BY <3>1, <3>4, <3>6 DEF After
  <2>10. CASE UndoWrite(t) \/ UndoEnd(t) \/ Release(t) \/ EndState(t) \/ RemoveTxn(t) \/ CommitAborted(t)
    <3>1. pc'[t] \in {"undo", "release", "state", "stamp", "update"} /\ commit_ts' = commit_ts
      BY <1>2, <2>10 DEF UndoWrite, UndoEnd, Release, EndState, RemoveTxn, CommitAborted, Goto
    <3>2. QED BY <2>2, <3>1 DEF Viewing
  <2>11. CASE UpdateCommitTs(t) \/ GcCollect(t) \/ ThreadIdle(t)
    <3>1. pc'[t] \in {"gc", "ended", "done"} /\ commit_ts' = commit_ts
      BY <1>2, <2>11 DEF UpdateCommitTs, GcCollect, ThreadIdle, Goto
    <3>2. QED BY <2>2, <3>1 DEF Viewing
  <2>12. QED BY <1>2, <2>4, <2>5, <2>6, <2>7, <2>8, <2>9, <2>10, <2>11 DEF Begin, End
<1>3. QED BY <1>1, <1>2 DEF Next

\* Init satisfies it all ...
LEMMA SInit == Init => SInv
<1> SUFFICES ASSUME Init PROVE SInv
  OBVIOUS
<1>1. Links
  <2>1. \A t \in Txn : DOMAIN undo[t] = {} /\ DOMAIN write_set[t] = {}
    BY DEF Init
  <2>2. QED BY <2>1, Constants DEF Init, Links, Linked, Unused, ZeroLink
<1>2. Stamps
  BY Constants DEF Init, Stamps, Ending
<1>3. Counted
  BY DEF Init, Counted, Timed, Counting, Viewing
<1>4. Later
  BY DEF Init, Later, Viewing
<1>5. Trail
  <2>1. \A t \in Txn : undo[t] = <<>> /\ write_set[t] = <<>>
                        /\ DOMAIN undo[t] = {} /\ DOMAIN write_set[t] = {}
    BY DEF Init
  <2>2. \A t \in Txn : pc[t] # "insert_lock" /\ pc[t] # "run"
    BY DEF Init
  <2>3. Undoes /\ Points
    BY <2>1, <2>2 DEF Undoes, Points
  <2>4. [t \in Txn |-> 0] \in [Txn -> Nat] /\ Ranks([t \in Txn |-> 0])
    BY <2>1 DEF Ranks
  <2>5. QED BY <2>3, <2>4 DEF Trail, Ranked
<1>6. QED BY <1>1, <1>2, <1>3, <1>4, <1>5 DEF SInv

\* ... and every step keeps it.
LEMMA SnapshotInvariant == Spec => [](IInv /\ RInv /\ SInv)
<1>1. IInv /\ RInv /\ SInv /\ [Next]_vars => SInv'
  <2> SUFFICES ASSUME IInv, RInv, SInv, [Next]_vars PROVE SInv'
    OBVIOUS
  <2>1. Links' /\ Stamps' /\ Counted' /\ Later'
    BY LinksStep, StampsStep, CountedStep, LaterStep DEF IInv, RInv, Reads, SInv
  <2>2. NoUnlockedInsert' => NoUnlockedInsert
    BY FaultsStay DEF NoUnlockedInsert
  <2>3. NoUnlockedInsert' => Trail'
    BY <2>2, TrailStep DEF IInv, RInv, Reads, SInv
  <2>4. QED BY <2>1, <2>3 DEF SInv
<1>2. QED BY <1>1, SInit, ReadInvariant, PTL DEF Spec

-----------------------------------------------------------------------------
(* The way of a read through the versions of a record *)

Steps == 0 .. MaxTxn + 1
First(r) == [trx |-> slots[r].trx, roll |-> slots[r].roll]
EndsAt(t, x) == x.trx \in {Absent, Undefined} \/ is_visible(t, x.trx)

\* A transaction that t does not see and that can be rolled back no more.
Settled(t, w) == ~is_visible(t, w) /\ w \notin aborted /\ pc[w] \notin Beginning

\* v are the versions of r, of which t takes the n-th; those before it are of settled
\* transactions, which it does not see.
Way(t, r, v, n) ==
    /\ v[0] = First(r) /\ \A k \in Steps : k # 0 => k - 1 \in Steps /\ v[k] = Older(v[k - 1])
    /\ n \in Steps /\ v[n] \in VersionType /\ EndsAt(t, v[n])
    /\ \A k \in 0 .. n - 1 :
           /\ k \in Steps /\ ~EndsAt(t, v[k])
           /\ v[k].trx \in Txn /\ v[k].roll \in Link /\ Linked(v[k]) /\ Settled(t, v[k].trx)
    /\ Row(t, r) = v[n].trx

ReadsEnd ==
    NoUnlockedInsert =>
        \A t \in Txn, r \in Rid : Reading(t) /\ slots[r].used => \E v, n : Way(t, r, v, n)

\* A version that has an older one.
LEMMA OlderIs ==
    ASSUME Base, Links, NEW x, x.roll \in Link \cup {NoLink}, Older(x).trx # Undefined, Older(x).trx # Absent
    PROVE  /\ x.roll \in Link /\ x.roll.txn \in txn_map /\ x.roll.txn \in Txn \ {0} /\ x.roll.idx \in Nat
           /\ ~(x.roll.idx >= Len(undo[x.roll.txn])) /\ x.roll.idx + 1 \in DOMAIN undo[x.roll.txn]
           /\ Older(x) = [trx |-> undo[x.roll.txn][x.roll.idx + 1].trx,
                          roll |-> undo[x.roll.txn][x.roll.idx + 1].roll]
<1> DEFINE a == [trx |-> Absent, roll |-> NoLink]
           b == [trx |-> Undefined, roll |-> NoLink]
           u == undo[x.roll.txn][x.roll.idx + 1]
<1>1. a.trx = Absent /\ b.trx = Undefined
  OBVIOUS
<1> HIDE DEF a, b, u
<1>2. Older(x) = IF x.roll = NoLink \/ x.roll.txn \notin txn_map THEN a
                 ELSE IF x.roll.idx >= Len(undo[x.roll.txn]) THEN b
                 ELSE IF u.deleted THEN a
                 ELSE [trx |-> u.trx, roll |-> u.roll]
  BY DEF Older, a, b, u
<1>3. /\ x.roll # NoLink /\ x.roll.txn \in txn_map /\ ~(x.roll.idx >= Len(undo[x.roll.txn]))
      /\ Older(x) = [trx |-> u.trx, roll |-> u.roll]
  BY <1>1, <1>2
<1>4. x.roll \in Link
  BY <1>3
<1>5. x.roll.txn \in Txn /\ x.roll.idx \in Nat
  BY <1>4 DEF Link
<1>6. undo[x.roll.txn] \in Seq([trx : Txn, roll : Link, deleted : BOOLEAN])
  BY <1>5, UndoTypes DEF Base
<1>7. x.roll.idx + 1 \in DOMAIN undo[x.roll.txn]
  BY <1>3, <1>5, <1>6
<1>8. x.roll.txn # 0
  <2> SUFFICES ASSUME x.roll.txn = 0 PROVE FALSE
    OBVIOUS
  <2>1. undo[x.roll.txn] = <<>>
    BY DEF Links
  <2>2. Len(undo[x.roll.txn]) = 0
    BY <2>1
  <2>3. QED BY <1>3, <1>5, <2>2
<1>9. QED BY <1>3, <1>4, <1>5, <1>7, <1>8 DEF u

\* The versions that a read goes through, and could go through if it went on.
Versioned(r, v) ==
    /\ v = [n \in Steps |-> IF n = 0 THEN First(r) ELSE Older(v[n - 1])]
    /\ v[0] = First(r) /\ \A k \in Steps : k # 0 => k - 1 \in Steps /\ v[k] = Older(v[k - 1])
    /\ \A k \in Steps : v[k] \in VersionType /\ (v[k].trx \in Txn => Linked(v[k]) /\ v[k].roll \in Link)
    /\ \A k \in Steps : k # 0 /\ v[k].trx \in Txn => HasCommitted(v[k].trx)

LEMMA VersionsOf ==
    ASSUME NEW r \in Rid
    PROVE  \E v : v = [n \in Steps |-> IF n = 0 THEN First(r) ELSE Older(v[n - 1])]
<1>1. MaxTxn + 1 \in Nat
  BY Constants
<1>2. \E v : v = [n \in 0 .. MaxTxn + 1 |->
                    IF n = 0 THEN [trx |-> slots[r].trx, roll |-> slots[r].roll] ELSE Older(v[n - 1])]
  BY <1>1, VersionsExist
<1>3. QED BY <1>2 DEF Steps, First

\* Each of them is a version, linked, and all but the first are of committed transactions.
LEMMA Chain ==
    ASSUME Base, Links, Written, NEW r \in Rid, slots[r].used,
           NEW v, v = [n \in Steps |-> IF n = 0 THEN First(r) ELSE Older(v[n - 1])]
    PROVE  Versioned(r, v)
<1>1. v = [n \in Steps |-> IF n = 0 THEN First(r) ELSE Older(v[n - 1])]
  OBVIOUS
<1>2. v[0] = First(r) /\ \A k \in Steps : k # 0 => k - 1 \in Steps /\ v[k] = Older(v[k - 1])
  BY <1>1, Constants DEF Steps
<1> DEFINE Good(x) == x \in VersionType /\ (x.trx \in Txn => Linked(x) /\ x.roll \in Link)
<1>3. Good(First(r))
  <2>1. slots[r].trx \in Txn /\ slots[r].roll \in Link
    BY DEF Base, Versions
  <2>2. Linked(slots[r])
    BY DEF Links
  <2>3. QED BY <2>1, <2>2 DEF First, VersionType, Linked
<1>4. ASSUME NEW x, Good(x) PROVE Good(Older(x)) /\ (Older(x).trx \in Txn => HasCommitted(Older(x).trx))
  <2>1. Older(x) \in VersionType /\ (Older(x).trx \in Txn => HasCommitted(Older(x).trx))
    BY <1>4, OlderVersion DEF Written
  <2>2. ASSUME Older(x).trx \in Txn PROVE Linked(Older(x)) /\ Older(x).roll \in Link
    <3> DEFINE w == x.roll.txn
               i == x.roll.idx + 1
    <3>1. x.roll \in Link \cup {NoLink} /\ Older(x).trx # Undefined /\ Older(x).trx # Absent
      BY <1>4, <2>2, Constants DEF VersionType, Absent, Undefined
    <3>2. w \in Txn /\ i \in DOMAIN undo[w] /\ Older(x) = [trx |-> undo[w][i].trx, roll |-> undo[w][i].roll]
      BY <3>1, OlderIs
    <3> HIDE DEF w, i
    <3>3. Linked(undo[w][i]) /\ undo[w][i].roll \in Link
      BY <3>2, UndoTypes DEF Links, Base
    <3>4. QED BY <3>2, <3>3 DEF Linked
  <2>3. QED BY <2>1, <2>2
<1> HIDE DEF Good
<1>5. \A k \in Steps : Good(v[k])
  <2> DEFINE S == {k \in Steps : ~Good(v[k])}
  <2> SUFFICES ASSUME S # {} PROVE FALSE
    OBVIOUS
  <2>1. S \subseteq TimeType
    BY Constants DEF TimeType, Steps
  <2>2. PICK k \in S : \A y \in S : k <= y
    <3> HIDE DEF S
    <3>1. QED BY <2>1, MinIsLeast
  <2>3. k \in Steps /\ ~Good(v[k])
    OBVIOUS
  <2>4. k # 0
    BY <1>2, <1>3, <2>3
  <2>5. k - 1 \in Steps /\ ~(k <= k - 1)
    BY <1>2, <2>3, <2>4, Constants DEF Steps
  <2>6. Good(v[k - 1])
    BY <2>2, <2>5
  <2>7. QED BY <1>2, <1>4, <2>3, <2>4, <2>6
<1>6. \A k \in Steps : k # 0 /\ v[k].trx \in Txn => HasCommitted(v[k].trx)
  BY <1>2, <1>4, <1>5
<1>7. \A k \in Steps : v[k] \in VersionType /\ (v[k].trx \in Txn => Linked(v[k]) /\ v[k].roll \in Link)
  BY <1>5 DEF Good
<1>8. QED BY <1>1, <1>2, <1>6, <1>7 DEF Versioned

\* It does not go on for ever: each version is of a transaction of lower rank, and
\* there are only so many.
LEMMA SomeEnd ==
    ASSUME Base, Links, Ranked, NEW v, NEW t \in Txn,
           \A k \in Steps : k # 0 => k - 1 \in Steps /\ v[k] = Older(v[k - 1]),
           \A k \in Steps : v[k] \in VersionType /\ (v[k].trx \in Txn => Linked(v[k]) /\ v[k].roll \in Link)
    PROVE  \E k \in Steps : EndsAt(t, v[k])
<1> SUFFICES ASSUME \A k \in Steps : ~EndsAt(t, v[k]) PROVE FALSE
  OBVIOUS
<1>1. PICK rank \in [Txn -> Nat] : Ranks(rank)
  BY DEF Ranked
<1>2. \A k \in Steps : v[k].trx \in Txn
  BY DEF EndsAt, VersionType
<1>3. ASSUME NEW k \in Steps, k # 0 PROVE rank[v[k].trx] < rank[v[k - 1].trx]
  <2> DEFINE x == v[k - 1]
             w == x.roll.txn
             i == x.roll.idx + 1
  <2>1. k - 1 \in Steps /\ v[k] = Older(x) /\ Older(x).trx \in Txn
    BY <1>2, <1>3
  <2>2. x.trx \in Txn /\ x.roll \in Link \cup {NoLink} /\ Linked(x)
    BY <1>2, <2>1
  <2> HIDE DEF x
  <2>3. Older(x).trx # Undefined /\ Older(x).trx # Absent
    BY <2>1, Constants DEF Absent, Undefined
  <2>4. w \in Txn \ {0} /\ i \in DOMAIN undo[w] /\ Older(x).trx = undo[w][i].trx
    BY <2>2, <2>3, OlderIs
  <2>5. w = x.trx
    BY <2>2, <2>4 DEF Linked, ZeroLink
  <2>6. rank[Older(x).trx] < rank[x.trx]
    BY <1>1, <2>4, <2>5 DEF Ranks
  <2>7. QED BY <2>1, <2>6 DEF x
<1> DEFINE f == [k \in Steps |-> v[k].trx]
<1>4. f \in [Steps -> Txn]
  BY <1>2
<1>5. \A k \in Steps : rank[f[k]] \in Nat
  BY <1>4
<1>6. \A k \in Steps : k # 0 => k - 1 \in Steps /\ rank[f[k]] < rank[f[k - 1]]
  BY <1>3
<1> HIDE DEF f
<1>7. \A i \in Steps, j \in Steps : i < j => rank[f[j]] < rank[f[i]]
  <2> TAKE i \in Steps
  <2> DEFINE S == {j \in Steps : i < j /\ ~(rank[f[j]] < rank[f[i]])}
  <2> SUFFICES ASSUME S # {} PROVE FALSE
    OBVIOUS
  <2>1. S \subseteq TimeType
    BY Constants DEF TimeType, Steps
  <2>2. PICK j \in S : \A y \in S : j <= y
    <3> HIDE DEF S
    <3>1. QED BY <2>1, MinIsLeast
  <2>3. j \in Steps /\ i < j /\ ~(rank[f[j]] < rank[f[i]])
    OBVIOUS
  <2>4. i \in Nat /\ j \in Nat /\ j # 0 /\ j - 1 \in Steps
    BY <2>3, Constants DEF Steps
  <2>5. rank[f[j]] < rank[f[j - 1]]
    BY <1>6, <2>3, <2>4
  <2>6. rank[f[j]] \in Nat /\ rank[f[i]] \in Nat /\ rank[f[j - 1]] \in Nat
    BY <1>5, <2>3, <2>4
  <2>7. j - 1 # i
    BY <2>3, <2>5
  <2>8. i < j - 1
    BY <2>3, <2>4, <2>7
  <2>9. j - 1 \in S
    BY <2>3, <2>4, <2>5, <2>6, <2>8
  <2>10. j <= j - 1
    BY <2>2, <2>9
  <2>11. QED BY <2>4, <2>10
<1>8. PICK i \in Steps, j \in Steps : i # j /\ f[i] = f[j]
  <2>1. IsFiniteSet(Steps) /\ Cardinality(Steps) = MaxTxn + 2
    <3> DEFINE m == MaxTxn + 1
    <3>1. 0 \in Int /\ m \in Int /\ ~(0 > m) /\ m - 0 + 1 = MaxTxn + 2 /\ Steps = 0 .. m
      BY Constants DEF Steps
    <3> HIDE DEF m
    <3>2. IsFiniteSet(0 .. m) /\ Cardinality(0 .. m) = m - 0 + 1
      BY <3>1, FS_Interval
    <3>3. QED BY <3>1, <3>2
  <2>2. IsFiniteSet(Txn) /\ Cardinality(Txn) = MaxTxn + 1
    BY FS_Interval, Constants DEF Txn
  <2>3. Cardinality(Txn) < Cardinality(Steps)
    BY <2>1, <2>2, Constants
  <2>4. QED BY <1>4, <2>1, <2>2, <2>3, FS_PigeonHole
<1>9. i \in Nat /\ j \in Nat /\ (i < j \/ j < i)
  BY <1>8, Constants DEF Steps
<1>10. ~(rank[f[i]] < rank[f[i]])
  BY <1>5
<1>11. QED BY <1>7, <1>8, <1>9, <1>10

\* Who has written a version that t does not see has committed, or is at work on it.
LEMMA HiddenSettled ==
    ASSUME Base, Rows, Reads, Written, NEW t \in Txn, NEW w \in Txn, ~is_visible(t, w),
           HasCommitted(w) \/ \E r \in Rid : slots[r].used /\ w = slots[r].trx
    PROVE  Settled(t, w)
<1>1. CASE HasCommitted(w)
  BY <1>1 DEF Reads, States, HasCommitted, Settled, Running
<1>2. ASSUME NEW r \in Rid, slots[r].used, w = slots[r].trx, ~HasCommitted(w) PROVE Settled(t, w)
  <2>1. PICK u \in Txn : Writes(u, r) \/ Inserts(u, r)
    BY <1>2, WriterKnown
  <2>2. u = w
    BY <1>2, <2>1 DEF Written, Own
  <2>3. Writes(w, r) => w \notin aborted /\ pc[w] \notin Beginning
    <3> SUFFICES ASSUME Writes(w, r) PROVE w \notin aborted /\ pc[w] \notin Beginning
      OBVIOUS
    <3>1. write_set[w] # <<>>
      BY DEF Writes
    <3>2. QED BY <3>1 DEF Rows, Clean
  <2>4. Inserts(w, r) => w \notin aborted /\ pc[w] \notin Beginning
    BY DEF Rows, Clean, Inserts, Running, Beginning
  <2>5. QED BY <2>1, <2>2, <2>3, <2>4 DEF Settled
<1>3. QED BY <1>1, <1>2

\* A SELECT comes to an end at each record.
LEMMA EndOfRead ==
    ASSUME Base, Rows, Reads, Written, Links, Ranked, NEW t \in Txn, NEW r \in Rid, slots[r].used
    PROVE  \E v, n : Way(t, r, v, n)
<1> DEFINE version == CHOOSE f : f = [n \in Steps |-> IF n = 0 THEN First(r) ELSE Older(f[n - 1])]
           E == {k \in Steps : EndsAt(t, version[k])}
<1>1. version = [n \in Steps |-> IF n = 0 THEN First(r) ELSE Older(version[n - 1])]
  BY VersionsOf
<1>2. Row(t, r) = IF \E k \in Steps : EndsAt(t, version[k]) THEN version[Min(E)].trx ELSE Endless
  BY DEF Row, Steps, EndsAt, First
<1> HIDE DEF version
<1>3. Versioned(r, version)
  BY <1>1, Chain
<1>4. \E k \in Steps : EndsAt(t, version[k])
  BY <1>3, SomeEnd DEF Versioned
<1>5. E # {} /\ E \subseteq TimeType
  BY <1>4, Constants DEF TimeType, Steps
<1> DEFINE n == Min(E)
<1>6. n \in Steps /\ EndsAt(t, version[n]) /\ \A k \in Steps : EndsAt(t, version[k]) => n <= k
  <2>1. \A k \in Steps : EndsAt(t, version[k]) => k \in E
    OBVIOUS
  <2>2. \A k \in E : k \in Steps /\ EndsAt(t, version[k])
    OBVIOUS
  <2> HIDE DEF E
  <2>3. QED BY <1>5, <2>1, <2>2, MinIsLeast
<1>7. Row(t, r) = version[n].trx
  BY <1>2, <1>4
<1> HIDE DEF n
<1>8. ASSUME NEW k \in 0 .. n - 1
      PROVE  /\ k \in Steps /\ ~EndsAt(t, version[k])
             /\ version[k].trx \in Txn /\ version[k].roll \in Link /\ Linked(version[k])
             /\ Settled(t, version[k].trx)
  <2>1. k \in Steps /\ ~(n <= k)
    BY <1>6, Constants DEF Steps
  <2>2. ~EndsAt(t, version[k])
    BY <1>6, <2>1
  <2>3. version[k].trx \in Txn /\ ~is_visible(t, version[k].trx)
    BY <1>3, <2>1, <2>2 DEF Versioned, VersionType, EndsAt
  <2>4. version[k].roll \in Link /\ Linked(version[k])
    BY <1>3, <2>1, <2>3 DEF Versioned
  <2>5. k = 0 => version[k].trx = slots[r].trx
    BY <1>3 DEF Versioned, First
  <2>6. k # 0 => HasCommitted(version[k].trx)
    BY <1>3, <2>1, <2>3 DEF Versioned
  <2>7. Settled(t, version[k].trx)
    BY <2>3, <2>5, <2>6, HiddenSettled
  <2>8. QED BY <2>1, <2>2, <2>3, <2>4, <2>7
<1>9. Way(t, r, version, n)
  BY <1>3, <1>6, <1>7, <1>8 DEF Way, Versioned
<1>10. QED BY <1>9

\* So every read has its way through the versions.
LEMMA ReadsDoEnd == IInv /\ RInv /\ SInv => ReadsEnd
BY EndOfRead DEF IInv, RInv, SInv, Trail, ReadsEnd

-----------------------------------------------------------------------------
(* Two ways that differ at their heads lead to the same version *)

\* w after its first a versions is v after its first b, as far as both go.
Follows(v, w, n, a, b) ==
    /\ w[a] = v[b]
    /\ \A k \in 0 .. n - 1 :
           k >= b /\ k - b + a + 1 \in Steps /\ w[k - b + a] = v[k] => w[k - b + a + 1] = v[k + 1]
FirstEnd(t, v, n) == n \in Steps /\ EndsAt(t, v[n]) /\ \A k \in 0 .. n - 1 : ~EndsAt(t, v[k])

\* If both stop at the first version that t sees, they stop at the same.
LEMMA Shift ==
    ASSUME NEW t, NEW v, NEW w, NEW n, NEW m, NEW a \in {0, 1}, NEW b \in {0, 1},
           FirstEnd(t, v, n), FirstEnd(t, w, m), Follows(v, w, n, a, b),
           a = 1 => ~EndsAt(t, w[0]), b = 1 => ~EndsAt(t, v[0])
    PROVE  w[m] = v[n]
<1>1. /\ n \in Nat /\ m \in Nat /\ n <= MaxTxn + 1 /\ m <= MaxTxn + 1 /\ MaxTxn \in Nat
      /\ a \in Nat /\ b \in Nat
  BY Constants DEF FirstEnd, Steps
<1>2. b <= n /\ a <= m
  <2>1. n = 0 => b # 1
    BY DEF FirstEnd
  <2>2. m = 0 => a # 1
    BY DEF FirstEnd
  <2>3. QED BY <1>1, <2>1, <2>2
<1>3. ASSUME NEW k \in b .. n, k - b + a \in Steps PROVE w[k - b + a] = v[k]
  <2> DEFINE S == {j \in b .. n : j - b + a \in Steps /\ w[j - b + a] # v[j]}
  <2> SUFFICES ASSUME S # {} PROVE FALSE
    BY <1>3
  <2>1. S \subseteq TimeType
    BY <1>1 DEF TimeType
  <2>2. PICK j \in S : \A y \in S : j <= y
    <3> HIDE DEF S
    <3>1. QED BY <2>1, MinIsLeast
  <2>3. j \in b .. n /\ j - b + a \in Steps /\ w[j - b + a] # v[j]
    OBVIOUS
  <2>4. j # b
    <3>1. b - b + a = a
      BY <1>1
    <3>2. QED BY <2>3, <3>1 DEF Follows
  <2> DEFINE i == j - 1
  <2>5. /\ i \in b .. n /\ i \in 0 .. n - 1 /\ i >= b /\ ~(j <= i)
        /\ i - b + a + 1 = j - b + a /\ i + 1 = j /\ i - b + a \in Steps
    BY <1>1, <2>3, <2>4 DEF Steps
  <2>6. i \notin S
    BY <2>2, <2>5
  <2>7. w[i - b + a] = v[i]
    BY <2>5, <2>6
  <2> HIDE DEF i
  <2>8. w[i - b + a + 1] = v[i + 1]
    BY <2>3, <2>5, <2>7 DEF Follows
  <2>9. QED BY <2>3, <2>5, <2>8
<1> DEFINE d == n - b + a
           k == m - a + b
<1>4. d \in Nat /\ (d \in Steps => w[d] = v[n])
  BY <1>1, <1>2, <1>3
<1>5. CASE m = d
  BY <1>4, <1>5 DEF FirstEnd
<1>6. CASE m < d
  <2>1. k \in b .. n /\ k \in 0 .. n - 1 /\ k - b + a = m /\ m \in Steps
    BY <1>1, <1>2, <1>6 DEF Steps
  <2>2. w[m] = v[k]
    BY <1>3, <2>1
  <2>3. QED BY <2>1, <2>2 DEF FirstEnd
<1>7. CASE d < m
  <2>1. d \in Steps /\ d \in 0 .. m - 1
    BY <1>1, <1>4, <1>7 DEF Steps
  <2>2. QED BY <1>4, <2>1 DEF FirstEnd
<1>8. m < d \/ d < m \/ m = d
  BY <1>1, <1>4
<1>9. QED BY <1>5, <1>6, <1>7, <1>8

-----------------------------------------------------------------------------
(* What lies before a version that a reader has passed stays *)

\* Only BeginRegister and GarbageCollection change the map.
LEMMA MapSteps ==
    ASSUME Base, NEW t \in Txn, Begin(t) \/ Statement(t) \/ End(t)
    PROVE  \/ txn_map' = txn_map
           \/ pc[t] = "register" /\ txn_map' = txn_map \cup {t}
           \/ GcCollect(t)
<1>1. CASE Begin(t)
  BY <1>1 DEF Begin, BeginId, BeginReadTs, AddTxn, BeginLowLimit, BeginActiveIds, BeginRegister
<1>2. CASE Statement(t)
  <2>1. ASSUME NEW r \in Rid, \/ ScanRecord(t, r) \/ ReadRecord(t, r) \/ WriteRecord(t, r)
                              \/ InsertSlot(t, r) \/ InsertLock(t, r)
        PROVE  txn_map' = txn_map
    BY <2>1 DEF ScanRecord, ReadRecord, WriteRecord, InsertSlot, InsertLock
  <2>2. ASSUME ScanEnd(t) \/ Victim(t) \/ Fail(t) \/ Commit(t) PROVE txn_map' = txn_map
    BY <2>2 DEF ScanEnd, Victim, Fail, Commit
  <2>3. QED BY <1>2, <2>1, <2>2 DEF Statement
<1>3. CASE End(t)
  BY <1>3 DEF End, UndoWrite, UndoEnd, Release, EndState, EndCommitTs, RemoveTxn, UpdateCommitTs,
     GcMinimum, CommitAborted, ThreadIdle
<1>4. QED BY <1>1, <1>2, <1>3

\* The view of a SELECT that goes on reading is not taken again.
LEMMA ViewStays ==
    ASSUME Base, NEW u \in Txn, Begin(u) \/ Statement(u) \/ End(u), NEW t \in Txn,
           Reading(t), Reading(t)'
    PROVE  view'[t] = view[t]
<1> USE ViewTypes DEF Base
<1>1. CASE u # t
  BY <1>1, StepAlone DEF Alone
<1>2. CASE u = t
  <2>1. pc[u] = "run"
    BY <1>2 DEF Reading
  <2>2. ~BeginId(u)
    BY <2>1, Constants DEF BeginId, Ids, Txn
  <2>3. ~Begin(u)
    BY <2>1, <2>2 DEF Begin, BeginReadTs, AddTxn, BeginLowLimit, BeginActiveIds, BeginRegister
  <2>4. ~GcCollect(u)
    BY <2>1 DEF GcCollect
  <2>5. Viewed(u)
    BY <2>3, <2>4, LaterViewed
  <2>6. pc'[u] \notin Viewless
    BY <1>2 DEF Reading, Viewless, Beginning
  <2>7. QED BY <1>2, <2>5, <2>6 DEF Viewed
<1>3. QED BY <1>1, <1>2

\* An undo log only grows.
LEMMA UndoGrows ==
    ASSUME Base, NEW t \in Txn, Begin(t) \/ Statement(t) \/ End(t), NEW w \in Txn, NEW i \in DOMAIN undo[w]
    PROVE  /\ i \in DOMAIN undo'[w] /\ undo'[w][i] = undo[w][i]
           /\ Len(undo[w]) \in Nat /\ Len(undo'[w]) \in Nat /\ Len(undo[w]) <= Len(undo'[w])
<1>1. Len(undo[w]) \in Nat
  <2>1. undo[w] \in Seq([trx : Txn, roll : Link, deleted : BOOLEAN])
    BY UndoTypes DEF Base
  <2>2. QED BY <2>1
<1>2. CASE undo' = undo
  BY <1>1, <1>2
<1>3. ASSUME NEW r \in Rid, WriteRecord(t, r)
      PROVE  /\ i \in DOMAIN undo'[w] /\ undo'[w][i] = undo[w][i]
             /\ Len(undo'[w]) = Len(undo[w]) \/ Len(undo'[w]) = Len(undo[w]) + 1
  BY <1>3, WriteMakes DEF Extended
<1>4. undo' = undo \/ \E r \in Rid : WriteRecord(t, r)
  BY QuietOrNot DEF Quiet, InsertSlot, InsertLock, UndoWrite, Release
<1>5. QED BY <1>1, <1>2, <1>3, <1>4

\* Nobody removes the undo log of a writer that a reader has passed: it had not ended
\* when the reader began, so its commit time stamp is above every minimum.
LEMMA WriterStays ==
    ASSUME Base, Links, Later, NEW u \in Txn, Begin(u) \/ Statement(u) \/ End(u), faults' = {},
           NEW t \in Txn, Reading(t), Reading(t)', NEW w \in Txn, Settled(t, w)
    PROVE  w \in txn_map' <=> w \in txn_map
<1> USE ViewTypes DEF Base
<1>1. ASSUME pc[u] = "register", txn_map' = txn_map \cup {u}
      PROVE  w \in txn_map' <=> w \in txn_map
  <2>1. w # u
    BY <1>1 DEF Settled, Beginning
  <2>2. QED BY <1>1, <2>1
<1>3. ASSUME GcCollect(u), w \in txn_map, w \notin txn_map' PROVE FALSE
  <2>1. pc[u] = "collect" /\ w \in Collectable(u) /\ commit_ts[w] # -1 /\ commit_ts[w] < gc_min[u]
    BY <1>3 DEF GcCollect, Collectable
  <2>2. w # t /\ (w >= view[t].low \/ w \in view[t].active)
    BY Constants DEF Settled, is_visible
  <2>3. After(t, w)
    BY <2>1, <2>2 DEF Later, Hides, Viewing, Reading, Settled
  <2>4. gc_min[u] <= commit_ts[w] /\ gc_min[u] \in Int /\ commit_ts[w] \in Int
    BY <2>1, <2>3, TimesAreIntegers DEF After, TypeOK
  <2>5. QED BY <2>1, <2>4
<1>4. GcCollect(u) => txn_map' \subseteq txn_map
  BY DEF GcCollect
<1>5. QED BY <1>1, <1>3, <1>4, MapSteps

\* So the version before one that a reader has passed stays as it is.
LEMMA OlderStays ==
    ASSUME Base, Links, Later, NEW u \in Txn, Begin(u) \/ Statement(u) \/ End(u), faults' = {},
           NEW t \in Txn, Reading(t), Reading(t)',
           NEW x, x.trx \in Txn, x.roll \in Link, Linked(x), Settled(t, x.trx), Older(x).trx # Undefined
    PROVE  Older(x)' = Older(x)
<1> DEFINE w == x.roll.txn
           i == x.roll.idx
           a == [trx |-> Absent, roll |-> NoLink]
           b == [trx |-> Undefined, roll |-> NoLink]
           W(f) == IF f[w][i + 1].deleted THEN a
                   ELSE [trx |-> f[w][i + 1].trx, roll |-> f[w][i + 1].roll]
<1>1. w \in Txn /\ i \in Nat /\ x.roll # NoLink
  BY Constants DEF Link, NoLink
<1>2. w = x.trx \/ (w = 0 /\ i = 0)
  BY DEF Linked, ZeroLink
<1>3. a.trx = Absent /\ b.trx = Undefined
  OBVIOUS
<1> HIDE DEF w, i, a, b
<1>4. Older(x) = IF w \notin txn_map THEN a ELSE IF i >= Len(undo[w]) THEN b ELSE W(undo)
  BY <1>1 DEF Older, w, i, a, b
<1>5. Older(x)' = IF w \notin txn_map' THEN a ELSE IF i >= Len(undo'[w]) THEN b ELSE W(undo')
  BY <1>1 DEF Older, w, i, a, b
<1>6. w \in txn_map => i + 1 \in DOMAIN undo[w] /\ ~(i >= Len(undo[w]))
  <2>1. w \in txn_map => ~(i >= Len(undo[w]))
    BY <1>3, <1>4
  <2>2. undo[w] \in Seq([trx : Txn, roll : Link, deleted : BOOLEAN])
    BY <1>1, UndoTypes DEF Base
  <2>3. QED BY <1>1, <2>1, <2>2
<1>7. w \in txn_map' <=> w \in txn_map
  <2>1. CASE w = x.trx
    BY <2>1, WriterStays
  <2>2. CASE w = 0 /\ i = 0
    <3>1. w \notin txn_map
      <4>1. Len(undo[w]) = 0
        BY <2>2 DEF Links
      <4>2. QED BY <1>6, <2>2, <4>1
    <3>2. u # w
      BY <2>2, DoneIsDone DEF Links
    <3>3. GcCollect(u) => txn_map' \subseteq txn_map
      BY DEF GcCollect
    <3>4. w \notin txn_map'
      BY <3>1, <3>2, <3>3, MapSteps
    <3>5. QED BY <3>1, <3>4
  <2>3. QED BY <1>2, <2>1, <2>2
<1>8. w \in txn_map => W(undo') = W(undo) /\ ~(i >= Len(undo'[w]))
  <2> SUFFICES ASSUME w \in txn_map PROVE W(undo') = W(undo) /\ ~(i >= Len(undo'[w]))
    OBVIOUS
  <2>1. /\ undo'[w][i + 1] = undo[w][i + 1]
        /\ Len(undo[w]) \in Nat /\ Len(undo'[w]) \in Nat /\ Len(undo[w]) <= Len(undo'[w])
    BY <1>1, <1>6, UndoGrows
  <2>2. QED BY <1>1, <1>6, <2>1
<1> HIDE DEF W
<1>9. QED BY <1>4, <1>5, <1>6, <1>7, <1>8

-----------------------------------------------------------------------------
(* What a step changes at the head *)

\* A reader does not see who is writing or rolling back.
LEMMA WriterUnseen ==
    ASSUME Base, Rows, Reads, faults = {}, NEW u \in Txn, pc[u] = "undo" \/ pc[u] = "run",
           NEW t \in Txn, Reading(t), u # t
    PROVE  ~is_visible(t, u) /\ u \in txn_map
<1>1. ~HasEnded(u)
  BY DEF HasEnded, HasCommitted, Rows, Clean, Running, Reads, States
<1>2. pc[u] \notin Beginning
  BY DEF Beginning
<1>3. u \in txn_map
  BY <1>1, <1>2 DEF Reads, Gone
<1>4. pc[t] \notin Viewless
  BY DEF Reading, Viewless, Beginning
<1>5. ~is_visible(t, u)
  <2> SUFFICES ASSUME is_visible(t, u) PROVE FALSE
    OBVIOUS
  <2>1. u < view[t].low /\ u \notin view[t].active
    BY Visible
  <2>2. QED BY <1>1, <1>4, <2>1 DEF Reads, Views
<1>6. QED BY <1>3, <1>5

\* The record is the same, or has one version more, or one less.
Pushed(t, r) == \E x : x = First(r)' /\ ~EndsAt(t, x) /\ Older(x)' = First(r)
Popped(t, r) == ~EndsAt(t, First(r)) /\ Older(First(r)) = First(r)'

\* An update adds a version, which the reader does not see ...
LEMMA WritePushes ==
    ASSUME Base, Rows, Reads, faults = {}, NEW u \in Txn, NEW t \in Txn, NEW r \in Rid, Reading(t),
           WriteRecord(u, r), slots'[r].used
    PROVE  Pushed(t, r)
<1> USE RowTypes, UndoTypes DEF Base
<1>1. /\ pc[u] = "run" /\ kind[u] \in {"update", "delete"}
      /\ slots' = [slots EXCEPT ![r] = NewSlot(u)]
      /\ Extended(undo[u], undo'[u], OldVersion(u, r)) /\ txn_map' = txn_map
  BY WriteMakes
<1>2. u # t
  BY <1>1 DEF Reading
<1>3. ~is_visible(t, u) /\ u \in txn_map
  BY <1>1, <1>2, WriterUnseen
<1>4. slots'[r] = NewSlot(u)
  BY <1>1
<1> DEFINE n == Len(undo[u])
<1>5. PICK x : x = [trx |-> u, roll |-> [txn |-> u, idx |-> n]] /\ x = First(r)'
  <2>1. First(r)' = [trx |-> u, roll |-> [txn |-> u, idx |-> n]]
    BY <1>4 DEF First, NewSlot
  <2>2. QED BY <2>1
<1>6. n \in Nat /\ Len(undo'[u]) = n + 1 /\ undo'[u][n + 1] = OldVersion(u, r)
  <2>1. undo[u] \in Seq([trx : Txn, roll : Link, deleted : BOOLEAN])
    OBVIOUS
  <2>2. QED BY <1>1, <2>1 DEF Extended
<1> HIDE DEF n
<1>7. x.trx = u /\ x.roll.txn = u /\ x.roll.idx = n /\ x.roll # NoLink
  BY <1>5, Constants DEF NoLink
<1>8. ~EndsAt(t, x)
  BY <1>3, <1>7, Constants DEF EndsAt, Absent, Undefined
<1> DEFINE y == OldVersion(u, r)
<1>9. ~y.deleted /\ First(r) = [trx |-> y.trx, roll |-> y.roll]
  <2>1. kind[u] # "delete"
    <3> SUFFICES ASSUME kind[u] = "delete" PROVE FALSE
      OBVIOUS
    <3>1. NewSlot(u).used = FALSE
      BY DEF NewSlot
    <3>2. QED BY <1>4, <3>1
  <2>2. y.deleted = (kind[u] = "delete") /\ y.trx = slots[r].trx /\ y.roll = slots[r].roll
    BY DEF OldVersion
  <2>3. QED BY <2>1, <2>2 DEF First
<1> HIDE DEF y
<1>10. Older(x)' = [trx |-> y.trx, roll |-> y.roll]
  <2>1. ~(n >= Len(undo'[u])) /\ u \in txn_map'
    BY <1>1, <1>3, <1>6
  <2>2. undo'[u][n + 1] = y
    BY <1>6 DEF y
  <2>3. Older(x)' = IF x.roll = NoLink \/ x.roll.txn \notin txn_map' THEN [trx |-> Absent, roll |-> NoLink]
                    ELSE IF x.roll.idx >= Len(undo'[x.roll.txn]) THEN [trx |-> Undefined, roll |-> NoLink]
                    ELSE IF undo'[x.roll.txn][x.roll.idx + 1].deleted THEN [trx |-> Absent, roll |-> NoLink]
                    ELSE [trx |-> undo'[x.roll.txn][x.roll.idx + 1].trx,
                          roll |-> undo'[x.roll.txn][x.roll.idx + 1].roll]
    BY <1>5 DEF Older
  <2>4. QED BY <1>7, <1>9, <2>1, <2>2, <2>3
<1>11. QED BY <1>5, <1>8, <1>9, <1>10 DEF Pushed

\* ... and a rollback takes away one that it did not see.
LEMMA UndoPops ==
    ASSUME Base, Rows, Reads, Trail, faults = {}, NEW u \in Txn, NEW t \in Txn, NEW r \in Rid, Reading(t),
           UndoWrite(u), slots[r].used, slots'[r].used
    PROVE  Popped(t, r) \/ First(r)' = First(r)
<1> USE RowTypes DEF Base
<1> DEFINE n == Len(write_set[u])
           e == write_set[u][n]
<1>1. pc[u] = "undo" /\ n \in DOMAIN write_set[u] /\ e \in WriteRecords /\ slots' = Restored(e)
  BY UndoTakes
<1> HIDE DEF n, e
<1>2. CASE e.rid # r
  <2>1. slots'[r] = slots[r]
    BY <1>1, <1>2 DEF Restored
  <2>2. QED BY <2>1 DEF First
<1>3. CASE e.rid = r
  <2>1. e.type # "insert"
    <3> SUFFICES ASSUME e.type = "insert" PROVE FALSE
      OBVIOUS
    <3>1. slots'[r].used = FALSE
      BY <1>1, <1>3 DEF Restored
    <3>2. QED BY <3>1
  <2> DEFINE b == e.type = "update"
             c == e.type = "delete"
  <2>2. /\ slots[r] = [used |-> b, trx |-> u, roll |-> [txn |-> u, idx |-> n - 1]]
        /\ n \in DOMAIN undo[u]
        /\ undo[u][n] = [trx |-> e.trx, roll |-> e.roll, deleted |-> c]
    BY <1>1, <1>3, <2>1 DEF Trail, Undoes, Points, e
  <2> HIDE DEF b, c
  <2>3. e.type = "update"
    <3>1. slots[r].used = b
      BY <2>2
    <3>2. QED BY <3>1 DEF b
  <2>4. slots'[r] = [used |-> TRUE, trx |-> e.trx, roll |-> e.roll]
    BY <1>1, <1>3, <2>1 DEF Restored
  <2>5. First(r)' = [trx |-> e.trx, roll |-> e.roll]
    BY <2>4 DEF First
  <2>6. PICK x : x = First(r)
    OBVIOUS
  <2>7. x.trx = u /\ x.roll.txn = u /\ x.roll.idx = n - 1 /\ x.roll # NoLink
    BY <2>2, <2>6, Constants DEF First, NoLink
  <2>8. ~is_visible(t, u) /\ u \in txn_map
    BY <1>1, WriterUnseen DEF Reading
  <2>9. ~EndsAt(t, x)
    BY <2>7, <2>8, Constants DEF EndsAt, Absent, Undefined
  <2>10. n \in Nat /\ n - 1 + 1 = n /\ ~(n - 1 >= Len(undo[u]))
    <3>1. undo[u] \in Seq([trx : Txn, roll : Link, deleted : BOOLEAN])
      BY UndoTypes
    <3>2. QED BY <2>2, <3>1
  <2> DEFINE y == undo[u][n]
  <2>11. ~y.deleted /\ y.trx = e.trx /\ y.roll = e.roll
    <3>1. y.deleted = c /\ y.trx = e.trx /\ y.roll = e.roll
      BY <2>2
    <3>2. QED BY <2>3, <3>1 DEF c
  <2> HIDE DEF y
  <2>12. Older(x) = [trx |-> y.trx, roll |-> y.roll]
    <3>1. Older(x) = IF x.roll = NoLink \/ x.roll.txn \notin txn_map THEN [trx |-> Absent, roll |-> NoLink]
                     ELSE IF x.roll.idx >= Len(undo[x.roll.txn]) THEN [trx |-> Undefined, roll |-> NoLink]
                     ELSE IF undo[x.roll.txn][x.roll.idx + 1].deleted THEN [trx |-> Absent, roll |-> NoLink]
                     ELSE [trx |-> undo[x.roll.txn][x.roll.idx + 1].trx,
                           roll |-> undo[x.roll.txn][x.roll.idx + 1].roll]
      BY DEF Older
    <3>2. QED BY <2>7, <2>8, <2>10, <2>11, <3>1 DEF y
  <2>13. QED BY <2>5, <2>6, <2>9, <2>11, <2>12 DEF Popped
<1>4. QED BY <1>2, <1>3

\* No other step touches a record that stays in the table.
LEMMA HeadSteps ==
    ASSUME Base, Rows, Reads, NoUnlockedInsert => Trail, faults = {}, NEW u \in Txn,
           Begin(u) \/ Statement(u) \/ End(u),
           NEW t \in Txn, NEW r \in Rid, Reading(t), slots[r].used, slots'[r].used
    PROVE  Pushed(t, r) \/ Popped(t, r) \/ First(r)' = First(r)
<1> USE RowTypes DEF Base
<1>1. Trail
  BY DEF NoUnlockedInsert
<1>2. slots'[r] = slots[r] => First(r)' = First(r)
  BY DEF First
<1>3. CASE Quiet \/ Release(u)
  BY <1>2, <1>3 DEF Quiet, Release
<1>4. ASSUME NEW s \in Rid, WriteRecord(u, s) \/ InsertSlot(u, s) \/ InsertLock(u, s)
      PROVE  Pushed(t, r) \/ First(r)' = First(r)
  <2>1. CASE s # r
    BY <1>2, <1>4, <2>1, WriteMakes, InsertMakes DEF InsertLock
  <2>2. CASE s = r
    BY <1>2, <1>4, <2>2, WritePushes, InsertMakes DEF InsertLock
  <2>3. QED BY <2>1, <2>2
<1>5. CASE UndoWrite(u)
  BY <1>1, <1>5, UndoPops
<1>6. QED BY <1>3, <1>4, <1>5, QuietOrNot

-----------------------------------------------------------------------------
(* A read that is repeated *)

\* A step leaves a SELECT what it reads.
LEMMA ReadStays ==
    ASSUME IInv, RInv, SInv, ReadsEnd, ReadsEnd', faults = {}, faults' = {},
           NEW u \in Txn, Begin(u) \/ Statement(u) \/ End(u),
           NEW t \in Txn, NEW r \in Rid, Reading(t), Reading(t)', slots[r].used, slots'[r].used,
           Row(t, r) # Undefined
    PROVE  Row(t, r)' = Row(t, r)
<1>1. /\ Base /\ Rows /\ Reads /\ Links /\ Later /\ (NoUnlockedInsert => Trail)
      /\ NoUnlockedInsert /\ NoUnlockedInsert'
  BY DEF IInv, RInv, SInv, NoUnlockedInsert
<1>2. PICK v, n : Way(t, r, v, n)
  BY <1>1 DEF ReadsEnd
<1>3. PICK w, m : Way(t, r, w, m)'
  BY <1>1 DEF ReadsEnd
<1>4. \A x : EndsAt(t, x)' <=> EndsAt(t, x)
  BY <1>1, ViewStays DEF EndsAt, is_visible
<1>5. FirstEnd(t, v, n) /\ v[0] = First(r) /\ Row(t, r) = v[n].trx
  BY <1>2 DEF FirstEnd, Way
<1>6. FirstEnd(t, w, m) /\ w[0] = First(r)' /\ Row(t, r)' = w[m].trx
  BY <1>3, <1>4 DEF FirstEnd, Way
<1>7. n \in Nat /\ n <= MaxTxn + 1 /\ 0 \in Steps /\ 1 \in Int
  BY <1>5, Constants DEF FirstEnd, Steps
<1>8. ASSUME NEW k \in 0 .. n - 1
      PROVE  k + 1 \in Steps /\ v[k + 1] = Older(v[k]) /\ Older(v[k])' = Older(v[k])
  <2>1. k + 1 \in Steps /\ k + 1 # 0 /\ k + 1 - 1 = k
    BY <1>7, Constants DEF Steps
  <2>2. v[k + 1] = Older(v[k])
    BY <1>2, <2>1 DEF Way
  <2>3. v[k].trx \in Txn /\ v[k].roll \in Link /\ Linked(v[k]) /\ Settled(t, v[k].trx)
    BY <1>2 DEF Way
  <2>4. v[k + 1].trx # Undefined
    <3>1. CASE k + 1 = n
      BY <1>5, <3>1
    <3>2. CASE k + 1 # n
      <4>1. k + 1 \in 0 .. n - 1
        BY <1>7, <3>2
      <4>2. v[k + 1].trx \in Txn
        BY <1>2, <4>1 DEF Way
      <4>3. QED BY <4>2, Constants DEF Undefined
    <3>3. QED BY <3>1, <3>2
  <2>5. Older(v[k])' = Older(v[k])
    BY <1>1, <2>2, <2>3, <2>4, OlderStays
  <2>6. QED BY <2>1, <2>2, <2>5
<1>9. ASSUME NEW k \in Steps, NEW j \in Steps, j = k + 1 PROVE w[j] = Older(w[k])'
  <2>1. j # 0 /\ j - 1 = k
    BY <1>9, Constants DEF Steps
  <2>2. \A i \in Steps : i # 0 => w[i] = Older(w[i - 1])'
    BY <1>3 DEF Way
  <2>3. w[j] = Older(w[j - 1])'
    BY <2>1, <2>2
  <2>4. QED BY <2>1, <2>3
<1>10. ASSUME NEW a \in {0, 1}, NEW b \in {0, 1}, w[a] = v[b] PROVE Follows(v, w, n, a, b)
  <2> SUFFICES ASSUME NEW k \in 0 .. n - 1, k >= b, k - b + a + 1 \in Steps, w[k - b + a] = v[k]
               PROVE  w[k - b + a + 1] = v[k + 1]
    BY <1>10 DEF Follows
  <2> DEFINE j == k - b + a
  <2>1. j \in Steps
    BY <1>7, Constants DEF Steps
  <2> HIDE DEF j
  <2>2. w[j + 1] = Older(w[j])'
    BY <1>9, <2>1 DEF j
  <2>3. w[j] = v[k]
    BY DEF j
  <2>4. w[j + 1] = v[k + 1]
    BY <1>8, <2>2, <2>3
  <2>5. QED BY <2>4 DEF j
<1>11. w[m] = v[n]
  <2>1. CASE First(r)' = First(r)
    BY <1>5, <1>6, <1>10, <2>1, Shift
  <2>2. CASE Pushed(t, r)
    <3>1. ~EndsAt(t, w[0]) /\ Older(w[0])' = v[0]
      BY <1>5, <1>6, <2>2 DEF Pushed
    <3>2. w[1] = v[0]
      <4>1. 0 + 1 = 1 /\ 1 \in Steps
        BY <1>7, Constants DEF Steps
      <4>2. QED BY <1>7, <1>9, <3>1, <4>1
    <3>3. QED BY <1>5, <1>6, <1>10, <3>1, <3>2, Shift
  <2>3. CASE Popped(t, r)
    <3>1. ~EndsAt(t, v[0]) /\ Older(v[0]) = w[0]
      BY <1>5, <1>6, <2>3 DEF Popped
    <3>2. v[1] = w[0]
      <4>1. 0 \in 0 .. n - 1 /\ 0 + 1 = 1
        BY <1>5, <1>7, <3>1 DEF FirstEnd
      <4>2. QED BY <1>8, <3>1, <4>1
    <3>3. QED BY <1>5, <1>6, <1>10, <3>1, <3>2, Shift
  <2>4. QED BY <1>1, <2>1, <2>2, <2>3, HeadSteps
<1>12. QED BY <1>5, <1>6, <1>11

\* A SELECT reads a record that stays in the table the same way at any moment,
\* whatever others write, commit, roll back and collect meanwhile: get_visible_record
\* and is_visible against update_record, abort and GarbageCollection.
THEOREM SnapshotKept == Spec => SnapshotNeverChanges
<1> DEFINE Inv == IInv /\ RInv /\ SInv /\ ReadsEnd
           Stay == faults' = {} =>
               \A t \in Txn, r \in Rid :
                   /\ Reading(t) /\ Reading(t)'
                   /\ slots[r].used /\ slots'[r].used /\ Row(t, r) # Undefined
                   => Row(t, r)' = Row(t, r)
<1>1. Inv /\ Inv' /\ [Next]_vars => [Stay]_vars
  <2>1. ASSUME Inv, Inv', NEW u \in Txn, Begin(u) \/ Statement(u) \/ End(u), faults \subseteq faults'
        PROVE  Stay
    <3> SUFFICES ASSUME faults' = {}, NEW t \in Txn, NEW r \in Rid, Reading(t), Reading(t)',
                        slots[r].used, slots'[r].used, Row(t, r) # Undefined
                 PROVE  Row(t, r)' = Row(t, r)
      OBVIOUS
    <3>1. faults = {}
      BY <2>1
    <3>2. QED BY <2>1, <3>1, ReadStays
  <2>2. QED BY <2>1, FaultsStay DEF Next
<1>2. IInv /\ RInv /\ SInv => Inv
  BY ReadsDoEnd
<1>3. Spec => []Inv
  BY <1>2, SnapshotInvariant, PTL
<1> HIDE DEF Inv, Stay
<1>4. Spec => [][Stay]_vars
  BY <1>1, <1>3, PTL DEF Spec
<1>5. QED BY <1>4 DEF SnapshotNeverChanges, Stay

\* A SELECT never follows the links of a record in a circle, as long as no record was
\* inserted without its lock: get_visible_record ends at a version or finds none.
NeverEndless ==
    NoUnlockedInsert => \A t \in Txn, r \in Rid : Reading(t) => Row(t, r) # Endless

\* In every reachable state a SELECT comes to the end of the versions of a record: the
\* loop of get_visible_record over the undo logs ends.
THEOREM ReadsTerminate == Spec => []NeverEndless
<1>1. ReadsEnd => NeverEndless
  <2> SUFFICES ASSUME ReadsEnd, NoUnlockedInsert, NEW t \in Txn, NEW r \in Rid, Reading(t)
               PROVE  Row(t, r) # Endless
    BY DEF NeverEndless
  <2>1. CASE slots[r].used
    <3>1. PICK v, n : Way(t, r, v, n)
      BY <2>1 DEF ReadsEnd
    <3>2. Row(t, r) \in Txn \cup {Absent, Undefined}
      BY <3>1 DEF Way, VersionType
    <3>3. QED BY <3>2, Constants DEF Absent, Undefined, Endless
  <2>2. CASE ~slots[r].used
    <3>1. Row(t, r) = Absent
      BY <2>2 DEF Row
    <3>2. QED BY <3>1 DEF Absent, Endless
  <2>3. QED BY <2>1, <2>2
<1>2. IInv /\ RInv /\ SInv => NeverEndless
  BY <1>1, ReadsDoEnd
<1>3. QED BY <1>2, SnapshotInvariant, PTL

=============================================================================
