----------------------------- MODULE LogManager -----------------------------
(***************************************************************************)
(* The write-ahead log of the RMDB engine: recovery/log_manager.{h,cpp},   *)
(* the append to the log file in storage/disk_manager.cpp and the restart  *)
(* in rmdb.cpp.                                                            *)
(*                                                                         *)
(* Workers append records to one shared buffer and, for a commit or an     *)
(* abort record, wait until persist_lsn_ covers it.  A background thread   *)
(* (and the SIGINT handler) flush the buffer in leader/follower fashion.   *)
(* A worker that finds the buffer full writes it to the file itself.       *)
(*                                                                         *)
(* One step of the model is one critical section of latch_, or one of the  *)
(* two ends of a critical section of io_latch_.  A record is its LSN; its  *)
(* payload, and the bytes it takes, are left out: a buffer holds Capacity  *)
(* records.  Ghost variables: acked, overflowed, crashes.                  *)
(***************************************************************************)
EXTENDS Integers, Sequences

CONSTANTS
    Worker,     \* threads that append log records
    Flusher,    \* threads that run flush_log_to_disk: Background, SIGINT handler
    Background, \* the flush thread, which calls it every log_timeout
    Capacity,   \* LOG_BUFFER_SIZE, in records
    Nil,        \* nobody holds io_latch_
    MaxLsn,     \* bound: LSNs handed out
    MaxCrash    \* bound: crashes

ASSUME CapacityAssumption == Capacity \in Nat \ {0}
ASSUME BoundsAssumption == MaxLsn \in Nat /\ MaxCrash \in Nat
ASSUME ThreadAssumption ==
    /\ Worker \cap Flusher = {}
    /\ Nil \notin Worker \cup Flusher
    /\ Background \in Flusher

INVALID_LSN == -1

VARIABLES
    global_lsn,      \* next LSN to hand out
    buffer,          \* log_buffer_: the records not yet taken for writing
    persist_lsn,     \* persist_lsn_
    is_flushing,     \* is_flushing_: a leader is at work
    flush_buffer,    \* flush_buffer_: the leader's copy of the buffer
    overflow_buffer, \* overflow_buffer_: shared by every overflowing worker
    io_owner,        \* holder of io_latch_
    io_chunk,        \* what overflow_buffer held when its writer began pwrite
    file,            \* the log file on disk
    pc,              \* where each thread stands
    lsn,             \* the LSN a worker obtained last
    flushed_up_to,   \* a leader's local upper bound
    acked,           \* ghost: LSNs a wait_for_persist_lsn returned for
    overflowed,      \* ghost: some worker took the buffer-full path
    crashes          \* ghost: number of crashes so far

vars == <<global_lsn, buffer, persist_lsn, is_flushing, flush_buffer,
          overflow_buffer, io_owner, io_chunk, file, pc, lsn, flushed_up_to,
          acked, overflowed, crashes>>

Thread == Worker \cup Flusher
Lsn == 0 .. MaxLsn

\* A committer on persist_cv_ ("asleep") is made to look again ("woken").
NotifyPersist(p) ==
    [t \in Thread |-> IF p[t] = "asleep" THEN "woken" ELSE p[t]]

\* Followers on group_commit_cv_ simply return.
NotifyGroup(p) ==
    [t \in Thread |-> IF p[t] = "follower" THEN "idle" ELSE p[t]]

Init ==
    /\ global_lsn = 0
    /\ buffer = <<>>
    /\ persist_lsn = INVALID_LSN
    /\ is_flushing = FALSE
    /\ flush_buffer = <<>>
    /\ overflow_buffer = <<>>
    /\ io_owner = Nil
    /\ io_chunk = <<>>
    /\ file = <<>>
    /\ pc = [t \in Thread |-> "idle"]
    /\ lsn = [w \in Worker |-> INVALID_LSN]
    /\ flushed_up_to = INVALID_LSN
    /\ acked = {}
    /\ overflowed = FALSE
    /\ crashes = 0

-----------------------------------------------------------------------------
(* add_log_to_buffer *)

\* The buffer has room: number the record and serialize it, all under latch_.
AppendRecord(w) ==
    /\ pc[w] = "idle"
    /\ global_lsn <= MaxLsn
    /\ Len(buffer) < Capacity
    /\ lsn' = [lsn EXCEPT ![w] = global_lsn]
    /\ global_lsn' = global_lsn + 1
    /\ buffer' = Append(buffer, global_lsn)
    /\ pc' = [pc EXCEPT ![w] = "appended"]
    /\ UNCHANGED <<persist_lsn, is_flushing, flush_buffer, overflow_buffer,
                   io_owner, io_chunk, file, flushed_up_to, acked, overflowed,
                   crashes>>

\* The buffer is full: number the record, move the buffer to overflow_buffer_
\* and release latch_ with the record neither written nor serialized.
OverflowTake(w) ==
    /\ pc[w] = "idle"
    /\ global_lsn <= MaxLsn
    /\ Len(buffer) >= Capacity
    /\ lsn' = [lsn EXCEPT ![w] = global_lsn]
    /\ global_lsn' = global_lsn + 1
    /\ overflow_buffer' = buffer
    /\ buffer' = <<>>
    /\ pc' = [pc EXCEPT ![w] = "overflow"]
    /\ overflowed' = TRUE
    /\ UNCHANGED <<persist_lsn, is_flushing, flush_buffer, io_owner, io_chunk,
                   file, flushed_up_to, acked, crashes>>

OverflowIoBegin(w) ==
    /\ pc[w] = "overflow"
    /\ io_owner = Nil
    /\ io_owner' = w
    /\ io_chunk' = overflow_buffer
    /\ pc' = [pc EXCEPT ![w] = "overflow_io"]
    /\ UNCHANGED <<global_lsn, buffer, persist_lsn, is_flushing, flush_buffer,
                   overflow_buffer, file, lsn, flushed_up_to, acked,
                   overflowed, crashes>>

\* pwrite reads overflow_buffer_ without latch_: each record of the chunk is
\* the one that was there at the start or one a second overflow put there.
OverflowChunks ==
    {c \in [DOMAIN io_chunk -> Lsn] :
        \A i \in DOMAIN io_chunk :
            c[i] \in {io_chunk[i]} \cup
                     (IF i \in DOMAIN overflow_buffer
                      THEN {overflow_buffer[i]} ELSE {})}

OverflowIoEnd(w) ==
    /\ pc[w] = "overflow_io"
    /\ io_owner = w
    /\ \E c \in OverflowChunks : file' = file \o c
    /\ io_owner' = Nil
    /\ io_chunk' = <<>>
    /\ pc' = [pc EXCEPT ![w] = "overflow_done"]
    /\ UNCHANGED <<global_lsn, buffer, persist_lsn, is_flushing, flush_buffer,
                   overflow_buffer, lsn, flushed_up_to, acked, overflowed,
                   crashes>>

\* latch_ again: publish lsn - 1, wake the committers, serialize the record.
\* is_full is not asked again, so the buffer may run past Capacity.
OverflowFinish(w) ==
    /\ pc[w] = "overflow_done"
    /\ persist_lsn' = lsn[w] - 1
    /\ buffer' = Append(buffer, lsn[w])
    /\ pc' = [NotifyPersist(pc) EXCEPT ![w] = "appended"]
    /\ UNCHANGED <<global_lsn, is_flushing, flush_buffer, overflow_buffer,
                   io_owner, io_chunk, file, lsn, flushed_up_to, acked,
                   overflowed, crashes>>

\* A begin, insert, delete or update record: its writer does not wait.
ReturnUnforced(w) ==
    /\ pc[w] = "appended"
    /\ pc' = [pc EXCEPT ![w] = "idle"]
    /\ UNCHANGED <<global_lsn, buffer, persist_lsn, is_flushing, flush_buffer,
                   overflow_buffer, io_owner, io_chunk, file, lsn,
                   flushed_up_to, acked, overflowed, crashes>>

-----------------------------------------------------------------------------
(* wait_for_persist_lsn *)

\* Mutant: the predicate compares with the record before.
WaitReturnEarly(w) ==
    /\ pc[w] \in {"appended", "woken"}
    /\ persist_lsn >= lsn[w] - 1
    /\ acked' = acked \cup {lsn[w]}
    /\ pc' = [pc EXCEPT ![w] = "idle"]
    /\ UNCHANGED <<global_lsn, buffer, persist_lsn, is_flushing, flush_buffer,
                   overflow_buffer, io_owner, io_chunk, file, lsn,
                   flushed_up_to, overflowed, crashes>>

\* persist_lsn_ covers the record, in the spin loop or under latch_.
WaitReturn(w) ==
    /\ pc[w] \in {"appended", "woken"}
    /\ persist_lsn >= lsn[w]
    /\ acked' = acked \cup {lsn[w]}
    /\ pc' = [pc EXCEPT ![w] = "idle"]
    /\ UNCHANGED <<global_lsn, buffer, persist_lsn, is_flushing, flush_buffer,
                   overflow_buffer, io_owner, io_chunk, file, lsn,
                   flushed_up_to, overflowed, crashes>>

\* The predicate is false under latch_: sleep on persist_cv_.
WaitSleep(w) ==
    /\ pc[w] \in {"appended", "woken"}
    /\ persist_lsn < lsn[w]
    /\ pc' = [pc EXCEPT ![w] = "asleep"]
    /\ UNCHANGED <<global_lsn, buffer, persist_lsn, is_flushing, flush_buffer,
                   overflow_buffer, io_owner, io_chunk, file, lsn,
                   flushed_up_to, acked, overflowed, crashes>>

-----------------------------------------------------------------------------
(* flush_log_to_disk *)

FlushFollow(f) ==
    /\ pc[f] = "idle"
    /\ is_flushing
    /\ pc' = [pc EXCEPT ![f] = "follower"]
    /\ UNCHANGED <<global_lsn, buffer, persist_lsn, is_flushing, flush_buffer,
                   overflow_buffer, io_owner, io_chunk, file, lsn,
                   flushed_up_to, acked, overflowed, crashes>>

\* Mutant: offset_ is not reset once the buffer is copied.
FlushLeadKeepsBuffer(f) ==
    /\ pc[f] = "idle"
    /\ ~is_flushing
    /\ buffer # <<>>
    /\ is_flushing' = TRUE
    /\ flush_buffer' = buffer
    /\ flushed_up_to' = global_lsn - 1
    /\ pc' = [pc EXCEPT ![f] = "flush"]
    /\ UNCHANGED <<global_lsn, buffer, persist_lsn, overflow_buffer, io_owner,
                   io_chunk, file, lsn, acked, overflowed, crashes>>


FlushLead(f) ==
    /\ pc[f] = "idle"
    /\ ~is_flushing
    /\ buffer # <<>>
    /\ is_flushing' = TRUE
    /\ flush_buffer' = buffer
    /\ buffer' = <<>>
    /\ flushed_up_to' = global_lsn - 1
    /\ pc' = [pc EXCEPT ![f] = "flush"]
    /\ UNCHANGED <<global_lsn, persist_lsn, overflow_buffer, io_owner,
                   io_chunk, file, lsn, acked, overflowed, crashes>>

FlushIoBegin(f) ==
    /\ pc[f] = "flush"
    /\ io_owner = Nil
    /\ io_owner' = f
    /\ pc' = [pc EXCEPT ![f] = "flush_io"]
    /\ UNCHANGED <<global_lsn, buffer, persist_lsn, is_flushing, flush_buffer,
                   overflow_buffer, io_chunk, file, lsn, flushed_up_to, acked,
                   overflowed, crashes>>

\* write_log returns: pwrite at the end of the file, then fdatasync.
FlushIoEnd(f) ==
    /\ pc[f] = "flush_io"
    /\ io_owner = f
    /\ file' = file \o flush_buffer
    /\ flush_buffer' = <<>>
    /\ io_owner' = Nil
    /\ pc' = [pc EXCEPT ![f] = "flush_done"]
    /\ UNCHANGED <<global_lsn, buffer, persist_lsn, is_flushing,
                   overflow_buffer, io_chunk, lsn, flushed_up_to, acked,
                   overflowed, crashes>>

\* Mutant: the bound is read after the I/O instead of with the copy.
FlushFinishLateBound(f) ==
    /\ pc[f] = "flush_done"
    /\ persist_lsn' = global_lsn - 1
    /\ is_flushing' = FALSE
    /\ pc' = [NotifyGroup(NotifyPersist(pc)) EXCEPT ![f] = "idle"]
    /\ UNCHANGED <<global_lsn, buffer, flush_buffer, overflow_buffer, io_owner,
                   io_chunk, file, lsn, flushed_up_to, acked, overflowed,
                   crashes>>

\* Mutant: the leader wakes the followers but not the committers.
FlushFinishSilent(f) ==
    /\ pc[f] = "flush_done"
    /\ persist_lsn' = flushed_up_to
    /\ is_flushing' = FALSE
    /\ pc' = [NotifyGroup(pc) EXCEPT ![f] = "idle"]
    /\ UNCHANGED <<global_lsn, buffer, flush_buffer, overflow_buffer, io_owner,
                   io_chunk, file, lsn, flushed_up_to, acked, overflowed,
                   crashes>>


FlushFinish(f) ==
    /\ pc[f] = "flush_done"
    /\ persist_lsn' = flushed_up_to
    /\ is_flushing' = FALSE
    /\ pc' = [NotifyGroup(NotifyPersist(pc)) EXCEPT ![f] = "idle"]
    /\ UNCHANGED <<global_lsn, buffer, flush_buffer, overflow_buffer, io_owner,
                   io_chunk, file, lsn, flushed_up_to, acked, overflowed,
                   crashes>>

-----------------------------------------------------------------------------
(* Crash, and the restart of main(): recovery reads the whole file and     *)
(* numbers on from the highest LSN it saw.  A write cut short by the crash *)
(* leaves a whole number of records.                                        *)

Prefixes(c) == {SubSeq(c, 1, n) : n \in 0 .. Len(c)}

\* What the writes under way may leave behind at the end of the file.
InFlight ==
    IF io_owner \in Flusher THEN Prefixes(flush_buffer)
    ELSE IF io_owner \in Worker THEN UNION {Prefixes(c) : c \in OverflowChunks}
    ELSE {<<>>}

\* Mutant: the restart leaves one LSN too many behind.
NextLsnSkips(f) == Len(f) + 1


NextLsn(f) ==
    CHOOSE n \in 0 .. MaxLsn + 1 :
        /\ \A i \in DOMAIN f : f[i] < n
        /\ n = 0 \/ \E i \in DOMAIN f : f[i] = n - 1

Crash ==
    /\ crashes < MaxCrash
    /\ crashes' = crashes + 1
    /\ \E tail \in InFlight : file' = file \o tail
    /\ global_lsn' = NextLsn(file')
    /\ buffer' = <<>>
    /\ persist_lsn' = INVALID_LSN
    /\ is_flushing' = FALSE
    /\ flush_buffer' = <<>>
    /\ overflow_buffer' = <<>>
    /\ io_owner' = Nil
    /\ io_chunk' = <<>>
    /\ pc' = [t \in Thread |-> "idle"]
    /\ lsn' = [w \in Worker |-> INVALID_LSN]
    /\ flushed_up_to' = INVALID_LSN
    /\ UNCHANGED <<acked, overflowed>>

-----------------------------------------------------------------------------
WorkerStep(w) ==
    \/ OverflowIoBegin(w)
    \/ OverflowIoEnd(w)
    \/ OverflowFinish(w)
    \/ WaitReturn(w)
    \/ WaitSleep(w)

FlushWrite(f) ==
    \/ FlushIoBegin(f)
    \/ FlushIoEnd(f)
    \/ FlushFinish(f)

Next ==
    \/ \E w \in Worker :
           AppendRecord(w) \/ OverflowTake(w) \/ ReturnUnforced(w) \/ WorkerStep(w)
    \/ \E f \in Flusher : FlushFollow(f) \/ FlushLead(f) \/ FlushWrite(f)
    \/ Crash

Spec == Init /\ [][Next]_vars

\* The flush thread wakes at the latest every log_timeout (3 ms), and no thread
\* is starved of a mutex: taking io_latch_ is strongly fair, because writers
\* compete for it.  Nothing obliges a worker to append, a signal to arrive or
\* the system to crash.
Fairness ==
    /\ WF_vars(FlushFollow(Background) \/ FlushLead(Background))
    /\ \A f \in Flusher : WF_vars(FlushWrite(f)) /\ SF_vars(FlushIoBegin(f))
    /\ \A w \in Worker : WF_vars(WorkerStep(w)) /\ SF_vars(OverflowIoBegin(w))

FairSpec == Spec /\ Fairness

-----------------------------------------------------------------------------
(* Properties *)

WorkerPc == {"idle", "overflow", "overflow_io", "overflow_done", "appended",
             "asleep", "woken"}
FlusherPc == {"idle", "follower", "flush", "flush_io", "flush_done"}

TypeOK ==
    /\ global_lsn \in 0 .. MaxLsn + 1
    /\ buffer \in Seq(Lsn) /\ flush_buffer \in Seq(Lsn)
    /\ overflow_buffer \in Seq(Lsn) /\ io_chunk \in Seq(Lsn) /\ file \in Seq(Lsn)
    /\ persist_lsn \in Lsn \cup {INVALID_LSN}
    /\ is_flushing \in BOOLEAN
    /\ io_owner \in Thread \cup {Nil}
    /\ pc \in [Thread -> WorkerPc \cup FlusherPc]
    /\ \A w \in Worker : pc[w] \in WorkerPc
    /\ \A f \in Flusher : pc[f] \in FlusherPc
    /\ lsn \in [Worker -> Lsn \cup {INVALID_LSN}]
    /\ flushed_up_to \in Lsn \cup {INVALID_LSN}
    /\ acked \subseteq Lsn
    /\ overflowed \in BOOLEAN
    /\ crashes \in 0 .. MaxCrash

Durable == {file[i] : i \in DOMAIN file}

\* While no worker has met a full buffer, what is in the file, then with the
\* leader, then in the buffer is every LSN handed out, once each and in order,
\* also after crashes: recovery (log_recovery.cpp analyze) reads the file in
\* file order and takes it for LSN order.
LogIsOneSequence ==
    ~overflowed => file \o flush_buffer \o buffer = [i \in 1 .. global_lsn |-> i - 1]

\* Without overflow, persist_lsn_ never runs ahead of the file.
PersistedIsDurable ==
    ~overflowed => \A l \in 0 .. persist_lsn : l \in Durable

\* persist_lsn_ is "the last persisted LSN" (log_manager.h): a commit that
\* returned from wait_for_persist_lsn survives every later crash.  The
\* buffer-full path of add_log_to_buffer breaks it.
AckedIsDurable == acked \subseteq Durable

\* The part of it that group commit alone guarantees.
AckedIsDurableWithoutOverflow == ~overflowed => AckedIsDurable

\* A committer that sleeps on persist_cv_ is woken with its record covered (or
\* the server crashes): no lost wake-up, also when overflow moves persist_lsn_ back.
CommitterReturns ==
    \A w \in Worker : pc[w] = "asleep" ~> pc[w] = "idle"

=============================================================================
