-------------------------- MODULE LogManager_proof --------------------------
(***************************************************************************)
(* Theorems about LogManager: type correctness, and the durability of what *)
(* group commit acknowledges, for every number of workers and flushers and *)
(* every buffer size.                                                      *)
(***************************************************************************)
EXTENDS LogManager, SequenceTheorems, WellFoundedInduction, TLAPS

\* A thread in a given state has an LSN that it was handed out.
HasLsn ==
    \A w \in Worker : pc[w] # "idle" => lsn[w] \in Lsn

\* The numbers in the file, with the leader and in the buffer follow each other.
Consecutive ==
    /\ \A i \in 1 .. Len(file) : file[i] = i - 1
    /\ \A i \in 1 .. Len(flush_buffer) : flush_buffer[i] = Len(file) + i - 1
    /\ \A i \in 1 .. Len(buffer) :
           buffer[i] = Len(file) + Len(flush_buffer) + i - 1
    /\ global_lsn = Len(file) + Len(flush_buffer) + Len(buffer)

\* At most one flusher leads; flush_buffer_ holds something only while it has
\* not written it, and its local bound is the last LSN it has taken.
Leading == {"flush", "flush_io", "flush_done"}
OneLeader ==
    /\ \A f \in Flusher : pc[f] \in Leading => is_flushing
    /\ \A f, g \in Flusher : pc[f] \in Leading /\ pc[g] \in Leading => f = g
    /\ (\A f \in Flusher : pc[f] \notin {"flush", "flush_io"}) => flush_buffer = <<>>
    /\ \A f \in Flusher :
           /\ pc[f] \in {"flush", "flush_io"} =>
                  flushed_up_to = Len(file) + Len(flush_buffer) - 1
           /\ pc[f] = "flush_done" => flushed_up_to = Len(file) - 1

\* What is published or acknowledged is in the file.
Covered ==
    /\ persist_lsn < Len(file)
    /\ \A l \in acked : l < Len(file)

NoOverflow ==
    /\ \A w \in Worker : pc[w] \notin {"overflow", "overflow_io", "overflow_done"}
    /\ io_owner \notin Worker

\* The inductive invariant.
IInv ==
    /\ TypeOK
    /\ HasLsn
    /\ ~overflowed => /\ Consecutive
                      /\ OneLeader
                      /\ Covered
                      /\ NoOverflow

-----------------------------------------------------------------------------
(* The LSN a restart numbers on from: main() takes the highest LSN of the   *)
(* file plus one, and such a number exists.                                 *)
LEMMA NextLsnExists ==
    ASSUME NEW f \in Seq(Lsn)
    PROVE  \E n \in 0 .. MaxLsn + 1 : /\ \A i \in DOMAIN f : f[i] < n
                                      /\ n = 0 \/ \E i \in DOMAIN f : f[i] = n - 1
<1> DEFINE Above == {n \in Nat : \A i \in DOMAIN f : f[i] < n}
<1>1. /\ DOMAIN f = 1 .. Len(f) /\ Len(f) \in Nat
      /\ \A i \in DOMAIN f : f[i] \in 0 .. MaxLsn
  BY LenProperties, ElementOfSeq DEF Lsn
<1>2. MaxLsn + 1 \in Above
  BY <1>1, BoundsAssumption
<1>3. PICK n \in Above : \A m \in Above : n <= m
  <2>1. Above \subseteq Nat /\ Above # {}
    BY <1>2
  <2> HIDE DEF Above
  <2>2. PICK n \in Above : \A m \in Above : <<m, n>> \notin OpToRel(<, Nat)
    BY <2>1, WFMin, NatLessThanWellFounded
  <2>3. ASSUME NEW m \in Above PROVE n <= m
    <3>1. ~(m < n)
      <4>1. <<m, n>> \in Nat \X Nat /\ <<m, n>>[1] = m /\ <<m, n>>[2] = n
        BY <2>1
      <4>2. OpToRel(<, Nat) = {ss \in Nat \X Nat : ss[1] < ss[2]}
        BY DEF OpToRel
      <4>3. QED BY <4>1, <4>2, <2>2
    <3>2. QED BY <3>1, <2>1
  <2>4. QED BY <2>3
<1>4. n \in 0 .. MaxLsn + 1 /\ \A i \in DOMAIN f : f[i] < n
  BY <1>2, <1>3, BoundsAssumption
<1>5. n = 0 \/ \E i \in DOMAIN f : f[i] = n - 1
  <2> SUFFICES ASSUME n # 0, \A i \in DOMAIN f : f[i] # n - 1
               PROVE FALSE
    OBVIOUS
  <2>1. n - 1 \in Above
    BY <1>1, <1>4, BoundsAssumption
  <2>2. QED BY <2>1, <1>3, <1>4, BoundsAssumption
<1>6. QED BY <1>4, <1>5

LEMMA NextLsnOf ==
    ASSUME NEW f \in Seq(Lsn)
    PROVE  /\ NextLsn(f) \in 0 .. MaxLsn + 1
           /\ \A i \in DOMAIN f : f[i] < NextLsn(f)
           /\ NextLsn(f) = 0 \/ \E i \in DOMAIN f : f[i] = NextLsn(f) - 1
BY NextLsnExists DEF NextLsn

\* A file that holds 0, 1, 2, ... is numbered on from its length.
LEMMA NextLsnOfConsecutive ==
    ASSUME NEW f \in Seq(Lsn), \A i \in 1 .. Len(f) : f[i] = i - 1
    PROVE  NextLsn(f) = Len(f)
<1>1. DOMAIN f = 1 .. Len(f) /\ Len(f) \in Nat
  BY LenProperties
<1>2. /\ NextLsn(f) \in Int /\ NextLsn(f) >= 0
      /\ \A i \in 1 .. Len(f) : f[i] < NextLsn(f)
      /\ NextLsn(f) = 0 \/ \E i \in 1 .. Len(f) : f[i] = NextLsn(f) - 1
  BY <1>1, NextLsnOf, BoundsAssumption
<1> DEFINE n == NextLsn(f)
<1> HIDE DEF n
<1>3. CASE Len(f) = 0
  BY <1>1, <1>2, <1>3 DEF n
<1>4. CASE Len(f) > 0
  <2>1. Len(f) - 1 < NextLsn(f)
    <3>1. Len(f) \in 1 .. Len(f)
      BY <1>1, <1>4
    <3>2. QED BY <3>1, <1>2
  <2>2. PICK i \in 1 .. Len(f) : f[i] = NextLsn(f) - 1
    BY <2>1, <1>1, <1>2, <1>4
  <2>3. QED BY <2>1, <2>2, <1>1, <1>2
<1>5. QED BY <1>1, <1>3, <1>4

\* Appending a prefix of the leader's buffer to a consecutive file.
LEMMA ConcatConsecutive ==
    ASSUME NEW f \in Seq(Lsn), NEW c \in Seq(Lsn),
           \A i \in 1 .. Len(f) : f[i] = i - 1,
           \A i \in 1 .. Len(c) : c[i] = Len(f) + i - 1
    PROVE  /\ f \o c \in Seq(Lsn)
           /\ Len(f \o c) = Len(f) + Len(c)
           /\ \A i \in 1 .. Len(f \o c) : (f \o c)[i] = i - 1
<1>1. /\ f \o c \in Seq(Lsn)
      /\ Len(f \o c) = Len(f) + Len(c)
      /\ \A i \in 1 .. Len(f) + Len(c) :
             (f \o c)[i] = IF i <= Len(f) THEN f[i] ELSE c[i - Len(f)]
  BY ConcatProperties
<1>2. Len(f) \in Nat /\ Len(c) \in Nat
  BY LenProperties
<1>3. ASSUME NEW i \in 1 .. Len(f) + Len(c)
      PROVE  (f \o c)[i] = i - 1
  <2>1. CASE i <= Len(f)
    BY <1>1, <1>2, <1>3, <2>1
  <2>2. CASE i > Len(f)
    <3>1. i - Len(f) \in 1 .. Len(c)
      BY <1>2, <1>3, <2>2
    <3>2. QED BY <1>1, <1>2, <1>3, <2>2, <3>1
  <2>3. QED BY <1>2, <1>3, <2>1, <2>2
<1>4. QED BY <1>1, <1>3

-----------------------------------------------------------------------------
\* The initial state satisfies the invariant.
LEMMA InitIInv == Init => IInv
<1> SUFFICES ASSUME Init PROVE IInv
  OBVIOUS
<1>1. TypeOK
  <2>1. <<>> \in Seq(Lsn)
    BY EmptySeq
  <2>2. pc \in [Thread -> {"idle"}] /\ lsn \in [Worker -> {INVALID_LSN}]
    BY DEF Init
  <2>3. /\ buffer \in Seq(Lsn) /\ flush_buffer \in Seq(Lsn) /\ file \in Seq(Lsn)
        /\ overflow_buffer \in Seq(Lsn) /\ io_chunk \in Seq(Lsn)
    BY <2>1 DEF Init
  <2>4. pc \in [Thread -> WorkerPc \cup FlusherPc]
    BY <2>2 DEF WorkerPc, FlusherPc
  <2>5. \A t \in Thread : pc[t] \in WorkerPc /\ pc[t] \in FlusherPc
    BY <2>2 DEF WorkerPc, FlusherPc
  <2>6. lsn \in [Worker -> Lsn \cup {INVALID_LSN}]
    BY <2>2
  <2>7. global_lsn \in 0 .. MaxLsn + 1 /\ crashes \in 0 .. MaxCrash
    BY BoundsAssumption DEF Init
  <2>8. QED
    BY <2>3, <2>4, <2>5, <2>6, <2>7 DEF Init, TypeOK, Thread
<1>2. HasLsn
  BY DEF Init, HasLsn, Thread
<1>3. Consecutive /\ OneLeader /\ Covered /\ NoOverflow
  BY ThreadAssumption
  DEF Init, Consecutive, OneLeader, Covered, NoOverflow, Leading, INVALID_LSN, Thread
<1>4. QED BY <1>1, <1>2, <1>3 DEF IInv


-----------------------------------------------------------------------------
(* Types. *)

PcType(p) ==
    /\ p \in [Thread -> WorkerPc \cup FlusherPc]
    /\ \A w \in Worker : p[w] \in WorkerPc
    /\ \A f \in Flusher : p[f] \in FlusherPc

\* A thread moves; the others stay where they are.
LEMMA WorkerMoves ==
    ASSUME NEW p, PcType(p), NEW w \in Worker, NEW s \in WorkerPc
    PROVE  /\ PcType([p EXCEPT ![w] = s])
           /\ \A t \in Thread : [p EXCEPT ![w] = s][t] = IF t = w THEN s ELSE p[t]
BY ThreadAssumption DEF PcType, Thread

LEMMA FlusherMoves ==
    ASSUME NEW p, PcType(p), NEW f \in Flusher, NEW s \in FlusherPc
    PROVE  /\ PcType([p EXCEPT ![f] = s])
           /\ \A t \in Thread : [p EXCEPT ![f] = s][t] = IF t = f THEN s ELSE p[t]
BY ThreadAssumption DEF PcType, Thread

\* notify_all moves sleepers and followers only.
LEMMA NotifyType ==
    ASSUME NEW p, PcType(p)
    PROVE  /\ PcType(NotifyPersist(p)) /\ PcType(NotifyGroup(p))
           /\ \A t \in Thread :
                 /\ p[t] # "asleep" => NotifyPersist(p)[t] = p[t]
                 /\ p[t] = "asleep" => NotifyPersist(p)[t] = "woken"
                 /\ p[t] # "follower" => NotifyGroup(p)[t] = p[t]
                 /\ p[t] = "follower" => NotifyGroup(p)[t] = "idle"
<1>1. /\ NotifyPersist(p) \in [Thread -> WorkerPc \cup FlusherPc]
      /\ NotifyGroup(p) \in [Thread -> WorkerPc \cup FlusherPc]
  BY DEF PcType, NotifyPersist, NotifyGroup, WorkerPc, FlusherPc
<1>2. \A t \in Thread : /\ NotifyPersist(p)[t] = IF p[t] = "asleep" THEN "woken" ELSE p[t]
                        /\ NotifyGroup(p)[t] = IF p[t] = "follower" THEN "idle" ELSE p[t]
  BY DEF NotifyPersist, NotifyGroup
<1>3. QED
  BY <1>1, <1>2 DEF PcType, WorkerPc, FlusherPc, Thread

\* A concatenation of sequences of LSNs, a chunk of an overflow write, and a
\* prefix of either is one again.
LEMMA ChunkType ==
    ASSUME io_chunk \in Seq(Lsn), NEW c \in OverflowChunks
    PROVE  c \in Seq(Lsn)
<1>1. Len(io_chunk) \in Nat /\ DOMAIN io_chunk = 1 .. Len(io_chunk)
  BY LenProperties
<1>2. c \in [1 .. Len(io_chunk) -> Lsn]
  BY <1>1 DEF OverflowChunks
<1>3. QED BY <1>1, <1>2, SeqDef

LEMMA PrefixType ==
    ASSUME NEW c \in Seq(Lsn), NEW q \in Prefixes(c)
    PROVE  /\ q \in Seq(Lsn)
           /\ \E n \in 0 .. Len(c) : /\ Len(q) = n
                                    /\ \A i \in 1 .. n : q[i] = c[i]
<1>1. PICK n \in 0 .. Len(c) : q = SubSeq(c, 1, n)
  BY DEF Prefixes
<1>2. Len(c) \in Nat /\ \A i \in 1 .. n : c[i] \in Lsn
  BY LenProperties, ElementOfSeq
<1>3. /\ SubSeq(c, 1, n) \in Seq(Lsn)
      /\ Len(SubSeq(c, 1, n)) = IF 1 <= n THEN n - 1 + 1 ELSE 0
      /\ \A i \in 1 .. n - 1 + 1 : SubSeq(c, 1, n)[i] = c[1 + i - 1]
  BY <1>2, SubSeqProperties
<1>4. QED BY <1>1, <1>2, <1>3

LEMMA TailType ==
    ASSUME flush_buffer \in Seq(Lsn), io_chunk \in Seq(Lsn), NEW q \in InFlight
    PROVE  q \in Seq(Lsn)
<1>1. CASE io_owner \in Flusher
  BY <1>1, PrefixType DEF InFlight
<1>2. CASE io_owner \notin Flusher /\ io_owner \in Worker
  BY <1>2, PrefixType, ChunkType DEF InFlight
<1>3. CASE io_owner \notin Flusher /\ io_owner \notin Worker
  BY <1>3, EmptySeq DEF InFlight
<1>4. QED BY <1>1, <1>2, <1>3

\* Every step keeps the types and the fact that a thread at work has an LSN.
LEMMA TypeStep == TypeOK /\ HasLsn /\ [Next]_vars => TypeOK' /\ HasLsn'
<1> SUFFICES ASSUME TypeOK, HasLsn, [Next]_vars PROVE TypeOK' /\ HasLsn'
  OBVIOUS
<1> USE BoundsAssumption
<1>0. PcType(pc) /\ <<>> \in Seq(Lsn)
  BY EmptySeq DEF TypeOK, PcType
<1>1. ASSUME NEW w \in Worker, AppendRecord(w) PROVE TypeOK' /\ HasLsn'
  BY <1>0, <1>1, WorkerMoves, ThreadAssumption, AppendProperties
  DEF AppendRecord, TypeOK, HasLsn, Lsn, INVALID_LSN, PcType, WorkerPc, FlusherPc, Thread
<1>2. ASSUME NEW w \in Worker, OverflowTake(w) PROVE TypeOK' /\ HasLsn'
  BY <1>0, <1>2, WorkerMoves, ThreadAssumption
  DEF OverflowTake, TypeOK, HasLsn, Lsn, INVALID_LSN, PcType, WorkerPc, FlusherPc, Thread
<1>3. ASSUME NEW w \in Worker, OverflowIoBegin(w) PROVE TypeOK' /\ HasLsn'
  BY <1>0, <1>3, WorkerMoves, ThreadAssumption
  DEF OverflowIoBegin, TypeOK, HasLsn, Lsn, INVALID_LSN, PcType, WorkerPc, FlusherPc, Thread
<1>4. ASSUME NEW w \in Worker, OverflowIoEnd(w) PROVE TypeOK' /\ HasLsn'
  <2>1. PICK c \in OverflowChunks : file' = file \o c
    BY <1>4 DEF OverflowIoEnd
  <2>2. file' \in Seq(Lsn)
    BY <2>1, ChunkType, ConcatProperties DEF TypeOK
  <2>3. QED
    BY <1>0, <1>4, <2>2, WorkerMoves, ThreadAssumption
    DEF OverflowIoEnd, TypeOK, HasLsn, PcType, WorkerPc, FlusherPc, Thread
<1>5. ASSUME NEW w \in Worker, OverflowFinish(w) PROVE TypeOK' /\ HasLsn'
  <2>1. lsn[w] \in Lsn /\ persist_lsn' = lsn[w] - 1 /\ buffer' = Append(buffer, lsn[w])
    BY <1>5 DEF OverflowFinish, HasLsn
  <2>2. persist_lsn' \in Lsn \cup {INVALID_LSN}
    BY <2>1 DEF Lsn, INVALID_LSN
  <2>3. buffer' \in Seq(Lsn)
    BY <2>1, AppendProperties DEF TypeOK
  <2>4. PcType(NotifyPersist(pc)) /\ pc' = [NotifyPersist(pc) EXCEPT ![w] = "appended"]
    BY <1>0, <1>5, NotifyType DEF OverflowFinish
  <2>5. /\ PcType(pc')
        /\ \A t \in Thread : pc'[t] = IF t = w THEN "appended" ELSE NotifyPersist(pc)[t]
    <3> DEFINE p == NotifyPersist(pc)
    <3>1. "appended" \in WorkerPc /\ PcType(p) /\ pc' = [p EXCEPT ![w] = "appended"]
      BY <2>4 DEF WorkerPc
    <3> HIDE DEF p
    <3>2. /\ PcType(pc')
          /\ \A t \in Thread : pc'[t] = IF t = w THEN "appended" ELSE p[t]
      BY <3>1, ThreadAssumption DEF PcType, Thread
    <3>3. QED BY <3>2 DEF p
  <2>6. HasLsn'
    <3>1. ASSUME NEW v \in Worker, pc'[v] # "idle" PROVE lsn'[v] \in Lsn
      <4>1. lsn' = lsn
        BY <1>5 DEF OverflowFinish
      <4>2. CASE v = w
        BY <4>1, <4>2, <2>1
      <4>3. CASE v # w
        <5>1. pc[v] # "idle"
          BY <1>0, <2>5, <3>1, <4>3, NotifyType DEF Thread
        <5>2. QED BY <4>1, <5>1 DEF HasLsn
      <4>4. QED BY <4>2, <4>3
    <3>2. QED BY <3>1 DEF HasLsn
  <2>7. QED
    BY <1>5, <2>2, <2>3, <2>5, <2>6 DEF OverflowFinish, TypeOK, PcType
<1>6. ASSUME NEW w \in Worker, ReturnUnforced(w) PROVE TypeOK' /\ HasLsn'
  BY <1>0, <1>6, WorkerMoves, ThreadAssumption
  DEF ReturnUnforced, TypeOK, HasLsn, Lsn, INVALID_LSN, PcType, WorkerPc, FlusherPc, Thread
<1>7. ASSUME NEW w \in Worker, WaitReturn(w) PROVE TypeOK' /\ HasLsn'
  <2>1. lsn[w] \in Lsn
    BY <1>7 DEF WaitReturn, HasLsn
  <2>2. acked' \subseteq Lsn
    BY <1>7, <2>1 DEF WaitReturn, TypeOK
  <2>3. QED
    BY <1>0, <1>7, <2>2, WorkerMoves, ThreadAssumption
    DEF WaitReturn, TypeOK, HasLsn, PcType, WorkerPc, FlusherPc, Thread
<1>8. ASSUME NEW w \in Worker, WaitSleep(w) PROVE TypeOK' /\ HasLsn'
  BY <1>0, <1>8, WorkerMoves, ThreadAssumption
  DEF WaitSleep, TypeOK, HasLsn, Lsn, INVALID_LSN, PcType, WorkerPc, FlusherPc, Thread
<1>9. ASSUME NEW f \in Flusher, FlushFollow(f) PROVE TypeOK' /\ HasLsn'
  BY <1>0, <1>9, FlusherMoves, ThreadAssumption
  DEF FlushFollow, TypeOK, HasLsn, Lsn, INVALID_LSN, PcType, WorkerPc, FlusherPc, Thread
<1>10. ASSUME NEW f \in Flusher, FlushLead(f) PROVE TypeOK' /\ HasLsn'
  BY <1>0, <1>10, FlusherMoves, ThreadAssumption
  DEF FlushLead, TypeOK, HasLsn, Lsn, INVALID_LSN, PcType, WorkerPc, FlusherPc, Thread
<1>11. ASSUME NEW f \in Flusher, FlushIoBegin(f) PROVE TypeOK' /\ HasLsn'
  BY <1>0, <1>11, FlusherMoves, ThreadAssumption
  DEF FlushIoBegin, TypeOK, HasLsn, Lsn, INVALID_LSN, PcType, WorkerPc, FlusherPc, Thread
<1>12. ASSUME NEW f \in Flusher, FlushIoEnd(f) PROVE TypeOK' /\ HasLsn'
  BY <1>0, <1>12, FlusherMoves, ThreadAssumption, ConcatProperties
  DEF FlushIoEnd, TypeOK, HasLsn, Lsn, INVALID_LSN, PcType, WorkerPc, FlusherPc, Thread
<1>13. ASSUME NEW f \in Flusher, FlushFinish(f) PROVE TypeOK' /\ HasLsn'
  <2>1. /\ PcType(NotifyGroup(NotifyPersist(pc)))
        /\ pc' = [NotifyGroup(NotifyPersist(pc)) EXCEPT ![f] = "idle"]
    BY <1>0, <1>13, NotifyType DEF FlushFinish
  <2>2. /\ PcType(pc')
        /\ \A t \in Thread : pc'[t] = IF t = f THEN "idle" ELSE NotifyGroup(NotifyPersist(pc))[t]
    <3> DEFINE p == NotifyGroup(NotifyPersist(pc))
    <3>1. "idle" \in FlusherPc /\ PcType(p) /\ pc' = [p EXCEPT ![f] = "idle"]
      BY <2>1 DEF FlusherPc
    <3> HIDE DEF p
    <3>2. /\ PcType(pc')
          /\ \A t \in Thread : pc'[t] = IF t = f THEN "idle" ELSE p[t]
      BY <3>1, ThreadAssumption DEF PcType, Thread
    <3>3. QED BY <3>2 DEF p
  <2>3. \A v \in Worker : pc'[v] # "idle" => pc[v] # "idle"
    BY <1>0, <2>2, NotifyType, ThreadAssumption DEF Thread
  <2>4. HasLsn'
    BY <1>13, <2>3 DEF FlushFinish, HasLsn
  <2>5. QED
    BY <1>13, <2>2, <2>4 DEF FlushFinish, TypeOK, PcType
<1>14. CASE Crash
  <2>1. file' \in Seq(Lsn)
    <3>1. PICK q \in InFlight : file' = file \o q
      BY <1>14 DEF Crash
    <3>2. q \in Seq(Lsn)
      BY TailType DEF TypeOK
    <3>3. QED BY <3>1, <3>2, ConcatProperties DEF TypeOK
  <2>2. global_lsn' \in 0 .. MaxLsn + 1
    BY <1>14, <2>1, NextLsnOf DEF Crash
  <2>3. /\ PcType(pc') /\ \A t \in Thread : pc'[t] = "idle"
        /\ lsn' \in [Worker -> Lsn \cup {INVALID_LSN}]
    BY <1>14 DEF Crash, PcType, WorkerPc, FlusherPc, Thread
  <2>4. HasLsn'
    BY <2>3 DEF HasLsn, Thread
  <2>5. crashes' \in 0 .. MaxCrash
    BY <1>14 DEF Crash, TypeOK
  <2>6. QED
    BY <1>0, <1>14, <2>1, <2>2, <2>3, <2>4, <2>5 DEF Crash, TypeOK, PcType
<1>15. CASE UNCHANGED vars
  BY <1>15 DEF vars, TypeOK, HasLsn
<1>16. QED
  BY <1>1, <1>2, <1>3, <1>4, <1>5, <1>6, <1>7, <1>8, <1>9, <1>10, <1>11, <1>12, <1>13, <1>14, <1>15 DEF Next, WorkerStep, FlushWrite

-----------------------------------------------------------------------------
(* Group commit.  While nobody overflows, every step keeps the records in    *)
(* sequence, one leader at a time, and what is published in the file.        *)

Group == Consecutive /\ OneLeader /\ Covered /\ NoOverflow

\* No flusher leads while is_flushing_ is false, so flush_buffer_ is empty.
LEMMA NoLeaderNoBuffer ==
    ASSUME OneLeader, ~is_flushing
    PROVE  /\ \A f \in Flusher : pc[f] \notin Leading
           /\ flush_buffer = <<>>
BY DEF OneLeader, Leading

\* A worker that only moves, or appends in the buffer, leaves the leader alone.
LEMMA WorkersDoNotLead ==
    ASSUME OneLeader, NoOverflow,
           UNCHANGED <<is_flushing, flush_buffer, flushed_up_to, file, io_owner>>,
           \A f \in Flusher : pc'[f] = pc[f],
           \A w \in Worker : pc'[w] \notin {"overflow", "overflow_io", "overflow_done"}
    PROVE  OneLeader' /\ NoOverflow'
BY DEF OneLeader, NoOverflow, Leading

LEMMA GroupStep ==
    ASSUME TypeOK, TypeOK', HasLsn, HasLsn', Group, Next, ~overflowed, ~overflowed'
    PROVE  Group'
<1>0. /\ Len(file) \in Nat /\ Len(flush_buffer) \in Nat /\ Len(buffer) \in Nat
      /\ Len(<<>>) = 0
      /\ pc \in [Thread -> WorkerPc \cup FlusherPc]
      /\ Worker \subseteq Thread /\ Flusher \subseteq Thread
  BY LenProperties, EmptySeq DEF TypeOK, Thread
<1>1. ASSUME NEW w \in Worker, AppendRecord(w) PROVE Group'
  <2>1. /\ Len(buffer') = Len(buffer) + 1
        /\ \A i \in 1 .. Len(buffer) : buffer'[i] = buffer[i]
        /\ buffer'[Len(buffer) + 1] = global_lsn
    <3>1. global_lsn \in Lsn /\ buffer' = Append(buffer, global_lsn)
      BY <1>1 DEF AppendRecord, TypeOK, Lsn
    <3>2. QED BY <3>1, AppendProperties DEF TypeOK
  <2>2. Consecutive'
    <3>1. /\ UNCHANGED <<file, flush_buffer>> /\ global_lsn' = global_lsn + 1
          /\ global_lsn = Len(file) + Len(flush_buffer) + Len(buffer)
      BY <1>1 DEF AppendRecord, Consecutive, Group
    <3>2. ASSUME NEW i \in 1 .. Len(buffer')
          PROVE  buffer'[i] = Len(file) + Len(flush_buffer) + i - 1
      <4>1. CASE i = Len(buffer) + 1
        BY <1>0, <2>1, <3>1, <4>1
      <4>2. CASE i \in 1 .. Len(buffer)
        BY <2>1, <4>2 DEF Consecutive, Group
      <4>3. QED BY <1>0, <2>1, <3>2, <4>1, <4>2
    <3>3. QED BY <1>0, <2>1, <3>1, <3>2 DEF Consecutive, Group
  <2>3. OneLeader' /\ NoOverflow'
    BY <1>0, <1>1, WorkersDoNotLead, ThreadAssumption DEF AppendRecord, Group, NoOverflow
  <2>4. Covered'
    BY <1>1 DEF AppendRecord, Group, Covered
  <2>5. QED BY <2>2, <2>3, <2>4 DEF Group
<1>2. ASSUME NEW w \in Worker, OverflowTake(w) PROVE FALSE
  BY <1>2 DEF OverflowTake
<1>3. ASSUME NEW w \in Worker, OverflowIoBegin(w) \/ OverflowIoEnd(w) \/ OverflowFinish(w)
      PROVE  FALSE
  BY <1>3 DEF OverflowIoBegin, OverflowIoEnd, OverflowFinish, Group, NoOverflow
<1>4. ASSUME NEW w \in Worker, ReturnUnforced(w) \/ WaitReturn(w) \/ WaitSleep(w)
      PROVE  Group'
  <2>1. /\ UNCHANGED <<global_lsn, buffer, persist_lsn, is_flushing, flush_buffer,
                       file, io_owner, flushed_up_to>>
        /\ pc' \in {[pc EXCEPT ![w] = "idle"], [pc EXCEPT ![w] = "asleep"]}
    BY <1>4 DEF ReturnUnforced, WaitReturn, WaitSleep
  <2>2. Consecutive'
    BY <2>1 DEF Consecutive, Group
  <2>3. OneLeader' /\ NoOverflow'
    <3>1. \A f \in Flusher : pc'[f] = pc[f]
      BY <1>0, <2>1, ThreadAssumption
    <3>2. \A v \in Worker : pc'[v] \notin {"overflow", "overflow_io", "overflow_done"}
      BY <1>0, <2>1 DEF Group, NoOverflow
    <3>3. QED BY <2>1, <3>1, <3>2, WorkersDoNotLead DEF Group
  <2>4. \A l \in acked' : l < Len(file)
    <3>1. CASE WaitReturn(w)
      <4>1. lsn[w] \in Lsn /\ lsn[w] <= persist_lsn /\ persist_lsn \in Int
        BY <3>1 DEF WaitReturn, HasLsn, TypeOK, Lsn, INVALID_LSN
      <4>2. lsn[w] < Len(file)
        BY <1>0, <4>1 DEF Group, Covered, Lsn
      <4>3. QED BY <3>1, <4>2 DEF WaitReturn, Group, Covered
    <3>2. CASE ReturnUnforced(w) \/ WaitSleep(w)
      BY <3>2 DEF ReturnUnforced, WaitSleep, Group, Covered
    <3>3. QED BY <1>4, <3>1, <3>2
  <2>5. Covered'
    BY <2>1, <2>4 DEF Covered, Group
  <2>6. QED BY <2>2, <2>3, <2>5 DEF Group
<1>5. ASSUME NEW f \in Flusher, FlushFollow(f) PROVE Group'
  <2>1. \A g \in Flusher : pc'[g] = IF g = f THEN "follower" ELSE pc[g]
    BY <1>0, <1>5 DEF FlushFollow
  <2>2. \A w \in Worker : pc'[w] = pc[w]
    BY <1>0, <1>5, ThreadAssumption DEF FlushFollow
  <2>3. OneLeader'
    BY <1>5, <2>1 DEF FlushFollow, Group, OneLeader, Leading
  <2>4. Consecutive' /\ Covered' /\ NoOverflow'
    BY <1>5, <2>2 DEF FlushFollow, Group, Consecutive, Covered, NoOverflow
  <2>5. QED BY <2>3, <2>4 DEF Group
<1>6. ASSUME NEW f \in Flusher, FlushLead(f) PROVE Group'
  <2>1. flush_buffer = <<>> /\ \A g \in Flusher : pc[g] \notin Leading
    BY <1>6, NoLeaderNoBuffer DEF FlushLead, Group
  <2>2. /\ \A g \in Flusher : pc'[g] = IF g = f THEN "flush" ELSE pc[g]
        /\ \A w \in Worker : pc'[w] = pc[w]
    BY <1>0, <1>6, ThreadAssumption DEF FlushLead
  <2>3. Consecutive'
    BY <1>0, <1>6, <2>1 DEF FlushLead, Group, Consecutive
  <2>4. flushed_up_to' = Len(file) + Len(flush_buffer') - 1
    BY <1>0, <1>6, <2>1 DEF FlushLead, Group, Consecutive
  <2>5. OneLeader'
    BY <1>6, <2>1, <2>2, <2>4 DEF FlushLead, OneLeader, Leading
  <2>6. Covered' /\ NoOverflow'
    BY <1>6, <2>2 DEF FlushLead, Group, Covered, NoOverflow
  <2>7. QED BY <2>3, <2>5, <2>6 DEF Group
<1>7. ASSUME NEW f \in Flusher, FlushIoBegin(f) PROVE Group'
  <2>1. /\ \A g \in Flusher : pc'[g] = IF g = f THEN "flush_io" ELSE pc[g]
        /\ \A w \in Worker : pc'[w] = pc[w]
    BY <1>0, <1>7, ThreadAssumption DEF FlushIoBegin
  <2>2. OneLeader'
    BY <1>7, <2>1 DEF FlushIoBegin, Group, OneLeader, Leading
  <2>3. Consecutive' /\ Covered' /\ NoOverflow'
    BY <1>7, <2>1, ThreadAssumption
    DEF FlushIoBegin, Group, Consecutive, Covered, NoOverflow
  <2>4. QED BY <2>2, <2>3 DEF Group
<1>8. ASSUME NEW f \in Flusher, FlushIoEnd(f) PROVE Group'
  <2>1. /\ \A g \in Flusher : pc'[g] = IF g = f THEN "flush_done" ELSE pc[g]
        /\ \A w \in Worker : pc'[w] = pc[w]
    BY <1>0, <1>8, ThreadAssumption DEF FlushIoEnd
  <2>2. /\ Len(file') = Len(file) + Len(flush_buffer)
        /\ \A i \in 1 .. Len(file') : file'[i] = i - 1
    BY <1>8, ConcatConsecutive DEF FlushIoEnd, Group, Consecutive, TypeOK
  <2>3. Consecutive'
    BY <1>0, <1>8, <2>2 DEF FlushIoEnd, Group, Consecutive
  <2>4. \A g \in Flusher : pc[g] \in Leading => g = f
    BY <1>8 DEF FlushIoEnd, Group, OneLeader, Leading
  <2>5. flushed_up_to' = Len(file') - 1
    BY <1>8, <2>2 DEF FlushIoEnd, Group, OneLeader
  <2>6. OneLeader'
    BY <1>8, <2>1, <2>4, <2>5 DEF FlushIoEnd, Group, OneLeader, Leading
  <2>7. Covered'
    <3>1. \A l \in acked : l \in Int
      BY DEF TypeOK, Lsn
    <3>2. persist_lsn \in Int
      BY DEF TypeOK, Lsn, INVALID_LSN
    <3>3. QED BY <1>0, <1>8, <2>2, <3>1, <3>2 DEF FlushIoEnd, Group, Covered
  <2>8. NoOverflow'
    BY <1>8, <2>1, <1>0, ThreadAssumption DEF FlushIoEnd, Group, NoOverflow
  <2>9. QED BY <2>3, <2>6, <2>7, <2>8 DEF Group
<1>9. ASSUME NEW f \in Flusher, FlushFinish(f) PROVE Group'
  <2>1. PcType(pc) /\ PcType(NotifyPersist(pc)) /\ PcType(NotifyGroup(NotifyPersist(pc)))
    BY NotifyType DEF TypeOK, PcType
  <2>2. \A g \in Flusher : pc'[g] \in Leading => pc[g] \in Leading /\ g # f
    BY <1>0, <1>9, <2>1, NotifyType DEF FlushFinish, Leading, PcType
  <2>3. \A g \in Flusher : pc[g] \in Leading => g = f
    BY <1>9 DEF FlushFinish, Group, OneLeader, Leading
  <2>4. flush_buffer = <<>>
    BY <1>9, <2>3 DEF FlushFinish, Group, OneLeader, Leading
  <2>5. OneLeader'
    BY <1>9, <2>2, <2>3, <2>4 DEF FlushFinish, OneLeader, Leading
  <2>6. Covered'
    BY <1>0, <1>9 DEF FlushFinish, Group, OneLeader, Covered
  <2>7. \A w \in Worker : pc'[w] \notin {"overflow", "overflow_io", "overflow_done"}
    BY <1>0, <1>9, <2>1, NotifyType, ThreadAssumption DEF FlushFinish, Group, NoOverflow, PcType
  <2>8. Consecutive' /\ NoOverflow'
    BY <1>9, <2>7 DEF FlushFinish, Group, Consecutive, NoOverflow
  <2>9. QED BY <2>5, <2>6, <2>8 DEF Group
<1>10. CASE Crash
  <2>1. PICK q \in InFlight : file' = file \o q
    BY <1>10 DEF Crash
  <2>2. /\ q \in Seq(Lsn)
        /\ \A i \in 1 .. Len(q) : q[i] = Len(file) + i - 1
    <3>1. CASE io_owner \in Flusher
      <4>1. q \in Prefixes(flush_buffer)
        BY <3>1 DEF InFlight
      <4>2. PICK n \in 0 .. Len(flush_buffer) :
                /\ q \in Seq(Lsn) /\ Len(q) = n
                /\ \A i \in 1 .. n : q[i] = flush_buffer[i]
        BY <4>1, PrefixType DEF TypeOK
      <4>3. \A i \in 1 .. Len(flush_buffer) : flush_buffer[i] = Len(file) + i - 1
        BY DEF Group, Consecutive
      <4>4. QED BY <1>0, <4>2, <4>3
    <3>2. CASE io_owner \notin Flusher
      BY <3>2, EmptySeq DEF InFlight, Group, NoOverflow
    <3>3. QED BY <3>1, <3>2
  <2>3. /\ file' \in Seq(Lsn)
        /\ Len(file') = Len(file) + Len(q) /\ Len(q) \in Nat
        /\ \A i \in 1 .. Len(file') : file'[i] = i - 1
    BY <2>1, <2>2, ConcatConsecutive, LenProperties DEF TypeOK, Group, Consecutive
  <2>4. global_lsn' = Len(file')
    BY <1>10, <2>3, NextLsnOfConsecutive DEF Crash
  <2>5. Consecutive'
    BY <1>0, <1>10, <2>3, <2>4 DEF Crash, Consecutive
  <2>6. OneLeader' /\ NoOverflow'
    BY <1>0, <1>10, ThreadAssumption DEF Crash, OneLeader, NoOverflow, Leading
  <2>7. Covered'
    <3>1. \A l \in acked : l \in Int
      BY DEF TypeOK, Lsn
    <3>2. QED BY <1>0, <1>10, <2>3, <3>1 DEF Crash, Group, Covered, INVALID_LSN
  <2>8. QED BY <2>5, <2>6, <2>7 DEF Group
<1>11. QED
  BY <1>1, <1>2, <1>3, <1>4, <1>5, <1>6, <1>7, <1>8, <1>9, <1>10
  DEF Next, WorkerStep, FlushWrite

LEMMA StepIInv == IInv /\ [Next]_vars => IInv'
<1> SUFFICES ASSUME IInv, [Next]_vars PROVE IInv'
  OBVIOUS
<1>1. TypeOK' /\ HasLsn'
  BY TypeStep DEF IInv
<1>2. CASE UNCHANGED vars
  BY <1>1, <1>2 DEF vars, IInv, Consecutive, OneLeader, Covered, NoOverflow
<1>3. CASE Next /\ ~overflowed'
  <2>1. ~overflowed
    BY <1>3 DEF Next, WorkerStep, FlushWrite, AppendRecord, OverflowTake, OverflowIoBegin,
       OverflowIoEnd, OverflowFinish, ReturnUnforced, WaitReturn, WaitSleep, FlushFollow,
       FlushLead, FlushIoBegin, FlushIoEnd, FlushFinish, Crash
  <2>2. Group'
    BY <1>1, <1>3, <2>1, GroupStep DEF IInv, Group
  <2>3. QED BY <1>1, <2>2 DEF IInv, Group
<1>4. CASE Next /\ overflowed'
  BY <1>1, <1>4 DEF IInv
<1>5. QED BY <1>2, <1>3, <1>4

-----------------------------------------------------------------------------
(* The theorems. *)

\* Every field of the log manager keeps its type, for every number of threads
\* and every buffer size: in particular persist_lsn_ and the leader's bound stay
\* within the LSNs that were handed out.
THEOREM TypeCorrect == Spec => []TypeOK
<1>1. Init => IInv
  BY InitIInv
<1>2. IInv /\ [Next]_vars => IInv'
  BY StepIInv
<1>3. IInv => TypeOK
  BY DEF IInv
<1>4. QED BY <1>1, <1>2, <1>3, PTL DEF Spec

\* Group commit writes every LSN once and in order, also across crashes, as
\* long as no append meets a full buffer.
THEOREM LogOrder == Spec => []LogIsOneSequence
<1>1. IInv => LogIsOneSequence
  <2> SUFFICES ASSUME IInv, ~overflowed
               PROVE  file \o flush_buffer \o buffer = [i \in 1 .. global_lsn |-> i - 1]
    BY DEF LogIsOneSequence
  <2>1. /\ file \in Seq(Lsn) /\ flush_buffer \in Seq(Lsn) /\ buffer \in Seq(Lsn)
        /\ Consecutive
    BY DEF IInv, TypeOK
  <2>2. /\ file \o flush_buffer \in Seq(Lsn)
        /\ Len(file \o flush_buffer) = Len(file) + Len(flush_buffer)
        /\ \A i \in 1 .. Len(file \o flush_buffer) : (file \o flush_buffer)[i] = i - 1
    BY <2>1, ConcatConsecutive DEF Consecutive
  <2> DEFINE all == file \o flush_buffer \o buffer
  <2>3. /\ all \in Seq(Lsn)
        /\ Len(all) = Len(file) + Len(flush_buffer) + Len(buffer)
        /\ \A i \in 1 .. Len(all) : all[i] = i - 1
    BY <2>1, <2>2, ConcatConsecutive DEF Consecutive
  <2>4. DOMAIN all = 1 .. global_lsn
    BY <2>1, <2>3, LenProperties DEF Consecutive
  <2> HIDE DEF all
  <2>5. all = [i \in 1 .. global_lsn |-> i - 1]
    <3>1. all \in [1 .. Len(all) -> Lsn] /\ DOMAIN all = 1 .. Len(all)
      BY <2>3, LenProperties
    <3>2. QED BY <2>3, <2>4, <3>1
  <2>6. QED BY <2>5 DEF all
<1>2. QED BY <1>1, InitIInv, StepIInv, PTL DEF Spec

\* Without overflow persist_lsn_ is never ahead of the log file.
THEOREM PersistedDurable == Spec => []PersistedIsDurable
<1>1. IInv => PersistedIsDurable
  <2> SUFFICES ASSUME IInv, ~overflowed, NEW l \in 0 .. persist_lsn
               PROVE  l \in Durable
    BY DEF PersistedIsDurable
  <2>1. /\ DOMAIN file = 1 .. Len(file) /\ Len(file) \in Nat
        /\ persist_lsn \in Int /\ persist_lsn < Len(file)
    BY LenProperties DEF IInv, TypeOK, Covered, Lsn, INVALID_LSN
  <2>2. l + 1 \in DOMAIN file /\ file[l + 1] = l
    BY <2>1 DEF IInv, Consecutive
  <2>3. QED BY <2>2 DEF Durable
<1>2. QED BY <1>1, InitIInv, StepIInv, PTL DEF Spec

\* A commit acknowledged by group commit is in the log file, then and after
\* every crash, as long as no append has met a full buffer.
THEOREM AckedDurable == Spec => []AckedIsDurableWithoutOverflow
<1>1. IInv => AckedIsDurableWithoutOverflow
  <2> SUFFICES ASSUME IInv, ~overflowed, NEW l \in acked
               PROVE  l \in Durable
    BY DEF AckedIsDurableWithoutOverflow, AckedIsDurable
  <2>1. /\ DOMAIN file = 1 .. Len(file) /\ Len(file) \in Nat
        /\ l \in Int /\ 0 <= l /\ l < Len(file)
    BY LenProperties, BoundsAssumption DEF IInv, TypeOK, Covered, Lsn
  <2>2. l + 1 \in DOMAIN file /\ file[l + 1] = l
    BY <2>1 DEF IInv, Consecutive
  <2>3. QED BY <2>2 DEF Durable
<1>2. QED BY <1>1, InitIInv, StepIInv, PTL DEF Spec

=============================================================================
