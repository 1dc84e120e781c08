--------------------------- MODULE Recovery_proof ---------------------------
(***************************************************************************)
(* Proofs about Recovery: its type invariant, and that what committed      *)
(* transactions wrote is there after a recovery, however often and         *)
(* wherever the server has crashed.                                        *)
(*                                                                         *)
(* The argument is about the whole history of log records, those in the    *)
(* log file and those in the buffer.  The locks give each record a history *)
(* in which a change starts from what the change before it has left; a     *)
(* page on the disk is never behind the lsn it bears, and the records past *)
(* that lsn lead from it to the end of the history; undo visits no record  *)
(* of a transaction that has committed.                                    *)
(***************************************************************************)
EXTENDS Recovery, TLAPS, WellFoundedInduction, SequenceTheorems, FiniteSetTheorems

(***************************************************************************)
(* Histories.                                                              *)
(***************************************************************************)

\* The records of the log and of its buffer; position k is record k + 1.
Hist == log \o buffer
Pos(h) == 0 .. Len(h) - 1

IsW(h, k) == h[k + 1].type \in Writes
On(h, r) == {k \in Pos(h) : IsW(h, k) /\ h[k + 1].rid = r}

\* No record of one of the types belongs to the transaction of j after j and up to k.
NoneIn(h, j, k, types) ==
    \A e \in Pos(h) : e > j /\ e <= k /\ h[e + 1].txn = h[j + 1].txn => h[e + 1].type \notin types
NoneAfter(h, j, types) ==
    \A e \in Pos(h) : e > j /\ h[e + 1].txn = h[j + 1].txn => h[e + 1].type \notin types

OneLife(h, j, k) == h[k + 1].txn = h[j + 1].txn /\ NoneIn(h, j, k, {"begin"})
EndsIn(h, j, types) ==
    \E e \in Pos(h) : e > j /\ h[e + 1].type \in types /\ OneLife(h, j, e)

\* The transaction of the record has committed.
Done(h, j) == EndsIn(h, j, {"commit"}) /\ ~EndsIn(h, j, {"ABORT"})

\* The record belongs to the transaction t that runs.
Current(h, j, t) == h[j + 1].txn = t /\ NoneAfter(h, j, {"begin"})
Active(h, p, j) == p[h[j + 1].txn] = "active" /\ Current(h, j, h[j + 1].txn)

\* x is the content of the slot by the first n records.
Holds(h, x, r, n) ==
    /\ \A k \in On(h, r) :
           k < n /\ (\A j \in On(h, r) : j < n => j <= k) => Same(x, h[k + 1].new)
    /\ (\A k \in On(h, r) : k >= n) => x = Nil

\* What a record says of a change of a slot.
Shape(x) ==
    /\ x.type = "INSERT" => x.old = Nil /\ x.new # Nil
    /\ x.type = "UPDATE" => x.old # Nil /\ x.new # Nil
    /\ x.type = "DELETE" => x.old # Nil /\ x.new = Nil
    /\ x.type \in Writes => x.rid \in Rid

(***************************************************************************)
(* The invariant.                                                          *)
(***************************************************************************)

Ends3 == {"begin", "commit", "ABORT"}

\* Only a server that runs has transactions.
Idle ==
    /\ stops = 0 => mode = "run"
    /\ mode # "run" =>
           /\ buffer = <<>> /\ next_txn_id = 0
           /\ \A t \in Txn : pc[t] = "none"
    /\ \A t \in Txn : t >= next_txn_id => pc[t] = "none"
    /\ \A t \in Txn : pc[t] = "none" => write_set[t] = <<>>
    /\ \A t \in Txn : pending[t] # Nil =>
           /\ pc[t] = "active" /\ lock[pending[t].rid] = t
           /\ pending[t].type \in Writes /\ pending[t].txn = t
           /\ pending[t].prev = prev_lsn[t] /\ Shape(pending[t])

\* The records of a transaction, from its begin record on, are linked.
Chained(h, k) ==
    LET p == h[k + 1].prev IN
    /\ p \in Pos(h) /\ p < k /\ h[p + 1].txn = h[k + 1].txn
    /\ \A e \in Pos(h) : e > p /\ e < k => h[e + 1].txn # h[k + 1].txn
    /\ h[p + 1].type \in {"begin"} \cup Writes

Begun(h, k) ==
    \E b \in Pos(h) : /\ b < k /\ h[b + 1].type = "begin" /\ h[b + 1].txn = h[k + 1].txn
                      /\ NoneIn(h, b, k, Ends3)

Shaped(h) ==
    \A k \in Pos(h) : IsW(h, k) => Shape(h[k + 1]) /\ Chained(h, k) /\ Begun(h, k)

\* After a commit record an ABORT record belongs to a later life.
CommitIsLast(h) ==
    \A c, e \in Pos(h) :
        /\ c < e /\ h[c + 1].type = "commit" /\ h[e + 1].type = "ABORT"
        /\ h[c + 1].txn = h[e + 1].txn
        => ~NoneIn(h, c, e, {"begin"})

\* What the history says of the transactions that run: p and prev are pc and prev_lsn.
Running(h, l, t) ==
    /\ \E b \in Pos(h) : h[b + 1].type = "begin" /\ h[b + 1].txn = t /\ NoneAfter(h, b, Ends3)
    /\ l \in Pos(h) /\ h[l + 1].txn = t /\ h[l + 1].type \in {"begin"} \cup Writes
    /\ \A e \in Pos(h) : e > l => h[e + 1].txn # t
Aborting(h, t) ==
    \E e \in Pos(h) : /\ h[e + 1].type = "ABORT" /\ h[e + 1].txn = t
                      /\ \A k \in Pos(h) : k > e => h[k + 1].txn # t
Lives(h, p, prev) ==
    \A t \in Txn : /\ p[t] = "active" => Running(h, prev[t], t)
                   /\ p[t] = "aborting" => Aborting(h, t)

\* A write in the buffer is of a transaction that runs, or has ended there: n records
\* are in the log.
Buffered(h, p, n) ==
    \A k \in Pos(h) : k >= n /\ IsW(h, k) /\ ~Active(h, p, k) => ~NoneAfter(h, k, Ends3)

\* A slot that a running transaction has written is locked by it and written by no other
\* since.
Locked(h, p, l) ==
    \A r \in Rid : \A j \in On(h, r) : Active(h, p, j) =>
        /\ l[r] = h[j + 1].txn
        /\ \A k \in On(h, r) : k > j => h[k + 1].txn = h[j + 1].txn

\* The write set of a running transaction says what its first write of a slot has found.
First(s, r, i) == i \in DOMAIN s /\ s[i].rid = r /\ \A k \in DOMAIN s : k < i => s[k].rid # r
Mentions(s, r) == \E i \in DOMAIN s : s[i].rid = r
Remembered(h, p, ws) ==
    \A t \in Txn : \A r \in Rid : p[t] = "active" =>
        /\ Mentions(ws[t], r) <=> (\E j \in On(h, r) : Current(h, j, t))
        /\ \A i \in DOMAIN ws[t] : \A j \in On(h, r) :
               /\ First(ws[t], r, i) /\ Current(h, j, t)
               /\ \A k \in On(h, r) : k < j => ~Current(h, k, t)
               => ws[t][i].old = h[j + 1].old

\* Recovery claims something of the table: see CommittedWritesSurvive.
Claimed == recreated = 0 /\ (stolen => ~reused)

\* Every change starts from what the changes before it have left, if none of those
\* is of another transaction that has not committed.
Faithful(h) ==
    \A r \in Rid : \A k \in On(h, r) :
        (\A j \in On(h, r) : j < k => Done(h, j) \/ OneLife(h, j, k))
            => Holds(h, h[k + 1].old, r, k)
FaithfulNext(h, pend) ==
    \A t \in Txn : pend[t] # Nil =>
        ((\A j \in On(h, pend[t].rid) : Done(h, j) \/ Current(h, j, t))
            => Holds(h, pend[t].old, pend[t].rid, Len(h)))

\* Every write of the set has committed, or its transaction runs.
Sound(h, p, W) == \A j \in W : Done(h, j) \/ Active(h, p, j)

\* The transaction of the record has not ended in the history.
Losing(h, k) == k \in Pos(h) /\ NoneAfter(h, k, Ends3)

\* The last write of the set is a delete that is lost if the server stops when the
\* history is no longer than lg; the other writes have committed.
LostDelete(h, lg, W, k) ==
    /\ k \in W /\ Losing(lg, k) /\ h[k + 1].type = "DELETE"
    /\ \A j \in W : j <= k /\ (j # k => Done(h, j))

\* x is in the slot r of a server that runs: it is what the history says, if the slot
\* has one, or clean is TRUE.
UpToDate(h, lg, p, x, r, clean) ==
    /\ Sound(h, p, On(h, r)) /\ (On(h, r) # {} \/ clean) => Holds(h, x, r, Len(h))
    /\ \A k \in On(h, r) : LostDelete(h, lg, On(h, r), k) /\ ~Done(h, k) /\ ~Active(h, p, k)
                               => Holds(h, x, r, k)

\* While the server runs, the slots hold what the history says, but for changes that are
\* to be logged.
Settled(r) == \A t \in Txn : pending[t] # Nil => pending[t].rid # r
MemIsCurrent ==
    /\ \A r \in Rid : Settled(r) =>
           UpToDate(Hist, log, pc, At(mem, r), r, ~stolen \/ stops = 0)
    /\ \A t \in Txn : pending[t] # Nil => Same(At(mem, pending[t].rid), pending[t].new)

\* Before the first stop no page bears an lsn, and after a stop no change is
\* buffered before the table has been changed again.
FirstRun ==
    /\ stops = 0 => \A p \in PageNo : disk[p].lsn = 0 /\ mem[p].lsn = 0
    /\ stops > 0 /\ ~reused =>
           /\ \A t \in Txn : pending[t] = Nil
           /\ \A k \in DOMAIN buffer : buffer[k].type \notin Writes

\* The slot is as after some of the records that include the first n, or none of those
\* writes it and a page may have been written too early.
Ahead(lg, x, r, n, early) ==
    \/ \E q \in n .. Len(lg) : Holds(lg, x, r, q)
    \/ early /\ \A k \in On(lg, r) : k >= n

\* x is in the slot r of a page that bears the lsn n - 1, in the file or while recovery
\* works on it: the log past the lsn leads on from it.
Reliable(lg, h, p, x, r, n, early) ==
    /\ Sound(h, p, On(lg, r)) => Ahead(lg, x, r, n, early)
    /\ \A k \in On(lg, r) : LostDelete(h, lg, On(lg, r), k) =>
           Ahead(lg, x, r, n, early) \/ Holds(lg, x, r, k)
PageOK(pages, r) ==
    Reliable(log, Hist, pc, At(pages, r), r, pages[PageOf[r]].lsn + 1, stolen)

Recovering == mode \in {"redo", "undo", "ready"}

\* The slot is one that recovery answers for.
Kept(r) == \/ Sound(log, pc, On(log, r))
           \/ \E k \in On(log, r) : LostDelete(log, log, On(log, r), k)

\* The records that redo has passed are in the pages.
Redo ==
    /\ mode = "down" => pos = 0
    /\ Recovering => \A k \in Pos(log) :
           IsW(log, k) /\ (mode = "redo" => k < pos) => k <= mem[PageOf[log[k + 1].rid]].lsn
    /\ applied =>
           /\ mode = "redo" /\ pos < Len(log) /\ IsW(log, pos) /\ ~Barrier(mem, pos)
           /\ Claimed /\ Kept(log[pos + 1].rid)
                  => Ahead(log, At(mem, log[pos + 1].rid), log[pos + 1].rid, pos + 1, FALSE)

\* Undo visits records of the last life of an unfinished transaction, and is on the way
\* to the deletes of such transactions.
Undoing(t, k) ==
    /\ t \in Txn /\ Unfinished(t)
    /\ k \in Pos(log) /\ log[k + 1].txn = t /\ NoneAfter(log, k, {"begin"})
Restores(r, k) ==
    \/ mode = "undo" /\ log[k + 1].txn \in att
    \/ mode = "undo" /\ undoing.txn = log[k + 1].txn /\ undoing.lsn >= k
    \/ Holds(log, At(mem, r), r, k)
Undo ==
    /\ mode # "undo" /\ mode # "failed" => undoing = NoUndo
    /\ mode = "undo" => \A t \in att : Unfinished(t)
    /\ mode = "undo" /\ undoing # NoUndo => Undoing(undoing.txn, undoing.lsn)
    /\ mode \in {"undo", "ready"} /\ Claimed =>
           \A r \in Rid : \A k \in On(log, r) :
               LostDelete(log, log, On(log, r), k) => Restores(r, k)

Base == TypeOK /\ writes \in Nat /\ stops \in Nat /\ recreated \in Nat /\ Len(log) >= 1
Histories ==
    /\ Shaped(Hist) /\ CommitIsLast(Hist) /\ Lives(Hist, pc, prev_lsn)
    /\ Buffered(Hist, pc, Len(log)) /\ Locked(Hist, pc, lock) /\ Remembered(Hist, pc, write_set)
Contents ==
    Claimed => /\ Faithful(Hist) /\ FaithfulNext(Hist, pending)
               /\ mode = "run" => MemIsCurrent
               /\ \A r \in Rid : PageOK(disk, r) /\ (Recovering => PageOK(mem, r))

IInv == Base /\ Idle /\ Histories /\ FirstRun /\ Contents /\ Redo /\ Undo

(***************************************************************************)
(* Facts about histories: how the operators above change when a record is  *)
(* appended, and when the records of the buffer are lost.                  *)
(***************************************************************************)

History(h) == Len(h) \in Nat /\ \A k \in Pos(h) : h[k + 1] \in LogRecord
Extends(h, g) ==
    /\ History(h) /\ History(g) /\ Len(h) <= Len(g)
    /\ \A k \in Pos(h) : g[k + 1] = h[k + 1]
GrowsBy(h, g, x) == Extends(h, g) /\ Len(g) = Len(h) + 1 /\ g[Len(h) + 1] = x

Phases == {"none", "active", "committing", "aborting", "done"}

LEMMA Constants ==
    /\ MaxTxn \in Nat /\ MaxWrites \in Nat \ {0} /\ Nil \notin Rid
    /\ Nil \notin Txn /\ Nil \notin Row /\ Nil \notin LogRecord
    /\ Txn = 0 .. MaxTxn /\ Txn \subseteq Int
BY BoundsAssumption DEF Txn

LEMMA RecordFields ==
    ASSUME NEW x \in LogRecord
    PROVE  /\ x.type \in {"begin", "commit", "ABORT"} \cup Writes /\ x.txn \in Txn
           /\ x.prev \in Int /\ x.rid \in Rid \cup {Nil} /\ x.old \in Slot /\ x.new \in Slot
BY DEF LogRecord

\* Same is an equivalence on the contents of slots.
LEMMA SameIsEquivalence ==
    ASSUME NEW x \in Slot, NEW y \in Slot, NEW z \in Slot
    PROVE  Same(x, x) /\ (Same(x, y) => Same(y, x)) /\ (Same(x, y) /\ Same(y, z) => Same(x, z))
           /\ (Same(x, y) => (x = Nil <=> y = Nil))
BY DEF Same, Slot

\* What a longer history says of the records of a shorter one.
LEMMA ExtendedLives ==
    ASSUME NEW h, NEW g, Extends(h, g)
    PROVE  /\ \A r : On(h, r) = On(g, r) \cap Pos(h)
           /\ \A j, k \in Pos(h) : \A T :
                  NoneIn(g, j, k, T) <=> NoneIn(h, j, k, T)
           /\ \A j, k \in Pos(h) : OneLife(g, j, k) <=> OneLife(h, j, k)
           /\ \A j \in Pos(h) : \A T : EndsIn(h, j, T) => EndsIn(g, j, T)
           /\ \A j \in Pos(h) : \A T : NoneAfter(g, j, T) => NoneAfter(h, j, T)
           /\ \A x, r : \A n \in 0 .. Len(h) : Holds(g, x, r, n) <=> Holds(h, x, r, n)
<1>1. /\ Len(h) \in Nat /\ Len(g) \in Nat /\ Pos(h) \subseteq Pos(g)
      /\ \A k \in Pos(h) : g[k + 1] = h[k + 1]
  BY DEF Extends, History, Pos
<1>2. \A r : On(h, r) = On(g, r) \cap Pos(h)
  BY <1>1 DEF On, IsW
<1>3. ASSUME NEW j \in Pos(h), NEW k \in Pos(h), NEW T
      PROVE  NoneIn(g, j, k, T) <=> NoneIn(h, j, k, T)
  <2>1. \A e \in Pos(g) : e <= k => e \in Pos(h)
    BY <1>1 DEF Pos
  <2>2. QED BY <1>1, <2>1 DEF NoneIn
<1>4. \A j, k \in Pos(h) : OneLife(g, j, k) <=> OneLife(h, j, k)
  BY <1>1, <1>3 DEF OneLife
<1>5. \A j \in Pos(h) : \A T : EndsIn(h, j, T) => EndsIn(g, j, T)
  BY <1>1, <1>4 DEF EndsIn
<1>6. \A j \in Pos(h) : \A T : NoneAfter(g, j, T) => NoneAfter(h, j, T)
  BY <1>1 DEF NoneAfter
<1>7. ASSUME NEW x, NEW r, NEW n \in 0 .. Len(h)
      PROVE  Holds(g, x, r, n) <=> Holds(h, x, r, n)
  <2>0. \A k \in Pos(g) : k < n => k \in Pos(h)
    BY <1>1 DEF Pos
  <2>1. \A k \in On(g, r) : k < n => k \in On(h, r) /\ g[k + 1].new = h[k + 1].new
    BY <1>1, <1>2, <2>0 DEF On
  <2>2. \A k \in On(h, r) : k \in On(g, r) /\ k \in Pos(g) /\ k \in Int
    BY <1>1, <1>2 DEF Pos
  <2>3. \A k \in On(g, r) : k \in Int
    BY DEF On, Pos
  <2>4. (\A k \in On(h, r) : k >= n) <=> (\A k \in On(g, r) : k >= n)
    BY <2>1, <2>2, <2>3
  <2>5. QED BY <2>1, <2>2, <2>3, <2>4 DEF Holds
<1>8. QED BY <1>2, <1>3, <1>4, <1>5, <1>6, <1>7

\* One more record.
LEMMA OneMore ==
    ASSUME NEW h, NEW g, NEW x, GrowsBy(h, g, x)
    PROVE  /\ \A r : On(g, r) = On(h, r) \cup
                          (IF x.type \in Writes /\ x.rid = r THEN {Len(h)} ELSE {})
           /\ \A j \in Pos(h) : \A T :
                  NoneAfter(g, j, T) <=> NoneAfter(h, j, T)
                                         /\ (x.txn = h[j + 1].txn => x.type \notin T)
           /\ \A j \in Pos(h) : \A T :
                  EndsIn(g, j, T) <=> EndsIn(h, j, T)
                                      \/ (x.type \in T /\ x.type # "begin" /\ Current(h, j, x.txn))
           /\ Len(h) \in Pos(g) /\ \A T : NoneAfter(g, Len(h), T) /\ ~EndsIn(g, Len(h), T)
<1>1. /\ Len(h) \in Nat /\ Len(g) = Len(h) + 1 /\ Pos(g) = Pos(h) \cup {Len(h)}
      /\ \A k \in Pos(h) : g[k + 1] = h[k + 1]
      /\ \A k \in Pos(h) : k \in Int /\ k < Len(h)
      /\ g[Len(h) + 1] = x /\ Len(h) \in Pos(g) /\ Len(h) \notin Pos(h)
  <2>1. /\ Len(h) \in Nat /\ Len(g) = Len(h) + 1
        /\ \A k \in Pos(h) : g[k + 1] = h[k + 1]
        /\ g[Len(h) + 1] = x
    BY DEF GrowsBy, Extends, History
  <2>2. /\ Pos(g) = Pos(h) \cup {Len(h)} /\ Len(h) \in Pos(g) /\ Len(h) \notin Pos(h)
        /\ \A k \in Pos(h) : k \in Int /\ k < Len(h)
    BY <2>1 DEF Pos
  <2>3. QED BY <2>1, <2>2
<1>2. ASSUME NEW r
      PROVE  On(g, r) = On(h, r) \cup (IF x.type \in Writes /\ x.rid = r THEN {Len(h)} ELSE {})
  BY <1>1 DEF On, IsW
<1>3. ASSUME NEW j \in Pos(h), NEW T
      PROVE  NoneAfter(g, j, T) <=> NoneAfter(h, j, T) /\ (x.txn = h[j + 1].txn => x.type \notin T)
  BY <1>1 DEF NoneAfter
<1>4. ASSUME NEW j \in Pos(h), NEW T
      PROVE  EndsIn(g, j, T) <=> EndsIn(h, j, T)
                                 \/ (x.type \in T /\ x.type # "begin" /\ Current(h, j, x.txn))
  <2>1. \A k \in Pos(h) : OneLife(g, j, k) <=> OneLife(h, j, k)
    BY ExtendedLives DEF GrowsBy
  <2>2. OneLife(g, j, Len(h)) <=> x.type # "begin" /\ Current(h, j, x.txn)
    <3>1. j \in Int /\ j < Len(h) /\ g[j + 1] = h[j + 1]
      BY <1>1
    <3>2. OneLife(g, j, Len(h)) <=> x.txn = h[j + 1].txn /\ NoneIn(g, j, Len(h), {"begin"})
      BY <1>1, <3>1 DEF OneLife
    <3>3. x.txn = h[j + 1].txn =>
              (NoneIn(g, j, Len(h), {"begin"}) <=> x.type # "begin" /\ NoneAfter(h, j, {"begin"}))
      BY <1>1, <3>1 DEF NoneIn, NoneAfter
    <3>4. QED BY <3>2, <3>3 DEF Current
  <2>3. QED BY <1>1, <2>1, <2>2 DEF EndsIn
<1>5. \A T : NoneAfter(g, Len(h), T) /\ ~EndsIn(g, Len(h), T)
  BY <1>1 DEF NoneAfter, EndsIn
<1>6. QED BY <1>1, <1>2, <1>3, <1>4, <1>5

\* A transaction that runs has not ended.
LEMMA RunningHasNotEnded ==
    ASSUME NEW h, NEW p, NEW prev, History(h), Lives(h, p, prev), NEW t \in Txn,
           p[t] = "active", NEW j \in Pos(h), Current(h, j, t)
    PROVE  NoneAfter(h, j, Ends3) /\ ~EndsIn(h, j, {"commit"}) /\ ~EndsIn(h, j, {"ABORT"})
<1>1. PICK b \in Pos(h) : h[b + 1].type = "begin" /\ h[b + 1].txn = t /\ NoneAfter(h, b, Ends3)
  BY DEF Lives, Running, Aborting
<1>2. j \in Int /\ b \in Int /\ h[j + 1].txn = t
  BY DEF Pos, Current
<1>3. ~(b > j)
  BY <1>1, <1>2 DEF Current, NoneAfter
<1>4. NoneAfter(h, j, Ends3)
  <2>1. ASSUME NEW e \in Pos(h), e > j, h[e + 1].txn = t
        PROVE  h[e + 1].type \notin Ends3
    <3>1. e \in Int /\ e > b
      BY <1>2, <1>3, <2>1 DEF Pos
    <3>2. QED BY <1>1, <2>1, <3>1 DEF NoneAfter
  <2>2. QED BY <1>2, <2>1 DEF NoneAfter
<1>5. QED BY <1>4 DEF EndsIn, OneLife, NoneAfter, Ends3

\* A transaction that aborts has its ABORT record after its writes.
LEMMA AbortingHasEnded ==
    ASSUME NEW h, NEW p, NEW prev, History(h), Lives(h, p, prev), NEW t \in Txn,
           p[t] = "aborting", NEW j \in Pos(h), IsW(h, j), Current(h, j, t)
    PROVE  EndsIn(h, j, {"ABORT"})
<1>1. PICK e \in Pos(h) : /\ h[e + 1].type = "ABORT" /\ h[e + 1].txn = t
                          /\ \A k \in Pos(h) : k > e => h[k + 1].txn # t
  BY DEF Lives, Running, Aborting
<1>2. j \in Int /\ e \in Int /\ h[j + 1].txn = t /\ j # e /\ ~(j > e)
  BY <1>1 DEF Pos, Current, IsW, Writes
<1>3. OneLife(h, j, e)
  BY <1>1, <1>2 DEF OneLife, NoneIn, Current, NoneAfter
<1>4. QED BY <1>1, <1>2, <1>3 DEF EndsIn

\* What a step makes of the writes of a history: none comes to be committed or to be of
\* a running transaction that was not.
BackStep(h, p, g, q) ==
    \A j \in Pos(h) : j \in Pos(g) /\ IsW(h, j) =>
        /\ Done(g, j) => Done(h, j) \/ Active(h, p, j)
        /\ Active(g, q, j) => Active(h, p, j)

\* The transaction t goes from phase a to c.
Moves(p, q, t, a, c) == p \in [Txn -> Phases] /\ p[t] = a /\ q = [p EXCEPT ![t] = c]

\* A transaction begins.
LEMMA AfterBegin ==
    ASSUME NEW h, NEW g, NEW x, GrowsBy(h, g, x), NEW t \in Txn, x.type = "begin", x.txn = t,
           NEW p, NEW q, Moves(p, q, t, "none", "active")
    PROVE  /\ \A r : On(g, r) = On(h, r)
           /\ \A j \in Pos(h) : /\ Done(g, j) <=> Done(h, j)
                                /\ Active(g, q, j) <=> Active(h, p, j)
                                /\ ~Current(g, j, t)
                                /\ \A u : u # t => (Current(g, j, u) <=> Current(h, j, u))
<1>1. \A r : On(g, r) = On(h, r)
  <2>1. x.type \notin Writes
    BY DEF Writes
  <2>2. ASSUME NEW r PROVE On(g, r) = On(h, r)
    <3>1. On(g, r) = On(h, r) \cup (IF x.type \in Writes /\ x.rid = r THEN {Len(h)} ELSE {})
      BY OneMore
    <3>2. QED BY <2>1, <3>1
  <2>3. QED BY <2>2
<1>2. ASSUME NEW j \in Pos(h)
      PROVE  /\ Done(g, j) <=> Done(h, j)
             /\ Active(g, q, j) <=> Active(h, p, j)
             /\ ~Current(g, j, t)
             /\ \A u : u # t => (Current(g, j, u) <=> Current(h, j, u))
  <2>1. g[j + 1] = h[j + 1] /\ h[j + 1] \in LogRecord /\ h[j + 1].txn \in Txn
    BY RecordFields DEF GrowsBy, Extends, History
  <2>2. Done(g, j) <=> Done(h, j)
    BY OneMore DEF Done
  <2>3. NoneAfter(g, j, {"begin"}) <=> NoneAfter(h, j, {"begin"}) /\ h[j + 1].txn # t
    BY OneMore
  <2>4. ~Current(g, j, t) /\ \A u : u # t => (Current(g, j, u) <=> Current(h, j, u))
    BY <2>1, <2>3 DEF Current
  <2>5. Active(g, q, j) <=> Active(h, p, j)
    BY <2>1, <2>4 DEF Active, Moves
  <2>6. QED BY <2>2, <2>4, <2>5
<1>3. QED BY <1>1, <1>2

\* A running transaction writes.
LEMMA AfterWrite ==
    ASSUME NEW h, NEW g, NEW x, GrowsBy(h, g, x), NEW t \in Txn, x.type \in Writes, x.txn = t,
           NEW p, p[t] = "active"
    PROVE  /\ \A j \in Pos(h) : /\ Done(g, j) <=> Done(h, j)
                                /\ Active(g, p, j) <=> Active(h, p, j)
                                /\ \A u : Current(g, j, u) <=> Current(h, j, u)
           /\ Active(g, p, Len(h)) /\ Current(g, Len(h), t) /\ ~Done(g, Len(h))
           /\ \A u : u # t => ~Current(g, Len(h), u)
<1>1. ASSUME NEW j \in Pos(h)
      PROVE  /\ Done(g, j) <=> Done(h, j)
             /\ Active(g, p, j) <=> Active(h, p, j)
             /\ \A u : Current(g, j, u) <=> Current(h, j, u)
  <2>1. g[j + 1] = h[j + 1]
    BY DEF GrowsBy, Extends
  <2>2. Done(g, j) <=> Done(h, j)
    BY OneMore DEF Done, Writes
  <2>3. NoneAfter(g, j, {"begin"}) <=> NoneAfter(h, j, {"begin"})
    BY OneMore DEF Writes
  <2>4. QED BY <2>1, <2>2, <2>3 DEF Current, Active
<1>2. /\ Active(g, p, Len(h)) /\ Current(g, Len(h), t) /\ ~Done(g, Len(h))
      /\ \A u : u # t => ~Current(g, Len(h), u)
  BY OneMore DEF Active, Current, Done, GrowsBy
<1>3. QED BY <1>1, <1>2

\* A running transaction ends: with a commit record its writes are committed.
LEMMA AfterEnd ==
    ASSUME NEW h, NEW g, NEW x, GrowsBy(h, g, x), NEW t \in Txn, x.type \in {"commit", "ABORT"},
           x.txn = t, NEW p, NEW q, NEW prev, Lives(h, p, prev),
           NEW c \in {"committing", "aborting"}, Moves(p, q, t, "active", c)
    PROVE  /\ \A r : On(g, r) = On(h, r)
           /\ \A j \in Pos(h) :
                  /\ Done(g, j) <=> Done(h, j) \/ (x.type = "commit" /\ Current(h, j, t))
                  /\ Active(g, q, j) <=> Active(h, p, j) /\ h[j + 1].txn # t
                  /\ \A u : Current(g, j, u) <=> Current(h, j, u)
<1>1. \A r : On(g, r) = On(h, r)
  <2>1. x.type \notin Writes
    BY DEF Writes
  <2>2. ASSUME NEW r PROVE On(g, r) = On(h, r)
    <3>1. On(g, r) = On(h, r) \cup (IF x.type \in Writes /\ x.rid = r THEN {Len(h)} ELSE {})
      BY OneMore
    <3>2. QED BY <2>1, <3>1
  <2>3. QED BY <2>2
<1>2. ASSUME NEW j \in Pos(h)
      PROVE  /\ Done(g, j) <=> Done(h, j) \/ (x.type = "commit" /\ Current(h, j, t))
             /\ Active(g, q, j) <=> Active(h, p, j) /\ h[j + 1].txn # t
             /\ \A u : Current(g, j, u) <=> Current(h, j, u)
  <2>1. g[j + 1] = h[j + 1] /\ h[j + 1] \in LogRecord /\ h[j + 1].txn \in Txn /\ History(h)
    BY RecordFields DEF GrowsBy, Extends, History
  <2>2. /\ EndsIn(g, j, {"commit"}) <=> EndsIn(h, j, {"commit"})
                                        \/ (x.type = "commit" /\ Current(h, j, t))
        /\ EndsIn(g, j, {"ABORT"}) <=> EndsIn(h, j, {"ABORT"})
                                       \/ (x.type = "ABORT" /\ Current(h, j, t))
    BY OneMore
  <2>3. Current(h, j, t) => ~EndsIn(h, j, {"commit"}) /\ ~EndsIn(h, j, {"ABORT"})
    BY <2>1, RunningHasNotEnded DEF Moves
  <2>4. Done(g, j) <=> Done(h, j) \/ (x.type = "commit" /\ Current(h, j, t))
    BY <2>2, <2>3 DEF Done
  <2>5. NoneAfter(g, j, {"begin"}) <=> NoneAfter(h, j, {"begin"})
    BY OneMore
  <2>6. \A u : Current(g, j, u) <=> Current(h, j, u)
    BY <2>1, <2>5 DEF Current
  <2>7. QED BY <2>1, <2>4, <2>6 DEF Active, Moves
<1>3. QED BY <1>1, <1>2

\* An aborted transaction ends with a commit record.
LEMMA AfterSecondEnd ==
    ASSUME NEW h, NEW g, NEW x, GrowsBy(h, g, x), NEW t \in Txn, x.type = "commit",
           x.txn = t, NEW p, NEW q, NEW prev, Lives(h, p, prev),
           Moves(p, q, t, "aborting", "committing")
    PROVE  /\ \A r : On(g, r) = On(h, r)
           /\ \A j \in Pos(h) :
                  /\ IsW(h, j) => (Done(g, j) <=> Done(h, j))
                  /\ Active(g, q, j) <=> Active(h, p, j)
                  /\ \A u : Current(g, j, u) <=> Current(h, j, u)
<1>1. \A r : On(g, r) = On(h, r)
  <2>1. x.type \notin Writes
    BY DEF Writes
  <2>2. ASSUME NEW r PROVE On(g, r) = On(h, r)
    <3>1. On(g, r) = On(h, r) \cup (IF x.type \in Writes /\ x.rid = r THEN {Len(h)} ELSE {})
      BY OneMore
    <3>2. QED BY <2>1, <3>1
  <2>3. QED BY <2>2
<1>2. ASSUME NEW j \in Pos(h)
      PROVE  /\ IsW(h, j) => (Done(g, j) <=> Done(h, j))
             /\ Active(g, q, j) <=> Active(h, p, j)
             /\ \A u : Current(g, j, u) <=> Current(h, j, u)
  <2>1. g[j + 1] = h[j + 1] /\ h[j + 1] \in LogRecord /\ h[j + 1].txn \in Txn /\ History(h)
    BY RecordFields DEF GrowsBy, Extends, History
  <2>2. /\ EndsIn(g, j, {"commit"}) <=> EndsIn(h, j, {"commit"}) \/ Current(h, j, t)
        /\ EndsIn(g, j, {"ABORT"}) <=> EndsIn(h, j, {"ABORT"})
    BY OneMore
  <2>3. IsW(h, j) /\ Current(h, j, t) => EndsIn(h, j, {"ABORT"})
    BY <2>1, AbortingHasEnded DEF Moves
  <2>4. IsW(h, j) => (Done(g, j) <=> Done(h, j))
    BY <2>2, <2>3 DEF Done
  <2>5. NoneAfter(g, j, {"begin"}) <=> NoneAfter(h, j, {"begin"})
    BY OneMore
  <2>6. \A u : Current(g, j, u) <=> Current(h, j, u)
    BY <2>1, <2>5 DEF Current
  <2>7. QED BY <2>1, <2>4, <2>6 DEF Active, Moves
<1>3. QED BY <1>1, <1>2

\* The records after the first ones are lost.
LEMMA AfterLoss ==
    ASSUME NEW h, NEW g, Extends(g, h), CommitIsLast(h), NEW j \in Pos(g), Done(g, j)
    PROVE  Done(h, j)
<1>1. PICK c \in Pos(g) : c > j /\ g[c + 1].type = "commit" /\ OneLife(g, j, c)
  BY DEF Done, EndsIn
<1>2. /\ Pos(g) \subseteq Pos(h) /\ Pos(h) \subseteq Int
      /\ \A k \in Pos(g) : h[k + 1] = g[k + 1]
      /\ \A e \in Pos(h), k \in Pos(g) : e <= k => e \in Pos(g)
  BY DEF Extends, History, Pos
<1>3. OneLife(h, j, c) /\ h[c + 1].type = "commit" /\ EndsIn(h, j, {"commit"})
  <2>1. OneLife(h, j, c)
    BY <1>1, ExtendedLives
  <2>2. EndsIn(h, j, {"commit"})
    BY ExtendedLives DEF Done
  <2>3. QED BY <1>1, <1>2, <2>1, <2>2
<1>4. ASSUME EndsIn(h, j, {"ABORT"}) PROVE FALSE
  <2>1. PICK e \in Pos(h) : e > j /\ h[e + 1].type = "ABORT" /\ OneLife(h, j, e)
    BY <1>4 DEF EndsIn
  <2>2. e > c
    <3>1. SUFFICES ASSUME e <= c PROVE FALSE
      BY <1>2
    <3>2. e \in Pos(g)
      BY <1>2, <3>1
    <3>3. EndsIn(g, j, {"ABORT"})
      BY <1>2, <2>1, <3>2, ExtendedLives DEF EndsIn
    <3>4. QED BY <3>3 DEF Done
  <2>3. h[c + 1].txn = h[e + 1].txn /\ NoneIn(h, c, e, {"begin"})
    BY <1>1, <1>2, <1>3, <2>1, <2>2 DEF OneLife, NoneIn
  <2>4. QED BY <1>1, <1>2, <1>3, <2>1, <2>2, <2>3 DEF CommitIsLast
<1>5. QED BY <1>3, <1>4 DEF Done

(***************************************************************************)
(* The steps keep what the invariant says of the history.                  *)
(***************************************************************************)

\* What is said of a record does not depend on later ones.
LEMMA SameRecords ==
    ASSUME NEW h, NEW g, Extends(h, g), NEW k \in Pos(h), IsW(h, k)
    PROVE  /\ IsW(g, k)
           /\ Chained(h, k) <=> Chained(g, k)
           /\ Begun(h, k) <=> Begun(g, k)
<1>1. /\ Pos(h) \subseteq Pos(g) /\ Pos(g) \subseteq Int
      /\ \A j \in Pos(h) : g[j + 1] = h[j + 1]
      /\ \A e \in Pos(g), j \in Pos(h) : e < j => e \in Pos(h)
  BY DEF Extends, History, Pos
<1>2. Chained(h, k) <=> Chained(g, k)
  BY <1>1 DEF Chained
<1>3. \A b \in Pos(h) : NoneIn(g, b, k, Ends3) <=> NoneIn(h, b, k, Ends3)
  BY ExtendedLives
<1>4. Begun(h, k) <=> Begun(g, k)
  BY <1>1, <1>3 DEF Begun
<1>5. QED BY <1>1, <1>2, <1>4 DEF IsW

LEMMA ShapedGrows ==
    ASSUME NEW h, NEW g, NEW x, GrowsBy(h, g, x), Shaped(h),
           x.type \in Writes => Shape(x) /\ Chained(g, Len(h)) /\ Begun(g, Len(h))
    PROVE  Shaped(g)
<1>1. Pos(g) = Pos(h) \cup {Len(h)} /\ g[Len(h) + 1] = x /\ \A j \in Pos(h) : g[j + 1] = h[j + 1]
  <2>1. Len(h) \in Nat /\ Len(g) = Len(h) + 1
    BY DEF GrowsBy, Extends, History
  <2>2. Pos(g) = Pos(h) \cup {Len(h)}
    BY <2>1 DEF Pos
  <2>3. QED BY <2>2 DEF GrowsBy, Extends
<1>2. ASSUME NEW k \in Pos(g), IsW(g, k) PROVE Shape(g[k + 1]) /\ Chained(g, k) /\ Begun(g, k)
  <2>1. CASE k \in Pos(h)
    <3>1. IsW(h, k) /\ g[k + 1] = h[k + 1]
      BY <1>1, <1>2, <2>1 DEF IsW
    <3>2. Shape(g[k + 1]) /\ Chained(h, k) /\ Begun(h, k)
      BY <2>1, <3>1 DEF Shaped
    <3>3. QED BY <2>1, <3>1, <3>2, SameRecords DEF GrowsBy
  <2>2. CASE k = Len(h)
    BY <1>1, <1>2, <2>2 DEF IsW
  <2>3. QED BY <1>1, <2>1, <2>2
<1>3. QED BY <1>2 DEF Shaped

LEMMA ShapedShrinks ==
    ASSUME NEW h, NEW g, Extends(g, h), Shaped(h)
    PROVE  Shaped(g)
<1>1. ASSUME NEW k \in Pos(g), IsW(g, k) PROVE Shape(g[k + 1]) /\ Chained(g, k) /\ Begun(g, k)
  <2>1. k \in Pos(h) /\ h[k + 1] = g[k + 1]
    BY DEF Extends, History, Pos
  <2>2. IsW(h, k)
    BY <1>1, <2>1 DEF IsW
  <2>3. Shape(h[k + 1]) /\ Chained(h, k) /\ Begun(h, k)
    BY <2>1, <2>2 DEF Shaped
  <2>4. (Chained(g, k) <=> Chained(h, k)) /\ (Begun(g, k) <=> Begun(h, k))
    BY <1>1, SameRecords
  <2>5. QED BY <2>1, <2>3, <2>4
<1>2. QED BY <1>1 DEF Shaped

LEMMA CommitIsLastGrows ==
    ASSUME NEW h, NEW g, NEW x, GrowsBy(h, g, x), CommitIsLast(h),
           x.type = "ABORT" => \E b \in Pos(h) : h[b + 1].type = "begin" /\ h[b + 1].txn = x.txn
                                                  /\ NoneAfter(h, b, Ends3)
    PROVE  CommitIsLast(g)
<1>1. /\ Pos(g) = Pos(h) \cup {Len(h)} /\ g[Len(h) + 1] = x
      /\ \A j \in Pos(h) : g[j + 1] = h[j + 1] /\ j < Len(h) /\ j \in Int
      /\ Len(h) \in Nat
  <2>1. Len(h) \in Nat /\ Len(g) = Len(h) + 1
    BY DEF GrowsBy, Extends, History
  <2>2. Pos(g) = Pos(h) \cup {Len(h)}
    BY <2>1 DEF Pos
  <2>3. QED BY <2>1, <2>2 DEF GrowsBy, Extends, Pos
<1>2. SUFFICES ASSUME NEW c \in Pos(g), NEW e \in Pos(g), c < e, g[c + 1].type = "commit",
                      g[e + 1].type = "ABORT", g[c + 1].txn = g[e + 1].txn
               PROVE  ~NoneIn(g, c, e, {"begin"})
  BY DEF CommitIsLast
<1>3. c \in Pos(h)
  BY <1>1, <1>2
<1>4. CASE e \in Pos(h)
  <2>1. ~NoneIn(h, c, e, {"begin"})
    BY <1>1, <1>2, <1>3, <1>4 DEF CommitIsLast
  <2>2. QED BY <1>3, <1>4, <2>1, ExtendedLives DEF GrowsBy
<1>5. CASE e = Len(h)
  <2>1. PICK b \in Pos(h) : h[b + 1].type = "begin" /\ h[b + 1].txn = x.txn
                            /\ NoneAfter(h, b, Ends3)
    BY <1>1, <1>2, <1>5
  <2>2. h[c + 1].type = "commit" /\ h[c + 1].txn = x.txn
    BY <1>1, <1>2, <1>3, <1>5
  <2>3. ~(c > b) /\ c # b
    BY <1>3, <2>1, <2>2 DEF NoneAfter, Ends3
  <2>4. b > c /\ b <= e /\ b \in Pos(g) /\ g[b + 1] = h[b + 1] /\ g[c + 1] = h[c + 1]
    BY <1>1, <1>3, <1>5, <2>3
  <2>5. QED BY <2>1, <2>2, <2>4 DEF NoneIn
<1>6. QED BY <1>1, <1>4, <1>5

LEMMA CommitIsLastShrinks ==
    ASSUME NEW h, NEW g, Extends(g, h), CommitIsLast(h)
    PROVE  CommitIsLast(g)
<1>1. \A k \in Pos(g) : k \in Pos(h) /\ h[k + 1] = g[k + 1]
  BY DEF Extends, History, Pos
<1>2. SUFFICES ASSUME NEW c \in Pos(g), NEW e \in Pos(g), c < e, g[c + 1].type = "commit",
                      g[e + 1].type = "ABORT", g[c + 1].txn = g[e + 1].txn
               PROVE  ~NoneIn(g, c, e, {"begin"})
  BY DEF CommitIsLast
<1>3. ~NoneIn(h, c, e, {"begin"})
  BY <1>1, <1>2 DEF CommitIsLast
<1>4. QED BY <1>2, <1>3, ExtendedLives

\* A record of another transaction leaves what is said of t.
LEMMA OtherLife ==
    ASSUME NEW h, NEW g, NEW x, GrowsBy(h, g, x), NEW t, x.txn # t, NEW l
    PROVE  (Running(h, l, t) => Running(g, l, t)) /\ (Aborting(h, t) => Aborting(g, t))
<1>1. /\ Pos(g) = Pos(h) \cup {Len(h)} /\ g[Len(h) + 1] = x
      /\ \A j \in Pos(h) : g[j + 1] = h[j + 1]
  <2>1. Len(h) \in Nat /\ Len(g) = Len(h) + 1
    BY DEF GrowsBy, Extends, History
  <2>2. Pos(g) = Pos(h) \cup {Len(h)}
    BY <2>1 DEF Pos
  <2>3. QED BY <2>1, <2>2 DEF GrowsBy, Extends, Pos
<1>2. \A b \in Pos(h) : h[b + 1].txn = t => (NoneAfter(g, b, Ends3) <=> NoneAfter(h, b, Ends3))
  BY OneMore
<1>3. Running(h, l, t) => Running(g, l, t)
  BY <1>1, <1>2 DEF Running
<1>4. Aborting(h, t) => Aborting(g, t)
  BY <1>1 DEF Aborting
<1>5. QED BY <1>3, <1>4

\* What a running or an aborting transaction appends is its last record.
LEMMA OwnLife ==
    ASSUME NEW h, NEW g, NEW x, GrowsBy(h, g, x)
    PROVE  /\ x.type = "begin" => Running(g, Len(h), x.txn)
           /\ \A l : x.type \in Writes /\ Running(h, l, x.txn) => Running(g, Len(h), x.txn)
           /\ x.type = "ABORT" => Aborting(g, x.txn)
<1>1. /\ Pos(g) = Pos(h) \cup {Len(h)} /\ g[Len(h) + 1] = x
      /\ \A j \in Pos(h) : g[j + 1] = h[j + 1] /\ j < Len(h) /\ j \in Int
      /\ Len(h) \in Nat /\ Len(h) \in Pos(g)
  <2>1. Len(h) \in Nat /\ Len(g) = Len(h) + 1
    BY DEF GrowsBy, Extends, History
  <2>2. Pos(g) = Pos(h) \cup {Len(h)}
    BY <2>1 DEF Pos
  <2>3. QED BY <2>1, <2>2 DEF GrowsBy, Extends, Pos
<1>2. \A e \in Pos(g) : ~(e > Len(h))
  BY <1>1
<1>3. NoneAfter(g, Len(h), Ends3)
  BY <1>2 DEF NoneAfter
<1>4. x.type = "begin" => Running(g, Len(h), x.txn)
  BY <1>1, <1>2, <1>3 DEF Running
<1>5. ASSUME NEW l, x.type \in Writes, Running(h, l, x.txn) PROVE Running(g, Len(h), x.txn)
  <2>1. PICK b \in Pos(h) : h[b + 1].type = "begin" /\ h[b + 1].txn = x.txn
                            /\ NoneAfter(h, b, Ends3)
    BY <1>5 DEF Running
  <2>2. x.type \notin Ends3
    BY <1>5 DEF Writes, Ends3
  <2>3. NoneAfter(g, b, Ends3)
    BY <2>1, <2>2, OneMore
  <2>4. QED BY <1>1, <1>2, <1>5, <2>1, <2>3 DEF Running
<1>6. x.type = "ABORT" => Aborting(g, x.txn)
  BY <1>1, <1>2 DEF Aborting
<1>7. QED BY <1>4, <1>5, <1>6

\* What is in the buffer when one more record comes.
LEMMA BufferedGrows ==
    ASSUME NEW h, NEW g, NEW x, GrowsBy(h, g, x), NEW p, NEW q, NEW n, Buffered(h, p, n),
           x.type \in Writes => Active(g, q, Len(h)),
           \A j \in Pos(h) : Active(h, p, j) => Active(g, q, j) \/ ~NoneAfter(g, j, Ends3)
    PROVE  Buffered(g, q, n)
<1>1. Pos(g) = Pos(h) \cup {Len(h)} /\ g[Len(h) + 1] = x /\ \A j \in Pos(h) : g[j + 1] = h[j + 1]
  <2>1. Len(h) \in Nat /\ Len(g) = Len(h) + 1
    BY DEF GrowsBy, Extends, History
  <2>2. Pos(g) = Pos(h) \cup {Len(h)}
    BY <2>1 DEF Pos
  <2>3. QED BY <2>2 DEF GrowsBy, Extends
<1>2. SUFFICES ASSUME NEW k \in Pos(g), k >= n, IsW(g, k), ~Active(g, q, k)
               PROVE  ~NoneAfter(g, k, Ends3)
  BY DEF Buffered
<1>3. k \in Pos(h) /\ IsW(h, k)
  BY <1>1, <1>2 DEF IsW
<1>4. CASE Active(h, p, k)
  BY <1>2, <1>3, <1>4
<1>5. CASE ~Active(h, p, k)
  <2>1. ~NoneAfter(h, k, Ends3)
    BY <1>2, <1>3, <1>5 DEF Buffered
  <2>2. QED BY <1>3, <2>1, OneMore
<1>6. QED BY <1>4, <1>5

\* The locks when no write comes.
LEMMA LockedStays ==
    ASSUME NEW h, NEW g, NEW p, NEW q, NEW l, NEW m, Locked(h, p, l),
           \A r : On(g, r) = On(h, r),
           \A j \in Pos(h) : /\ g[j + 1] = h[j + 1]
                             /\ Active(g, q, j) => Active(h, p, j)
                             /\ Active(g, q, j) => \A r \in Rid :
                                    l[r] = h[j + 1].txn => m[r] = h[j + 1].txn
    PROVE  Locked(g, q, m)
<1>1. \A r : On(h, r) \subseteq Pos(h)
  BY DEF On
<1>2. QED BY <1>1 DEF Locked

\* The locks when the transaction t writes.
LEMMA LockedWrite ==
    ASSUME NEW h, NEW g, NEW x, GrowsBy(h, g, x), NEW p, NEW l, Locked(h, p, l),
           x.type \in Writes, p[x.txn] = "active", x.txn \in Txn, x.rid \in Rid, l[x.rid] = x.txn
    PROVE  Locked(g, p, l)
<1>1. /\ Pos(g) = Pos(h) \cup {Len(h)} /\ g[Len(h) + 1] = x
      /\ \A j \in Pos(h) : g[j + 1] = h[j + 1] /\ j < Len(h) /\ j \in Int
      /\ Len(h) \in Nat /\ Len(h) \in Pos(g)
  <2>1. Len(h) \in Nat /\ Len(g) = Len(h) + 1
    BY DEF GrowsBy, Extends, History
  <2>2. Pos(g) = Pos(h) \cup {Len(h)}
    BY <2>1 DEF Pos
  <2>3. QED BY <2>1, <2>2 DEF GrowsBy, Extends, Pos
<1>2. SUFFICES ASSUME NEW r \in Rid, NEW j \in On(g, r), Active(g, p, j)
               PROVE  /\ l[r] = g[j + 1].txn
                      /\ \A k \in On(g, r) : k > j => g[k + 1].txn = g[j + 1].txn
  BY DEF Locked
<1>3. /\ On(g, r) = On(h, r) \cup (IF x.rid = r THEN {Len(h)} ELSE {})
      /\ On(h, r) \subseteq Pos(h)
  <2>1. On(g, r) = On(h, r) \cup (IF x.type \in Writes /\ x.rid = r THEN {Len(h)} ELSE {})
    BY OneMore
  <2>2. QED BY <2>1 DEF On
<1>4. CASE j \in On(h, r)
  <2>1. Active(h, p, j) /\ g[j + 1] = h[j + 1]
    BY <1>1, <1>2, <1>3, <1>4, AfterWrite
  <2>2. /\ l[r] = h[j + 1].txn
        /\ \A k \in On(h, r) : k > j => h[k + 1].txn = h[j + 1].txn
    BY <1>4, <2>1 DEF Locked
  <2>3. QED BY <1>1, <1>3, <2>1, <2>2
<1>5. CASE j = Len(h) /\ x.rid = r
  BY <1>1, <1>3, <1>5
<1>6. QED BY <1>2, <1>3, <1>4, <1>5

\* The write sets when no write comes.
LEMMA RememberedStays ==
    ASSUME NEW h, NEW g, NEW p, NEW q, NEW s, NEW w, Remembered(h, p, s),
           \A r : On(g, r) = On(h, r),
           \A j \in Pos(h) : g[j + 1] = h[j + 1],
           \A t \in Txn : q[t] = "active" =>
               \/ /\ p[t] = "active" /\ w[t] = s[t]
                  /\ \A j \in Pos(h) : Current(g, j, t) <=> Current(h, j, t)
               \/ w[t] = <<>> /\ \A j \in Pos(h) : ~Current(g, j, t)
    PROVE  Remembered(g, q, w)
<1>1. \A r : On(h, r) \subseteq Pos(h) /\ On(g, r) = On(h, r)
  BY DEF On
<1>2. SUFFICES ASSUME NEW t \in Txn, NEW r \in Rid, q[t] = "active"
               PROVE  /\ Mentions(w[t], r) <=> (\E j \in On(g, r) : Current(g, j, t))
                      /\ \A i \in DOMAIN w[t] : \A j \in On(g, r) :
                             /\ First(w[t], r, i) /\ Current(g, j, t)
                             /\ \A k \in On(g, r) : k < j => ~Current(g, k, t)
                             => w[t][i].old = g[j + 1].old
  BY DEF Remembered
<1>3. CASE /\ p[t] = "active" /\ w[t] = s[t]
           /\ \A j \in Pos(h) : Current(g, j, t) <=> Current(h, j, t)
  BY <1>1, <1>3 DEF Remembered
<1>4. CASE w[t] = <<>> /\ \A j \in Pos(h) : ~Current(g, j, t)
  BY <1>1, <1>4 DEF Mentions
<1>5. QED BY <1>2, <1>3, <1>4

\* The write sets w are s with the change x of t at the end.
Adds(s, w, t, x) ==
    /\ \A u \in Txn : u # t => w[u] = s[u]
    /\ \E n \in Nat : /\ DOMAIN s[t] = 1 .. n /\ DOMAIN w[t] = 1 .. n + 1
                      /\ w[t][n + 1].rid = x.rid /\ w[t][n + 1].old = x.old
                      /\ \A i \in 1 .. n : w[t][i] = s[t][i]

\* The write set of t when t writes.
LEMMA RememberedWrite ==
    ASSUME NEW h, NEW g, NEW x, GrowsBy(h, g, x), NEW p, NEW s, NEW w, Remembered(h, p, s),
           NEW t \in Txn, x.type \in Writes, x.txn = t, p[t] = "active", x.rid \in Rid,
           Adds(s, w, t, x)
    PROVE  Remembered(g, p, w)
<1>1. /\ Pos(g) = Pos(h) \cup {Len(h)} /\ g[Len(h) + 1] = x
      /\ \A j \in Pos(h) : g[j + 1] = h[j + 1] /\ j < Len(h) /\ j \in Int
      /\ Len(h) \in Nat /\ Len(h) \in Pos(g)
  <2>1. Len(h) \in Nat /\ Len(g) = Len(h) + 1
    BY DEF GrowsBy, Extends, History
  <2>2. Pos(g) = Pos(h) \cup {Len(h)}
    BY <2>1 DEF Pos
  <2>3. QED BY <2>1, <2>2 DEF GrowsBy, Extends, Pos
<1>2. \A r : /\ On(g, r) = On(h, r) \cup (IF x.rid = r THEN {Len(h)} ELSE {})
             /\ On(h, r) \subseteq Pos(h)
  <2>1. ASSUME NEW r
        PROVE  On(g, r) = On(h, r) \cup (IF x.type \in Writes /\ x.rid = r THEN {Len(h)} ELSE {})
    BY OneMore
  <2>2. QED BY <2>1 DEF On
<1>3. /\ \A j \in Pos(h) : \A u : Current(g, j, u) <=> Current(h, j, u)
      /\ Current(g, Len(h), t) /\ \A u : u # t => ~Current(g, Len(h), u)
  BY AfterWrite
<1>4. PICK n \in Nat :
          /\ DOMAIN s[t] = 1 .. n /\ DOMAIN w[t] = 1 .. n + 1
          /\ w[t][n + 1].rid = x.rid /\ w[t][n + 1].old = x.old
          /\ \A i \in 1 .. n : w[t][i] = s[t][i]
          /\ \A u \in Txn : u # t => w[u] = s[u]
  BY DEF Adds
<1>5. SUFFICES ASSUME NEW u \in Txn, NEW r \in Rid, p[u] = "active"
               PROVE  /\ Mentions(w[u], r) <=> (\E j \in On(g, r) : Current(g, j, u))
                      /\ \A i \in DOMAIN w[u] : \A j \in On(g, r) :
                             /\ First(w[u], r, i) /\ Current(g, j, u)
                             /\ \A k \in On(g, r) : k < j => ~Current(g, k, u)
                             => w[u][i].old = g[j + 1].old
  BY DEF Remembered
<1>6. /\ Mentions(s[u], r) <=> (\E j \in On(h, r) : Current(h, j, u))
      /\ \A i \in DOMAIN s[u] : \A j \in On(h, r) :
             /\ First(s[u], r, i) /\ Current(h, j, u)
             /\ \A k \in On(h, r) : k < j => ~Current(h, k, u)
             => s[u][i].old = h[j + 1].old
  BY <1>5 DEF Remembered
<1>7. CASE u # t
  <2>1. w[u] = s[u]
    BY <1>4, <1>7
  <2>2. \A j \in On(g, r) : Current(g, j, u) => j \in On(h, r) /\ Current(h, j, u)
    BY <1>2, <1>3, <1>7
  <2>3. \A j \in On(h, r) : /\ j \in On(g, r) /\ g[j + 1] = h[j + 1]
                            /\ Current(g, j, u) <=> Current(h, j, u)
    BY <1>1, <1>2, <1>3
  <2>4. Mentions(w[u], r) <=> (\E j \in On(g, r) : Current(g, j, u))
    BY <1>6, <2>1, <2>2, <2>3
  <2>5. ASSUME NEW i \in DOMAIN w[u], NEW j \in On(g, r), First(w[u], r, i), Current(g, j, u),
               \A k \in On(g, r) : k < j => ~Current(g, k, u)
        PROVE  w[u][i].old = g[j + 1].old
    <3>1. j \in On(h, r) /\ Current(h, j, u) /\ g[j + 1] = h[j + 1]
      BY <2>2, <2>3, <2>5
    <3>2. \A k \in On(h, r) : k < j => ~Current(h, k, u)
      BY <2>3, <2>5
    <3>3. s[u][i].old = h[j + 1].old
      BY <1>6, <2>1, <2>5, <3>1, <3>2
    <3>4. QED BY <2>1, <3>1, <3>3
  <2>6. QED BY <2>4, <2>5
<1>8. CASE u = t /\ r # x.rid
  <2>1. On(g, r) = On(h, r) /\ On(h, r) \subseteq Pos(h)
    BY <1>2, <1>8
  <2>2. Mentions(w[t], r) <=> Mentions(s[t], r)
    BY <1>4, <1>8 DEF Mentions
  <2>3. \A i \in DOMAIN w[t] : First(w[t], r, i) =>
            i \in DOMAIN s[t] /\ w[t][i] = s[t][i] /\ First(s[t], r, i)
    BY <1>4, <1>8 DEF First
  <2>4. Mentions(w[t], r) <=> (\E j \in On(g, r) : Current(g, j, t))
    BY <1>3, <1>6, <1>8, <2>1, <2>2
  <2>5. ASSUME NEW i \in DOMAIN w[t], NEW j \in On(g, r), First(w[t], r, i), Current(g, j, t),
               \A k \in On(g, r) : k < j => ~Current(g, k, t)
        PROVE  w[t][i].old = g[j + 1].old
    <3>1. j \in On(h, r) /\ j \in Pos(h) /\ Current(h, j, t) /\ g[j + 1] = h[j + 1]
      BY <1>1, <1>3, <2>1, <2>5
    <3>2. \A k \in On(h, r) : k < j => ~Current(h, k, t)
      BY <1>3, <2>1, <2>5
    <3>3. s[t][i].old = h[j + 1].old
      BY <1>6, <1>8, <2>3, <2>5, <3>1, <3>2
    <3>4. QED BY <2>3, <2>5, <3>1, <3>3
  <2>6. QED BY <1>8, <2>4, <2>5
<1>9. CASE u = t /\ r = x.rid
  <2>1. Mentions(w[t], r) /\ Len(h) \in On(g, r) /\ Current(g, Len(h), t)
    <3>1. n + 1 \in DOMAIN w[t] /\ w[t][n + 1].rid = r
      BY <1>4, <1>9
    <3>2. Mentions(w[t], r)
      BY <3>1 DEF Mentions
    <3>3. QED BY <1>2, <1>3, <1>9, <3>2
  <2>2. ASSUME NEW i \in DOMAIN w[t], NEW j \in On(g, r), First(w[t], r, i), Current(g, j, t),
               \A k \in On(g, r) : k < j => ~Current(g, k, t)
        PROVE  w[t][i].old = g[j + 1].old
    <3>1. CASE Mentions(s[t], r)
      <4>1. i \in DOMAIN s[t] /\ w[t][i] = s[t][i] /\ First(s[t], r, i)
        <5>1. PICK k \in 1 .. n : s[t][k].rid = r
          BY <1>4, <3>1 DEF Mentions
        <5>2. k \in DOMAIN w[t] /\ w[t][k].rid = r /\ k < n + 1
          BY <1>4, <5>1
        <5>3. i \in 1 .. n
          BY <1>4, <2>2, <5>2 DEF First
        <5>4. i \in DOMAIN s[t] /\ w[t][i] = s[t][i]
          BY <1>4, <5>3
        <5>5. \A m \in DOMAIN s[t] : m \in DOMAIN w[t] /\ w[t][m] = s[t][m]
          BY <1>4
        <5>6. w[t][i].rid = r /\ \A m \in DOMAIN w[t] : m < i => w[t][m].rid # r
          BY <2>2 DEF First
        <5>7. First(s[t], r, i)
          BY <5>4, <5>5, <5>6 DEF First
        <5>8. QED BY <5>4, <5>7
      <4>2. PICK k \in On(h, r) : Current(h, k, t)
        BY <1>6, <1>9, <3>1
      <4>3. k \in On(g, r) /\ k < Len(h) /\ Current(g, k, t)
        BY <1>1, <1>2, <1>3, <4>2
      <4>4. j \in On(h, r)
        BY <1>2, <1>9, <2>2, <4>3
      <4>5. \A m \in On(h, r) : m < j => ~Current(h, m, t)
        BY <1>2, <1>3, <2>2
      <4>6. j \in Pos(h) /\ Current(h, j, t) /\ g[j + 1] = h[j + 1]
        BY <1>1, <1>2, <1>3, <2>2, <4>4
      <4>7. s[t][i].old = h[j + 1].old
        BY <1>6, <1>9, <4>1, <4>4, <4>5, <4>6
      <4>8. QED BY <4>1, <4>6, <4>7
    <3>2. CASE ~Mentions(s[t], r)
      <4>1. i = n + 1
        BY <1>4, <2>2, <3>2 DEF First, Mentions
      <4>2. j = Len(h)
        BY <1>2, <1>3, <1>6, <1>9, <2>2, <3>2
      <4>3. QED BY <1>1, <1>4, <4>1, <4>2
    <3>3. QED BY <3>1, <3>2
  <2>3. QED BY <1>9, <2>1, <2>2
<1>10. QED BY <1>7, <1>8, <1>9

(***************************************************************************)
(* Pages.                                                                  *)
(***************************************************************************)

LEMMA PageFacts ==
    ASSUME NEW pages, IsPages(pages), NEW r \in Rid
    PROVE  /\ PageOf[r] \in PageNo /\ r \in OnPage(PageOf[r]) /\ At(pages, r) \in Slot
           /\ pages[PageOf[r]].lsn \in Lsns
<1>1. PageOf[r] \in PageNo /\ r \in OnPage(PageOf[r])
  BY DEF PageNo, OnPage
<1>2. pages[PageOf[r]].slots \in [OnPage(PageOf[r]) -> Slot] /\ pages[PageOf[r]].lsn \in Lsns
  BY <1>1 DEF IsPages
<1>3. QED BY <1>1, <1>2 DEF At

LEMMA PutPages ==
    ASSUME NEW pages, IsPages(pages), NEW r \in Rid, NEW x \in Slot
    PROVE  /\ IsPages(Put(pages, r, x))
           /\ \A q \in Rid : At(Put(pages, r, x), q) = IF q = r THEN x ELSE At(pages, q)
           /\ \A p \in PageNo : Put(pages, r, x)[p].lsn = pages[p].lsn
<1> DEFINE P == [lsn : Lsns, slots : UNION {[OnPage(p) -> Slot] : p \in PageNo}]
           new == [pages[PageOf[r]].slots EXCEPT ![r] = x]
<1>1. PageOf[r] \in PageNo /\ r \in OnPage(PageOf[r])
  BY DEF PageNo, OnPage
<1>2. /\ pages \in [PageNo -> P]
      /\ \A p \in PageNo : pages[p].slots \in [OnPage(p) -> Slot]
  BY DEF IsPages
<1>3. new \in [OnPage(PageOf[r]) -> Slot]
  BY <1>1, <1>2
<1>4. /\ DOMAIN Put(pages, r, x) = PageNo
      /\ Put(pages, r, x)[PageOf[r]] = [lsn |-> pages[PageOf[r]].lsn, slots |-> new]
      /\ \A p \in PageNo : p # PageOf[r] => Put(pages, r, x)[p] = pages[p]
      /\ Put(pages, r, x) = [p \in PageNo |-> Put(pages, r, x)[p]]
  <2>1. Put(pages, r, x) = [pages EXCEPT ![PageOf[r]] = [@ EXCEPT !.slots = new]]
    BY <1>1, <1>2 DEF Put
  <2>2. pages[PageOf[r]] \in P
    BY <1>1, <1>2
  <2>3. [pages[PageOf[r]] EXCEPT !.slots = new] = [lsn |-> pages[PageOf[r]].lsn, slots |-> new]
    BY <2>2
  <2>4. QED BY <1>1, <1>2, <2>1, <2>3
<1> HIDE DEF new
<1>5. ASSUME NEW p \in PageNo
      PROVE  /\ Put(pages, r, x)[p].lsn = pages[p].lsn /\ Put(pages, r, x)[p] \in P
             /\ Put(pages, r, x)[p].slots \in [OnPage(p) -> Slot]
  <2>1. pages[p] \in P /\ pages[p].lsn \in Lsns
    BY <1>2
  <2>2. CASE p # PageOf[r]
    BY <1>2, <1>4, <2>1, <2>2
  <2>3. CASE p = PageOf[r]
    <3>1. new \in UNION {[OnPage(q) -> Slot] : q \in PageNo}
      BY <1>1, <1>3
    <3>2. QED BY <1>3, <1>4, <2>1, <2>3, <3>1
  <2>4. QED BY <2>2, <2>3
<1>6. IsPages(Put(pages, r, x))
  BY <1>4, <1>5 DEF IsPages
<1>7. ASSUME NEW q \in Rid
      PROVE  At(Put(pages, r, x), q) = IF q = r THEN x ELSE At(pages, q)
  <2>1. PageOf[q] \in PageNo /\ q \in OnPage(PageOf[q])
    BY DEF PageNo, OnPage
  <2>2. CASE PageOf[q] # PageOf[r]
    BY <1>4, <2>1, <2>2 DEF At
  <2>3. CASE PageOf[q] = PageOf[r]
    <3>1. Put(pages, r, x)[PageOf[q]].slots = new
      BY <1>4, <2>3
    <3>2. new[q] = IF q = r THEN x ELSE pages[PageOf[r]].slots[q]
      BY <1>1, <1>2, <2>1, <2>3 DEF new
    <3>3. QED BY <2>3, <3>1, <3>2 DEF At
  <2>4. QED BY <2>2, <2>3
<1>8. QED BY <1>5, <1>6, <1>7

LEMMA StampPages ==
    ASSUME NEW pages, IsPages(pages), NEW k \in Lsns, Rec(k).rid \in Rid
    PROVE  /\ IsPages(Stamp(pages, k))
           /\ \A q \in Rid : At(Stamp(pages, k), q) = At(pages, q)
           /\ \A p \in PageNo : Stamp(pages, k)[p].lsn =
                  IF p = PageOf[Rec(k).rid] THEN k ELSE pages[p].lsn
<1> DEFINE P == [lsn : Lsns, slots : UNION {[OnPage(p) -> Slot] : p \in PageNo}]
           b == PageOf[Rec(k).rid]
<1>1. b \in PageNo
  BY DEF PageNo
<1>2. /\ pages \in [PageNo -> P]
      /\ \A p \in PageNo : pages[p].slots \in [OnPage(p) -> Slot]
  BY DEF IsPages
<1>3. Stamp(pages, k) = [pages EXCEPT ![b] = [@ EXCEPT !.lsn = k]]
  BY DEF Stamp
<1> HIDE DEF b
<1>4. /\ Stamp(pages, k) = [p \in PageNo |-> Stamp(pages, k)[p]]
      /\ \A p \in PageNo : Stamp(pages, k)[p] =
             IF p = b THEN [lsn |-> k, slots |-> pages[b].slots] ELSE pages[p]
  <2>1. pages[b] \in P
    BY <1>1, <1>2
  <2>2. [pages[b] EXCEPT !.lsn = k] = [lsn |-> k, slots |-> pages[b].slots]
    BY <2>1
  <2>3. QED BY <1>1, <1>2, <1>3, <2>2
<1>5. ASSUME NEW p \in PageNo
      PROVE  /\ Stamp(pages, k)[p].slots = pages[p].slots
             /\ Stamp(pages, k)[p].lsn = IF p = b THEN k ELSE pages[p].lsn
             /\ Stamp(pages, k)[p] \in P
  <2>1. pages[p] \in P
    BY <1>2
  <2>2. QED BY <1>4, <2>1
<1>6. IsPages(Stamp(pages, k))
  BY <1>2, <1>4, <1>5 DEF IsPages
<1>7. ASSUME NEW q \in Rid PROVE At(Stamp(pages, k), q) = At(pages, q)
  <2>1. PageOf[q] \in PageNo
    BY DEF PageNo
  <2>2. QED BY <1>5, <2>1 DEF At
<1>8. QED BY <1>5, <1>6, <1>7 DEF b

LEMMA EmptyPages ==
    ASSUME 0 \in Lsns
    PROVE  /\ IsPages(Empty)
           /\ \A q \in Rid : At(Empty, q) = Nil
           /\ \A p \in PageNo : Empty[p].lsn = 0
<1>1. \A p \in PageNo : Empty[p] = [lsn |-> 0, slots |-> [r \in OnPage(p) |-> Nil]]
  BY DEF Empty
<1>2. \A p \in PageNo : [r \in OnPage(p) |-> Nil] \in [OnPage(p) -> Slot]
  BY DEF Slot
<1>3. \A p \in PageNo : /\ Empty[p].slots \in [OnPage(p) -> Slot] /\ Empty[p].lsn = 0
                        /\ Empty[p] \in [lsn : Lsns,
                                         slots : UNION {[OnPage(q) -> Slot] : q \in PageNo}]
  <2>1. SUFFICES ASSUME NEW p \in PageNo
                 PROVE  /\ Empty[p].slots \in [OnPage(p) -> Slot] /\ Empty[p].lsn = 0
                        /\ Empty[p] \in [lsn : Lsns,
                                         slots : UNION {[OnPage(q) -> Slot] : q \in PageNo}]
    OBVIOUS
  <2> DEFINE s == [r \in OnPage(p) |-> Nil]
             U == UNION {[OnPage(q) -> Slot] : q \in PageNo}
  <2>2. s \in [OnPage(p) -> Slot]
    BY <1>2
  <2>3. s \in U
    BY <2>2
  <2>4. Empty[p] = [lsn |-> 0, slots |-> s]
    BY <1>1
  <2> HIDE DEF s, U
  <2>5. Empty[p] \in [lsn : Lsns, slots : U] /\ Empty[p].slots = s /\ Empty[p].lsn = 0
    BY <2>3, <2>4
  <2>6. QED BY <2>2, <2>5 DEF U
<1>4. IsPages(Empty)
  BY <1>3 DEF IsPages, Empty
<1>5. ASSUME NEW q \in Rid PROVE At(Empty, q) = Nil
  <2>1. PageOf[q] \in PageNo /\ q \in OnPage(PageOf[q])
    BY DEF PageNo, OnPage
  <2>2. ASSUME NEW p \in PageNo, NEW r \in OnPage(p) PROVE Empty[p].slots[r] = Nil
    <3> DEFINE s == [o \in OnPage(p) |-> Nil]
    <3>1. Empty[p] = [lsn |-> 0, slots |-> s]
      BY DEF Empty
    <3>2. s[r] = Nil
      OBVIOUS
    <3> HIDE DEF s
    <3>3. QED BY <3>1, <3>2
  <2>3. QED BY <2>1, <2>2 DEF At
<1>6. QED BY <1>3, <1>4, <1>5

\* A page goes from the one set of pages to the other.
LEMMA CopiedPage ==
    ASSUME NEW pages, NEW from, IsPages(pages), IsPages(from), NEW b \in PageNo
    PROVE  LET new == [pages EXCEPT ![b] = from[b]] IN
           /\ IsPages(new)
           /\ \A q \in Rid : At(new, q) = IF PageOf[q] = b THEN At(from, q) ELSE At(pages, q)
           /\ \A p \in PageNo : new[p].lsn = IF p = b THEN from[p].lsn ELSE pages[p].lsn
<1> DEFINE P == [lsn : Lsns, slots : UNION {[OnPage(p) -> Slot] : p \in PageNo}]
           new == [pages EXCEPT ![b] = from[b]]
<1>1. /\ pages \in [PageNo -> P] /\ from \in [PageNo -> P]
      /\ \A p \in PageNo : pages[p].slots \in [OnPage(p) -> Slot]
      /\ \A p \in PageNo : from[p].slots \in [OnPage(p) -> Slot]
  BY DEF IsPages
<1> HIDE DEF P
<1>2. new \in [PageNo -> P] /\ \A p \in PageNo : new[p] = IF p = b THEN from[p] ELSE pages[p]
  BY <1>1
<1>3. IsPages(new)
  BY <1>1, <1>2 DEF IsPages, P
<1>4. \A q \in Rid : At(new, q) = IF PageOf[q] = b THEN At(from, q) ELSE At(pages, q)
  BY <1>2 DEF At, PageNo
<1>5. QED BY <1>2, <1>3, <1>4

LEMMA MinIsLeast ==
    ASSUME NEW S, S \subseteq Nat, S # {}
    PROVE  Min(S) \in S /\ \A y \in S : Min(S) <= y
<1>1. PICK x \in S : \A y \in S : <<y, x>> \notin OpToRel(<, Nat)
  BY WFMin, NatLessThanWellFounded
<1>2. ASSUME NEW y \in S PROVE x <= y
  <2>1. <<y, x>> \in Nat \X Nat /\ <<y, x>>[1] = y /\ <<y, x>>[2] = x
    OBVIOUS
  <2>2. OpToRel(<, Nat) = {ss \in Nat \X Nat : ss[1] < ss[2]}
    BY DEF OpToRel
  <2>3. ~(y < x)
    BY <1>1, <2>1, <2>2
  <2>4. QED BY <2>3
<1>3. QED BY <1>2 DEF Min

LEMMA MaxIsGreatest ==
    ASSUME NEW n \in Nat, NEW S, S \subseteq 0 .. n, S # {}
    PROVE  Max(S) \in S /\ \A y \in S : y <= Max(S)
<1> DEFINE T == {n - x : x \in S}
<1>1. T \subseteq Nat /\ T # {}
  <2>1. \A x \in S : n - x \in Nat
    OBVIOUS
  <2>2. QED BY <2>1
<1>2. Min(T) \in T /\ \A y \in T : Min(T) <= y
  BY <1>1, MinIsLeast
<1>3. PICK x \in S : Min(T) = n - x
  BY <1>2
<1>4. ASSUME NEW y \in S PROVE x >= y
  <2>1. n - y \in T
    OBVIOUS
  <2>2. n - x <= n - y
    BY <1>2, <1>3, <2>1
  <2>3. QED BY <2>2
<1>5. \A y \in S : x >= y
  BY <1>4
<1>6. Max(S) \in S /\ \A y \in S : Max(S) >= y
  BY <1>5 DEF Max
<1>7. \A y \in S : y \in Int
  OBVIOUS
<1>8. QED BY <1>6, <1>7

LEMMA SequenceElements ==
    ASSUME NEW S, NEW s \in Seq(S)
    PROVE  DOMAIN s = 1 .. Len(s) /\ Len(s) \in Nat /\ \A i \in 1 .. Len(s) : s[i] \in S
OBVIOUS

\* The pages when the changes of t are undone.
LEMMA RestoredPages ==
    ASSUME IsPages(mem), NEW t \in Txn, write_set \in [Txn -> Seq([rid : Rid, old : Slot])]
    PROVE  /\ IsPages(Restored(t))
           /\ \A p \in PageNo : Restored(t)[p].lsn = mem[p].lsn
           /\ \A q \in Rid : ~Mentions(write_set[t], q) => At(Restored(t), q) = At(mem, q)
           /\ \A q \in Rid : Mentions(write_set[t], q) =>
                  \E i \in DOMAIN write_set[t] :
                      First(write_set[t], q, i) /\ At(Restored(t), q) = write_set[t][i].old
<1> DEFINE Old(q) == IF \E k \in DOMAIN write_set[t] : write_set[t][k].rid = q THEN FirstOld(t, q)
                     ELSE At(mem, q)
           U == UNION {[OnPage(p) -> Slot] : p \in PageNo}
<1>1. ASSUME NEW q \in Rid, Mentions(write_set[t], q)
      PROVE  \E i \in DOMAIN write_set[t] :
                 First(write_set[t], q, i) /\ Old(q) = write_set[t][i].old /\ Old(q) \in Slot
  <2> DEFINE S == {k \in DOMAIN write_set[t] : write_set[t][k].rid = q}
  <2>0. write_set[t] \in Seq([rid : Rid, old : Slot])
    OBVIOUS
  <2>1. /\ DOMAIN write_set[t] \subseteq Nat
        /\ \A i \in DOMAIN write_set[t] : write_set[t][i].old \in Slot
    <3>1. /\ DOMAIN write_set[t] = 1 .. Len(write_set[t]) /\ Len(write_set[t]) \in Nat
          /\ \A i \in 1 .. Len(write_set[t]) : write_set[t][i] \in [rid : Rid, old : Slot]
      BY <2>0, SequenceElements
    <3>2. QED BY <3>1
  <2>2. S # {} /\ S \subseteq Nat
    BY <1>1, <2>1 DEF Mentions
  <2>3. Min(S) \in S /\ \A y \in S : Min(S) <= y
    BY <2>2, MinIsLeast
  <2>4. First(write_set[t], q, Min(S))
    <3>1. \A k \in DOMAIN write_set[t] : write_set[t][k].rid = q => Min(S) <= k
      BY <2>3
    <3>2. \A k \in DOMAIN write_set[t] : k < Min(S) => write_set[t][k].rid # q
      <4>1. Min(S) \in Int /\ \A k \in DOMAIN write_set[t] : k \in Int
        BY <2>1, <2>3
      <4> HIDE DEF S
      <4>2. QED BY <3>1, <4>1
    <3>3. Min(S) \in DOMAIN write_set[t] /\ write_set[t][Min(S)].rid = q
      BY <2>3
    <3>4. QED BY <3>2, <3>3 DEF First
  <2>5. Old(q) = write_set[t][Min(S)].old
    BY <1>1 DEF FirstOld, Mentions
  <2>6. Min(S) \in DOMAIN write_set[t]
    BY <2>3
  <2>7. QED BY <2>1, <2>4, <2>5, <2>6
<1>2. \A q \in Rid : ~Mentions(write_set[t], q) => Old(q) = At(mem, q)
  BY DEF Mentions
<1>3. \A q \in Rid : Old(q) \in Slot
  BY <1>1, <1>2, PageFacts
<1> HIDE DEF Old
<1>4. Restored(t) = [p \in PageNo |-> [lsn |-> mem[p].lsn, slots |-> [q \in OnPage(p) |-> Old(q)]]]
  BY DEF Restored, Old
<1>5. ASSUME NEW p \in PageNo
      PROVE  /\ Restored(t)[p] \in [lsn : Lsns, slots : U]
             /\ Restored(t)[p].lsn = mem[p].lsn
             /\ Restored(t)[p].slots \in [OnPage(p) -> Slot]
             /\ \A q \in OnPage(p) : Restored(t)[p].slots[q] = Old(q)
  <2> DEFINE s == [q \in OnPage(p) |-> Old(q)]
  <2>1. s \in [OnPage(p) -> Slot] /\ \A q \in OnPage(p) : s[q] = Old(q)
    BY <1>3 DEF OnPage
  <2>2. s \in U
    BY <2>1
  <2>3. mem[p].lsn \in Lsns
    BY DEF IsPages
  <2>4. Restored(t)[p] = [lsn |-> mem[p].lsn, slots |-> s]
    BY <1>4
  <2> HIDE DEF s, U
  <2>5. QED BY <2>1, <2>2, <2>3, <2>4
<1>6. IsPages(Restored(t))
  BY <1>4, <1>5 DEF IsPages
<1>7. ASSUME NEW q \in Rid PROVE At(Restored(t), q) = Old(q)
  <2>1. PageOf[q] \in PageNo /\ q \in OnPage(PageOf[q])
    BY DEF PageNo, OnPage
  <2>2. QED BY <1>5, <2>1 DEF At
<1>8. QED BY <1>1, <1>2, <1>5, <1>6, <1>7

(***************************************************************************)
(* The history of a state, and what a step makes of it.                    *)
(***************************************************************************)

LEMMA JoinedHistory ==
    ASSUME NEW lg \in Seq(LogRecord), NEW b \in Seq(LogRecord)
    PROVE  /\ Extends(lg, lg \o b) /\ History(lg) /\ History(lg \o b)
           /\ Len(lg \o b) = Len(lg) + Len(b) /\ Len(lg) \in Nat /\ Len(lg \o b) \in Nat
           /\ Len(lg) <= Len(lg \o b)
           /\ \A k \in Pos(lg) : k \in Pos(lg \o b) /\ (lg \o b)[k + 1] = lg[k + 1]
           /\ b = <<>> => lg \o b = lg
<1> DEFINE h == lg \o b
<1>1. /\ Len(lg) \in Nat /\ Len(b) \in Nat /\ h \in Seq(LogRecord)
      /\ Len(h) = Len(lg) + Len(b)
      /\ \A k \in 1 .. Len(lg) : h[k] = lg[k]
  OBVIOUS
<1>2. \A s \in Seq(LogRecord) : History(s)
  <2>1. SUFFICES ASSUME NEW s \in Seq(LogRecord), NEW k \in Pos(s)
                 PROVE  s[k + 1] \in LogRecord
    BY DEF History
  <2>2. k + 1 \in 1 .. Len(s)
    BY DEF Pos
  <2>3. QED BY <2>2
<1>3. b = <<>> => h = lg
  OBVIOUS
<1> HIDE DEF h
<1>4. \A k \in Pos(lg) : k + 1 \in 1 .. Len(lg) /\ k \in Pos(h) /\ h[k + 1] = lg[k + 1]
  BY <1>1 DEF Pos
<1>5. History(lg) /\ History(h) /\ Extends(lg, h)
  BY <1>1, <1>2, <1>4 DEF Extends
<1>6. QED BY <1>1, <1>3, <1>4, <1>5 DEF h

LEMMA StateHistory ==
    ASSUME log \in Seq(LogRecord), buffer \in Seq(LogRecord)
    PROVE  /\ Extends(log, Hist) /\ History(log) /\ History(Hist) /\ Len(Hist) = NextLsn
           /\ Lsns = Pos(log) /\ Len(log) \in Nat /\ Len(Hist) \in Nat /\ Len(log) <= Len(Hist)
           /\ \A k \in Pos(log) : k \in Pos(Hist) /\ Hist[k + 1] = log[k + 1] /\ Rec(k) = log[k + 1]
           /\ buffer = <<>> => Hist = log
BY JoinedHistory DEF Hist, NextLsn, Lsns, Pos, Rec

LEMMA AppendedHistory ==
    ASSUME log \in Seq(LogRecord), buffer \in Seq(LogRecord), NEW x \in LogRecord,
           log' = log, buffer' = Append(buffer, x)
    PROVE  GrowsBy(Hist, Hist', x) /\ buffer' \in Seq(LogRecord)
<1>1. buffer' \in Seq(LogRecord) /\ log' \in Seq(LogRecord)
  OBVIOUS
<1>2. History(Hist) /\ History(Hist') /\ Len(Hist) \in Nat
  <2>1. History(Hist')
    BY <1>1, JoinedHistory DEF Hist
  <2>2. QED BY <2>1, StateHistory
<1>3. /\ Len(log \o buffer) = Len(log) + Len(buffer) /\ Len(buffer') = Len(buffer) + 1
      /\ Len(Hist') = Len(log) + Len(buffer) + 1
      /\ \A k \in 1 .. Len(log) + Len(buffer) : Hist'[k] = Hist[k]
      /\ Hist'[Len(log) + Len(buffer) + 1] = x
  <2>1. Len(buffer') = Len(buffer) + 1 /\ buffer'[Len(buffer) + 1] = x
        /\ \A k \in 1 .. Len(buffer) : buffer'[k] = buffer[k]
    OBVIOUS
  <2>2. Len(log) \in Nat /\ Len(buffer) \in Nat
    OBVIOUS
  <2>3. /\ Len(log \o buffer) = Len(log) + Len(buffer)
        /\ \A k \in 1 .. Len(log) + Len(buffer) :
               (log \o buffer)[k] = IF k <= Len(log) THEN log[k] ELSE buffer[k - Len(log)]
    BY ConcatProperties
  <2>4. /\ Len(log \o buffer') = Len(log) + Len(buffer')
        /\ \A k \in 1 .. Len(log) + Len(buffer') :
               (log \o buffer')[k] = IF k <= Len(log) THEN log[k] ELSE buffer'[k - Len(log)]
    BY <1>1, ConcatProperties, Zenon
  <2>5. Hist' = log \o buffer' /\ Hist = log \o buffer
    BY DEF Hist
  <2> HIDE DEF Hist
  <2>6. ASSUME NEW k \in 1 .. Len(log) + Len(buffer)
        PROVE  (log \o buffer')[k] = (log \o buffer)[k]
    BY <2>1, <2>2, <2>3, <2>4
  <2>7. (log \o buffer')[Len(log) + Len(buffer) + 1] = x
    BY <2>1, <2>2, <2>4
  <2>8. QED BY <2>1, <2>2, <2>3, <2>4, <2>5, <2>6, <2>7
<1>4. Len(Hist) = Len(log) + Len(buffer)
  BY <1>3 DEF Hist
<1>5. \A k \in Pos(Hist) : k + 1 \in 1 .. Len(log) + Len(buffer)
  BY <1>2, <1>4 DEF Pos
<1>6. QED BY <1>1, <1>2, <1>3, <1>4, <1>5 DEF GrowsBy, Extends

LEMMA FlushedHistory ==
    ASSUME log \in Seq(LogRecord), buffer \in Seq(LogRecord), FlushLog
    PROVE  Hist' = Hist /\ log' \in Seq(LogRecord) /\ Extends(log, log') /\ log' = Hist
<1>1. log' = log \o buffer /\ buffer' = <<>> /\ log' \in Seq(LogRecord)
  BY DEF FlushLog
<1>2. Hist' = log' /\ log' = Hist
  BY <1>1 DEF Hist
<1>3. QED BY <1>1, <1>2, StateHistory

(***************************************************************************)
(* The types, and what the invariant says of the history, step by step.    *)
(***************************************************************************)

TypeLog == log \in Seq(LogRecord) /\ buffer \in Seq(LogRecord) /\ Len(log) >= 1
TypePages == IsPages(disk) /\ IsPages(mem)
TypeTxns ==
    /\ next_txn_id \in 0 .. MaxTxn + 1
    /\ pc \in [Txn -> Phases]
    /\ pending \in [Txn -> LogRecord \cup {Nil}]
    /\ prev_lsn \in [Txn -> Int]
    /\ write_set \in [Txn -> Seq([rid : Rid, old : Slot])]
    /\ lock \in [Rid -> Txn \cup {Nil}]
TypeRest ==
    /\ mode \in {"down", "redo", "undo", "ready", "failed", "run"}
    /\ pos \in 0 .. Len(log) /\ applied \in BOOLEAN /\ att \subseteq Txn
    /\ undoing \in [txn : Txn \cup {Nil}, lsn : {INVALID_LSN} \cup Lsns]
    /\ writes \in Nat /\ stops \in Nat /\ recreated \in Nat

LEMMA BaseParts == Base <=> TypeLog /\ TypePages /\ TypeTxns /\ TypeRest
BY DEF Base, TypeOK, TypeLog, TypePages, TypeTxns, TypeRest, Phases

LEMMA BasePartsNext == Base' <=> TypeLog' /\ TypePages' /\ TypeTxns' /\ TypeRest'
BY DEF Base, TypeOK, TypeLog, TypePages, TypeTxns, TypeRest, Phases

\* What the parts of the types give when they are needed together.
LEMMA TypesOfState ==
    ASSUME Base
    PROVE  /\ Extends(log, Hist) /\ History(log) /\ History(Hist) /\ Len(Hist) = NextLsn
           /\ Lsns = Pos(log) /\ Len(log) \in Nat /\ Len(Hist) \in Nat /\ Len(log) <= Len(Hist)
           /\ \A k \in Pos(log) : k \in Pos(Hist) /\ Hist[k + 1] = log[k + 1] /\ Rec(k) = log[k + 1]
           /\ buffer = <<>> => Hist = log
           /\ pc \in [Txn -> Phases] /\ IsPages(mem) /\ IsPages(disk)
           /\ 0 \in Lsns
<1>1. TypeLog /\ TypePages /\ TypeTxns
  BY BaseParts
<1>2. pc \in [Txn -> Phases]
  BY <1>1 DEF TypeTxns
<1>3. 0 \in Lsns
  BY <1>1, StateHistory DEF TypeLog, Pos
<1>4. QED BY <1>1, <1>2, <1>3, StateHistory DEF TypeLog, TypePages

\* A change by t leaves x in the slot.
Leaves(type, x, t) == IF type = "DELETE" THEN x = Nil ELSE x # Nil /\ x.trx = t

\* A change of r by t: x is put, c is to be logged.
Changed(t, r, x, c) ==
    /\ Change(t, r, x, c)
    /\ x \in Slot /\ c \in LogRecord /\ Shape(c) /\ c.type \in Writes /\ c.txn = t /\ c.rid = r
    /\ c.prev = prev_lsn[t] /\ c.old = At(mem, r) /\ Same(x, c.new) /\ Leaves(c.type, x, t)

LEMMA ChangeIsChanged ==
    ASSUME Base, NEW t \in Txn, NEW r \in Rid, Insert(t, r) \/ Update(t, r) \/ Delete(t, r)
    PROVE  \E x, c : Changed(t, r, x, c)
<1> DEFINE v == writes + 1
<1>1. /\ At(mem, r) \in Slot /\ prev_lsn[t] \in Int /\ MaxTxn \in Nat /\ 0 \in Txn
      /\ writes < MaxWrites => v \in 0 .. MaxWrites
  <2>1. IsPages(mem) /\ prev_lsn \in [Txn -> Int] /\ writes \in Nat
    BY BaseParts DEF TypePages, TypeTxns, TypeRest
  <2>2. At(mem, r) \in Slot
    BY <2>1, PageFacts
  <2>3. QED BY <2>1, <2>2, Constants
<1>2. \A u \in Txn : writes < MaxWrites => [trx |-> u, val |-> v] \in Row
                                           /\ [trx |-> u, val |-> v] # Nil
  BY <1>1, Constants DEF Row
<1>3. \A a, b : LET x == [trx |-> a, val |-> v]
                    y == [trx |-> b, val |-> v]
                IN  x # Nil /\ y # Nil => Same(x, y)
  BY DEF Same
<1> HIDE DEF v
<1>4. CASE Insert(t, r)
  <2> DEFINE x == [trx |-> t, val |-> v]
             y == [trx |-> 0, val |-> v]
             c == [type |-> "INSERT", txn |-> t, prev |-> prev_lsn[t], rid |-> r, old |-> Nil,
                   new |-> y]
  <2>1. At(mem, r) = Nil /\ Change(t, r, x, c) /\ writes < MaxWrites
    BY <1>4 DEF Insert, Change, v
  <2>2. x \in Slot /\ y \in Slot /\ x # Nil /\ y # Nil /\ x.trx = t /\ Same(x, y)
    BY <1>1, <1>2, <1>3, <2>1 DEF Slot
  <2> HIDE DEF x, y
  <2>3. c \in LogRecord
    BY <1>1, <2>2 DEF LogRecord, Writes, Slot
  <2>4. Shape(c) /\ c.type \in Writes /\ c.txn = t /\ c.rid = r /\ c.prev = prev_lsn[t]
        /\ c.old = Nil /\ c.new = y /\ Leaves(c.type, x, t)
    BY <2>2 DEF Shape, Writes, Leaves
  <2> HIDE DEF c
  <2>5. QED BY <2>1, <2>2, <2>3, <2>4 DEF Changed
<1>5. CASE Update(t, r)
  <2> DEFINE x == [trx |-> t, val |-> v]
             y == [trx |-> At(mem, r).trx, val |-> v]
             c == [type |-> "UPDATE", txn |-> t, prev |-> prev_lsn[t], rid |-> r,
                   old |-> At(mem, r), new |-> y]
  <2>1. At(mem, r) # Nil /\ Change(t, r, x, c) /\ writes < MaxWrites
    BY <1>5 DEF Update, LoggedUpdate, Change, v
  <2>2. At(mem, r).trx \in Txn
    BY <1>1, <2>1 DEF Slot, Row
  <2>3. x \in Slot /\ y \in Slot /\ x # Nil /\ y # Nil /\ x.trx = t /\ Same(x, y)
    BY <1>2, <1>3, <2>1, <2>2 DEF Slot
  <2> HIDE DEF x, y
  <2>4. c \in LogRecord
    BY <1>1, <2>3 DEF LogRecord, Writes
  <2>5. Shape(c) /\ c.type \in Writes /\ c.txn = t /\ c.rid = r /\ c.prev = prev_lsn[t]
        /\ c.old = At(mem, r) /\ c.new = y /\ Leaves(c.type, x, t)
    BY <2>1, <2>3 DEF Shape, Writes, Leaves
  <2> HIDE DEF c
  <2>6. QED BY <2>1, <2>3, <2>4, <2>5 DEF Changed
<1>6. CASE Delete(t, r)
  <2> DEFINE c == [type |-> "DELETE", txn |-> t, prev |-> prev_lsn[t], rid |-> r,
                   old |-> At(mem, r), new |-> Nil]
  <2>1. At(mem, r) # Nil /\ Change(t, r, Nil, c)
    BY <1>6 DEF Delete
  <2>2. Nil \in Slot /\ Same(Nil, Nil)
    BY DEF Slot, Same
  <2>3. c \in LogRecord
    BY <1>1, <2>2 DEF LogRecord, Writes
  <2>4. Shape(c) /\ c.type \in Writes /\ c.txn = t /\ c.rid = r /\ c.prev = prev_lsn[t]
        /\ c.old = At(mem, r) /\ c.new = Nil /\ Leaves(c.type, Nil, t)
    BY <2>1 DEF Shape, Writes, Leaves
  <2> HIDE DEF c
  <2>5. QED BY <2>1, <2>2, <2>3, <2>4 DEF Changed
<1>7. QED BY <1>4, <1>5, <1>6

LEMMA NoteFacts ==
    ASSUME NEW type \in {"begin", "commit", "ABORT"}, NEW t \in Txn, NEW l \in Int
    PROVE  Note(type, t, l) \in LogRecord /\ Note(type, t, l).type = type /\ Note(type, t, l).txn = t
BY DEF Note, LogRecord, Slot

\* What is kept of the transactions and the history by a step.
Kept1 == TypeLog /\ TypeTxns /\ Idle /\ Histories

LEMMA QuietKeeps ==
    ASSUME Kept1, UNCHANGED <<log, buffer, running>>, Idle'
    PROVE  Kept1'
BY DEF Kept1, TypeLog, TypeTxns, Histories, Hist, running

LEMMA BeginKeeps ==
    ASSUME Base, Idle, Histories, NEW t \in Txn, Begin(t)
    PROVE  Kept1'
<1> DEFINE x == Note("begin", t, INVALID_LSN)
<1>1. TypeLog /\ TypeTxns /\ x \in LogRecord /\ x.type = "begin" /\ x.txn = t
  BY BaseParts, NoteFacts DEF INVALID_LSN
<1>2. /\ log' = log /\ buffer' = Append(buffer, x) /\ next_txn_id' = next_txn_id + 1
      /\ mode = "run" /\ t = next_txn_id /\ t <= MaxTxn /\ pc[t] = "none" /\ mode' = mode
      /\ prev_lsn' = [prev_lsn EXCEPT ![t] = Len(Hist)] /\ pc' = [pc EXCEPT ![t] = "active"]
      /\ UNCHANGED <<stops, pending, write_set, lock>>
  <2>1. /\ mode = "run" /\ t = next_txn_id /\ t <= MaxTxn /\ log' = log /\ mode' = mode
        /\ next_txn_id' = next_txn_id + 1 /\ buffer' = Append(buffer, x)
        /\ prev_lsn' = [prev_lsn EXCEPT ![t] = NextLsn] /\ pc' = [pc EXCEPT ![t] = "active"]
        /\ UNCHANGED <<stops, pending, write_set, lock>>
    BY DEF Begin, ghosts
  <2>2. NextLsn = Len(Hist)
    BY TypesOfState
  <2>3. pc[t] = "none"
    BY <2>1, Constants DEF Idle
  <2>4. QED BY <2>1, <2>2, <2>3
<1> HIDE DEF x
<1>3. GrowsBy(Hist, Hist', x) /\ TypeLog' /\ pc \in [Txn -> Phases] /\ Len(Hist) \in Nat
  <2>1. GrowsBy(Hist, Hist', x) /\ buffer' \in Seq(LogRecord)
    BY <1>1, <1>2, AppendedHistory DEF TypeLog
  <2>2. QED BY <1>1, <1>2, <2>1, TypesOfState DEF TypeLog
<1>4. TypeTxns'
  <2>1. next_txn_id' \in 0 .. MaxTxn + 1
    BY <1>1, <1>2, Constants DEF TypeTxns
  <2>2. pc' \in [Txn -> Phases]
    BY <1>1, <1>2 DEF TypeTxns, Phases
  <2>3. prev_lsn' \in [Txn -> Int]
    BY <1>1, <1>2, <1>3 DEF TypeTxns
  <2>4. QED BY <1>1, <1>2, <2>1, <2>2, <2>3 DEF TypeTxns
<1>5. Idle'
  <2>1. \A u \in Txn : pc'[u] = IF u = t THEN "active" ELSE pc[u]
    BY <1>2, <1>3
  <2>2. \A u \in Txn : u # t => prev_lsn'[u] = prev_lsn[u]
    BY <1>1, <1>2 DEF TypeTxns
  <2>3. pending[t] = Nil
    BY <1>2 DEF Idle
  <2>4. \A u \in Txn : u >= next_txn_id' => pc'[u] = "none"
    BY <1>2, <2>1, Constants DEF Idle
  <2>5. ASSUME NEW u \in Txn, pending'[u] # Nil
        PROVE  /\ pc'[u] = "active" /\ lock'[pending'[u].rid] = u
               /\ pending'[u].type \in Writes /\ pending'[u].txn = u
               /\ pending'[u].prev = prev_lsn'[u] /\ Shape(pending'[u])
    BY <1>2, <2>1, <2>2, <2>3, <2>5 DEF Idle
  <2>6. QED BY <1>2, <2>1, <2>4, <2>5 DEF Idle
<1>6. /\ \A r : On(Hist', r) = On(Hist, r)
      /\ \A j \in Pos(Hist) : /\ Done(Hist', j) <=> Done(Hist, j)
                              /\ Active(Hist', pc', j) <=> Active(Hist, pc, j)
                              /\ ~Current(Hist', j, t)
                              /\ \A u : u # t => (Current(Hist', j, u) <=> Current(Hist, j, u))
  <2>1. /\ GrowsBy(Hist, Hist', x) /\ x.type = "begin" /\ x.txn = t
        /\ Moves(pc, pc', t, "none", "active")
    BY <1>1, <1>2, <1>3 DEF Moves
  <2>2. ASSUME NEW r PROVE On(Hist', r) = On(Hist, r)
    BY <2>1, AfterBegin
  <2>3. ASSUME NEW j \in Pos(Hist)
        PROVE  /\ Done(Hist', j) <=> Done(Hist, j)
               /\ Active(Hist', pc', j) <=> Active(Hist, pc, j)
               /\ ~Current(Hist', j, t)
               /\ \A u : u # t => (Current(Hist', j, u) <=> Current(Hist, j, u))
    <3>1. Active(Hist', pc', j) <=> Active(Hist, pc, j)
      BY <2>1, AfterBegin
    <3>2. Done(Hist', j) <=> Done(Hist, j)
      BY <2>1, AfterBegin
    <3>3. ~Current(Hist', j, t)
      BY <2>1, AfterBegin
    <3>4. ASSUME NEW u, u # t PROVE Current(Hist', j, u) <=> Current(Hist, j, u)
      BY <2>1, <3>4, AfterBegin
    <3>5. QED BY <3>1, <3>2, <3>3, <3>4
  <2>4. QED BY <2>2, <2>3
<1>7. \A j \in Pos(Hist) : Hist'[j + 1] = Hist[j + 1]
  BY <1>3 DEF GrowsBy, Extends
<1>8. Shaped(Hist') /\ CommitIsLast(Hist')
  <2>1. x.type \notin Writes /\ x.type # "ABORT"
    BY <1>1 DEF Writes
  <2>2. QED BY <1>3, <2>1, ShapedGrows, CommitIsLastGrows DEF Histories
<1>9. Lives(Hist', pc', prev_lsn')
  <2>1. ASSUME NEW u \in Txn
        PROVE  /\ pc'[u] = "active" => Running(Hist', prev_lsn'[u], u)
               /\ pc'[u] = "aborting" => Aborting(Hist', u)
    <3>1. CASE u = t
      <4>1. pc'[u] = "active" /\ prev_lsn'[u] = Len(Hist)
        BY <1>1, <1>2, <1>3, <3>1 DEF TypeTxns
      <4>2. QED BY <1>1, <1>3, <3>1, <4>1, OwnLife
    <3>2. CASE u # t
      <4>1. pc'[u] = pc[u] /\ prev_lsn'[u] = prev_lsn[u]
        BY <1>1, <1>2, <3>2 DEF TypeTxns
      <4>2. /\ pc[u] = "active" => Running(Hist, prev_lsn[u], u)
            /\ pc[u] = "aborting" => Aborting(Hist, u)
        BY DEF Histories, Lives
      <4>3. QED BY <1>1, <1>3, <3>2, <4>1, <4>2, OtherLife
    <3>3. QED BY <3>1, <3>2
  <2>2. QED BY <2>1 DEF Lives
<1>10. Buffered(Hist', pc', Len(log'))
  <2>1. x.type \notin Writes
    BY <1>1 DEF Writes
  <2>2. QED BY <1>2, <1>3, <1>6, <2>1, BufferedGrows DEF Histories
<1>11. Locked(Hist', pc', lock')
  BY <1>2, <1>6, <1>7, LockedStays DEF Histories
<1>12. Remembered(Hist', pc', write_set')
  <2>1. \A u \in Txn : pc'[u] = "active" =>
            \/ /\ pc[u] = "active" /\ write_set'[u] = write_set[u]
               /\ \A j \in Pos(Hist) : Current(Hist', j, u) <=> Current(Hist, j, u)
            \/ write_set'[u] = <<>> /\ \A j \in Pos(Hist) : ~Current(Hist', j, u)
    BY <1>2, <1>3, <1>6 DEF Idle
  <2>2. Remembered(Hist, pc, write_set)
    BY DEF Histories
  <2>3. QED BY <1>6, <1>7, <2>1, <2>2, RememberedStays
<1>13. QED BY <1>3, <1>4, <1>5, <1>8, <1>9, <1>10, <1>11, <1>12 DEF Kept1, Histories

LEMMA ChangeKeeps ==
    ASSUME Base, Idle, Histories, NEW t \in Txn, NEW r \in Rid, NEW x, NEW c, Changed(t, r, x, c)
    PROVE  Kept1'
<1>1. TypeLog /\ TypeTxns
  BY BaseParts
<1>2. /\ mode = "run" /\ mode' = mode /\ pc[t] = "active" /\ pending[t] = Nil
      /\ lock[r] \in {Nil, t} /\ lock' = [lock EXCEPT ![r] = t]
      /\ pending' = [pending EXCEPT ![t] = c]
      /\ UNCHANGED <<log, buffer, next_txn_id, pc, prev_lsn, write_set, stops>>
      /\ c \in LogRecord /\ Shape(c) /\ c.type \in Writes /\ c.txn = t /\ c.rid = r
      /\ c.prev = prev_lsn[t]
  BY DEF Changed, Change
<1>3. TypeTxns' /\ TypeLog'
  BY <1>1, <1>2 DEF TypeTxns, TypeLog
<1>4. /\ \A u \in Txn : pending'[u] = IF u = t THEN c ELSE pending[u]
      /\ \A q \in Rid : lock'[q] = IF q = r THEN t ELSE lock[q]
  BY <1>1, <1>2 DEF TypeTxns
<1>5. Idle'
  <2>1. ASSUME NEW u \in Txn, pending'[u] # Nil
        PROVE  /\ pc'[u] = "active" /\ lock'[pending'[u].rid] = u
               /\ pending'[u].type \in Writes /\ pending'[u].txn = u
               /\ pending'[u].prev = prev_lsn'[u] /\ Shape(pending'[u])
    <3>1. CASE u = t
      BY <1>2, <1>4, <3>1
    <3>2. CASE u # t
      <4>1. /\ pc[u] = "active" /\ lock[pending[u].rid] = u /\ pending[u].type \in Writes
            /\ pending[u].txn = u /\ pending[u].prev = prev_lsn[u] /\ Shape(pending[u])
            /\ pending'[u] = pending[u]
        BY <1>4, <2>1, <3>2 DEF Idle
      <4>2. pending[u].rid \in Rid /\ pending[u].rid # r
        BY <1>2, <3>2, <4>1, Constants DEF Shape
      <4>3. QED BY <1>2, <1>4, <4>1, <4>2
    <3>3. QED BY <3>1, <3>2
  <2>2. QED BY <1>2, <2>1 DEF Idle
<1>6. Locked(Hist', pc', lock')
  <2>1. Locked(Hist, pc, lock) /\ Hist' = Hist /\ pc' = pc /\ History(Hist)
    BY <1>2, TypesOfState DEF Histories, Hist
  <2>2. \A j \in Pos(Hist) : \A q \in Rid :
            lock[q] = Hist[j + 1].txn => lock'[q] = Hist[j + 1].txn
    <3>1. \A j \in Pos(Hist) : Hist[j + 1].txn \in Txn
      BY <2>1, RecordFields DEF History
    <3>2. QED BY <1>2, <1>4, <3>1, Constants
  <2>3. QED BY <2>1, <2>2, LockedStays
<1>7. Histories'
  BY <1>2, <1>6 DEF Histories, Hist
<1>8. QED BY <1>3, <1>5, <1>7 DEF Kept1

\* A write of a running transaction is linked to the record before it.
LEMMA LinkedWrite ==
    ASSUME NEW h, NEW g, NEW x, GrowsBy(h, g, x), x.type \in Writes, Running(h, x.prev, x.txn)
    PROVE  Chained(g, Len(h)) /\ Begun(g, Len(h))
<1>1. /\ Pos(g) = Pos(h) \cup {Len(h)} /\ g[Len(h) + 1] = x
      /\ \A j \in Pos(h) : g[j + 1] = h[j + 1] /\ j < Len(h) /\ j \in Int
      /\ Len(h) \in Nat /\ Len(h) \in Pos(g)
  <2>1. Len(h) \in Nat /\ Len(g) = Len(h) + 1
    BY DEF GrowsBy, Extends, History
  <2>2. Pos(g) = Pos(h) \cup {Len(h)}
    BY <2>1 DEF Pos
  <2>3. QED BY <2>1, <2>2 DEF GrowsBy, Extends, Pos
<1>2. Chained(g, Len(h))
  <2>1. /\ x.prev \in Pos(h) /\ h[x.prev + 1].txn = x.txn
        /\ h[x.prev + 1].type \in {"begin"} \cup Writes
        /\ \A e \in Pos(h) : e > x.prev => h[e + 1].txn # x.txn
    BY DEF Running
  <2>2. QED BY <1>1, <2>1 DEF Chained
<1>3. Begun(g, Len(h))
  <2>1. PICK b \in Pos(h) : h[b + 1].type = "begin" /\ h[b + 1].txn = x.txn
                            /\ NoneAfter(h, b, Ends3)
    BY DEF Running
  <2>2. x.type \notin Ends3
    BY DEF Writes, Ends3
  <2>3. NoneIn(g, b, Len(h), Ends3)
    BY <1>1, <2>1, <2>2 DEF NoneIn, NoneAfter
  <2>4. QED BY <1>1, <2>1, <2>3 DEF Begun
<1>4. QED BY <1>2, <1>3

LEMMA AppendKeeps ==
    ASSUME Base, Idle, Histories, NEW t \in Txn, AppendRecord(t)
    PROVE  Kept1'
<1> DEFINE x == pending[t]
           w == [rid |-> x.rid, old |-> x.old]
<1>1. TypeLog /\ TypeTxns
  BY BaseParts
<1>2. /\ mode = "run" /\ mode' = mode /\ x # Nil
      /\ buffer' = Append(buffer, x) /\ prev_lsn' = [prev_lsn EXCEPT ![t] = Len(Hist)]
      /\ write_set' = [write_set EXCEPT ![t] = Append(write_set[t], w)]
      /\ pending' = [pending EXCEPT ![t] = Nil]
      /\ UNCHANGED <<log, next_txn_id, pc, lock, stops>>
  BY TypesOfState DEF AppendRecord, ghosts
<1>3. /\ x \in LogRecord /\ pc[t] = "active" /\ lock[x.rid] = t /\ x.type \in Writes
      /\ x.txn = t /\ x.prev = prev_lsn[t] /\ Shape(x) /\ x.rid \in Rid /\ x.old \in Slot
  <2>1. x \in LogRecord
    BY <1>1, <1>2 DEF TypeTxns
  <2>2. /\ pc[t] = "active" /\ lock[x.rid] = t /\ x.type \in Writes
        /\ x.txn = t /\ x.prev = prev_lsn[t] /\ Shape(x)
    BY <1>2 DEF Idle
  <2>3. QED BY <2>1, <2>2, RecordFields DEF Shape
<1>4. w \in [rid : Rid, old : Slot]
  BY <1>3
<1> HIDE DEF w
<1>5. GrowsBy(Hist, Hist', x) /\ TypeLog' /\ pc \in [Txn -> Phases] /\ Len(Hist) \in Nat
  <2>1. GrowsBy(Hist, Hist', x) /\ buffer' \in Seq(LogRecord)
    BY <1>1, <1>2, <1>3, AppendedHistory DEF TypeLog
  <2>2. QED BY <1>1, <1>2, <2>1, TypesOfState DEF TypeLog
<1>6. TypeTxns'
  <2>1. prev_lsn' \in [Txn -> Int] /\ pending' \in [Txn -> LogRecord \cup {Nil}]
    BY <1>1, <1>2, <1>5 DEF TypeTxns
  <2>2. write_set' \in [Txn -> Seq([rid : Rid, old : Slot])]
    <3> DEFINE S == [rid : Rid, old : Slot]
    <3>1. write_set \in [Txn -> Seq(S)] /\ w \in S
      BY <1>1, <1>4 DEF TypeTxns
    <3> HIDE DEF S
    <3>2. Append(write_set[t], w) \in Seq(S)
      BY <3>1
    <3>3. write_set' \in [Txn -> Seq(S)]
      BY <1>2, <3>1, <3>2
    <3>4. QED BY <3>3 DEF S
  <2>3. QED BY <1>1, <1>2, <2>1, <2>2 DEF TypeTxns
<1>7. /\ \A u \in Txn : pending'[u] = IF u = t THEN Nil ELSE pending[u]
      /\ \A u \in Txn : prev_lsn'[u] = IF u = t THEN Len(Hist) ELSE prev_lsn[u]
      /\ \A u \in Txn : u # t => write_set'[u] = write_set[u]
  BY <1>1, <1>2 DEF TypeTxns
<1> HIDE DEF x
<1>8. Idle'
  <2>1. ASSUME NEW u \in Txn, pending'[u] # Nil
        PROVE  /\ pc'[u] = "active" /\ lock'[pending'[u].rid] = u
               /\ pending'[u].type \in Writes /\ pending'[u].txn = u
               /\ pending'[u].prev = prev_lsn'[u] /\ Shape(pending'[u])
    BY <1>2, <1>7, <2>1 DEF Idle
  <2>2. \A u \in Txn : pc'[u] = "none" => write_set'[u] = <<>>
    BY <1>2, <1>3, <1>7 DEF Idle
  <2>3. QED BY <1>2, <2>1, <2>2 DEF Idle
<1>9. Running(Hist, x.prev, t)
  BY <1>3 DEF Histories, Lives
<1>10. Shaped(Hist') /\ CommitIsLast(Hist')
  <2>1. Chained(Hist', Len(Hist)) /\ Begun(Hist', Len(Hist))
    BY <1>3, <1>5, <1>9, LinkedWrite
  <2>2. x.type # "ABORT"
    BY <1>3 DEF Writes
  <2>3. QED BY <1>3, <1>5, <2>1, <2>2, ShapedGrows, CommitIsLastGrows DEF Histories
<1>11. Lives(Hist', pc', prev_lsn')
  <2>1. ASSUME NEW u \in Txn
        PROVE  /\ pc'[u] = "active" => Running(Hist', prev_lsn'[u], u)
               /\ pc'[u] = "aborting" => Aborting(Hist', u)
    <3>1. CASE u = t
      <4>1. Running(Hist', Len(Hist), t)
        BY <1>3, <1>5, <1>9, OwnLife
      <4>2. QED BY <1>2, <1>3, <1>7, <3>1, <4>1
    <3>2. CASE u # t
      <4>1. /\ pc[u] = "active" => Running(Hist, prev_lsn[u], u)
            /\ pc[u] = "aborting" => Aborting(Hist, u)
        BY DEF Histories, Lives
      <4>2. QED BY <1>2, <1>3, <1>5, <1>7, <3>2, <4>1, OtherLife
    <3>3. QED BY <3>1, <3>2
  <2>2. QED BY <2>1 DEF Lives
<1>12. Active(Hist', pc, Len(Hist)) /\ \A j \in Pos(Hist) :
           Active(Hist', pc, j) <=> Active(Hist, pc, j)
  <2>1. Active(Hist', pc, Len(Hist))
    BY <1>3, <1>5, AfterWrite
  <2>2. ASSUME NEW j \in Pos(Hist) PROVE Active(Hist', pc, j) <=> Active(Hist, pc, j)
    BY <1>3, <1>5, AfterWrite
  <2>3. QED BY <2>1, <2>2
<1>13. Buffered(Hist', pc', Len(log'))
  <2>1. Buffered(Hist, pc, Len(log))
    BY DEF Histories
  <2>2. QED BY <1>2, <1>5, <1>12, <2>1, BufferedGrows
<1>14. Locked(Hist', pc', lock')
  <2>1. Locked(Hist, pc, lock)
    BY DEF Histories
  <2>2. QED BY <1>2, <1>3, <1>5, <2>1, LockedWrite
<1>15. Remembered(Hist', pc', write_set')
  <2>1. Remembered(Hist, pc, write_set) /\ write_set \in [Txn -> Seq([rid : Rid, old : Slot])]
    BY <1>1 DEF Histories, TypeTxns
  <2> DEFINE S == [rid : Rid, old : Slot]
             n == Len(write_set[t])
  <2>2. write_set[t] \in Seq(S) /\ w \in S /\ write_set'[t] = Append(write_set[t], w)
        /\ \A u \in Txn : u # t => write_set'[u] = write_set[u]
    BY <1>1, <1>2, <1>4, <1>7 DEF TypeTxns
  <2> HIDE DEF S
  <2>3. /\ n \in Nat /\ DOMAIN write_set[t] = 1 .. n /\ DOMAIN write_set'[t] = 1 .. n + 1
        /\ write_set'[t][n + 1] = w /\ \A i \in 1 .. n : write_set'[t][i] = write_set[t][i]
    BY <2>2
  <2> HIDE DEF n
  <2>4. Adds(write_set, write_set', t, x)
    <3>1. w.rid = x.rid /\ w.old = x.old
      BY DEF w, x
    <3>2. QED BY <2>2, <2>3, <3>1 DEF Adds
  <2>5. Remembered(Hist', pc, write_set')
    BY <1>3, <1>5, <2>1, <2>4, RememberedWrite
  <2>6. QED BY <1>2, <2>5
<1>16. QED BY <1>5, <1>6, <1>8, <1>10, <1>11, <1>13, <1>14, <1>15 DEF Kept1, Histories

\* The running transaction t ends with a record of the given type.
Finished(t, type, c) ==
    /\ mode = "run" /\ pc[t] = "active" /\ pending[t] = Nil
    /\ <<type, c>> \in {<<"commit", "committing">>, <<"ABORT", "aborting">>}
    /\ buffer' = Append(buffer, Note(type, t, INVALID_LSN))
    /\ pc' = [pc EXCEPT ![t] = c]
    /\ write_set' \in {write_set, [write_set EXCEPT ![t] = <<>>]}
    /\ UNCHANGED <<mode, log, next_txn_id, pending, prev_lsn, lock, stops>>

LEMMA FinishKeeps ==
    ASSUME Base, Idle, Histories, NEW t \in Txn, NEW type, NEW c, Finished(t, type, c)
    PROVE  Kept1'
<1> DEFINE x == Note(type, t, INVALID_LSN)
<1>1. TypeLog /\ TypeTxns /\ type \in {"commit", "ABORT"} /\ c \in {"committing", "aborting"}
      /\ (c = "aborting" => type = "ABORT")
  BY BaseParts DEF Finished
<1>2. x \in LogRecord /\ x.type = type /\ x.txn = t
  BY <1>1, NoteFacts DEF INVALID_LSN
<1>3. /\ mode = "run" /\ mode' = mode /\ buffer' = Append(buffer, x)
      /\ pc[t] = "active" /\ pc' = [pc EXCEPT ![t] = c] /\ pending[t] = Nil
      /\ write_set' \in {write_set, [write_set EXCEPT ![t] = <<>>]}
      /\ UNCHANGED <<log, next_txn_id, pending, prev_lsn, lock, stops>>
  BY DEF Finished
<1> HIDE DEF x
<1>4. GrowsBy(Hist, Hist', x) /\ TypeLog' /\ pc \in [Txn -> Phases] /\ Len(Hist) \in Nat
  <2>1. GrowsBy(Hist, Hist', x) /\ buffer' \in Seq(LogRecord)
    BY <1>1, <1>2, <1>3, AppendedHistory DEF TypeLog
  <2>2. QED BY <1>1, <1>3, <2>1, TypesOfState DEF TypeLog
<1>5. /\ \A u \in Txn : pc'[u] = IF u = t THEN c ELSE pc[u]
      /\ \A u \in Txn : u # t => write_set'[u] = write_set[u]
      /\ write_set' \in [Txn -> Seq([rid : Rid, old : Slot])]
  <2> DEFINE S == Seq([rid : Rid, old : Slot])
  <2>1. write_set \in [Txn -> S]
    BY <1>1 DEF TypeTxns
  <2>3. <<>> \in S
    OBVIOUS
  <2> HIDE DEF S
  <2>2. write_set' \in [Txn -> S] /\ \A u \in Txn : u # t => write_set'[u] = write_set[u]
    BY <1>3, <2>1, <2>3
  <2>4. QED BY <1>3, <1>4, <2>2 DEF S
<1>6. TypeTxns'
  BY <1>1, <1>3, <1>4, <1>5 DEF TypeTxns, Phases
<1>7. Idle'
  BY <1>1, <1>3, <1>5 DEF Idle
<1>8. /\ \A r : On(Hist', r) = On(Hist, r)
      /\ \A j \in Pos(Hist) :
             Active(Hist', pc', j) <=> Active(Hist, pc, j) /\ Hist[j + 1].txn # t
  <2>1. x.type \in {"commit", "ABORT"} /\ x.txn = t /\ c \in {"committing", "aborting"}
    BY <1>1, <1>2
  <2>2. Lives(Hist, pc, prev_lsn) /\ Moves(pc, pc', t, "active", c)
    BY <1>3, <1>4 DEF Histories, Moves
  <2>3. GrowsBy(Hist, Hist', x)
    BY <1>4
  <2>4. QED BY <2>1, <2>2, <2>3, AfterEnd
<1>9. ASSUME NEW j \in Pos(Hist)
      PROVE  /\ Active(Hist', pc', j) <=> Active(Hist, pc, j) /\ Hist[j + 1].txn # t
             /\ Hist'[j + 1] = Hist[j + 1]
             /\ \A u : Current(Hist', j, u) <=> Current(Hist, j, u)
  <2>1. Active(Hist', pc', j) <=> Active(Hist, pc, j) /\ Hist[j + 1].txn # t
    BY <1>8
  <2>3. Hist'[j + 1] = Hist[j + 1]
    BY <1>4 DEF GrowsBy, Extends
  <2>2. ASSUME NEW u PROVE Current(Hist', j, u) <=> Current(Hist, j, u)
    <3>1. NoneAfter(Hist', j, {"begin"}) <=> NoneAfter(Hist, j, {"begin"})
      BY <1>1, <1>2, <1>4, OneMore
    <3>2. QED BY <2>3, <3>1 DEF Current
  <2>4. QED BY <2>1, <2>2, <2>3
<1>10. Shaped(Hist') /\ CommitIsLast(Hist')
  <2>1. x.type \notin Writes
    BY <1>1, <1>2 DEF Writes
  <2>2. \E b \in Pos(Hist) : Hist[b + 1].type = "begin" /\ Hist[b + 1].txn = x.txn
                             /\ NoneAfter(Hist, b, Ends3)
    BY <1>2, <1>3 DEF Histories, Lives, Running
  <2>3. QED BY <1>4, <2>1, <2>2, ShapedGrows, CommitIsLastGrows DEF Histories
<1>11. Lives(Hist', pc', prev_lsn')
  <2>1. ASSUME NEW u \in Txn
        PROVE  /\ pc'[u] = "active" => Running(Hist', prev_lsn'[u], u)
               /\ pc'[u] = "aborting" => Aborting(Hist', u)
    <3>1. CASE u = t
      <4>1. pc'[u] = c /\ c # "active"
        BY <1>1, <1>5, <3>1
      <4>2. QED BY <1>1, <1>2, <1>4, <3>1, <4>1, OwnLife
    <3>2. CASE u # t
      <4>1. /\ pc[u] = "active" => Running(Hist, prev_lsn[u], u)
            /\ pc[u] = "aborting" => Aborting(Hist, u)
        BY DEF Histories, Lives
      <4>2. QED BY <1>2, <1>3, <1>4, <1>5, <3>2, <4>1, OtherLife
    <3>3. QED BY <3>1, <3>2
  <2>2. QED BY <2>1 DEF Lives
<1>12. Buffered(Hist', pc', Len(log'))
  <2>1. x.type \notin Writes
    BY <1>1, <1>2 DEF Writes
  <2>2. ASSUME NEW j \in Pos(Hist), Active(Hist, pc, j)
        PROVE  Active(Hist', pc', j) \/ ~NoneAfter(Hist', j, Ends3)
    <3>1. CASE Hist[j + 1].txn # t
      BY <1>9, <2>2, <3>1
    <3>2. CASE Hist[j + 1].txn = t
      <4>1. x.txn = Hist[j + 1].txn /\ x.type \in Ends3
        BY <1>1, <1>2, <3>2 DEF Ends3
      <4>2. QED BY <1>4, <4>1, OneMore
    <3>3. QED BY <3>1, <3>2
  <2>3. Buffered(Hist, pc, Len(log))
    BY DEF Histories
  <2>4. QED BY <1>3, <1>4, <2>1, <2>2, <2>3, BufferedGrows
<1>13. Locked(Hist', pc', lock')
  <2>1. Locked(Hist, pc, lock)
    BY DEF Histories
  <2>2. \A j \in Pos(Hist) : /\ Hist'[j + 1] = Hist[j + 1]
                             /\ Active(Hist', pc', j) => Active(Hist, pc, j)
                             /\ Active(Hist', pc', j) => \A r \in Rid :
                                    lock[r] = Hist[j + 1].txn => lock'[r] = Hist[j + 1].txn
    BY <1>3, <1>9
  <2>3. QED BY <1>8, <2>1, <2>2, LockedStays
<1>14. Remembered(Hist', pc', write_set')
  <2>1. \A u \in Txn : pc'[u] = "active" =>
            \/ /\ pc[u] = "active" /\ write_set'[u] = write_set[u]
               /\ \A j \in Pos(Hist) : Current(Hist', j, u) <=> Current(Hist, j, u)
            \/ write_set'[u] = <<>> /\ \A j \in Pos(Hist) : ~Current(Hist', j, u)
    BY <1>1, <1>5, <1>9
  <2>2. Remembered(Hist, pc, write_set)
    BY DEF Histories
  <2>3. QED BY <1>8, <1>9, <2>1, <2>2, RememberedStays
<1>15. QED BY <1>4, <1>6, <1>7, <1>10, <1>11, <1>12, <1>13, <1>14 DEF Kept1, Histories

LEMMA EndIsFinished ==
    ASSUME NEW t \in Txn, Commit(t) \/ Abort(t)
    PROVE  Finished(t, "commit", "committing") \/ Finished(t, "ABORT", "aborting")
<1>1. CASE Commit(t)
  BY <1>1 DEF Commit, Finished, ghosts
<1>2. CASE Abort(t)
  BY <1>2 DEF Abort, Finished, ghosts
<1>3. QED BY <1>1, <1>2

LEMMA EndKeeps ==
    ASSUME Base, Idle, Histories, NEW t \in Txn, End(t)
    PROVE  Kept1'
<1> DEFINE x == Note("commit", t, INVALID_LSN)
<1>1. TypeLog /\ TypeTxns /\ x \in LogRecord /\ x.type = "commit" /\ x.txn = t
  BY BaseParts, NoteFacts DEF INVALID_LSN
<1>2. PICK c \in {"done", "committing"} :
          /\ mode = "run" /\ mode' = mode /\ pc[t] \in {"committing", "aborting"}
          /\ lock' = [r \in Rid |-> IF lock[r] = t THEN Nil ELSE lock[r]]
          /\ write_set' = [write_set EXCEPT ![t] = <<>>] /\ pc' = [pc EXCEPT ![t] = c]
          /\ UNCHANGED <<log, next_txn_id, pending, prev_lsn, stops>>
          /\ \/ c = "done" /\ buffer' = buffer
             \/ c = "committing" /\ pc[t] = "aborting" /\ buffer' = Append(buffer, x)
  BY DEF End, ghosts
<1> HIDE DEF x
<1>3. TypeLog' /\ pc \in [Txn -> Phases] /\ (c = "committing" => GrowsBy(Hist, Hist', x))
      /\ (c = "done" => Hist' = Hist)
  <2>1. c = "done" => Hist' = Hist /\ TypeLog'
    BY <1>1, <1>2 DEF Hist, TypeLog
  <2>2. c = "committing" => GrowsBy(Hist, Hist', x) /\ buffer' \in Seq(LogRecord)
    BY <1>1, <1>2, AppendedHistory DEF TypeLog
  <2>3. QED BY <1>1, <1>2, <2>1, <2>2, TypesOfState DEF TypeLog
<1>4. /\ \A u \in Txn : pc'[u] = IF u = t THEN c ELSE pc[u]
      /\ \A u \in Txn : u # t => write_set'[u] = write_set[u]
      /\ \A r \in Rid : lock'[r] = IF lock[r] = t THEN Nil ELSE lock[r]
      /\ write_set' \in [Txn -> Seq([rid : Rid, old : Slot])]
  <2> DEFINE S == Seq([rid : Rid, old : Slot])
  <2>1. write_set \in [Txn -> S]
    BY <1>1 DEF TypeTxns
  <2>2. <<>> \in S
    OBVIOUS
  <2> HIDE DEF S
  <2>3. write_set' \in [Txn -> S] /\ \A u \in Txn : u # t => write_set'[u] = write_set[u]
    BY <1>2, <2>1, <2>2
  <2>4. QED BY <1>2, <1>3, <2>3 DEF S
<1>5. TypeTxns'
  <2>1. lock' \in [Rid -> Txn \cup {Nil}]
    BY <1>1, <1>2 DEF TypeTxns
  <2>2. QED BY <1>1, <1>2, <1>3, <1>4, <2>1 DEF TypeTxns, Phases
<1>6. Idle'
  <2>1. ASSUME NEW u \in Txn, pending'[u] # Nil
        PROVE  /\ pc'[u] = "active" /\ lock'[pending'[u].rid] = u
               /\ pending'[u].type \in Writes /\ pending'[u].txn = u
               /\ pending'[u].prev = prev_lsn'[u] /\ Shape(pending'[u])
    <3>1. /\ pc[u] = "active" /\ lock[pending[u].rid] = u /\ pending[u].type \in Writes
          /\ pending[u].txn = u /\ pending[u].prev = prev_lsn[u] /\ Shape(pending[u])
          /\ pending'[u] = pending[u]
      BY <1>2, <2>1 DEF Idle
    <3>2. pending[u].rid \in Rid /\ u # t
      BY <1>2, <3>1 DEF Shape
    <3>3. QED BY <1>2, <1>4, <3>1, <3>2
  <2>2. QED BY <1>2, <1>4, <2>1 DEF Idle
<1>7. \A r : On(Hist', r) = On(Hist, r)
  <2>1. CASE c = "done"
    BY <1>3, <2>1
  <2>2. CASE c = "committing"
    <3>1. Lives(Hist, pc, prev_lsn) /\ Moves(pc, pc', t, "aborting", "committing")
      BY <1>2, <1>3, <2>2 DEF Histories, Moves
    <3>2. ASSUME NEW r PROVE On(Hist', r) = On(Hist, r)
      BY <1>1, <1>3, <2>2, <3>1, AfterSecondEnd
    <3>3. QED BY <3>2
  <2>3. QED BY <2>1, <2>2
<1>8. ASSUME NEW j \in Pos(Hist)
      PROVE  /\ Hist'[j + 1] = Hist[j + 1]
             /\ \A u : Current(Hist', j, u) <=> Current(Hist, j, u)
             /\ Active(Hist', pc', j) <=> Active(Hist, pc, j)
  <2>1. Hist'[j + 1] = Hist[j + 1]
    BY <1>3 DEF GrowsBy, Extends
  <2>2. NoneAfter(Hist', j, {"begin"}) <=> NoneAfter(Hist, j, {"begin"})
    <3>1. CASE c = "done"
      BY <1>3, <3>1
    <3>2. CASE c = "committing"
      BY <1>1, <1>3, <3>2, OneMore
    <3>3. QED BY <3>1, <3>2
  <2>3. \A u : Current(Hist', j, u) <=> Current(Hist, j, u)
    BY <2>1, <2>2 DEF Current
  <2>4. pc'[Hist[j + 1].txn] = "active" <=> pc[Hist[j + 1].txn] = "active"
    <3>1. Hist[j + 1].txn \in Txn
      BY TypesOfState, RecordFields DEF History
    <3>2. QED BY <1>2, <1>4, <3>1
  <2>5. QED BY <2>1, <2>3, <2>4 DEF Active
<1>9. Shaped(Hist') /\ CommitIsLast(Hist')
  <2>1. CASE c = "done"
    BY <1>3, <2>1 DEF Histories
  <2>2. CASE c = "committing"
    <3>1. x.type \notin Writes /\ x.type # "ABORT"
      BY <1>1 DEF Writes
    <3>2. QED BY <1>3, <2>2, <3>1, ShapedGrows, CommitIsLastGrows DEF Histories
  <2>3. QED BY <2>1, <2>2
<1>10. Lives(Hist', pc', prev_lsn')
  <2>1. ASSUME NEW u \in Txn
        PROVE  /\ pc'[u] = "active" => Running(Hist', prev_lsn'[u], u)
               /\ pc'[u] = "aborting" => Aborting(Hist', u)
    <3>1. CASE u = t
      BY <1>4, <3>1
    <3>2. CASE u # t
      <4>1. /\ pc[u] = "active" => Running(Hist, prev_lsn[u], u)
            /\ pc[u] = "aborting" => Aborting(Hist, u)
        BY DEF Histories, Lives
      <4>2. CASE c = "done"
        BY <1>2, <1>3, <1>4, <3>2, <4>1, <4>2
      <4>3. CASE c = "committing"
        BY <1>1, <1>2, <1>3, <1>4, <3>2, <4>1, <4>3, OtherLife
      <4>4. QED BY <4>2, <4>3
    <3>3. QED BY <3>1, <3>2
  <2>2. QED BY <2>1 DEF Lives
<1>11. Buffered(Hist', pc', Len(log'))
  <2>1. Buffered(Hist, pc, Len(log))
    BY DEF Histories
  <2>2. CASE c = "done"
    BY <1>2, <1>3, <1>8, <2>1, <2>2 DEF Buffered
  <2>3. CASE c = "committing"
    <3>1. x.type \notin Writes
      BY <1>1 DEF Writes
    <3>2. QED BY <1>2, <1>3, <1>8, <2>1, <2>3, <3>1, BufferedGrows
  <2>4. QED BY <2>2, <2>3
<1>12. Locked(Hist', pc', lock')
  <2>1. Locked(Hist, pc, lock)
    BY DEF Histories
  <2>2. ASSUME NEW j \in Pos(Hist), Active(Hist', pc', j), NEW r \in Rid,
               lock[r] = Hist[j + 1].txn
        PROVE  lock'[r] = Hist[j + 1].txn
    <3>1. Hist[j + 1].txn # t
      BY <1>2, <1>8, <2>2 DEF Active
    <3>2. QED BY <1>4, <2>2, <3>1
  <2>3. \A j \in Pos(Hist) : /\ Hist'[j + 1] = Hist[j + 1]
                             /\ Active(Hist', pc', j) => Active(Hist, pc, j)
                             /\ Active(Hist', pc', j) => \A r \in Rid :
                                    lock[r] = Hist[j + 1].txn => lock'[r] = Hist[j + 1].txn
    BY <1>8, <2>2
  <2>4. QED BY <1>7, <2>1, <2>3, LockedStays
<1>13. Remembered(Hist', pc', write_set')
  <2>1. \A u \in Txn : pc'[u] = "active" =>
            \/ /\ pc[u] = "active" /\ write_set'[u] = write_set[u]
               /\ \A j \in Pos(Hist) : Current(Hist', j, u) <=> Current(Hist, j, u)
            \/ write_set'[u] = <<>> /\ \A j \in Pos(Hist) : ~Current(Hist', j, u)
    BY <1>4, <1>8
  <2>2. Remembered(Hist, pc, write_set)
    BY DEF Histories
  <2>3. QED BY <1>7, <1>8, <2>1, <2>2, RememberedStays
<1>14. QED BY <1>3, <1>5, <1>6, <1>9, <1>10, <1>11, <1>12, <1>13 DEF Kept1, Histories

LEMMA FlushKeeps ==
    ASSUME Base, Idle, Histories, FlushLog
    PROVE  Kept1'
<1>1. TypeLog /\ TypeTxns
  BY BaseParts
<1>2. /\ buffer # <<>> /\ buffer' = <<>>
      /\ UNCHANGED <<mode, next_txn_id, pc, pending, prev_lsn, write_set, lock, stops>>
  BY DEF FlushLog, running, ghosts
<1>3. Hist' = Hist /\ log' \in Seq(LogRecord) /\ Extends(log, log') /\ log' = Hist
  BY <1>1, FlushedHistory DEF TypeLog
<1>4. TypeLog'
  BY <1>1, <1>2, <1>3 DEF TypeLog, Extends, History
<1>5. TypeTxns' /\ Idle'
  BY <1>1, <1>2 DEF TypeTxns, Idle
<1>6. Buffered(Hist', pc', Len(log'))
  BY <1>3, TypesOfState DEF Buffered, Pos
<1>7. QED BY <1>2, <1>3, <1>4, <1>5, <1>6 DEF Kept1, Histories

\* The server stops: the records of the buffer are lost.
LEMMA StopKeeps ==
    ASSUME Base, Idle, Histories, Stopped, UNCHANGED log
    PROVE  Kept1'
<1>1. TypeLog /\ TypeTxns
  BY BaseParts
<1>2. /\ mode' = "down" /\ stops' = stops + 1 /\ buffer' = <<>> /\ next_txn_id' = 0
      /\ pc' = [t \in Txn |-> "none"] /\ pending' = [t \in Txn |-> Nil]
      /\ prev_lsn' = [t \in Txn |-> INVALID_LSN] /\ write_set' = [t \in Txn |-> <<>>]
      /\ lock' = [r \in Rid |-> Nil] /\ log' = log
  BY DEF Stopped
<1>3. TypeLog'
  BY <1>1, <1>2 DEF TypeLog
<1>4. TypeTxns'
  <2>1. <<>> \in Seq([rid : Rid, old : Slot])
    OBVIOUS
  <2>2. next_txn_id' \in 0 .. MaxTxn + 1
    BY <1>2, Constants
  <2>3. prev_lsn' \in [Txn -> Int] /\ pending' \in [Txn -> LogRecord \cup {Nil}]
    BY <1>2 DEF INVALID_LSN
  <2>4. pc' \in [Txn -> Phases] /\ lock' \in [Rid -> Txn \cup {Nil}]
    BY <1>2 DEF Phases
  <2>5. write_set' \in [Txn -> Seq([rid : Rid, old : Slot])]
    BY <1>2, <2>1
  <2>6. QED BY <2>2, <2>3, <2>4, <2>5 DEF TypeTxns
<1>5. Idle'
  <2>1. stops' # 0
    BY <1>2, BaseParts DEF TypeRest
  <2>2. QED BY <1>2, <2>1 DEF Idle
<1>6. Hist' = log /\ Extends(log, Hist) /\ History(log)
  <2>1. Hist' = log
    BY <1>1, <1>2, JoinedHistory DEF Hist, TypeLog
  <2>2. QED BY <2>1, TypesOfState
<1>7. Shaped(Hist') /\ CommitIsLast(Hist')
  BY <1>6, ShapedShrinks, CommitIsLastShrinks DEF Histories
<1>8. \A j \in Pos(log) : ~Active(log, pc', j)
  <2>1. ASSUME NEW j \in Pos(log) PROVE log[j + 1].txn \in Txn
    BY <1>6, RecordFields DEF History
  <2>2. QED BY <1>2, <2>1 DEF Active
<1>9. Lives(Hist', pc', prev_lsn') /\ Remembered(Hist', pc', write_set')
  BY <1>2 DEF Lives, Remembered
<1>10. Buffered(Hist', pc', Len(log'))
  BY <1>2, <1>6, TypesOfState DEF Buffered, Pos
<1>11. Locked(Hist', pc', lock')
  <2>1. \A r : On(log, r) \subseteq Pos(log)
    BY DEF On
  <2>2. QED BY <1>6, <1>8, <2>1 DEF Locked
<1>12. QED BY <1>3, <1>4, <1>5, <1>7, <1>9, <1>10, <1>11 DEF Kept1, Histories

\* What is kept of the pages and of the recovery.
Kept2 == TypePages /\ TypeRest

\* Pages of a log of n records.
PagesIn(n, pages) ==
    /\ pages \in [PageNo -> [lsn : 0 .. n - 1,
                             slots : UNION {[OnPage(p) -> Slot] : p \in PageNo}]]
    /\ \A p \in PageNo : pages[p].slots \in [OnPage(p) -> Slot]

LEMMA PagesInLog ==
    /\ \A pages : IsPages(pages) <=> PagesIn(Len(log), pages)
    /\ TypePages' <=> PagesIn(Len(log'), disk') /\ PagesIn(Len(log'), mem')
BY DEF IsPages, TypePages, PagesIn, Lsns

LEMMA PagesInMore ==
    ASSUME NEW n \in Nat, NEW m \in Nat, n <= m, NEW pages, PagesIn(n, pages)
    PROVE  PagesIn(m, pages)
<1> DEFINE U == UNION {[OnPage(p) -> Slot] : p \in PageNo}
<1>1. pages \in [PageNo -> [lsn : 0 .. n - 1, slots : U]]
  BY DEF PagesIn
<1> HIDE DEF U
<1>2. \A p \in PageNo : pages[p] \in [lsn : 0 .. m - 1, slots : U]
  <2>1. SUFFICES ASSUME NEW p \in PageNo PROVE pages[p] \in [lsn : 0 .. m - 1, slots : U]
    OBVIOUS
  <2>2. pages[p] \in [lsn : 0 .. n - 1, slots : U]
    BY <1>1
  <2>3. /\ pages[p] = [lsn |-> pages[p].lsn, slots |-> pages[p].slots]
        /\ pages[p].lsn \in 0 .. n - 1 /\ pages[p].slots \in U
    BY <2>2
  <2>4. pages[p].lsn \in 0 .. m - 1
    BY <2>3
  <2>5. QED BY <2>3, <2>4
<1>3. pages \in [PageNo -> [lsn : 0 .. m - 1, slots : U]]
  BY <1>1, <1>2
<1>4. QED BY <1>3 DEF PagesIn, U

\* The steps of the server that runs.
LEMMA RunTypes ==
    ASSUME Base,
           \/ \E t \in Txn : Begin(t) \/ AppendRecord(t) \/ Commit(t) \/ Abort(t) \/ End(t)
           \/ \E t \in Txn : \E r \in Rid : \E x, c : Changed(t, r, x, c)
           \/ RecreateTable \/ (\E p \in PageNo : FlushPage(p)) \/ Serve \/ Analyze
    PROVE  Kept2'
<1>1. TypeLog /\ TypePages /\ TypeTxns /\ TypeRest /\ 0 \in Lsns
  BY BaseParts, TypesOfState
<1>2. PagesIn(Len(log), mem) /\ PagesIn(Len(log), disk)
  BY <1>1, PagesInLog DEF TypePages
<1>3. CASE \E t \in Txn : Begin(t) \/ AppendRecord(t) \/ Commit(t) \/ End(t)
  <2>1. UNCHANGED <<mode, log, disk, mem, pos, applied, att, undoing, writes, stops, recreated>>
    BY <1>3 DEF Begin, AppendRecord, Commit, End, recovering, ghosts
  <2>2. QED BY <1>1, <1>2, <2>1, PagesInLog DEF Kept2, TypeRest, Lsns
<1>4. CASE \E t \in Txn : Abort(t)
  <2>1. PICK t \in Txn : Abort(t)
    BY <1>4
  <2>2. /\ UNCHANGED <<mode, log, disk, pos, applied, att, undoing, writes, stops, recreated>>
        /\ mem' = Restored(t)
    BY <2>1 DEF Abort, recovering, ghosts
  <2>3. IsPages(Restored(t))
    BY <1>1, RestoredPages DEF TypePages, TypeTxns
  <2>4. PagesIn(Len(log'), mem') /\ PagesIn(Len(log'), disk')
    BY <1>2, <2>2, <2>3, PagesInLog
  <2>5. QED BY <1>1, <2>2, <2>4, PagesInLog DEF Kept2, TypeRest, Lsns
<1>5. CASE \E t \in Txn : \E r \in Rid : \E x, c : Changed(t, r, x, c)
  <2>0. PICK t \in Txn, r \in Rid : \E x, c : Changed(t, r, x, c)
    BY <1>5
  <2>1. PICK x, c : Changed(t, r, x, c)
    BY <2>0
  <2>2. /\ UNCHANGED <<mode, log, disk, pos, applied, att, undoing, stops, recreated>>
        /\ mem' = Put(mem, r, x) /\ writes' = writes + 1 /\ x \in Slot
    BY <2>1 DEF Changed, Change, recovering
  <2>3. IsPages(Put(mem, r, x))
    BY <1>1, <2>2, PutPages DEF TypePages
  <2>4. PagesIn(Len(log'), mem') /\ PagesIn(Len(log'), disk')
    BY <1>2, <2>2, <2>3, PagesInLog
  <2>5. QED BY <1>1, <2>2, <2>4, PagesInLog DEF Kept2, TypeRest, Lsns
<1>6. CASE RecreateTable
  <2>1. /\ UNCHANGED <<mode, log, pos, applied, att, undoing, writes, stops>>
        /\ mem' = Empty /\ disk' = Empty /\ recreated' = recreated + 1
    BY <1>6 DEF RecreateTable, recovering
  <2>2. IsPages(Empty)
    BY <1>1, EmptyPages
  <2>3. PagesIn(Len(log'), mem') /\ PagesIn(Len(log'), disk')
    BY <2>1, <2>2, PagesInLog
  <2>4. QED BY <1>1, <2>1, <2>3, PagesInLog DEF Kept2, TypeRest, Lsns
<1>7. CASE \E p \in PageNo : FlushPage(p)
  <2>1. PICK p \in PageNo : FlushPage(p)
    BY <1>7
  <2>2. /\ UNCHANGED <<mode, log, mem, pos, applied, att, undoing, writes, stops, recreated>>
        /\ disk' = [disk EXCEPT ![p] = mem[p]]
    BY <2>1 DEF FlushPage, recovering
  <2>3. IsPages([disk EXCEPT ![p] = mem[p]])
    BY <1>1, CopiedPage DEF TypePages
  <2>4. PagesIn(Len(log'), mem') /\ PagesIn(Len(log'), disk')
    BY <1>2, <2>2, <2>3, PagesInLog
  <2>5. QED BY <1>1, <2>2, <2>4, PagesInLog DEF Kept2, TypeRest, Lsns
<1>8. CASE Serve \/ Analyze
  <2>1. /\ UNCHANGED <<log, disk, pos, applied, att, undoing, writes, stops, recreated>>
        /\ mode' \in {"run", "redo"} /\ mem' \in {mem, disk}
    BY <1>8 DEF Serve, Analyze, recovering, ghosts
  <2>2. PagesIn(Len(log'), mem') /\ PagesIn(Len(log'), disk')
    BY <1>2, <2>1
  <2>3. QED BY <1>1, <2>1, <2>2, PagesInLog DEF Kept2, TypeRest, Lsns
<1>9. QED BY <1>3, <1>4, <1>5, <1>6, <1>7, <1>8

LEMMA FlushTypes ==
    ASSUME Base, FlushLog
    PROVE  Kept2'
<1>1. TypeLog /\ TypePages /\ TypeTxns /\ TypeRest
  BY BaseParts
<1>2. /\ UNCHANGED <<mode, disk, mem, pos, applied, att, undoing, writes, stops, recreated>>
      /\ Len(log) \in Nat /\ Len(log') \in Nat /\ Len(log) <= Len(log')
  <2>1. Extends(log, log')
    BY <1>1, FlushedHistory DEF TypeLog
  <2>2. QED BY <2>1 DEF FlushLog, recovering, ghosts, Extends, History
<1>3. PagesIn(Len(log'), mem') /\ PagesIn(Len(log'), disk')
  BY <1>1, <1>2, PagesInLog, PagesInMore DEF TypePages
<1>4. undoing \in [txn : Txn \cup {Nil}, lsn : {INVALID_LSN} \cup Lsns']
  <2> DEFINE A == {INVALID_LSN} \cup Lsns
             B == {INVALID_LSN} \cup Lsns'
  <2>1. \A k \in A : k \in B
    BY <1>2 DEF Lsns
  <2>2. undoing \in [txn : Txn \cup {Nil}, lsn : A]
    BY <1>1 DEF TypeRest
  <2> HIDE DEF A, B
  <2>3. undoing = [txn |-> undoing.txn, lsn |-> undoing.lsn]
        /\ undoing.txn \in Txn \cup {Nil} /\ undoing.lsn \in A
    BY <2>2
  <2>4. undoing \in [txn : Txn \cup {Nil}, lsn : B]
    BY <2>1, <2>3
  <2>5. QED BY <2>4 DEF B
<1>5. pos \in 0 .. Len(log')
  BY <1>1, <1>2 DEF TypeRest
<1>6. QED BY <1>1, <1>2, <1>3, <1>4, <1>5, PagesInLog DEF Kept2, TypeRest

LEMMA StopTypes ==
    ASSUME Base, Stopped, UNCHANGED <<log, disk, recreated, writes>>
    PROVE  Kept2'
<1>1. TypeLog /\ TypePages /\ TypeTxns /\ TypeRest /\ 0 \in Lsns /\ Len(log) \in Nat
  BY BaseParts, TypesOfState
<1>2. /\ mode' = "down" /\ stops' = stops + 1 /\ mem' = Empty
      /\ pos' = 0 /\ applied' = FALSE /\ att' = {} /\ undoing' = NoUndo
  BY DEF Stopped
<1>3. PagesIn(Len(log'), mem') /\ PagesIn(Len(log'), disk')
  BY <1>1, <1>2, EmptyPages, PagesInLog DEF TypePages
<1>4. TypeRest'
  <2>1. NoUndo \in [txn : Txn \cup {Nil}, lsn : {INVALID_LSN} \cup Lsns']
    BY DEF NoUndo
  <2>2. pos' \in 0 .. Len(log') /\ stops' \in Nat
    BY <1>1, <1>2 DEF TypeRest
  <2>3. QED BY <1>1, <1>2, <2>1, <2>2 DEF TypeRest
<1>5. QED BY <1>3, <1>4, PagesInLog DEF Kept2

(***************************************************************************)
(* Redo and undo of one record.                                            *)
(***************************************************************************)

LEMMA WriteFacts ==
    ASSUME Base, Histories
    PROVE  /\ Shaped(log)
           /\ \A k \in Pos(log) : IsW(log, k) <=> IsWrite(k)
           /\ \A k \in Pos(log) : IsWrite(k) =>
                  /\ Rec(k) = log[k + 1] /\ Rec(k).rid \in Rid /\ Rec(k).txn \in Txn
                  /\ Rec(k).old \in Slot /\ Rec(k).new \in Slot
                  /\ Shape(Rec(k)) /\ Chained(log, k) /\ Begun(log, k)
<1>1. Shaped(log) /\ History(log) /\ \A k \in Pos(log) : Rec(k) = log[k + 1]
  BY TypesOfState, ShapedShrinks DEF Histories
<1>2. \A k \in Pos(log) : IsW(log, k) <=> IsWrite(k)
  BY <1>1 DEF IsW, IsWrite
<1>3. ASSUME NEW k \in Pos(log), IsWrite(k)
      PROVE  /\ Rec(k).rid \in Rid /\ Rec(k).txn \in Txn
             /\ Rec(k).old \in Slot /\ Rec(k).new \in Slot
             /\ Shape(Rec(k)) /\ Chained(log, k) /\ Begun(log, k)
  <2>1. Shape(log[k + 1]) /\ Chained(log, k) /\ Begun(log, k)
    BY <1>1, <1>2, <1>3 DEF Shaped
  <2>2. log[k + 1] \in LogRecord /\ log[k + 1].type \in Writes
    BY <1>1, <1>3 DEF History, IsWrite
  <2>3. QED BY <1>1, <2>1, <2>2, RecordFields DEF Shape
<1>4. QED BY <1>1, <1>2, <1>3

\* Redo of the record k: x is in the slot before.
RedoneSlot(k, x) == IF Rec(k).type # "INSERT" /\ x = Nil THEN Nil ELSE Rec(k).new

LEMMA RedonePages ==
    ASSUME Base, Histories, NEW k \in Pos(log), IsWrite(k), NEW pages, IsPages(pages)
    PROVE  /\ IsPages(Redone(pages, k))
           /\ \A p \in PageNo : Redone(pages, k)[p].lsn = pages[p].lsn
           /\ \A q \in Rid : At(Redone(pages, k), q) =
                  IF q = Rec(k).rid THEN RedoneSlot(k, At(pages, q)) ELSE At(pages, q)
<1>1. Rec(k).rid \in Rid /\ Rec(k).new \in Slot
  BY WriteFacts
<1>2. CASE Rec(k).type # "INSERT" /\ At(pages, Rec(k).rid) = Nil
  BY <1>2 DEF Redone, RedoneSlot
<1>3. CASE ~(Rec(k).type # "INSERT" /\ At(pages, Rec(k).rid) = Nil)
  <2>1. Redone(pages, k) = Put(pages, Rec(k).rid, Rec(k).new)
    BY <1>3 DEF Redone
  <2>2. QED BY <1>1, <1>3, <2>1, PutPages DEF RedoneSlot
<1>4. QED BY <1>2, <1>3

\* Undo of the record k.
UndoneSlot(k, x) ==
    IF Rec(k).type = "DELETE" THEN IF x = Nil THEN Rec(k).old ELSE x
    ELSE IF x # Nil /\ x.trx = Rec(k).txn THEN Rec(k).old ELSE x

LEMMA UndonePages ==
    ASSUME Base, Histories, NEW k \in Pos(log), IsWrite(k), NEW pages, IsPages(pages)
    PROVE  /\ IsPages(Undone(pages, k))
           /\ \A p \in PageNo : Undone(pages, k)[p].lsn = pages[p].lsn
           /\ \A q \in Rid : At(Undone(pages, k), q) =
                  IF q = Rec(k).rid THEN UndoneSlot(k, At(pages, q)) ELSE At(pages, q)
<1> DEFINE r == Rec(k).rid
           x == At(pages, r)
           puts == IF Rec(k).type = "DELETE" THEN x = Nil ELSE x # Nil /\ x.trx = Rec(k).txn
<1>1. r \in Rid /\ Rec(k).old \in Slot
  BY WriteFacts
<1>2. CASE puts
  <2>1. Undone(pages, k) = Put(pages, r, Rec(k).old) /\ UndoneSlot(k, x) = Rec(k).old
    BY <1>2 DEF Undone, UndoneDelete, UndoneSlot
  <2>2. QED BY <1>1, <2>1, PutPages
<1>3. CASE ~puts
  <2>1. Undone(pages, k) = pages /\ UndoneSlot(k, x) = x
    BY <1>3 DEF Undone, UndoneDelete, UndoneSlot
  <2>2. QED BY <2>1
<1>4. QED BY <1>2, <1>3

\* The last record of an unfinished transaction.
LEMMA LastRecord ==
    ASSUME Base, NEW t \in Txn, Unfinished(t)
    PROVE  /\ LastLsn(t) \in Pos(log) /\ log[LastLsn(t) + 1].txn = t
           /\ \A k \in Pos(log) : log[k + 1].txn = t => k <= LastLsn(t)
<1> DEFINE S == {k \in Lsns : Rec(k).txn = t}
<1>1. Lsns = Pos(log) /\ Len(log) \in Nat /\ \A k \in Pos(log) : Rec(k) = log[k + 1]
  BY TypesOfState
<1>2. S # {} /\ S \subseteq 0 .. Len(log)
  BY <1>1 DEF Unfinished, Pos
<1>3. Max(S) \in S /\ \A y \in S : y <= Max(S)
  BY <1>1, <1>2, MaxIsGreatest
<1>4. LastLsn(t) = Max(S)
  BY DEF LastLsn
<1>5. QED BY <1>1, <1>3, <1>4

LEMMA RecoveryTypes ==
    ASSUME Base, Histories, Redo, Undo,
           RedoSkip \/ RedoApply \/ RedoStamp \/ RedoEnd \/ (\E t \in Txn : UndoTxn(t))
           \/ UndoRecord \/ UndoBegin \/ UndoEnd
    PROVE  Kept2'
<1>1. /\ TypeLog /\ TypePages /\ TypeTxns /\ TypeRest /\ IsPages(mem) /\ IsPages(disk)
      /\ Lsns = Pos(log) /\ Len(log) \in Nat /\ \A k \in Pos(log) : k \in 0 .. Len(log) - 1
  BY BaseParts, TypesOfState DEF Pos
<1>2. UNCHANGED <<log, writes, stops, recreated>> /\ Lsns' = Lsns
  BY DEF RedoSkip, RedoApply, RedoStamp, RedoEnd, UndoTxn, UndoRecord, UndoBegin, UndoEnd, ghosts,
         Lsns
<1>3. SUFFICES /\ IsPages(mem') /\ IsPages(disk')
               /\ mode' \in {"down", "redo", "undo", "ready", "failed", "run"}
               /\ pos' \in 0 .. Len(log) /\ applied' \in BOOLEAN /\ att' \subseteq Txn
               /\ undoing' \in [txn : Txn \cup {Nil}, lsn : {INVALID_LSN} \cup Lsns]
  BY <1>1, <1>2, PagesInLog DEF Kept2, TypeRest
<1>4. CASE RedoSkip
  BY <1>1, <1>4 DEF RedoSkip, TypeRest
<1>5. CASE RedoApply
  <2>1. pos \in Pos(log) /\ IsWrite(pos)
    BY <1>1, <1>5 DEF RedoApply, TypeRest, Pos
  <2>2. IsPages(Redone(mem, pos))
    BY <1>1, <2>1, RedonePages
  <2>3. QED BY <1>1, <1>5, <2>2 DEF RedoApply, TypeRest
<1>6. CASE RedoStamp
  <2>1. pos < Len(log) /\ IsW(log, pos) /\ pos \in Pos(log)
    BY <1>1, <1>6 DEF RedoStamp, Redo, TypeRest, Pos
  <2>2. Rec(pos).rid \in Rid
    BY <2>1, WriteFacts
  <2>3. IsPages(Stamp(mem, pos))
    BY <1>1, <2>1, <2>2, StampPages
  <2>4. /\ mem' = Stamp(mem, pos) /\ pos' = pos + 1 /\ applied' = FALSE
        /\ UNCHANGED <<mode, disk, att, undoing>>
    BY <1>6 DEF RedoStamp
  <2>5. pos' \in 0 .. Len(log)
    BY <1>1, <2>1, <2>4 DEF TypeRest
  <2>6. QED BY <1>1, <2>3, <2>4, <2>5 DEF TypeRest
<1>7. CASE RedoEnd
  BY <1>1, <1>7 DEF RedoEnd, TypeRest
<1>8. CASE \E t \in Txn : UndoTxn(t)
  <2>1. PICK t \in Txn : UndoTxn(t)
    BY <1>8
  <2>2. LastLsn(t) \in Lsns
    BY <1>1, <2>1, LastRecord DEF UndoTxn, Undo
  <2>3. undoing' \in [txn : Txn \cup {Nil}, lsn : {INVALID_LSN} \cup Lsns]
    BY <2>1, <2>2 DEF UndoTxn
  <2>4. QED BY <1>1, <2>1, <2>3 DEF UndoTxn, TypeRest
<1>9. CASE UndoRecord
  <2>1. /\ undoing.lsn \in Pos(log) /\ IsWrite(undoing.lsn)
        /\ undoing' = [undoing EXCEPT !.lsn = Rec(undoing.lsn).prev]
    BY <1>1, <1>9 DEF UndoRecord, TypeRest
  <2>2. IsPages(Undone(mem, undoing.lsn)) /\ Rec(undoing.lsn).prev \in Lsns
    BY <1>1, <2>1, UndonePages, WriteFacts DEF Chained
  <2>3. undoing' \in [txn : Txn \cup {Nil}, lsn : {INVALID_LSN} \cup Lsns]
    <3> DEFINE A == {INVALID_LSN} \cup Lsns
    <3>1. undoing \in [txn : Txn \cup {Nil}, lsn : A] /\ Rec(undoing.lsn).prev \in A
      BY <1>1, <2>2 DEF TypeRest
    <3> HIDE DEF A
    <3>2. undoing' \in [txn : Txn \cup {Nil}, lsn : A]
      BY <2>1, <3>1
    <3>3. QED BY <3>2 DEF A
  <2>4. mode' \in {"undo", "failed"} /\ IsPages(mem')
    BY <1>1, <1>9, <2>2 DEF UndoRecord
  <2>5. UNCHANGED <<disk, pos, applied, att>>
    BY <1>9 DEF UndoRecord
  <2>6. QED BY <1>1, <2>3, <2>4, <2>5 DEF TypeRest
<1>10. CASE UndoBegin
  <2>1. NoUndo \in [txn : Txn \cup {Nil}, lsn : {INVALID_LSN} \cup Lsns]
    BY DEF NoUndo
  <2>2. QED BY <1>1, <1>10, <2>1 DEF UndoBegin, TypeRest
<1>11. CASE UndoEnd
  BY <1>1, <1>11 DEF UndoEnd, TypeRest, recovering
<1>12. QED BY <1>4, <1>5, <1>6, <1>7, <1>8, <1>9, <1>10, <1>11

(***************************************************************************)
(* The first run.                                                          *)
(***************************************************************************)

NoWrites(b) == \A k \in DOMAIN b : b[k].type \notin Writes

LEMMA AppendedNote ==
    ASSUME NEW b \in Seq(LogRecord), NEW x, x.type \notin Writes, NoWrites(b), x \in LogRecord
    PROVE  NoWrites(Append(b, x))
<1>1. /\ DOMAIN b = 1 .. Len(b) /\ DOMAIN Append(b, x) = 1 .. Len(b) + 1 /\ Len(b) \in Nat
      /\ \A k \in 1 .. Len(b) : Append(b, x)[k] = b[k]
      /\ Append(b, x)[Len(b) + 1] = x
  OBVIOUS
<1>2. \A k \in DOMAIN Append(b, x) : k \in DOMAIN b \/ k = Len(b) + 1
  BY <1>1
<1>3. QED BY <1>1, <1>2 DEF NoWrites

LEMMA FirstRunKept ==
    ASSUME Base, Idle, FirstRun, Redo, Next
    PROVE  FirstRun'
<1>1. /\ TypeLog /\ TypePages /\ TypeTxns /\ TypeRest /\ 0 \in Lsns /\ stops \in Nat
      /\ IsPages(mem) /\ IsPages(disk)
  BY BaseParts, TypesOfState DEF TypeRest
<1>2. /\ stops = 0 => \A p \in PageNo : disk[p].lsn = 0 /\ mem[p].lsn = 0
      /\ stops > 0 /\ ~reused => (\A t \in Txn : pending[t] = Nil) /\ NoWrites(buffer)
  BY DEF FirstRun, NoWrites
<1>3. SUFFICES /\ stops' = 0 => \A p \in PageNo : disk'[p].lsn = 0 /\ mem'[p].lsn = 0
               /\ stops' > 0 /\ ~reused' => (\A t \in Txn : pending'[t] = Nil) /\ NoWrites(buffer')
  BY DEF FirstRun, NoWrites
<1>4. NoWrites(<<>>)
  BY DEF NoWrites
<1>5. \A type \in {"begin", "commit", "ABORT"} : \A t \in Txn :
          NoWrites(buffer) => NoWrites(Append(buffer, Note(type, t, INVALID_LSN)))
  <2>1. ASSUME NEW type \in {"begin", "commit", "ABORT"}, NEW t \in Txn, NoWrites(buffer)
        PROVE  NoWrites(Append(buffer, Note(type, t, INVALID_LSN)))
    <3>1. Note(type, t, INVALID_LSN) \in LogRecord /\ Note(type, t, INVALID_LSN).type = type
      BY NoteFacts DEF INVALID_LSN
    <3>2. type \notin Writes
      BY DEF Writes
    <3>3. QED BY <1>1, <2>1, <3>1, <3>2, AppendedNote DEF TypeLog
  <2>2. QED BY <2>1
<1>6. CASE \E t \in Txn : Begin(t) \/ Commit(t) \/ End(t)
  <2>1. PICK t \in Txn : Begin(t) \/ Commit(t) \/ End(t)
    BY <1>6
  <2>2. /\ UNCHANGED <<disk, mem, stops, reused, pending>>
        /\ \/ buffer' = buffer
           \/ \E type \in {"begin", "commit", "ABORT"} :
                  buffer' = Append(buffer, Note(type, t, INVALID_LSN))
    BY <2>1 DEF Begin, Commit, End, ghosts
  <2>3. QED BY <1>2, <1>5, <2>2
<1>7. CASE \E t \in Txn : Abort(t)
  <2>1. PICK t \in Txn : Abort(t)
    BY <1>7
  <2>2. /\ UNCHANGED <<disk, stops, reused, pending>> /\ mem' = Restored(t)
        /\ buffer' = Append(buffer, Note("ABORT", t, INVALID_LSN))
    BY <2>1 DEF Abort, ghosts
  <2>3. \A p \in PageNo : Restored(t)[p].lsn = mem[p].lsn
    BY <1>1, RestoredPages DEF TypeTxns
  <2>4. QED BY <1>2, <1>5, <2>2, <2>3
<1>8. CASE \E t \in Txn : \E r \in Rid : Insert(t, r) \/ Update(t, r) \/ Delete(t, r)
  <2>0. PICK t \in Txn, r \in Rid : Insert(t, r) \/ Update(t, r) \/ Delete(t, r)
    BY <1>8
  <2>1. PICK x, c : Changed(t, r, x, c)
    BY <2>0, ChangeIsChanged
  <2>2. /\ UNCHANGED <<disk, stops>> /\ mem' = Put(mem, r, x) /\ x \in Slot
        /\ reused' = (reused \/ stops > 0)
    BY <2>1 DEF Changed, Change
  <2>3. \A p \in PageNo : Put(mem, r, x)[p].lsn = mem[p].lsn
    BY <1>1, <2>2, PutPages
  <2>4. QED BY <1>2, <2>2, <2>3
<1>9. CASE \E t \in Txn : AppendRecord(t)
  BY <1>2, <1>9 DEF AppendRecord, ghosts
<1>10. CASE FlushLog
  BY <1>2, <1>4, <1>10 DEF FlushLog, ghosts, running
<1>11. CASE \E p \in PageNo : FlushPage(p)
  <2>1. PICK p \in PageNo : FlushPage(p)
    BY <1>11
  <2>2. /\ UNCHANGED <<mem, stops, reused, pending, buffer>>
        /\ disk' = [disk EXCEPT ![p] = mem[p]]
    BY <2>1 DEF FlushPage, running
  <2>3. \A q \in PageNo : disk'[q].lsn = IF q = p THEN mem[q].lsn ELSE disk[q].lsn
    BY <1>1, <2>2, CopiedPage
  <2>4. QED BY <1>2, <2>2, <2>3
<1>12. CASE RecreateTable
  <2>1. mem' = Empty /\ disk' = Empty /\ UNCHANGED <<stops, reused, pending, buffer>>
    BY <1>12 DEF RecreateTable, running
  <2>2. QED BY <1>1, <1>2, <2>1, EmptyPages
<1>13. CASE Crash \/ Shutdown
  <2>1. stops' = stops + 1 /\ buffer' = <<>> /\ pending' = [t \in Txn |-> Nil]
    BY <1>13 DEF Crash, Shutdown, Stopped
  <2>2. QED BY <1>1, <1>4, <2>1
<1>14. CASE RecoveryStep
  <2>1. mode # "run" /\ UNCHANGED <<stops, reused, pending, buffer>>
    <3>1. CASE Analyze \/ RedoSkip \/ RedoApply \/ RedoEnd \/ (\E t \in Txn : UndoTxn(t))
      BY <3>1 DEF Analyze, RedoSkip, RedoApply, RedoEnd, UndoTxn, running, ghosts
    <3>2. CASE UndoRecord \/ UndoBegin \/ UndoEnd \/ Serve
      BY <3>2 DEF UndoRecord, UndoBegin, UndoEnd, Serve, running, ghosts
    <3>3. CASE RedoStamp
      BY <3>3 DEF RedoStamp, Redo, running, ghosts
    <3>4. QED BY <1>14, <3>1, <3>2, <3>3 DEF RecoveryStep
  <2>2. stops # 0
    BY <2>1 DEF Idle
  <2>3. QED BY <1>2, <2>1, <2>2
<1>15. QED BY <1>6, <1>7, <1>8, <1>9, <1>10, <1>11, <1>12, <1>13, <1>14 DEF Next, TxnStep

(***************************************************************************)
(* The contents of a slot.                                                 *)
(***************************************************************************)

LEMMA OnIsWrite ==
    ASSUME NEW h, NEW r
    PROVE  \A k \in On(h, r) : /\ k \in Pos(h) /\ k \in Int /\ k >= 0 /\ k < Len(h)
                               /\ IsW(h, k) /\ h[k + 1].rid = r
BY DEF On, Pos

\* Records that do not write the slot leave its content.
LEMMA HoldsMoves ==
    ASSUME NEW h, NEW r, NEW x, NEW m \in Int, NEW n \in Int, m <= n,
           \A k \in On(h, r) : ~(m <= k /\ k < n)
    PROVE  Holds(h, x, r, m) <=> Holds(h, x, r, n)
<1>1. \A k \in On(h, r) : k \in Int /\ (k < m <=> k < n) /\ (k >= m <=> k >= n)
  BY OnIsWrite
<1>2. QED BY <1>1 DEF Holds

LEMMA HoldsGrows ==
    ASSUME NEW h, NEW g, Extends(h, g), NEW r, On(g, r) = On(h, r), NEW x
    PROVE  Holds(h, x, r, Len(h)) <=> Holds(g, x, r, Len(g))
<1>1. Len(h) \in Nat /\ Len(g) \in Nat /\ Len(h) <= Len(g)
  BY DEF Extends, History
<1>2. Holds(g, x, r, Len(h)) <=> Holds(h, x, r, Len(h))
  BY <1>1, ExtendedLives
<1>3. \A k \in On(g, r) : ~(Len(h) <= k /\ k < Len(g))
  BY <1>1, OnIsWrite
<1>4. QED BY <1>1, <1>2, <1>3, HoldsMoves

\* A write puts its new content into the slot.
LEMMA HoldsWritten ==
    ASSUME NEW h, NEW r, NEW k \in On(h, r), NEW x, Same(x, h[k + 1].new)
    PROVE  Holds(h, x, r, k + 1)
<1>1. \A j \in On(h, r) : j \in Int
  BY OnIsWrite
<1>2. \A j \in On(h, r) : (j < k + 1 /\ \A i \in On(h, r) : i < k + 1 => i <= j) => j = k
  BY <1>1
<1>3. QED BY <1>1, <1>2 DEF Holds

\* There is one content.
LEMMA HoldsOne ==
    ASSUME NEW h, History(h), NEW r, NEW n \in Nat, NEW x \in Slot, NEW y \in Slot,
           Holds(h, x, r, n), Holds(h, y, r, n)
    PROVE  Same(x, y)
<1> DEFINE W == {k \in On(h, r) : k < n}
<1>1. CASE W = {}
  <2>1. \A k \in On(h, r) : k \in Int /\ ~(k < n)
    BY <1>1, OnIsWrite
  <2>2. x = Nil /\ y = Nil
    BY <2>1 DEF Holds
  <2>3. QED BY <2>2 DEF Same
<1>2. CASE W # {}
  <2>1. W \subseteq 0 .. n
    BY OnIsWrite
  <2>2. Max(W) \in W /\ \A k \in W : k <= Max(W)
    BY <1>2, <2>1, MaxIsGreatest
  <2>3. PICK m \in On(h, r) : m < n /\ \A k \in On(h, r) : k < n => k <= m
    BY <2>2
  <2>4. Same(x, h[m + 1].new) /\ Same(y, h[m + 1].new)
    BY <2>3 DEF Holds
  <2>5. h[m + 1].new \in Slot
    BY <2>3, OnIsWrite, RecordFields DEF History
  <2>6. QED BY <2>4, <2>5, SameIsEquivalence
<1>3. QED BY <1>1, <1>2

\* After a write of a running transaction come only its own.
LEMMA LockedLife ==
    ASSUME NEW h, NEW p, NEW l, Locked(h, p, l), NEW r \in Rid, NEW j \in On(h, r), Active(h, p, j),
           NEW k \in On(h, r), k > j
    PROVE  h[k + 1].txn = h[j + 1].txn /\ OneLife(h, j, k) /\ Active(h, p, k)
<1>1. h[k + 1].txn = h[j + 1].txn
  BY DEF Locked
<1>2. \A i \in Pos(h) : i \in Int
  BY DEF Pos
<1>3. j \in Int /\ k \in Int
  BY OnIsWrite
<1>4. OneLife(h, j, k)
  BY <1>1 DEF OneLife, NoneIn, Active, Current, NoneAfter
<1>5. Active(h, p, k)
  <2>1. \A e \in Pos(h) : e > k => e > j
    BY <1>2, <1>3
  <2>2. QED BY <1>1, <2>1 DEF Active, Current, NoneAfter
<1>6. QED BY <1>1, <1>4, <1>5

LEMMA SoundBack ==
    ASSUME NEW h, NEW p, NEW g, NEW q, BackStep(h, p, g, q), NEW W, Sound(g, q, W),
           \A j \in W : j \in Pos(h) /\ j \in Pos(g) /\ IsW(h, j)
    PROVE  Sound(h, p, W)
BY DEF Sound, BackStep

\* A slot with a lost delete has been one, or all that wrote it have committed or run.
LEMMA LostDeleteBack ==
    ASSUME NEW h, NEW p, NEW g, NEW q, BackStep(h, p, g, q), NEW l, Locked(h, p, l), NEW r \in Rid,
           NEW W, W \subseteq On(h, r), \A j \in W : j \in Pos(g) /\ g[j + 1] = h[j + 1],
           NEW lg, NEW lh, NEW k \in W, LostDelete(g, lg, W, k), Losing(lg, k) => Losing(lh, k)
    PROVE  LostDelete(h, lh, W, k) \/ Sound(h, p, W)
<1>1. \A j \in W : j \in On(h, r) /\ j \in Pos(h) /\ IsW(h, j) /\ j \in Int
  BY OnIsWrite
<1>2. /\ Losing(lh, k) /\ h[k + 1].type = "DELETE"
      /\ \A j \in W : j <= k /\ (j # k => Done(g, j))
  BY DEF LostDelete
<1>3. \A j \in W : j # k => Done(h, j) \/ Active(h, p, j)
  BY <1>1, <1>2 DEF BackStep
<1>4. CASE \A j \in W : j # k => Done(h, j)
  BY <1>2, <1>4 DEF LostDelete
<1>5. CASE \E j \in W : j # k /\ ~Done(h, j)
  <2>1. PICK j \in W : j # k /\ Active(h, p, j)
    BY <1>3, <1>5
  <2>2. k > j
    BY <1>1, <1>2, <2>1
  <2>3. Active(h, p, k)
    BY <1>1, <2>1, <2>2, LockedLife
  <2>4. QED BY <1>3, <2>3 DEF Sound
<1>6. QED BY <1>4, <1>5

\* Changes still start from what the changes before them have left.
LEMMA FaithfulGrows ==
    ASSUME NEW h, NEW g, Extends(h, g), NEW p, NEW q, BackStep(h, p, g, q),
           NEW l, Locked(h, p, l), Faithful(h),
           \A r \in Rid : \A k \in On(g, r) : k \notin Pos(h) =>
               ((\A j \in On(g, r) : j < k => Done(g, j) \/ OneLife(g, j, k))
                    => Holds(g, g[k + 1].old, r, k))
    PROVE  Faithful(g)
<1>1. SUFFICES ASSUME NEW r \in Rid, NEW k \in On(g, r), k \in Pos(h),
                      \A j \in On(g, r) : j < k => Done(g, j) \/ OneLife(g, j, k)
               PROVE  Holds(g, g[k + 1].old, r, k)
  BY DEF Faithful
<1>2. /\ On(h, r) = On(g, r) \cap Pos(h) /\ k \in On(h, r) /\ g[k + 1] = h[k + 1]
      /\ k \in 0 .. Len(h) /\ k \in Int
  <2>1. On(h, r) = On(g, r) \cap Pos(h)
    BY ExtendedLives
  <2>2. QED BY <1>1, <2>1 DEF Extends, History, Pos
<1>3. ASSUME NEW j \in On(h, r), j < k PROVE Done(h, j) \/ OneLife(h, j, k)
  <2>1. j \in Pos(h) /\ j \in Pos(g) /\ j \in On(g, r) /\ IsW(h, j)
    BY <1>2, OnIsWrite
  <2>2. Done(g, j) \/ OneLife(g, j, k)
    BY <1>1, <1>3, <2>1
  <2>3. CASE OneLife(g, j, k)
    BY <1>1, <2>1, <2>3, ExtendedLives
  <2>4. CASE Done(g, j)
    <3>1. Done(h, j) \/ Active(h, p, j)
      BY <2>1, <2>4 DEF BackStep
    <3>2. k > j
      BY <1>2, <1>3, <2>1, OnIsWrite
    <3>3. QED BY <1>2, <3>1, <3>2, LockedLife
  <2>5. QED BY <2>2, <2>3, <2>4
<1>4. Holds(h, h[k + 1].old, r, k)
  BY <1>2, <1>3 DEF Faithful
<1>5. QED BY <1>2, <1>4, ExtendedLives

LEMMA FaithfulNextGrows ==
    ASSUME NEW h, NEW g, Extends(h, g), NEW p, NEW q, BackStep(h, p, g, q),
           NEW l, Locked(h, p, l), NEW pend, NEW new, FaithfulNext(h, pend),
           \A t \in Txn : new[t] # Nil =>
               /\ pend[t] = new[t] /\ new[t].rid \in Rid /\ l[new[t].rid] = t
               /\ On(g, new[t].rid) = On(h, new[t].rid)
    PROVE  FaithfulNext(g, new)
<1>1. SUFFICES ASSUME NEW t \in Txn, new[t] # Nil,
                      \A j \in On(g, new[t].rid) : Done(g, j) \/ Current(g, j, t)
               PROVE  Holds(g, new[t].old, new[t].rid, Len(g))
  BY DEF FaithfulNext
<1> DEFINE r == new[t].rid
<1>2. pend[t] = new[t] /\ r \in Rid /\ l[r] = t /\ On(g, r) = On(h, r)
  BY <1>1
<1>3. ASSUME NEW j \in On(h, r) PROVE Done(h, j) \/ Current(h, j, t)
  <2>1. j \in Pos(h) /\ j \in Pos(g) /\ IsW(h, j) /\ g[j + 1] = h[j + 1]
    BY <1>2, OnIsWrite DEF Extends
  <2>2. CASE Current(g, j, t)
    <3>1. NoneAfter(h, j, {"begin"})
      BY <2>1, <2>2, ExtendedLives DEF Current
    <3>2. QED BY <2>1, <2>2, <3>1 DEF Current
  <2>3. CASE Done(g, j)
    <3>1. Done(h, j) \/ Active(h, p, j)
      BY <2>1, <2>3 DEF BackStep
    <3>2. Active(h, p, j) => Current(h, j, t)
      BY <1>2 DEF Locked, Active
    <3>3. QED BY <3>1, <3>2
  <2>4. QED BY <1>1, <1>2, <2>2, <2>3
<1>4. Holds(h, new[t].old, r, Len(h))
  BY <1>1, <1>2, <1>3 DEF FaithfulNext
<1>5. QED BY <1>2, <1>4, HoldsGrows

\* A slot of a page while the server runs.
LEMMA ReliableKept ==
    ASSUME NEW lg, NEW h, Extends(lg, h), NEW g, Extends(h, g), NEW p, NEW q, BackStep(h, p, g, q),
           NEW l, Locked(h, p, l), NEW r \in Rid, NEW x, NEW n, NEW e, NEW f, e => f,
           Reliable(lg, h, p, x, r, n, e)
    PROVE  Reliable(lg, g, q, x, r, n, f)
<1>1. \A j \in On(lg, r) : /\ j \in On(h, r) /\ j \in Pos(h) /\ IsW(h, j)
                           /\ j \in Pos(g) /\ g[j + 1] = h[j + 1]
  <2>1. On(lg, r) = On(h, r) \cap Pos(lg)
    BY ExtendedLives
  <2>2. \A j \in Pos(h) : j \in Pos(g) /\ g[j + 1] = h[j + 1]
    BY DEF Extends, History, Pos
  <2>3. QED BY <2>1, <2>2, OnIsWrite
<1>2. Ahead(lg, x, r, n, e) => Ahead(lg, x, r, n, f)
  BY DEF Ahead
<1>3. Sound(g, q, On(lg, r)) => Sound(h, p, On(lg, r))
  BY <1>1, SoundBack
<1>4. ASSUME NEW k \in On(lg, r), LostDelete(g, lg, On(lg, r), k)
      PROVE  Ahead(lg, x, r, n, f) \/ Holds(lg, x, r, k)
  <2>1. On(lg, r) \subseteq On(h, r)
    BY <1>1
  <2>2. LostDelete(h, lg, On(lg, r), k) \/ Sound(h, p, On(lg, r))
    BY <1>1, <1>4, <2>1, LostDeleteBack
  <2>3. QED BY <1>2, <2>2 DEF Reliable
<1>5. QED BY <1>2, <1>3, <1>4 DEF Reliable

\* The log comes to have all records of the history.
LEMMA ReliableFlushed ==
    ASSUME NEW lg, NEW h, Extends(lg, h), NEW p, Buffered(h, p, Len(lg)), NEW r \in Rid, NEW x,
           NEW n \in Nat, n <= Len(lg), NEW e, Reliable(lg, h, p, x, r, n, e)
    PROVE  Reliable(h, h, p, x, r, n, e)
<1>1. /\ Len(lg) \in Nat /\ Len(h) \in Nat /\ Len(lg) <= Len(h)
      /\ On(lg, r) = On(h, r) \cap Pos(lg)
      /\ \A k \in On(h, r) : k \in Int /\ k \in Pos(h) /\ (k \in Pos(lg) <=> k < Len(lg))
  <2>1. Len(lg) \in Nat /\ Len(h) \in Nat /\ Len(lg) <= Len(h)
    BY DEF Extends, History
  <2>2. On(lg, r) = On(h, r) \cap Pos(lg)
    BY ExtendedLives
  <2>3. ASSUME NEW k \in On(h, r) PROVE k \in Int /\ k \in Pos(h) /\ (k \in Pos(lg) <=> k < Len(lg))
    BY <2>1, OnIsWrite DEF Pos
  <2>4. QED BY <2>1, <2>2, <2>3
<1>2. Ahead(lg, x, r, n, e) => Ahead(h, x, r, n, e)
  <2>1. ASSUME NEW m \in n .. Len(lg), Holds(lg, x, r, m) PROVE \E i \in n .. Len(h) : Holds(h, x, r, i)
    <3>1. m \in 0 .. Len(lg) /\ m \in n .. Len(h)
      BY <1>1
    <3>2. Holds(h, x, r, m)
      BY <2>1, <3>1, ExtendedLives
    <3>3. QED BY <3>1, <3>2
  <2>2. (\A k \in On(lg, r) : k >= n) => \A k \in On(h, r) : k >= n
    BY <1>1
  <2>3. QED BY <2>1, <2>2 DEF Ahead
<1>3. Sound(h, p, On(h, r)) => Ahead(h, x, r, n, e)
  <2>1. Sound(h, p, On(h, r)) => Sound(h, p, On(lg, r))
    BY <1>1 DEF Sound
  <2>2. QED BY <1>2, <2>1 DEF Reliable
<1>4. ASSUME NEW k \in On(h, r), LostDelete(h, h, On(h, r), k)
      PROVE  Ahead(h, x, r, n, e) \/ Holds(h, x, r, k)
  <2>1. /\ Losing(h, k) /\ h[k + 1].type = "DELETE"
        /\ \A j \in On(h, r) : j <= k /\ (j # k => Done(h, j))
    BY <1>4 DEF LostDelete
  <2>2. CASE k \in Pos(lg)
    <3>1. Losing(lg, k)
      BY <2>1, <2>2, ExtendedLives DEF Losing
    <3>2. LostDelete(h, lg, On(lg, r), k)
      BY <1>1, <2>1, <2>2, <3>1 DEF LostDelete
    <3>3. k \in 0 .. Len(lg) /\ k \in On(lg, r)
      BY <1>1, <2>2, OnIsWrite
    <3>4. Holds(lg, x, r, k) => Holds(h, x, r, k)
      BY <3>3, ExtendedLives
    <3>5. QED BY <1>2, <3>2, <3>3, <3>4 DEF Reliable
  <2>3. CASE k \notin Pos(lg)
    <3>1. k >= Len(lg) /\ IsW(h, k) /\ k \in Pos(h)
      BY <1>1, <2>3, OnIsWrite
    <3>2. Active(h, p, k)
      BY <2>1, <3>1 DEF Buffered, Losing
    <3>3. Sound(h, p, On(lg, r))
      BY <1>1, <2>1, <2>3 DEF Sound
    <3>4. QED BY <1>2, <3>3 DEF Reliable
  <2>4. QED BY <2>2, <2>3
<1>5. QED BY <1>3, <1>4 DEF Reliable

\* The records that are not in the log are lost, and no transaction runs.
LEMMA ReliableStopped ==
    ASSUME NEW lg, NEW h, Extends(lg, h), NEW p, NEW q, CommitIsLast(h),
           \A j \in Pos(lg) : ~Active(lg, q, j), NEW r \in Rid, NEW x, NEW n, NEW e,
           Reliable(lg, h, p, x, r, n, e)
    PROVE  Reliable(lg, lg, q, x, r, n, e)
<1>1. \A j \in On(lg, r) : j \in Pos(lg) /\ h[j + 1] = lg[j + 1]
  BY OnIsWrite DEF Extends
<1>2. \A j \in On(lg, r) : Done(lg, j) => Done(h, j)
  BY <1>1, AfterLoss
<1>3. Sound(lg, q, On(lg, r)) => Sound(h, p, On(lg, r))
  BY <1>1, <1>2 DEF Sound
<1>4. \A k \in On(lg, r) : LostDelete(lg, lg, On(lg, r), k) => LostDelete(h, lg, On(lg, r), k)
  BY <1>1, <1>2 DEF LostDelete
<1>5. QED BY <1>3, <1>4 DEF Reliable

\* A step after which all writes of the slot that had committed or ran still have or do.
ForthStep(h, p, g, q, r) ==
    \A j \in On(h, r) : (Done(h, j) => Done(g, j)) /\ (Active(h, p, j) => Active(g, q, j) \/ Done(g, j))

LEMMA UpToDateKept ==
    ASSUME NEW lg, NEW h, Extends(lg, h), NEW g, Extends(h, g), NEW p, NEW q, BackStep(h, p, g, q),
           NEW l, Locked(h, p, l), NEW r \in Rid, On(g, r) = On(h, r), ForthStep(h, p, g, q, r),
           NEW x, NEW c, NEW d, d => c, UpToDate(h, lg, p, x, r, c)
    PROVE  UpToDate(g, lg, q, x, r, d)
<1>1. \A j \in On(h, r) : /\ j \in Pos(h) /\ IsW(h, j) /\ j \in Pos(g) /\ g[j + 1] = h[j + 1]
                          /\ j \in 0 .. Len(h)
  <2>1. \A j \in Pos(h) : j \in Pos(g) /\ g[j + 1] = h[j + 1]
    BY DEF Extends, History, Pos
  <2>2. QED BY <2>1, OnIsWrite DEF Extends, History
<1>2. Sound(g, q, On(h, r)) => Sound(h, p, On(h, r))
  BY <1>1, SoundBack
<1>3. Sound(g, q, On(g, r)) /\ (On(g, r) # {} \/ d) => Holds(g, x, r, Len(g))
  <2>1. Holds(h, x, r, Len(h)) => Holds(g, x, r, Len(g))
    BY HoldsGrows
  <2>2. QED BY <1>2, <2>1 DEF UpToDate
<1>4. ASSUME NEW k \in On(h, r), LostDelete(g, lg, On(h, r), k), ~Done(g, k), ~Active(g, q, k)
      PROVE  Holds(g, x, r, k)
  <2>1. ~Done(h, k) /\ ~Active(h, p, k)
    BY <1>4 DEF ForthStep
  <2>2. ~Sound(h, p, On(h, r))
    BY <2>1 DEF Sound
  <2>3. LostDelete(h, lg, On(h, r), k)
    BY <1>1, <1>4, <2>2, LostDeleteBack
  <2>4. Holds(h, x, r, k)
    BY <2>1, <2>3 DEF UpToDate
  <2>5. QED BY <1>1, <2>4, ExtendedLives
<1>5. QED BY <1>3, <1>4 DEF UpToDate

\* The change of the slot is logged.
LEMMA UpToDateWritten ==
    ASSUME NEW lg, NEW h, Extends(lg, h), NEW g, NEW x, GrowsBy(h, g, x), x.type \in Writes,
           NEW r, r = x.rid, NEW y, Same(y, x.new), NEW p, NEW c
    PROVE  UpToDate(g, lg, p, y, r, c)
<1>1. /\ Len(h) \in Nat /\ Len(g) = Len(h) + 1 /\ Len(h) \in Pos(g) /\ g[Len(h) + 1] = x
      /\ Len(lg) \in Nat /\ Len(lg) <= Len(h)
  BY DEF GrowsBy, Extends, History, Pos
<1>2. Len(h) \in On(g, r)
  BY <1>1 DEF On, IsW
<1>3. Holds(g, y, r, Len(g))
  BY <1>1, <1>2, HoldsWritten
<1>4. ASSUME NEW k \in On(g, r), LostDelete(g, lg, On(g, r), k) PROVE FALSE
  <2>1. k >= Len(h) /\ k \in Pos(lg)
    BY <1>2, <1>4 DEF LostDelete, Losing
  <2>2. QED BY <1>1, <2>1 DEF Pos
<1>5. QED BY <1>3, <1>4 DEF UpToDate

\* The change of the slot is undone by the transaction t.
LEMMA UpToDateAborted ==
    ASSUME NEW lg, NEW h, NEW g, NEW x, GrowsBy(h, g, x), NEW t \in Txn, x.type = "ABORT",
           x.txn = t, NEW p, NEW q, NEW prev, Lives(h, p, prev), Moves(p, q, t, "active", "aborting"),
           Faithful(h), NEW r \in Rid, NEW c, NEW d, NEW j \in On(h, r), Current(h, j, t), NEW y,
           (\A i \in On(h, r) : i < j => ~Current(h, i, t)) => y = h[j + 1].old
    PROVE  UpToDate(g, lg, q, y, r, d)
<1>1. /\ On(g, r) = On(h, r) /\ Extends(h, g) /\ History(h) /\ p[t] = "active"
      /\ "aborting" \in {"committing", "aborting"}
      /\ \A i \in On(h, r) : i \in Pos(h) /\ i \in 0 .. Len(h) /\ i \in Int /\ g[i + 1] = h[i + 1]
  <2>1. Extends(h, g) /\ History(h) /\ p[t] = "active" /\ "aborting" \in {"committing", "aborting"}
    BY DEF GrowsBy, Extends, Moves
  <2>2. On(g, r) = On(h, r)
    BY <2>1, AfterEnd
  <2>3. QED BY <2>1, <2>2, OnIsWrite DEF Extends, History
<1>2. \A i \in On(h, r) : Done(g, i) <=> Done(h, i)
  BY <1>1, AfterEnd
<1>3. \A i \in On(h, r) : Current(h, i, t) => ~Done(g, i) /\ ~Active(g, q, i)
  <2>1. ASSUME NEW i \in On(h, r), Current(h, i, t) PROVE ~Done(g, i) /\ ~Active(g, q, i)
    <3>1. ~Done(h, i)
      BY <1>1, <2>1, RunningHasNotEnded DEF Done
    <3>2. ~Active(g, q, i)
      BY <1>1, <2>1 DEF Active, Current, Moves
    <3>3. QED BY <1>2, <3>1, <3>2
  <2>2. QED BY <2>1
<1>4. ~Sound(g, q, On(g, r))
  BY <1>1, <1>3 DEF Sound
<1>5. ASSUME NEW k \in On(h, r), LostDelete(g, lg, On(h, r), k)
      PROVE  Holds(g, y, r, k)
  <2>1. \A i \in On(h, r) : i <= k /\ (i # k => Done(h, i))
    BY <1>2, <1>5 DEF LostDelete
  <2>2. k = j
    BY <1>2, <1>3, <2>1
  <2>3. \A i \in On(h, r) : i < j => ~Current(h, i, t)
    BY <1>1, <1>2, <1>3, <2>1, <2>2
  <2>4. y = h[k + 1].old
    BY <2>2, <2>3
  <2>5. \A i \in On(h, r) : i < k => Done(h, i)
    BY <1>1, <2>1
  <2>6. Holds(h, y, r, k)
    BY <2>4, <2>5 DEF Faithful
  <2>7. QED BY <1>1, <2>6, ExtendedLives
<1>6. QED BY <1>1, <1>4, <1>5 DEF UpToDate

\* The log comes to have all records of the history.
LEMMA UpToDateFlushed ==
    ASSUME NEW lg, NEW h, Extends(lg, h), NEW p, Buffered(h, p, Len(lg)), NEW r, NEW x, NEW c,
           UpToDate(h, lg, p, x, r, c)
    PROVE  UpToDate(h, h, p, x, r, c)
<1>1. ASSUME NEW k \in On(h, r), LostDelete(h, h, On(h, r), k), ~Done(h, k), ~Active(h, p, k)
      PROVE  Holds(h, x, r, k)
  <2>1. /\ k \in Pos(h) /\ NoneAfter(h, k, Ends3) /\ IsW(h, k)
    BY <1>1, OnIsWrite DEF LostDelete, Losing
  <2>2. ~(k >= Len(lg))
    BY <1>1, <2>1 DEF Buffered
  <2>3. k \in Pos(lg)
    BY <2>1, <2>2 DEF Extends, History, Pos
  <2>4. Losing(lg, k)
    BY <2>1, <2>3, ExtendedLives DEF Losing
  <2>5. LostDelete(h, lg, On(h, r), k)
    BY <1>1, <2>4 DEF LostDelete
  <2>6. QED BY <1>1, <2>5 DEF UpToDate
<1>2. QED BY <1>1 DEF UpToDate

(***************************************************************************)
(* The steps keep what the invariant says of the contents.                 *)
(***************************************************************************)

\* What recovery claims after a step it has claimed before.
LEMMA ClaimedBack ==
    ASSUME Base, Next
    PROVE  (Claimed' => Claimed) /\ (stolen => stolen')
<1>1. recreated \in Nat
  BY BaseParts DEF TypeRest
<1>2. (recreated' = 0 => recreated = 0) /\ (stolen => stolen') /\ (reused => reused')
  <2>1. CASE \E t \in Txn : Begin(t) \/ AppendRecord(t) \/ Commit(t) \/ Abort(t) \/ End(t)
    <3>1. PICK t \in Txn : Begin(t) \/ AppendRecord(t) \/ Commit(t) \/ Abort(t) \/ End(t)
      BY <2>1
    <3>2. UNCHANGED ghosts
      BY <3>1 DEF Begin, AppendRecord, Commit, Abort, End
    <3>3. UNCHANGED recreated /\ UNCHANGED stolen /\ UNCHANGED reused
      BY <3>2 DEF ghosts
    <3>4. QED BY <3>3, Zenon
  <2>2. CASE \E t \in Txn : \E r \in Rid : Insert(t, r) \/ Update(t, r) \/ Delete(t, r)
    <3>1. PICK t \in Txn, r \in Rid : Insert(t, r) \/ Update(t, r) \/ Delete(t, r)
      BY <2>2
    <3>2. \E x, c : Change(t, r, x, c)
      BY <3>1 DEF Insert, Update, Delete
    <3>3. UNCHANGED recreated /\ UNCHANGED stolen
      BY <3>2 DEF Change
    <3>4. reused => reused'
      BY <3>2 DEF Change
    <3>5. QED BY <3>3, <3>4, Zenon
  <2>3. CASE FlushLog \/ RecreateTable \/ Crash \/ Shutdown \/ (\E p \in PageNo : FlushPage(p))
    <3>1. CASE FlushLog \/ Crash \/ Shutdown
      <4>1. UNCHANGED recreated /\ UNCHANGED stolen /\ UNCHANGED reused
        BY <3>1 DEF FlushLog, Crash, Shutdown, ghosts
      <4>2. QED BY <4>1, Zenon
    <3>2. CASE RecreateTable
      <4>1. UNCHANGED stolen /\ UNCHANGED reused
        BY <3>2 DEF RecreateTable
      <4>2. recreated' = 0 => recreated = 0
        BY <1>1, <3>2 DEF RecreateTable
      <4>3. QED BY <4>1, <4>2, Zenon
    <3>3. CASE \E p \in PageNo : FlushPage(p)
      <4>1. UNCHANGED recreated /\ UNCHANGED reused
        BY <3>3 DEF FlushPage
      <4>2. stolen => stolen'
        BY <3>3 DEF FlushPage
      <4>3. QED BY <4>1, <4>2, Zenon
    <3>4. QED BY <2>3, <3>1, <3>2, <3>3
  <2>4. CASE RecoveryStep
    BY <2>4 DEF RecoveryStep, Analyze, RedoSkip, RedoApply, RedoStamp, RedoEnd, UndoTxn,
                UndoRecord, UndoBegin, UndoEnd, Serve, ghosts
  <2>5. QED BY <2>1, <2>2, <2>3, <2>4 DEF Next, TxnStep
<1>3. QED BY <1>2 DEF Claimed

LEMMA SameHistory ==
    ASSUME NEW h, NEW p, History(h)
    PROVE  Extends(h, h) /\ BackStep(h, p, h, p) /\ \A r : ForthStep(h, p, h, p, r)
BY DEF Extends, History, BackStep, ForthStep

LEMMA NoteBack ==
    ASSUME Base, Idle, Histories, NEW t \in Txn, Begin(t) \/ Commit(t) \/ End(t)
    PROVE  /\ Extends(Hist, Hist') /\ BackStep(Hist, pc, Hist', pc')
           /\ \A r : On(Hist', r) = On(Hist, r) /\ ForthStep(Hist, pc, Hist', pc', r)
<1>1. /\ TypeLog /\ pc \in [Txn -> Phases] /\ History(Hist) /\ Lives(Hist, pc, prev_lsn)
      /\ \A j \in Pos(Hist) : Hist[j + 1].txn \in Txn
  BY BaseParts, TypesOfState, RecordFields DEF Histories, History
<1>2. \A type \in {"begin", "commit", "ABORT"} :
          log' = log /\ buffer' = Append(buffer, Note(type, t, INVALID_LSN)) =>
              GrowsBy(Hist, Hist', Note(type, t, INVALID_LSN))
  BY <1>1, NoteFacts, AppendedHistory DEF TypeLog, INVALID_LSN
<1>3. SUFFICES /\ Extends(Hist, Hist') /\ \A r : On(Hist', r) = On(Hist, r)
               /\ \A j \in Pos(Hist) : IsW(Hist, j) =>
                      /\ Done(Hist', j) => Done(Hist, j) \/ Active(Hist, pc, j)
                      /\ Active(Hist', pc', j) => Active(Hist, pc, j)
                      /\ Done(Hist, j) => Done(Hist', j)
                      /\ Active(Hist, pc, j) => Active(Hist', pc', j) \/ Done(Hist', j)
  BY OnIsWrite DEF BackStep, ForthStep
<1>4. CASE Begin(t)
  <2> DEFINE x == Note("begin", t, INVALID_LSN)
  <2>1. GrowsBy(Hist, Hist', x) /\ x.type = "begin" /\ x.txn = t
    BY <1>2, <1>4, NoteFacts DEF Begin, INVALID_LSN
  <2>2. Moves(pc, pc', t, "none", "active")
    BY <1>1, <1>4, Constants DEF Begin, Idle, Moves
  <2> HIDE DEF x
  <2>3. ASSUME NEW r PROVE On(Hist', r) = On(Hist, r)
    BY <1>1, <2>1, <2>2, AfterBegin
  <2>4. ASSUME NEW j \in Pos(Hist)
        PROVE  (Done(Hist', j) <=> Done(Hist, j)) /\ (Active(Hist', pc', j) <=> Active(Hist, pc, j))
    <3>1. Active(Hist', pc', j) <=> Active(Hist, pc, j)
      BY <1>1, <2>1, <2>2, AfterBegin
    <3>2. Done(Hist', j) <=> Done(Hist, j)
      BY <1>1, <2>1, <2>2, AfterBegin
    <3>3. QED BY <3>1, <3>2
  <2>5. QED BY <2>1, <2>3, <2>4 DEF GrowsBy
<1>5. CASE Commit(t)
  <2> DEFINE x == Note("commit", t, INVALID_LSN)
  <2>1. GrowsBy(Hist, Hist', x) /\ x.type = "commit" /\ x.txn = t
    BY <1>2, <1>5, NoteFacts DEF Commit, INVALID_LSN
  <2>2. Moves(pc, pc', t, "active", "committing") /\ pc[t] = "active"
    BY <1>1, <1>5 DEF Commit, Moves
  <2> HIDE DEF x
  <2>3. ASSUME NEW r PROVE On(Hist', r) = On(Hist, r)
    BY <1>1, <2>1, <2>2, AfterEnd
  <2>4. ASSUME NEW j \in Pos(Hist)
        PROVE  /\ Done(Hist', j) <=> Done(Hist, j) \/ Current(Hist, j, t)
               /\ Active(Hist', pc', j) <=> Active(Hist, pc, j) /\ Hist[j + 1].txn # t
    <3>1. Active(Hist', pc', j) <=> Active(Hist, pc, j) /\ Hist[j + 1].txn # t
      BY <1>1, <2>1, <2>2, AfterEnd
    <3>2. Done(Hist', j) <=> Done(Hist, j) \/ Current(Hist, j, t)
      BY <1>1, <2>1, <2>2, AfterEnd
    <3>3. QED BY <3>1, <3>2
  <2>5. QED BY <2>1, <2>2, <2>3, <2>4 DEF GrowsBy, Active, Current
<1>6. CASE End(t)
  <2> DEFINE x == Note("commit", t, INVALID_LSN)
  <2>1. CASE pc' = [pc EXCEPT ![t] = "done"] /\ UNCHANGED buffer
    <3>1. Hist' = Hist /\ pc[t] # "active"
      BY <1>6, <2>1 DEF End, Hist
    <3>2. \A j \in Pos(Hist) : Active(Hist, pc', j) <=> Active(Hist, pc, j)
      BY <1>1, <2>1, <3>1 DEF Active
    <3>3. QED BY <1>1, <3>1, <3>2, SameHistory
  <2>2. CASE /\ pc[t] = "aborting" /\ buffer' = Append(buffer, x)
             /\ pc' = [pc EXCEPT ![t] = "committing"]
    <3>1. GrowsBy(Hist, Hist', x) /\ x.type = "commit" /\ x.txn = t
      BY <1>2, <1>6, <2>2, NoteFacts DEF End, INVALID_LSN
    <3>2. Moves(pc, pc', t, "aborting", "committing")
      BY <1>1, <2>2 DEF Moves
    <3> HIDE DEF x
    <3>3. ASSUME NEW r PROVE On(Hist', r) = On(Hist, r)
      BY <1>1, <3>1, <3>2, AfterSecondEnd
    <3>4. ASSUME NEW j \in Pos(Hist), IsW(Hist, j)
          PROVE  /\ Done(Hist', j) <=> Done(Hist, j)
                 /\ Active(Hist', pc', j) <=> Active(Hist, pc, j)
      <4>1. Active(Hist', pc', j) <=> Active(Hist, pc, j)
        BY <1>1, <3>1, <3>2, AfterSecondEnd
      <4>2. Done(Hist', j) <=> Done(Hist, j)
        BY <1>1, <3>1, <3>2, <3>4, AfterSecondEnd
      <4>3. QED BY <4>1, <4>2
    <3>5. QED BY <3>1, <3>3, <3>4 DEF GrowsBy
  <2>3. QED BY <1>6, <2>1, <2>2 DEF End
<1>7. QED BY <1>4, <1>5, <1>6

\* What the lemmas above need of a state.
Known == Base /\ Idle /\ Histories /\ Contents /\ Claimed

LEMMA KnownFacts ==
    ASSUME Known
    PROVE  /\ Extends(log, Hist) /\ History(Hist) /\ CommitIsLast(Hist)
           /\ Buffered(Hist, pc, Len(log)) /\ Locked(Hist, pc, lock)
           /\ Lives(Hist, pc, prev_lsn) /\ Remembered(Hist, pc, write_set)
           /\ Faithful(Hist) /\ FaithfulNext(Hist, pending)
           /\ mode = "run" => MemIsCurrent
           /\ \A r \in Rid : PageOK(disk, r) /\ (Recovering => PageOK(mem, r))
BY TypesOfState DEF Known, Histories, Contents

\* The pages of the disk, when the history may grow and the log does not.
LEMMA DiskKept ==
    ASSUME Known, Extends(Hist, Hist'), BackStep(Hist, pc, Hist', pc'), log' = log, disk' = disk,
           stolen => stolen'
    PROVE  \A r \in Rid : PageOK(disk, r)'
<1>1. SUFFICES ASSUME NEW r \in Rid PROVE PageOK(disk, r)'
  OBVIOUS
<1> DEFINE n == disk[PageOf[r]].lsn + 1
           x == At(disk, r)
<1>2. Reliable(log, Hist, pc, x, r, n, stolen)
  BY KnownFacts DEF PageOK
<1> HIDE DEF n, x
<1>3. Reliable(log, Hist', pc', x, r, n, stolen')
  <2>1. Extends(log, Hist) /\ Locked(Hist, pc, lock)
    BY KnownFacts
  <2>2. QED BY <1>2, <2>1, ReliableKept
<1>4. At(disk', r) = x /\ disk'[PageOf[r]].lsn + 1 = n
  BY DEF n, x
<1>5. Reliable(log', Hist', pc', At(disk', r), r, disk'[PageOf[r]].lsn + 1, stolen')
  BY <1>3, <1>4
<1>6. QED BY <1>5 DEF PageOK, At

\* The changes to be logged are locked.
LEMMA PendingLocked ==
    ASSUME Idle
    PROVE  \A t \in Txn : pending[t] # Nil =>
               /\ lock[pending[t].rid] = t /\ pending[t].rid \in Rid /\ pc[t] = "active"
               /\ pending[t].type \in Writes /\ pending[t].txn = t
BY DEF Idle, Shape

LEMMA NoteContents ==
    ASSUME Known, NEW t \in Txn, Begin(t) \/ Commit(t) \/ End(t), Claimed'
    PROVE  Contents'
<1>1. /\ Extends(Hist, Hist') /\ BackStep(Hist, pc, Hist', pc')
      /\ \A r : On(Hist', r) = On(Hist, r) /\ ForthStep(Hist, pc, Hist', pc', r)
  BY NoteBack DEF Known
<1>2. /\ Extends(log, Hist) /\ Locked(Hist, pc, lock) /\ Faithful(Hist)
      /\ FaithfulNext(Hist, pending) /\ (mode = "run" => MemIsCurrent)
  BY KnownFacts
<1>3. /\ mode = "run" /\ mode' = "run"
      /\ UNCHANGED <<log, disk, mem, pending, stolen, stops>>
  BY DEF Begin, Commit, End, ghosts
<1>4. Faithful(Hist')
  <2>1. \A r \in Rid : \A k \in On(Hist', r) : k \in Pos(Hist)
    BY <1>1, OnIsWrite
  <2>2. QED BY <1>1, <1>2, <2>1, FaithfulGrows
<1>5. FaithfulNext(Hist', pending')
  <2>1. \A u \in Txn : pending[u] # Nil =>
            /\ pending[u].rid \in Rid /\ lock[pending[u].rid] = u
            /\ On(Hist', pending[u].rid) = On(Hist, pending[u].rid)
    BY <1>1, PendingLocked DEF Known
  <2>2. FaithfulNext(Hist', pending)
    BY <1>1, <1>2, <2>1, FaithfulNextGrows
  <2>3. QED BY <1>3, <2>2
<1>6. MemIsCurrent'
  <2>1. ASSUME NEW r \in Rid, Settled(r)
        PROVE  UpToDate(Hist', log, pc', At(mem, r), r, ~stolen \/ stops = 0)
    <3>1. UpToDate(Hist, log, pc, At(mem, r), r, ~stolen \/ stops = 0)
      BY <1>2, <1>3, <2>1 DEF MemIsCurrent
    <3>2. QED BY <1>1, <1>2, <3>1, UpToDateKept
  <2>2. QED BY <1>2, <1>3, <2>1 DEF MemIsCurrent, Settled, At
<1>7. \A r \in Rid : PageOK(disk, r)'
  BY <1>1, <1>3, DiskKept
<1>8. QED BY <1>3, <1>4, <1>5, <1>6, <1>7 DEF Contents, Recovering

LEMMA AppendContents ==
    ASSUME Known, NEW t \in Txn, AppendRecord(t), Claimed'
    PROVE  Contents'
<1> DEFINE x == pending[t]
<1>1. /\ Extends(log, Hist) /\ Locked(Hist, pc, lock) /\ Faithful(Hist)
      /\ FaithfulNext(Hist, pending) /\ (mode = "run" => MemIsCurrent) /\ TypeLog /\ TypeTxns
  BY KnownFacts, BaseParts DEF Known
<1>2. /\ mode = "run" /\ mode' = "run" /\ x # Nil /\ buffer' = Append(buffer, x)
      /\ pending' = [pending EXCEPT ![t] = Nil]
      /\ UNCHANGED <<log, disk, mem, pc, lock, stolen, stops>>
  BY DEF AppendRecord, ghosts
<1>3. /\ x.rid \in Rid /\ pc[t] = "active" /\ x.type \in Writes /\ x.txn = t /\ lock[x.rid] = t
      /\ \A u \in Txn : u # t /\ pending[u] # Nil => pending[u].rid # x.rid
  BY <1>2, PendingLocked DEF Known
<1>4. GrowsBy(Hist, Hist', x)
  <2>1. x \in LogRecord
    BY <1>1, <1>2 DEF TypeTxns
  <2>2. QED BY <1>1, <1>2, <2>1, AppendedHistory DEF TypeLog
<1>5. \A u \in Txn : pending'[u] = IF u = t THEN Nil ELSE pending[u]
  BY <1>1, <1>2 DEF TypeTxns
<1> HIDE DEF x
<1>6. \A j \in Pos(Hist) : /\ Done(Hist', j) <=> Done(Hist, j)
                           /\ Active(Hist', pc, j) <=> Active(Hist, pc, j)
  <2>1. ASSUME NEW j \in Pos(Hist)
        PROVE  (Done(Hist', j) <=> Done(Hist, j)) /\ (Active(Hist', pc, j) <=> Active(Hist, pc, j))
    BY <1>3, <1>4, AfterWrite
  <2>2. QED BY <2>1
<1>7. /\ Extends(Hist, Hist') /\ BackStep(Hist, pc, Hist', pc)
      /\ \A r : ForthStep(Hist, pc, Hist', pc, r)
  BY <1>4, <1>6, OnIsWrite DEF GrowsBy, BackStep, ForthStep
<1>8. /\ \A r : r # x.rid => On(Hist', r) = On(Hist, r)
      /\ \A r : \A k \in On(Hist', r) : k \notin Pos(Hist) => k = Len(Hist) /\ r = x.rid
      /\ \A j \in On(Hist, x.rid) : j \in On(Hist', x.rid) /\ j \in Pos(Hist) /\ j < Len(Hist)
      /\ Len(Hist) \in Nat /\ Hist'[Len(Hist) + 1] = x
      /\ \A j \in Pos(Hist) : Hist'[j + 1] = Hist[j + 1]
  <2>1. ASSUME NEW r PROVE On(Hist', r) = On(Hist, r) \cup
                                (IF x.type \in Writes /\ x.rid = r THEN {Len(Hist)} ELSE {})
    BY <1>4, OneMore
  <2>2. ASSUME NEW r, r # x.rid PROVE On(Hist', r) = On(Hist, r)
    BY <2>1, <2>2
  <2>3. ASSUME NEW r, NEW k \in On(Hist', r), k \notin Pos(Hist) PROVE k = Len(Hist) /\ r = x.rid
    <3>1. k \notin On(Hist, r)
      BY <2>3, OnIsWrite
    <3>2. QED BY <2>1, <3>1
  <2>4. ASSUME NEW j \in On(Hist, x.rid)
        PROVE  j \in On(Hist', x.rid) /\ j \in Pos(Hist) /\ j < Len(Hist)
    <3>1. On(Hist, x.rid) \subseteq On(Hist', x.rid)
      BY <2>1
    <3>2. QED BY <3>1, OnIsWrite
  <2>5. /\ Len(Hist) \in Nat /\ Hist'[Len(Hist) + 1] = x
        /\ \A j \in Pos(Hist) : Hist'[j + 1] = Hist[j + 1]
    BY <1>4 DEF GrowsBy, Extends, History
  <2>6. QED BY <2>2, <2>3, <2>4, <2>5
<1>9. Faithful(Hist')
  <2>1. ASSUME NEW r \in Rid, NEW k \in On(Hist', r), k \notin Pos(Hist),
               \A j \in On(Hist', r) : j < k => Done(Hist', j) \/ OneLife(Hist', j, k)
        PROVE  Holds(Hist', Hist'[k + 1].old, r, k)
    <3>1. k = Len(Hist) /\ r = x.rid /\ Hist'[k + 1] = x
      BY <1>8, <2>1
    <3>2. ASSUME NEW j \in On(Hist, r) PROVE Done(Hist, j) \/ Current(Hist, j, t)
      <4>1. j \in Pos(Hist) /\ (Done(Hist', j) \/ OneLife(Hist', j, k))
        BY <1>8, <2>1, <3>1, <3>2
      <4>2. CASE Done(Hist', j)
        BY <1>6, <4>1, <4>2
      <4>3. CASE OneLife(Hist', j, k)
        <5>1. Hist[j + 1].txn = t /\ NoneIn(Hist', j, k, {"begin"})
          BY <1>3, <1>8, <3>1, <4>1, <4>3 DEF OneLife
        <5>2. \A e \in Pos(Hist) : e \in Pos(Hist') /\ e <= k
          BY <1>4, <3>1 DEF GrowsBy, Extends, History, Pos
        <5>3. NoneAfter(Hist, j, {"begin"})
          BY <1>8, <4>1, <5>1, <5>2 DEF NoneIn, NoneAfter
        <5>4. QED BY <5>1, <5>3 DEF Current
      <4>4. QED BY <4>1, <4>2, <4>3
    <3>3. Holds(Hist, x.old, r, Len(Hist))
      BY <1>1, <1>2, <3>1, <3>2 DEF FaithfulNext, x
    <3>4. Len(Hist) \in 0 .. Len(Hist)
      BY <1>8
    <3>5. QED BY <1>7, <3>1, <3>3, <3>4, ExtendedLives
  <2>2. QED BY <1>1, <1>7, <2>1, FaithfulGrows
<1>10. FaithfulNext(Hist', pending')
  <2>1. \A u \in Txn : pending'[u] # Nil =>
            /\ pending[u] = pending'[u] /\ pending'[u].rid \in Rid /\ lock[pending'[u].rid] = u
            /\ On(Hist', pending'[u].rid) = On(Hist, pending'[u].rid)
    BY <1>3, <1>5, <1>8, PendingLocked DEF Known
  <2>2. QED BY <1>1, <1>7, <2>1, FaithfulNextGrows
<1>11. MemIsCurrent'
  <2> DEFINE c == ~stolen \/ stops = 0
  <2>1. ASSUME NEW r \in Rid, Settled(r)'
        PROVE  UpToDate(Hist', log, pc, At(mem, r), r, c)
    <3>1. CASE r = x.rid
      <4>1. Same(At(mem, r), x.new)
        BY <1>1, <1>2, <3>1 DEF MemIsCurrent, x
      <4>2. QED BY <1>1, <1>3, <1>4, <3>1, <4>1, UpToDateWritten
    <3>2. CASE r # x.rid
      <4>1. Settled(r)
        BY <1>5, <2>1, <3>2 DEF Settled, x
      <4>2. UpToDate(Hist, log, pc, At(mem, r), r, c)
        BY <1>1, <1>2, <4>1 DEF MemIsCurrent
      <4> HIDE DEF c
      <4>3. QED BY <1>1, <1>7, <1>8, <3>2, <4>2, UpToDateKept
    <3>3. QED BY <3>1, <3>2
  <2>2. \A u \in Txn : pending'[u] # Nil => Same(At(mem, pending'[u].rid), pending'[u].new)
    BY <1>1, <1>2, <1>5 DEF MemIsCurrent
  <2>3. QED BY <1>2, <2>1, <2>2 DEF MemIsCurrent, At
<1>12. \A r \in Rid : PageOK(disk, r)'
  BY <1>2, <1>7, DiskKept
<1>13. QED BY <1>2, <1>9, <1>10, <1>11, <1>12 DEF Contents, Recovering

LEMMA ChangeContents ==
    ASSUME Known, NEW t \in Txn, NEW r \in Rid, NEW x, NEW c, Changed(t, r, x, c), Claimed'
    PROVE  Contents'
<1>1. /\ Faithful(Hist) /\ FaithfulNext(Hist, pending) /\ (mode = "run" => MemIsCurrent)
      /\ TypeTxns /\ IsPages(mem) /\ History(Hist)
  BY KnownFacts, TypesOfState, BaseParts DEF Known
<1>2. /\ mode = "run" /\ mode' = "run" /\ pc[t] = "active" /\ pending[t] = Nil
      /\ lock[r] \in {Nil, t} /\ mem' = Put(mem, r, x)
      /\ pending' = [pending EXCEPT ![t] = c]
      /\ UNCHANGED <<log, buffer, disk, pc, stolen, stops>>
      /\ x \in Slot /\ c \in LogRecord /\ c.rid = r /\ c.old = At(mem, r) /\ Same(x, c.new)
  BY DEF Changed, Change
<1>3. reused' = (reused \/ stops > 0)
  BY DEF Changed, Change
<1>4. Hist' = Hist
  BY <1>2 DEF Hist
<1>5. /\ \A u \in Txn : pending'[u] = IF u = t THEN c ELSE pending[u]
      /\ c # Nil
  BY <1>1, <1>2, Constants DEF TypeTxns
<1>6. \A q \in Rid : At(mem', q) = IF q = r THEN x ELSE At(mem, q)
  BY <1>1, <1>2, PutPages
<1>7. Settled(r)
  BY <1>2, PendingLocked, Constants DEF Settled, Known
<1>8. ~stolen \/ stops = 0
  <2>1. stolen => ~reused'
    BY <1>2 DEF Claimed
  <2>2. stops \in Nat
    BY BaseParts DEF Known, TypeRest
  <2>3. stolen => ~(stops > 0)
    BY <1>3, <2>1
  <2>4. QED BY <2>2, <2>3
<1>9. (\A j \in On(Hist, r) : Done(Hist, j) \/ Current(Hist, j, t))
          => Holds(Hist, At(mem, r), r, Len(Hist))
  <2>1. SUFFICES ASSUME \A j \in On(Hist, r) : Done(Hist, j) \/ Current(Hist, j, t)
                 PROVE  Holds(Hist, At(mem, r), r, Len(Hist))
    OBVIOUS
  <2>2. Sound(Hist, pc, On(Hist, r))
    BY <1>2, <2>1 DEF Sound, Active, Current
  <2>3. UpToDate(Hist, log, pc, At(mem, r), r, ~stolen \/ stops = 0)
    BY <1>1, <1>2, <1>7 DEF MemIsCurrent
  <2>4. QED BY <1>8, <2>2, <2>3 DEF UpToDate
<1>10. FaithfulNext(Hist, pending')
  <2>1. ASSUME NEW u \in Txn, pending'[u] # Nil,
               \A j \in On(Hist, pending'[u].rid) : Done(Hist, j) \/ Current(Hist, j, u)
        PROVE  Holds(Hist, pending'[u].old, pending'[u].rid, Len(Hist))
    <3>1. CASE u = t
      BY <1>2, <1>5, <1>9, <2>1, <3>1
    <3>2. CASE u # t
      BY <1>1, <1>5, <2>1, <3>2 DEF FaithfulNext
    <3>3. QED BY <3>1, <3>2
  <2>2. QED BY <2>1 DEF FaithfulNext
<1>11. MemIsCurrent'
  <2>1. ASSUME NEW q \in Rid, Settled(q)'
        PROVE  UpToDate(Hist, log, pc, At(mem', q), q, ~stolen \/ stops = 0)
    <3>1. q # r
      BY <1>2, <1>5, <2>1 DEF Settled
    <3>2. Settled(q)
      BY <1>2, <1>5, <2>1 DEF Settled
    <3>3. QED BY <1>1, <1>2, <1>6, <3>1, <3>2 DEF MemIsCurrent
  <2>2. ASSUME NEW u \in Txn, pending'[u] # Nil
        PROVE  Same(At(mem', pending'[u].rid), pending'[u].new)
    <3>1. CASE u = t
      BY <1>2, <1>5, <1>6, <3>1
    <3>2. CASE u # t
      <4>1. pending'[u] = pending[u] /\ pending[u] # Nil
        BY <1>5, <2>2, <3>2
      <4>2. pending[u].rid # r /\ pending[u].rid \in Rid
        BY <1>7, <4>1, PendingLocked DEF Settled, Known
      <4>3. QED BY <1>1, <1>2, <1>6, <4>1, <4>2 DEF MemIsCurrent
    <3>3. QED BY <3>1, <3>2
  <2>3. QED BY <1>2, <1>4, <2>1, <2>2 DEF MemIsCurrent, At
<1>12. \A q \in Rid : PageOK(disk, q)'
  <2>1. Extends(Hist, Hist') /\ BackStep(Hist, pc, Hist', pc')
    BY <1>1, <1>2, <1>4, SameHistory
  <2>2. QED BY <1>2, <2>1, DiskKept
<1>13. QED BY <1>1, <1>2, <1>4, <1>10, <1>11, <1>12 DEF Contents, Recovering

LEMMA AbortContents ==
    ASSUME Known, NEW t \in Txn, Abort(t), Claimed'
    PROVE  Contents'
<1> DEFINE x == Note("ABORT", t, INVALID_LSN)
<1>1. /\ Extends(log, Hist) /\ Locked(Hist, pc, lock) /\ Faithful(Hist)
      /\ FaithfulNext(Hist, pending) /\ (mode = "run" => MemIsCurrent) /\ TypeLog /\ TypeTxns
      /\ Lives(Hist, pc, prev_lsn) /\ Remembered(Hist, pc, write_set) /\ IsPages(mem)
  BY KnownFacts, BaseParts, TypesOfState DEF Known
<1>2. /\ mode = "run" /\ mode' = "run" /\ pc[t] = "active" /\ pending[t] = Nil
      /\ mem' = Restored(t) /\ buffer' = Append(buffer, x)
      /\ pc' = [pc EXCEPT ![t] = "aborting"]
      /\ UNCHANGED <<log, disk, pending, stolen, stops>>
  BY DEF Abort, ghosts
<1>3. GrowsBy(Hist, Hist', x) /\ x.type = "ABORT" /\ x.txn = t
  BY <1>1, <1>2, NoteFacts, AppendedHistory DEF TypeLog, INVALID_LSN
<1>4. Moves(pc, pc', t, "active", "aborting")
  BY <1>1, <1>2 DEF Moves, TypeTxns, Phases
<1>5. /\ \A q \in Rid : ~Mentions(write_set[t], q) => At(mem', q) = At(mem, q)
      /\ \A q \in Rid : Mentions(write_set[t], q) =>
             \E i \in DOMAIN write_set[t] :
                 First(write_set[t], q, i) /\ At(mem', q) = write_set[t][i].old
  BY <1>1, <1>2, RestoredPages DEF TypeTxns
<1>6. /\ \A r \in Rid : Mentions(write_set[t], r) <=> (\E j \in On(Hist, r) : Current(Hist, j, t))
      /\ \A r \in Rid : \A i \in DOMAIN write_set[t] : \A j \in On(Hist, r) :
             /\ First(write_set[t], r, i) /\ Current(Hist, j, t)
             /\ \A k \in On(Hist, r) : k < j => ~Current(Hist, k, t)
             => write_set[t][i].old = Hist[j + 1].old
  BY <1>1, <1>2 DEF Remembered
<1> HIDE DEF x
<1>7. ASSUME NEW r PROVE On(Hist', r) = On(Hist, r)
  BY <1>1, <1>3, <1>4, AfterEnd
<1>8. ASSUME NEW j \in Pos(Hist)
      PROVE  /\ Done(Hist', j) <=> Done(Hist, j)
             /\ Active(Hist', pc', j) <=> Active(Hist, pc, j) /\ Hist[j + 1].txn # t
  <2>1. Active(Hist', pc', j) <=> Active(Hist, pc, j) /\ Hist[j + 1].txn # t
    BY <1>1, <1>3, <1>4, AfterEnd
  <2>2. Done(Hist', j) <=> Done(Hist, j)
    BY <1>1, <1>3, <1>4, AfterEnd
  <2>3. QED BY <2>1, <2>2
<1>9. Extends(Hist, Hist') /\ BackStep(Hist, pc, Hist', pc')
  BY <1>3, <1>8 DEF GrowsBy, BackStep
<1>10. Faithful(Hist')
  <2>1. \A r \in Rid : \A k \in On(Hist', r) : k \in Pos(Hist)
    BY <1>7, OnIsWrite
  <2>2. QED BY <1>1, <1>9, <2>1, FaithfulGrows
<1>11. FaithfulNext(Hist', pending')
  <2>1. \A u \in Txn : pending[u] # Nil =>
            /\ pending[u].rid \in Rid /\ lock[pending[u].rid] = u
            /\ On(Hist', pending[u].rid) = On(Hist, pending[u].rid)
    BY <1>7, PendingLocked DEF Known
  <2>2. FaithfulNext(Hist', pending)
    BY <1>1, <1>9, <2>1, FaithfulNextGrows
  <2>3. QED BY <1>2, <2>2
<1>12. MemIsCurrent'
  <2> DEFINE c == ~stolen \/ stops = 0
  <2>1. ASSUME NEW r \in Rid, Settled(r)
        PROVE  UpToDate(Hist', log, pc', At(mem', r), r, c)
    <3>1. UpToDate(Hist, log, pc, At(mem, r), r, c)
      BY <1>1, <1>2, <2>1 DEF MemIsCurrent
    <3> HIDE DEF c
    <3>2. CASE ~Mentions(write_set[t], r)
      <4>1. \A j \in On(Hist, r) : ~Current(Hist, j, t)
        BY <1>6, <3>2
      <4>2. ForthStep(Hist, pc, Hist', pc', r)
        BY <1>8, <4>1, OnIsWrite DEF ForthStep, Active
      <4>3. At(mem', r) = At(mem, r) /\ On(Hist', r) = On(Hist, r)
        BY <1>5, <1>7, <3>2
      <4>4. QED BY <1>1, <1>9, <3>1, <4>2, <4>3, UpToDateKept
    <3>3. CASE Mentions(write_set[t], r)
      <4>1. PICK i \in DOMAIN write_set[t] :
                First(write_set[t], r, i) /\ At(mem', r) = write_set[t][i].old
        BY <1>5, <3>3
      <4>2. PICK j \in On(Hist, r) : Current(Hist, j, t)
        BY <1>6, <3>3
      <4>3. (\A k \in On(Hist, r) : k < j => ~Current(Hist, k, t)) => At(mem', r) = Hist[j + 1].old
        BY <1>6, <4>1, <4>2
      <4>4. QED BY <1>1, <1>3, <1>4, <4>2, <4>3, UpToDateAborted
    <3>4. QED BY <3>2, <3>3
  <2>2. ASSUME NEW u \in Txn, pending[u] # Nil
        PROVE  Same(At(mem', pending[u].rid), pending[u].new)
    <3>1. u # t /\ pending[u].rid \in Rid /\ lock[pending[u].rid] = u
      BY <1>2, <2>2, PendingLocked DEF Known
    <3>2. \A j \in On(Hist, pending[u].rid) : ~Current(Hist, j, t)
      BY <1>1, <1>2, <3>1 DEF Locked, Active, Current
    <3>3. At(mem', pending[u].rid) = At(mem, pending[u].rid)
      BY <1>5, <1>6, <3>1, <3>2
    <3>4. QED BY <1>1, <1>2, <2>2, <3>3 DEF MemIsCurrent
  <2>3. QED BY <1>2, <2>1, <2>2 DEF MemIsCurrent, Settled, At
<1>13. \A r \in Rid : PageOK(disk, r)'
  BY <1>2, <1>9, DiskKept
<1>14. QED BY <1>2, <1>10, <1>11, <1>12, <1>13 DEF Contents, Recovering

LEMMA FlushLogContents ==
    ASSUME Known, FlushLog, Claimed'
    PROVE  Contents'
<1>1. /\ Extends(log, Hist) /\ Buffered(Hist, pc, Len(log)) /\ TypeLog /\ IsPages(disk)
      /\ Faithful(Hist) /\ FaithfulNext(Hist, pending) /\ (mode = "run" => MemIsCurrent)
      /\ Lsns = Pos(log) /\ Len(log) \in Nat
  BY KnownFacts, TypesOfState, BaseParts DEF Known
<1>2. /\ buffer # <<>> /\ UNCHANGED <<mode, disk, mem, pc, pending, stolen, stops>>
  BY DEF FlushLog, running, ghosts
<1>3. mode = "run"
  BY <1>2 DEF Known, Idle
<1>4. Hist' = Hist /\ log' = Hist
  BY <1>1, FlushedHistory DEF TypeLog
<1>5. MemIsCurrent'
  <2> DEFINE c == ~stolen \/ stops = 0
  <2>1. ASSUME NEW r \in Rid, Settled(r)
        PROVE  UpToDate(Hist, Hist, pc, At(mem, r), r, c)
    <3>1. UpToDate(Hist, log, pc, At(mem, r), r, c)
      BY <1>1, <1>3, <2>1 DEF MemIsCurrent
    <3> HIDE DEF c
    <3>2. QED BY <1>1, <3>1, UpToDateFlushed
  <2>2. QED BY <1>1, <1>2, <1>3, <1>4, <2>1 DEF MemIsCurrent, Settled, At
<1>6. ASSUME NEW r \in Rid PROVE PageOK(disk, r)'
  <2> DEFINE n == disk[PageOf[r]].lsn + 1
  <2>1. Reliable(log, Hist, pc, At(disk, r), r, n, stolen)
    BY KnownFacts DEF PageOK
  <2>2. n \in Nat /\ n <= Len(log)
    <3>1. disk[PageOf[r]].lsn \in Pos(log)
      BY <1>1, PageFacts
    <3>2. QED BY <1>1, <3>1 DEF Pos
  <2>3. At(disk', r) = At(disk, r) /\ disk'[PageOf[r]].lsn + 1 = n
    BY <1>2 DEF At
  <2> HIDE DEF n
  <2>4. Reliable(Hist, Hist, pc, At(disk, r), r, n, stolen)
    BY <1>1, <2>1, <2>2, ReliableFlushed
  <2>5. Reliable(log', Hist', pc', At(disk', r), r, disk'[PageOf[r]].lsn + 1, stolen')
    BY <1>2, <1>4, <2>3, <2>4
  <2>6. QED BY <2>5 DEF PageOK, At
<1>7. QED BY <1>1, <1>2, <1>3, <1>4, <1>5, <1>6 DEF Contents, Recovering

\* The log and the records of the buffer that do not write the slot.
LEMMA BufferedWrites ==
    ASSUME Base, NEW r, \A k \in DOMAIN buffer : ~(buffer[k].type \in Writes /\ buffer[k].rid = r)
    PROVE  On(Hist, r) = On(log, r)
<1>1. /\ log \in Seq(LogRecord) /\ buffer \in Seq(LogRecord) /\ Extends(log, Hist)
      /\ Len(log) \in Nat /\ Len(Hist) \in Nat /\ Len(Hist) = Len(log) + Len(buffer)
      /\ Hist = log \o buffer
  BY TypesOfState, BaseParts DEF TypeLog, Hist, NextLsn
<1>2. On(log, r) = On(Hist, r) \cap Pos(log)
  BY <1>1, ExtendedLives
<1>3. ASSUME NEW k \in On(Hist, r), k \notin Pos(log) PROVE FALSE
  <2>1. k \in Int /\ k >= 0 /\ k < Len(Hist) /\ Hist[k + 1].type \in Writes /\ Hist[k + 1].rid = r
    BY OnIsWrite DEF IsW
  <2>2. k + 1 \in 1 .. Len(Hist) /\ k + 1 > Len(log)
    BY <1>1, <1>3, <2>1 DEF Pos
  <2>3. Len(buffer) \in Nat /\ k + 1 \in 1 .. Len(log) + Len(buffer)
    BY <1>1, <2>2
  <2>4. Hist[k + 1] = buffer[k + 1 - Len(log)] /\ k + 1 - Len(log) \in 1 .. Len(buffer)
    <3>1. ASSUME NEW i \in 1 .. Len(log) + Len(buffer), i > Len(log)
          PROVE  (log \o buffer)[i] = buffer[i - Len(log)] /\ i - Len(log) \in 1 .. Len(buffer)
      BY <1>1, <2>3, <3>1
    <3>2. \A i \in 1 .. Len(log) + Len(buffer) : i > Len(log) =>
              (log \o buffer)[i] = buffer[i - Len(log)] /\ i - Len(log) \in 1 .. Len(buffer)
      BY <3>1
    <3>3. PICK i \in 1 .. Len(log) + Len(buffer) : i = k + 1 /\ i > Len(log)
      BY <2>2, <2>3
    <3>4. (log \o buffer)[i] = buffer[i - Len(log)] /\ i - Len(log) \in 1 .. Len(buffer)
      BY <3>2, <3>3
    <3>5. Hist = log \o buffer
      BY <1>1
    <3>6. QED BY <1>1, <2>1, <3>3, <3>4, <3>5
  <2>5. k + 1 - Len(log) \in DOMAIN buffer
    BY <1>1, <2>4
  <2>6. QED BY <2>1, <2>4, <2>5
<1>4. QED BY <1>2, <1>3

LEMMA ReliableLater ==
    ASSUME NEW lg, NEW h, NEW p, NEW r, NEW x, NEW n, NEW e, NEW f, e => f,
           Reliable(lg, h, p, x, r, n, e)
    PROVE  Reliable(lg, h, p, x, r, n, f)
BY DEF Reliable, Ahead

\* A page of a server that runs has its slots as the history says.
LEMMA UpToDateIsReliable ==
    ASSUME NEW lg, NEW h, Extends(lg, h), NEW p, NEW r, On(h, r) = On(lg, r), NEW x,
           NEW n \in Nat, n <= Len(lg), NEW c, NEW e, c \/ e, UpToDate(h, lg, p, x, r, c)
    PROVE  Reliable(lg, h, p, x, r, n, e)
<1>1. Len(lg) \in Nat /\ Len(lg) \in n .. Len(lg)
  BY DEF Extends, History
<1>2. ASSUME Sound(h, p, On(h, r)) PROVE Ahead(lg, x, r, n, e)
  <2>1. CASE On(h, r) # {} \/ c
    <3>1. Holds(h, x, r, Len(h))
      BY <1>2, <2>1 DEF UpToDate
    <3>2. Holds(lg, x, r, Len(lg))
      BY <3>1, HoldsGrows
    <3>3. QED BY <1>1, <3>2 DEF Ahead
  <2>2. CASE On(h, r) = {} /\ e
    BY <2>2 DEF Ahead
  <2>3. QED BY <2>1, <2>2
<1>3. ASSUME NEW k \in On(lg, r), LostDelete(h, lg, On(lg, r), k)
      PROVE  Ahead(lg, x, r, n, e) \/ Holds(lg, x, r, k)
  <2>1. CASE Done(h, k) \/ Active(h, p, k)
    <3>1. \A j \in On(h, r) : j # k => Done(h, j)
      BY <1>3 DEF LostDelete
    <3>2. Sound(h, p, On(h, r))
      BY <2>1, <3>1 DEF Sound
    <3>3. QED BY <1>2, <3>2
  <2>2. CASE ~Done(h, k) /\ ~Active(h, p, k)
    <3>1. Holds(h, x, r, k)
      BY <1>3, <2>2 DEF UpToDate
    <3>2. k \in 0 .. Len(lg)
      BY <1>1, OnIsWrite
    <3>3. QED BY <3>1, <3>2, ExtendedLives
  <2>3. QED BY <2>1, <2>2
<1>4. QED BY <1>2, <1>3 DEF Reliable

LEMMA FlushPageContents ==
    ASSUME Known, FirstRun, NEW p \in PageNo, FlushPage(p), Claimed'
    PROVE  Contents'
<1>1. /\ Faithful(Hist) /\ FaithfulNext(Hist, pending) /\ (mode = "run" => MemIsCurrent)
      /\ \A r \in Rid : PageOK(disk, r) /\ (Recovering => PageOK(mem, r))
      /\ IsPages(mem) /\ IsPages(disk) /\ Lsns = Pos(log) /\ Len(log) \in Nat /\ stops \in Nat
      /\ Extends(log, Hist)
  BY KnownFacts, TypesOfState, BaseParts DEF Known, TypeRest
<1>2. /\ UNCHANGED <<mode, log, buffer, mem, pc, pending, stops>>
      /\ mode = "run" \/ Recovering
      /\ disk' = [disk EXCEPT ![p] = mem[p]]
  BY DEF FlushPage, running, Recovering
<1>3. /\ stolen' <=> stolen \/ Unlogged(p)
      /\ reused' = reused
  BY DEF FlushPage
<1>4. Hist' = Hist
  BY <1>2 DEF Hist
<1>5. mode = "run" => MemIsCurrent'
  <2>1. ASSUME mode = "run", NEW r \in Rid, Settled(r)
        PROVE  UpToDate(Hist, log, pc, At(mem, r), r, ~stolen' \/ stops = 0)
    <3>1. UpToDate(Hist, log, pc, At(mem, r), r, ~stolen \/ stops = 0)
      BY <1>1, <2>1 DEF MemIsCurrent
    <3>2. ~stolen' \/ stops = 0 => ~stolen \/ stops = 0
      BY <1>3
    <3>3. QED BY <3>1, <3>2 DEF UpToDate
  <2>2. QED BY <1>1, <1>2, <1>4, <2>1 DEF MemIsCurrent, Settled, At
<1>6. ASSUME NEW r \in Rid
      PROVE  Reliable(log, Hist, pc, At(disk', r), r, disk'[PageOf[r]].lsn + 1, stolen')
  <2>1. /\ PageOf[r] \in PageNo
        /\ At(disk', r) = IF PageOf[r] = p THEN At(mem, r) ELSE At(disk, r)
        /\ disk'[PageOf[r]].lsn = IF PageOf[r] = p THEN mem[p].lsn ELSE disk[PageOf[r]].lsn
    <3>1. /\ \A q \in Rid : At(disk', q) = IF PageOf[q] = p THEN At(mem, q) ELSE At(disk, q)
          /\ \A b \in PageNo : disk'[b].lsn = IF b = p THEN mem[b].lsn ELSE disk[b].lsn
      <4>1. IsPages(mem) /\ IsPages(disk) /\ disk' = [disk EXCEPT ![p] = mem[p]]
        BY <1>1, <1>2
      <4>2. ASSUME NEW b \in PageNo PROVE disk'[b] = IF b = p THEN mem[b] ELSE disk[b]
        BY <4>1 DEF IsPages
      <4>3. ASSUME NEW q \in Rid
            PROVE  At(disk', q) = IF PageOf[q] = p THEN At(mem, q) ELSE At(disk, q)
        BY <4>2, <1>1, PageFacts DEF At
      <4>4. QED BY <4>2, <4>3
    <3>2. PageOf[r] \in PageNo
      BY <1>1, PageFacts
    <3>3. QED BY <3>1, <3>2
  <2>2. stolen => stolen'
    BY <1>3
  <2>3. CASE PageOf[r] # p
    <3>1. Reliable(log, Hist, pc, At(disk, r), r, disk[PageOf[r]].lsn + 1, stolen)
      BY <1>1 DEF PageOK
    <3>2. QED BY <2>1, <2>2, <2>3, <3>1, ReliableLater
  <2>4. CASE PageOf[r] = p /\ Recovering
    <3>1. Reliable(log, Hist, pc, At(mem, r), r, mem[PageOf[r]].lsn + 1, stolen)
      BY <1>1, <2>4 DEF PageOK
    <3>2. QED BY <2>1, <2>2, <2>4, <3>1, ReliableLater
  <2>5. CASE PageOf[r] = p /\ mode = "run" /\ ~Unlogged(p)
    <3> DEFINE n == mem[p].lsn + 1
    <3>1. Settled(r) /\ On(Hist, r) = On(log, r)
      <4>1. Settled(r)
        BY <2>5 DEF Settled, Unlogged
      <4>2. \A k \in DOMAIN buffer : ~(buffer[k].type \in Writes /\ buffer[k].rid = r)
        BY <2>5 DEF Unlogged
      <4>3. QED BY <4>1, <4>2, BufferedWrites DEF Known
    <3>2. UpToDate(Hist, log, pc, At(mem, r), r, ~stolen \/ stops = 0)
      BY <1>1, <2>5, <3>1 DEF MemIsCurrent
    <3>3. n \in Nat /\ n <= Len(log)
      BY <1>1, <2>1, <2>5, PageFacts DEF Pos
    <3> HIDE DEF n
    <3>4. Reliable(log, Hist, pc, At(mem, r), r, n, stolen)
      BY <1>1, <3>1, <3>2, <3>3, UpToDateIsReliable
    <3>5. QED BY <2>1, <2>2, <2>5, <3>4, ReliableLater DEF n
  <2>6. CASE PageOf[r] = p /\ Unlogged(p)
    <3>1. stops = 0
      <4>1. Unlogged(p) => ~(/\ \A t \in Txn : pending[t] = Nil
                             /\ \A k \in DOMAIN buffer : buffer[k].type \notin Writes)
        BY DEF Unlogged
      <4>2. ~reused
        BY <1>3, <2>6 DEF Claimed
      <4>3. QED BY <1>1, <2>6, <4>1, <4>2 DEF FirstRun
    <3>2. mem[p].lsn = 0 /\ stolen'
      BY <1>3, <2>1, <2>6, <3>1 DEF FirstRun
    <3>3. \A k \in On(log, r) : k >= 1
      <4>1. \A k \in Pos(log) : IsW(log, k) => Begun(log, k)
        BY WriteFacts DEF Known
      <4>2. \A b \in Pos(log) : b \in Int /\ b >= 0
        BY DEF Pos
      <4>3. QED BY <4>1, <4>2, OnIsWrite DEF Begun
    <3>4. Ahead(log, At(mem, r), r, 1, stolen')
      BY <3>2, <3>3 DEF Ahead
    <3>5. Reliable(log, Hist, pc, At(mem, r), r, 1, stolen')
      BY <3>4 DEF Reliable
    <3>6. At(disk', r) = At(mem, r) /\ disk'[PageOf[r]].lsn + 1 = 1
      BY <2>1, <2>6, <3>2
    <3>7. QED BY <3>5, <3>6
  <2>7. QED BY <1>2, <2>3, <2>4, <2>5, <2>6
<1>7. ASSUME NEW r \in Rid PROVE PageOK(disk, r)'
  BY <1>2, <1>4, <1>6 DEF PageOK, At
<1>8. ASSUME NEW r \in Rid, Recovering PROVE PageOK(mem, r)'
  <2>1. Reliable(log, Hist, pc, At(mem, r), r, mem[PageOf[r]].lsn + 1, stolen)
    BY <1>1, <1>8 DEF PageOK
  <2>2. Reliable(log, Hist, pc, At(mem, r), r, mem[PageOf[r]].lsn + 1, stolen')
    BY <1>3, <2>1, ReliableLater
  <2>3. QED BY <1>2, <1>4, <2>2 DEF PageOK, At
<1>9. Faithful(Hist') /\ FaithfulNext(Hist', pending')
  BY <1>1, <1>2, <1>4
<1>10. (Recovering' <=> Recovering) /\ mode' = mode
  BY <1>2 DEF Recovering
<1>11. QED BY <1>5, <1>7, <1>8, <1>9, <1>10 DEF Contents

LEMMA StopContents ==
    ASSUME Known, Stopped, UNCHANGED <<log, disk, stolen>>
    PROVE  Contents'
<1>1. /\ Extends(log, Hist) /\ CommitIsLast(Hist) /\ Faithful(Hist) /\ log \in Seq(LogRecord)
      /\ History(log)
  BY KnownFacts, TypesOfState, BaseParts DEF Known, TypeLog
<1>2. /\ Hist' = log /\ mode' = "down" /\ pending' = [t \in Txn |-> Nil]
      /\ pc' = [t \in Txn |-> "none"]
  <2>1. buffer' = <<>> /\ log' = log
    BY DEF Stopped
  <2>2. Hist' = log
    BY <1>1, <2>1 DEF Hist
  <2>3. QED BY <2>2 DEF Stopped
<1>3. \A j \in Pos(log) : ~Active(log, pc', j)
  <2>1. \A j \in Pos(log) : log[j + 1].txn \in Txn
    BY <1>1, RecordFields DEF History
  <2>2. QED BY <1>2, <2>1 DEF Active
<1>4. Faithful(log)
  <2>1. SUFFICES ASSUME NEW r \in Rid, NEW k \in On(log, r),
                        \A j \in On(log, r) : j < k => Done(log, j) \/ OneLife(log, j, k)
                 PROVE  Holds(log, log[k + 1].old, r, k)
    BY DEF Faithful
  <2>2. /\ On(log, r) = On(Hist, r) \cap Pos(log) /\ k \in On(Hist, r)
        /\ Hist[k + 1] = log[k + 1] /\ k \in 0 .. Len(log)
    <3>1. On(log, r) = On(Hist, r) \cap Pos(log)
      BY <1>1, ExtendedLives
    <3>2. QED BY <1>1, <3>1, OnIsWrite DEF Extends, History
  <2>3. ASSUME NEW j \in On(Hist, r), j < k PROVE Done(Hist, j) \/ OneLife(Hist, j, k)
    <3>1. j \in Pos(log) /\ k \in Pos(log)
      BY <2>3, OnIsWrite DEF Pos
    <3>2. Done(log, j) \/ OneLife(log, j, k)
      BY <2>1, <2>2, <2>3, <3>1
    <3>3. Done(log, j) => Done(Hist, j)
      BY <1>1, <3>1, AfterLoss
    <3>4. OneLife(log, j, k) => OneLife(Hist, j, k)
      BY <1>1, <3>1, ExtendedLives
    <3>5. QED BY <3>2, <3>3, <3>4
  <2>4. Holds(Hist, log[k + 1].old, r, k)
    BY <1>1, <2>2, <2>3 DEF Faithful
  <2>5. QED BY <1>1, <2>2, <2>4, ExtendedLives
<1>5. FaithfulNext(log, pending')
  BY <1>2 DEF FaithfulNext
<1>6. ASSUME NEW r \in Rid PROVE PageOK(disk, r)'
  <2> DEFINE n == disk[PageOf[r]].lsn + 1
             x == At(disk, r)
  <2>1. Reliable(log, Hist, pc, x, r, n, stolen)
    BY KnownFacts DEF PageOK
  <2> HIDE DEF n, x
  <2>2. Reliable(log, log, pc', x, r, n, stolen)
    BY <1>1, <1>3, <2>1, ReliableStopped
  <2>3. At(disk', r) = x /\ disk'[PageOf[r]].lsn + 1 = n
    BY DEF n, x
  <2>4. Reliable(log', Hist', pc', At(disk', r), r, disk'[PageOf[r]].lsn + 1, stolen')
    BY <1>2, <2>2, <2>3
  <2>5. QED BY <2>4 DEF PageOK, At
<1>7. mode' # "run" /\ ~Recovering'
  BY <1>2 DEF Recovering
<1>8. QED BY <1>2, <1>4, <1>5, <1>6, <1>7 DEF Contents

(***************************************************************************)
(* Redo.                                                                   *)
(***************************************************************************)

\* The page while recovery works: the log is the history, and no transaction runs.
Good(pages, r) ==
    Reliable(log, log, pc, At(pages, r), r, pages[PageOf[r]].lsn + 1, stolen)

LEMMA InRecovery ==
    ASSUME Base, Idle, Histories, Contents, mode # "run"
    PROVE  /\ Hist = log /\ History(log) /\ Len(log) \in Nat /\ Lsns = Pos(log) /\ stops # 0
           /\ Extends(log, log) /\ IsPages(mem) /\ IsPages(disk)
           /\ \A t \in Txn : pending[t] = Nil
           /\ \A j \in Pos(log) : ~Active(log, pc, j)
           /\ Claimed => /\ Faithful(log) /\ FaithfulNext(log, pending)
                         /\ \A r \in Rid : Good(disk, r) /\ (Recovering => Good(mem, r))
<1>1. /\ History(log) /\ Len(log) \in Nat /\ Lsns = Pos(log) /\ (buffer = <<>> => Hist = log)
      /\ Extends(log, Hist) /\ IsPages(mem) /\ IsPages(disk)
  BY TypesOfState
<1>2. buffer = <<>> /\ stops # 0 /\ \A t \in Txn : pc[t] = "none"
  BY DEF Idle
<1>3. \A t \in Txn : pending[t] = Nil
  BY <1>2 DEF Idle
<1>4. \A j \in Pos(log) : ~Active(log, pc, j)
  <2>1. \A j \in Pos(log) : log[j + 1].txn \in Txn
    BY <1>1, RecordFields DEF History
  <2>2. QED BY <1>2, <2>1 DEF Active
<1>5. Claimed => /\ Faithful(log) /\ FaithfulNext(log, pending)
                 /\ \A r \in Rid : Good(disk, r) /\ (Recovering => Good(mem, r))
  BY <1>1, <1>2 DEF Contents, Good, PageOK
<1>6. QED BY <1>1, <1>2, <1>3, <1>4, <1>5

LEMMA RecoveringContents ==
    ASSUME Base, Idle, Histories, Contents, mode # "run",
           UNCHANGED <<log, buffer, pc, pending>>,
           (stolen' = stolen) /\ (reused' = reused) /\ (recreated' = recreated),
           Claimed => (mode' = "run" => MemIsCurrent'),
           Claimed => \A r \in Rid : Good(disk', r),
           Claimed /\ Recovering' => \A r \in Rid : Good(mem', r)
    PROVE  Contents'
<1>1. SUFFICES ASSUME Claimed'
               PROVE  /\ Faithful(Hist') /\ FaithfulNext(Hist', pending')
                      /\ mode' = "run" => MemIsCurrent'
                      /\ \A r \in Rid : PageOK(disk, r)' /\ (Recovering' => PageOK(mem, r)')
  BY DEF Contents
<1>2. Claimed
  BY <1>1 DEF Claimed
<1>3. Hist' = log /\ log' = log /\ pc' = pc /\ pending' = pending
  <2>1. Hist' = Hist
    BY DEF Hist
  <2>2. QED BY <2>1, InRecovery
<1>4. Faithful(log) /\ FaithfulNext(log, pending)
  BY <1>2, InRecovery
<1>5. ASSUME NEW r \in Rid PROVE PageOK(disk, r)'
  <2>1. Good(disk', r)
    BY <1>2
  <2>2. QED BY <1>3, <2>1 DEF Good, PageOK, At
<1>6. ASSUME NEW r \in Rid, Recovering' PROVE PageOK(mem, r)'
  <2>1. Good(mem', r)
    BY <1>2, <1>6
  <2>2. QED BY <1>3, <2>1 DEF Good, PageOK, At
<1>7. QED BY <1>2, <1>3, <1>4, <1>5, <1>6

\* Of a slot that recovery answers for, all writes but the last have committed.
LEMMA KeptDone ==
    ASSUME Base, \A j \in Pos(log) : ~Active(log, pc, j), NEW r, Kept(r), NEW k \in On(log, r)
    PROVE  \A j \in On(log, r) : j < k => Done(log, j)
<1>1. CASE Sound(log, pc, On(log, r))
  BY <1>1, OnIsWrite DEF Sound
<1>2. CASE \E i \in On(log, r) : LostDelete(log, log, On(log, r), i)
  <2>1. PICK i \in On(log, r) : LostDelete(log, log, On(log, r), i)
    BY <1>2
  <2>2. k <= i /\ \A j \in On(log, r) : j # i => Done(log, j)
    BY <2>1 DEF LostDelete
  <2>3. QED BY <2>2, OnIsWrite
<1>3. QED BY <1>1, <1>2 DEF Kept

\* A page may be stamped with a later lsn if the records up to it do not write the slot.
LEMMA AheadMoves ==
    ASSUME NEW lg, NEW x, NEW r, NEW n \in Nat, NEW m \in Nat, n <= m, m <= Len(lg), Len(lg) \in Nat,
           \A j \in On(lg, r) : ~(n <= j /\ j < m), NEW e, Ahead(lg, x, r, n, e)
    PROVE  Ahead(lg, x, r, m, e)
<1>1. ASSUME NEW q \in n .. Len(lg), Holds(lg, x, r, q) PROVE \E i \in m .. Len(lg) : Holds(lg, x, r, i)
  <2>1. CASE q >= m
    BY <1>1, <2>1
  <2>2. CASE q < m
    <3>1. \A j \in On(lg, r) : ~(q <= j /\ j < m)
      BY <2>2, OnIsWrite
    <3>2. Holds(lg, x, r, m)
      BY <1>1, <2>2, <3>1, HoldsMoves
    <3>3. m \in m .. Len(lg)
      OBVIOUS
    <3>4. QED BY <3>2, <3>3
  <2>3. QED BY <2>1, <2>2
<1>2. (\A k \in On(lg, r) : k >= n) => \A k \in On(lg, r) : k >= m
  BY OnIsWrite
<1>3. QED BY <1>1, <1>2 DEF Ahead

\* Redo of a write that the page does not have yet.
LEMMA RedoneIsAhead ==
    ASSUME NEW lg, History(lg), Len(lg) \in Nat, NEW r \in Rid, NEW k \in On(lg, r),
           NEW n \in Nat, n <= k, NEW x \in Slot, NEW e, Ahead(lg, x, r, n, e),
           \A j \in On(lg, r) : ~(n <= j /\ j < k),
           Shape(lg[k + 1]), Holds(lg, lg[k + 1].old, r, k)
    PROVE  Ahead(lg, IF lg[k + 1].type # "INSERT" /\ x = Nil THEN Nil ELSE lg[k + 1].new,
                 r, k + 1, FALSE)
<1>1. /\ k \in Nat /\ k < Len(lg) /\ k + 1 \in k + 1 .. Len(lg) /\ k <= Len(lg) /\ IsW(lg, k)
      /\ lg[k + 1] \in LogRecord
  BY OnIsWrite DEF History
<1>2. lg[k + 1].old \in Slot /\ lg[k + 1].new \in Slot /\ Nil \in Slot
  BY <1>1, RecordFields DEF Slot
<1>3. CASE ~(lg[k + 1].type # "INSERT" /\ x = Nil)
  <2>1. Holds(lg, lg[k + 1].new, r, k + 1)
    BY <1>2, HoldsWritten, SameIsEquivalence
  <2>2. QED BY <1>1, <1>3, <2>1 DEF Ahead
<1>4. CASE lg[k + 1].type # "INSERT" /\ x = Nil
  <2>1. lg[k + 1].old # Nil
    BY <1>1, <1>4 DEF Shape, IsW, Writes
  <2>2. Ahead(lg, x, r, k, e)
    BY <1>1, AheadMoves
  <2>3. ~Holds(lg, x, r, k)
    <3>1. Holds(lg, x, r, k) => Same(x, lg[k + 1].old)
      BY <1>1, <1>2, HoldsOne
    <3>2. QED BY <1>2, <1>4, <2>1, <3>1, SameIsEquivalence
  <2>4. ~(\A j \in On(lg, r) : j >= k)
    <3>1. (\A j \in On(lg, r) : j >= k) => lg[k + 1].old = Nil
      BY DEF Holds
    <3>2. QED BY <2>1, <3>1
  <2>5. PICK q \in k .. Len(lg) : Holds(lg, x, r, q)
    BY <2>2, <2>4 DEF Ahead
  <2>6. q \in k + 1 .. Len(lg)
    BY <1>1, <2>3, <2>5
  <2>7. QED BY <1>4, <2>5, <2>6 DEF Ahead
<1>5. QED BY <1>3, <1>4

LEMMA AnalyzeKeeps ==
    ASSUME IInv, Analyze
    PROVE  (Contents /\ Redo /\ Undo)'
<1>1. /\ mode = "down" /\ mode' = "redo" /\ mem' = disk
      /\ UNCHANGED <<log, buffer, pc, pending>> /\ UNCHANGED disk /\ UNCHANGED pos
      /\ UNCHANGED undoing /\ UNCHANGED <<applied, att>>
  BY DEF Analyze, running, recovering
<1>2. (stolen' = stolen) /\ (reused' = reused) /\ (recreated' = recreated)
  BY DEF Analyze, ghosts
<1>3. Claimed => \A r \in Rid : Good(disk, r)
  BY <1>1, InRecovery DEF IInv
<1>4. Contents'
  BY <1>1, <1>2, <1>3, RecoveringContents DEF IInv
<1>5. Redo'
  <2>1. ~applied' /\ pos' = 0
    BY <1>1 DEF IInv, Redo
  <2>2. \A k \in Pos(log') : ~(k < pos')
    BY <2>1 DEF Pos
  <2>3. QED BY <1>1, <2>1, <2>2 DEF Redo
<1>6. Undo'
  BY <1>1 DEF IInv, Undo
<1>7. QED BY <1>4, <1>5, <1>6

LEMMA RedoSkipKeeps ==
    ASSUME IInv, RedoSkip
    PROVE  (Contents /\ Redo /\ Undo)'
<1>1. /\ mode = "redo" /\ mode' = "redo" /\ ~applied /\ ~applied' /\ pos < Len(log)
      /\ pos' = pos + 1 /\ (IsWrite(pos) => Barrier(mem, pos))
      /\ UNCHANGED <<log, buffer, pc, pending>> /\ UNCHANGED disk /\ UNCHANGED mem
      /\ UNCHANGED undoing
  BY DEF RedoSkip, running
<1>2. (stolen' = stolen) /\ (reused' = reused) /\ (recreated' = recreated)
  BY DEF RedoSkip, ghosts
<1>3. Claimed => \A r \in Rid : Good(disk, r) /\ Good(mem, r)
  BY <1>1, InRecovery DEF IInv, Recovering
<1>4. Contents'
  BY <1>1, <1>2, <1>3, RecoveringContents DEF IInv
<1>5. Redo'
  <2>1. \A k \in Pos(log) : IsW(log, k) /\ k < pos => k <= mem[PageOf[log[k + 1].rid]].lsn
    BY <1>1 DEF IInv, Redo, Recovering
  <2>2. pos \in Pos(log) /\ pos \in Int /\ \A k \in Pos(log) : k \in Int
    BY <1>1, BaseParts DEF IInv, TypeRest, Pos
  <2>3. IsW(log, pos) => pos <= mem[PageOf[log[pos + 1].rid]].lsn
    <3>1. mem[PageOf[log[pos + 1].rid]].lsn >= pos => pos <= mem[PageOf[log[pos + 1].rid]].lsn
      OBVIOUS
    <3>2. QED BY <1>1, <3>1 DEF IsWrite, IsW, Barrier, Rec
  <2>4. \A k \in Pos(log) : IsW(log, k) /\ k < pos + 1 => k <= mem[PageOf[log[k + 1].rid]].lsn
    <3>1. \A k \in Pos(log) : k < pos + 1 => k < pos \/ k = pos
      BY <2>2
    <3>2. QED BY <2>1, <2>3, <3>1
  <2>5. QED BY <1>1, <2>4 DEF Redo
<1>6. Undo'
  BY <1>1 DEF IInv, Undo
<1>7. QED BY <1>4, <1>5, <1>6

\* The write that redo is at.
LEMMA RedoPosition ==
    ASSUME IInv, mode = "redo", pos < Len(log), IsWrite(pos), ~Barrier(mem, pos)
    PROVE  /\ pos \in Pos(log) /\ pos \in Nat /\ IsW(log, pos) /\ Rec(pos) = log[pos + 1]
           /\ log[pos + 1].rid \in Rid /\ pos \in On(log, log[pos + 1].rid)
           /\ Shape(log[pos + 1])
           /\ \A r \in Rid : /\ mem[PageOf[r]].lsn + 1 \in Nat /\ PageOf[r] \in PageNo
                             /\ \A j \in On(log, r) :
                                    ~(mem[PageOf[r]].lsn + 1 <= j /\ j < pos)
           /\ mem[PageOf[log[pos + 1].rid]].lsn + 1 <= pos
           /\ \A k \in Pos(log) : IsW(log, k) /\ k < pos => k <= mem[PageOf[log[k + 1].rid]].lsn
<1>1. IsPages(mem) /\ Lsns = Pos(log) /\ \A k \in Pos(log) : Rec(k) = log[k + 1]
  BY TypesOfState DEF IInv
<1>2. pos \in Pos(log) /\ pos \in Nat
  BY BaseParts DEF IInv, TypeRest, Pos
<1>3. /\ Rec(pos) = log[pos + 1] /\ log[pos + 1].rid \in Rid /\ Shape(log[pos + 1])
      /\ IsW(log, pos)
  BY <1>1, <1>2, WriteFacts DEF IInv
<1>4. ASSUME NEW r \in Rid
      PROVE  /\ mem[PageOf[r]].lsn + 1 \in Nat /\ PageOf[r] \in PageNo
             /\ mem[PageOf[r]].lsn \in Nat
  BY <1>1, PageFacts DEF Pos
<1>5. \A k \in Pos(log) : IsW(log, k) /\ k < pos => k <= mem[PageOf[log[k + 1].rid]].lsn
  BY DEF IInv, Redo, Recovering
<1>6. ASSUME NEW r \in Rid, NEW j \in On(log, r)
      PROVE  ~(mem[PageOf[r]].lsn + 1 <= j /\ j < pos)
  <2>1. j \in Int /\ j \in Pos(log) /\ IsW(log, j) /\ log[j + 1].rid = r
    BY OnIsWrite
  <2>2. j < pos => j <= mem[PageOf[r]].lsn
    BY <1>5, <2>1
  <2>3. QED BY <1>4, <2>1, <2>2
<1>7. mem[PageOf[log[pos + 1].rid]].lsn + 1 <= pos
  <2>1. ~(mem[PageOf[log[pos + 1].rid]].lsn >= pos)
    BY <1>3 DEF Barrier
  <2>2. QED BY <1>2, <1>3, <1>4, <2>1
<1>8. pos \in On(log, log[pos + 1].rid)
  BY <1>2, <1>3 DEF On
<1>9. QED BY <1>2, <1>3, <1>4, <1>5, <1>6, <1>7, <1>8

LEMMA RedoApplyKeeps ==
    ASSUME IInv, RedoApply
    PROVE  (Contents /\ Redo /\ Undo)'
<1> DEFINE r == log[pos + 1].rid
           n == mem[PageOf[r]].lsn + 1
<1>1. /\ mode = "redo" /\ mode' = "redo" /\ applied' /\ pos < Len(log)
      /\ IsWrite(pos) /\ ~Barrier(mem, pos) /\ mem' = Redone(mem, pos)
      /\ UNCHANGED <<log, buffer, pc, pending>> /\ UNCHANGED disk /\ UNCHANGED pos
      /\ UNCHANGED undoing
  BY DEF RedoApply, running
<1>2. (stolen' = stolen) /\ (reused' = reused) /\ (recreated' = recreated)
  BY DEF RedoApply, ghosts
<1>3. /\ pos \in Pos(log) /\ pos \in Nat /\ IsW(log, pos) /\ Rec(pos) = log[pos + 1]
      /\ r \in Rid /\ pos \in On(log, r) /\ Shape(log[pos + 1])
      /\ n \in Nat /\ (\A j \in On(log, r) : ~(n <= j /\ j < pos)) /\ n <= pos
      /\ \A q \in Rid : PageOf[q] \in PageNo
      /\ \A k \in Pos(log) : IsW(log, k) /\ k < pos => k <= mem[PageOf[log[k + 1].rid]].lsn
  BY <1>1, RedoPosition
<1>4. /\ History(log) /\ Len(log) \in Nat /\ IsPages(mem)
      /\ \A j \in Pos(log) : ~Active(log, pc, j)
      /\ Claimed => Faithful(log) /\ \A q \in Rid : Good(disk, q) /\ Good(mem, q)
  BY <1>1, InRecovery DEF IInv, Recovering
<1>5. /\ \A p \in PageNo : mem'[p].lsn = mem[p].lsn
      /\ \A q \in Rid : At(mem', q) = IF q = r THEN RedoneSlot(pos, At(mem, q)) ELSE At(mem, q)
  BY <1>1, <1>3, <1>4, RedonePages DEF IInv
<1>6. At(mem, r) \in Slot
  BY <1>3, <1>4, PageFacts
<1>7. RedoneSlot(pos, At(mem, r)) =
          IF log[pos + 1].type # "INSERT" /\ At(mem, r) = Nil THEN Nil ELSE log[pos + 1].new
  BY <1>3 DEF RedoneSlot
<1> HIDE DEF r
<1>8. ASSUME Claimed, Kept(r) PROVE Ahead(log, At(mem', r), r, pos + 1, FALSE)
  <2>1. Reliable(log, log, pc, At(mem, r), r, n, stolen)
    BY <1>3, <1>4, <1>8 DEF Good
  <2>2. \A j \in On(log, r) : j < pos => Done(log, j)
    BY <1>3, <1>4, <1>8, KeptDone DEF IInv
  <2>3. Holds(log, log[pos + 1].old, r, pos)
    BY <1>3, <1>4, <1>8, <2>2 DEF Faithful
  <2>4. Ahead(log, At(mem, r), r, n, stolen)
    <3>1. CASE Sound(log, pc, On(log, r))
      BY <2>1, <3>1 DEF Reliable
    <3>2. CASE \E k \in On(log, r) : LostDelete(log, log, On(log, r), k)
      <4>1. PICK k \in On(log, r) : LostDelete(log, log, On(log, r), k)
        BY <3>2
      <4>2. k \in n .. Len(log)
        <5>1. pos <= k
          BY <1>3, <4>1 DEF LostDelete
        <5>2. k \in Int /\ k < Len(log)
          BY OnIsWrite
        <5>3. QED BY <1>3, <1>4, <5>1, <5>2
      <4>3. Ahead(log, At(mem, r), r, n, stolen) \/ Holds(log, At(mem, r), r, k)
        BY <2>1, <4>1 DEF Reliable
      <4>4. QED BY <4>2, <4>3 DEF Ahead
    <3>3. QED BY <1>8, <3>1, <3>2 DEF Kept
  <2> HIDE DEF n
  <2>5. Ahead(log, IF log[pos + 1].type # "INSERT" /\ At(mem, r) = Nil THEN Nil
                   ELSE log[pos + 1].new, r, pos + 1, FALSE)
    BY <1>3, <1>4, <1>6, <2>3, <2>4, RedoneIsAhead
  <2>6. QED BY <1>3, <1>5, <1>7, <2>5
<1>9. ASSUME Claimed, NEW q \in Rid PROVE Good(mem', q)
  <2>1. mem'[PageOf[q]].lsn = mem[PageOf[q]].lsn
    BY <1>3, <1>5
  <2>2. CASE q # r
    <3>1. At(mem', q) = At(mem, q)
      BY <1>5, <2>2
    <3>2. Good(mem, q)
      BY <1>4, <1>9
    <3>3. QED BY <2>1, <3>1, <3>2 DEF Good
  <2>3. CASE q = r
    <3>1. Kept(r) => Ahead(log, At(mem', r), r, n, stolen)
      <4>1. pos + 1 .. Len(log) \subseteq n .. Len(log)
        BY <1>3, <1>4
      <4>2. QED BY <1>8, <1>9, <4>1 DEF Ahead
    <3>2. Reliable(log, log, pc, At(mem', r), r, n, stolen)
      BY <3>1 DEF Reliable, Kept
    <3>3. QED BY <2>1, <2>3, <3>2 DEF Good
  <2>4. QED BY <2>2, <2>3
<1>10. Contents'
  BY <1>1, <1>2, <1>4, <1>9, RecoveringContents DEF IInv
<1>11. Redo'
  <2>1. ASSUME NEW k \in Pos(log), IsW(log, k), k < pos
        PROVE  k <= mem'[PageOf[log[k + 1].rid]].lsn
    <3>1. log[k + 1].rid \in Rid
      BY <2>1, WriteFacts DEF IInv
    <3>2. QED BY <1>3, <1>5, <2>1, <3>1
  <2>2. ~Barrier(mem', pos)
    BY <1>1, <1>3, <1>5 DEF Barrier, r
  <2>3. Claimed /\ Kept(r) => Ahead(log, At(mem', r), r, pos + 1, FALSE)
    BY <1>8
  <2>4. (Claimed' <=> Claimed) /\ (Kept(r)' <=> Kept(r)) /\ (Barrier(mem, pos)' <=> Barrier(mem', pos))
    <3>1. Claimed' <=> Claimed
      BY <1>2 DEF Claimed
    <3>2. r' = r
      BY <1>1 DEF r
    <3>3. Kept(r)' <=> Kept(r)
      BY <1>1, <3>2 DEF Kept
    <3>4. Barrier(mem, pos)' <=> Barrier(mem', pos)
      BY <1>1 DEF Barrier, Rec
    <3>5. QED BY <3>1, <3>3, <3>4
  <2>5. QED BY <1>1, <1>3, <2>1, <2>2, <2>3, <2>4 DEF Redo, r, At
<1>12. Undo'
  BY <1>1 DEF IInv, Undo
<1>13. QED BY <1>10, <1>11, <1>12

LEMMA RedoStampKeeps ==
    ASSUME IInv, RedoStamp
    PROVE  (Contents /\ Redo /\ Undo)'
<1> DEFINE r == log[pos + 1].rid
           P == PageOf[r]
<1>1. /\ applied /\ ~applied' /\ mem' = Stamp(mem, pos) /\ pos' = pos + 1
      /\ UNCHANGED <<log, buffer, pc, pending>> /\ UNCHANGED disk /\ UNCHANGED mode
      /\ UNCHANGED undoing
  BY DEF RedoStamp, running
<1>2. (stolen' = stolen) /\ (reused' = reused) /\ (recreated' = recreated)
  BY DEF RedoStamp, ghosts
<1>3. /\ mode = "redo" /\ pos < Len(log) /\ IsW(log, pos) /\ ~Barrier(mem, pos)
      /\ Claimed /\ Kept(r) => Ahead(log, At(mem, r), r, pos + 1, FALSE)
  BY <1>1 DEF IInv, Redo
<1>4. pos \in Pos(log) /\ IsWrite(pos)
  <2>1. pos \in Pos(log)
    BY <1>3, BaseParts DEF IInv, TypeRest, Pos
  <2>2. QED BY <1>3, <2>1, WriteFacts DEF IInv
<1>5. /\ pos \in Nat /\ Rec(pos) = log[pos + 1] /\ r \in Rid /\ pos \in On(log, r)
      /\ \A q \in Rid : /\ mem[PageOf[q]].lsn + 1 \in Nat /\ PageOf[q] \in PageNo
                        /\ \A j \in On(log, q) : ~(mem[PageOf[q]].lsn + 1 <= j /\ j < pos)
      /\ mem[P].lsn + 1 <= pos
      /\ \A k \in Pos(log) : IsW(log, k) /\ k < pos => k <= mem[PageOf[log[k + 1].rid]].lsn
  BY <1>3, <1>4, RedoPosition
<1>6. /\ History(log) /\ Len(log) \in Nat /\ IsPages(mem) /\ Lsns = Pos(log)
      /\ Claimed => \A q \in Rid : Good(disk, q) /\ Good(mem, q)
  BY <1>3, InRecovery DEF IInv, Recovering
<1>7. /\ \A q \in Rid : At(mem', q) = At(mem, q)
      /\ \A p \in PageNo : mem'[p].lsn = IF p = P THEN pos ELSE mem[p].lsn
  BY <1>1, <1>4, <1>5, <1>6, StampPages
<1> HIDE DEF r
<1>8. ASSUME Claimed, NEW q \in Rid PROVE Good(mem', q)
  <2> DEFINE n == mem[PageOf[q]].lsn + 1
             x == At(mem, q)
  <2>1. Reliable(log, log, pc, x, q, n, stolen)
    BY <1>6, <1>8 DEF Good
  <2>2. At(mem', q) = x /\ PageOf[q] \in PageNo
    BY <1>5, <1>7
  <2>3. CASE PageOf[q] # P
    <3>1. mem'[PageOf[q]].lsn + 1 = n
      BY <1>7, <2>2, <2>3
    <3> HIDE DEF n, x
    <3>2. QED BY <2>1, <2>2, <3>1 DEF Good
  <2>4. CASE PageOf[q] = P
    <3>1. mem'[PageOf[q]].lsn + 1 = pos + 1
      BY <1>7, <2>2, <2>4
    <3>2. Reliable(log, log, pc, x, q, pos + 1, stolen)
      <4>1. CASE q = r
        <5>1. Kept(r) => Ahead(log, x, r, pos + 1, stolen)
          BY <1>3, <1>8, <4>1 DEF Ahead
        <5>2. QED BY <4>1, <5>1 DEF Reliable, Kept
      <4>2. CASE q # r
        <5>1. n \in Nat /\ pos + 1 \in Nat /\ n <= pos + 1 /\ pos + 1 <= Len(log)
          BY <1>3, <1>5, <1>6, <2>4
        <5>2. \A j \in On(log, q) : ~(n <= j /\ j < pos + 1)
          <6>1. \A j \in On(log, q) : j \in Int /\ ~(n <= j /\ j < pos)
            BY <1>5, OnIsWrite
          <6>2. \A j \in On(log, q) : j # pos
            BY <4>2, OnIsWrite DEF r
          <6>3. QED BY <1>5, <6>1, <6>2
        <5> HIDE DEF n, x
        <5>3. Ahead(log, x, q, n, stolen) => Ahead(log, x, q, pos + 1, stolen)
          BY <1>6, <5>1, <5>2, AheadMoves
        <5>4. QED BY <2>1, <5>3 DEF Reliable
      <4>3. QED BY <4>1, <4>2
    <3>3. QED BY <2>2, <3>1, <3>2 DEF Good
  <2>5. QED BY <2>3, <2>4
<1>9. Contents'
  BY <1>1, <1>2, <1>3, <1>6, <1>8, RecoveringContents DEF IInv
<1>10. Redo'
  <2>1. ASSUME NEW k \in Pos(log), IsW(log, k), k < pos + 1
        PROVE  k <= mem'[PageOf[log[k + 1].rid]].lsn
    <3>1. log[k + 1].rid \in Rid /\ k \in Int
      BY <2>1, WriteFacts DEF IInv, Pos
    <3>2. PageOf[log[k + 1].rid] \in PageNo
      BY <1>5, <3>1
    <3>3. CASE PageOf[log[k + 1].rid] = P
      BY <1>5, <1>7, <2>1, <3>1, <3>2, <3>3
    <3>4. CASE PageOf[log[k + 1].rid] # P
      <4>1. k # pos
        BY <3>4 DEF r
      <4>2. k < pos
        BY <1>5, <2>1, <3>1, <4>1
      <4>3. QED BY <1>5, <1>7, <2>1, <3>2, <3>4, <4>2
    <3>5. QED BY <3>3, <3>4
  <2>2. QED BY <1>1, <1>3, <2>1 DEF Redo
<1>11. Undo'
  BY <1>1, <1>3 DEF IInv, Undo
<1>12. QED BY <1>9, <1>10, <1>11

LEMMA RedoEndKeeps ==
    ASSUME IInv, RedoEnd
    PROVE  (Contents /\ Redo /\ Undo)'
<1>1. /\ mode = "redo" /\ pos = Len(log) /\ disk' = mem /\ mode' = "undo"
      /\ att' = {t \in Txn : Unfinished(t)}
      /\ UNCHANGED <<log, buffer, pc, pending>> /\ UNCHANGED mem
      /\ UNCHANGED undoing /\ UNCHANGED pos /\ UNCHANGED applied
  BY DEF RedoEnd, running
<1>2. (stolen' = stolen) /\ (reused' = reused) /\ (recreated' = recreated)
  BY DEF RedoEnd, ghosts
<1>3. /\ History(log) /\ Len(log) \in Nat /\ Lsns = Pos(log)
      /\ \A k \in Pos(log) : Rec(k) = log[k + 1]
      /\ Claimed => \A q \in Rid : Good(mem, q)
  BY <1>1, InRecovery, TypesOfState DEF IInv, Recovering
<1>4. Contents'
  BY <1>1, <1>2, <1>3, RecoveringContents DEF IInv
<1>5. Redo'
  <2>1. \A k \in Pos(log) : IsW(log, k) => k <= mem[PageOf[log[k + 1].rid]].lsn
    <3>1. \A k \in Pos(log) : k < pos
      BY <1>1, <1>3 DEF Pos
    <3>2. QED BY <1>1, <3>1 DEF IInv, Redo, Recovering
  <2>2. ~applied
    <3>1. applied => pos < Len(log)
      BY DEF IInv, Redo
    <3>2. ~(pos < Len(log))
      BY <1>1, <1>3
    <3>3. QED BY <3>1, <3>2
  <2>3. QED BY <1>1, <2>1, <2>2 DEF Redo
<1>6. Undo'
  <2>1. undoing = NoUndo
    BY <1>1 DEF IInv, Undo
  <2>2. ASSUME NEW r \in Rid, NEW k \in On(log, r), LostDelete(log, log, On(log, r), k)
        PROVE  log[k + 1].txn \in att'
    <3>1. Losing(log, k) /\ k \in Pos(log) /\ IsW(log, k)
      BY <2>2, OnIsWrite DEF LostDelete
    <3>2. Begun(log, k) /\ log[k + 1].txn \in Txn
      BY <1>3, <3>1, WriteFacts DEF IInv
    <3>3. PICK b \in Pos(log) : /\ b < k /\ log[b + 1].type = "begin"
                                /\ log[b + 1].txn = log[k + 1].txn /\ NoneIn(log, b, k, Ends3)
      BY <3>2 DEF Begun
    <3>4. ASSUME NEW e \in Pos(log), e > b, log[e + 1].txn = log[k + 1].txn
          PROVE  log[e + 1].type \notin Ends3
      <4>1. CASE e <= k
        BY <3>3, <3>4, <4>1 DEF NoneIn
      <4>2. CASE ~(e <= k)
        <5>1. e > k
          BY <3>1, <4>2 DEF Pos
        <5>2. QED BY <3>1, <3>4, <5>1 DEF Losing, NoneAfter
      <4>3. QED BY <4>1, <4>2
    <3>5. Unfinished(log[k + 1].txn)
      BY <1>3, <3>3, <3>4 DEF Unfinished, Ends3
    <3>6. QED BY <1>1, <3>2, <3>5
  <2>3. \A t \in Txn : Unfinished(t)' <=> Unfinished(t)
    BY <1>1 DEF Unfinished, Lsns, Rec
  <2>4. QED BY <1>1, <2>1, <2>2, <2>3 DEF Undo, Restores
<1>7. QED BY <1>4, <1>5, <1>6

(***************************************************************************)
(* Undo.                                                                   *)
(***************************************************************************)

\* Steps of undo that change no page.
LEMMA SamePages ==
    ASSUME IInv, mode \in {"undo", "ready"}, mode' \in {"undo", "ready", "failed"},
           UNCHANGED <<log, buffer, pc, pending>>, UNCHANGED disk, UNCHANGED mem, UNCHANGED pos,
           UNCHANGED applied, (stolen' = stolen) /\ (reused' = reused) /\ (recreated' = recreated)
    PROVE  Contents' /\ Redo' /\ (Claimed' <=> Claimed)
<1>1. ~applied
  BY DEF IInv, Redo
<1>2. Claimed => \A q \in Rid : Good(disk, q) /\ Good(mem, q)
  BY InRecovery DEF IInv, Recovering
<1>3. Contents'
  BY <1>2, RecoveringContents DEF IInv
<1>4. Redo'
  <2>1. \A k \in Pos(log) : IsW(log, k) => k <= mem[PageOf[log[k + 1].rid]].lsn
    BY DEF IInv, Redo, Recovering
  <2>2. QED BY <1>1, <2>1 DEF Redo
<1>5. Claimed' <=> Claimed
  BY DEF Claimed
<1>6. QED BY <1>3, <1>4, <1>5

\* What undo is to restore.
LEMMA UndoFacts ==
    ASSUME IInv, mode \in {"undo", "ready"}
    PROVE  /\ mode = "undo" => \A t \in att : Unfinished(t)
           /\ mode = "undo" /\ undoing # NoUndo => Undoing(undoing.txn, undoing.lsn)
           /\ Claimed => \A r \in Rid : \A k \in On(log, r) :
                  LostDelete(log, log, On(log, r), k) => Restores(r, k)
           /\ \A r \in Rid : \A k \in On(log, r) :
                  /\ k \in Pos(log) /\ k \in Int /\ log[k + 1].txn \in Txn /\ IsW(log, k)
                  /\ log[k + 1].txn # Nil
           /\ \A k \in Pos(log) : k \in Int /\ Rec(k) = log[k + 1]
<1>1. History(log) /\ \A k \in Pos(log) : Rec(k) = log[k + 1]
  BY TypesOfState DEF IInv
<1>2. \A r \in Rid : \A k \in On(log, r) :
          k \in Pos(log) /\ k \in Int /\ log[k + 1].txn \in Txn /\ IsW(log, k)
  BY <1>1, OnIsWrite, RecordFields DEF History
<1>3. /\ mode = "undo" => \A t \in att : Unfinished(t)
      /\ mode = "undo" /\ undoing # NoUndo => Undoing(undoing.txn, undoing.lsn)
      /\ Claimed => \A r \in Rid : \A k \in On(log, r) :
             LostDelete(log, log, On(log, r), k) => Restores(r, k)
  BY DEF IInv, Undo
<1>4. \A k \in Pos(log) : k \in Int
  BY DEF Pos
<1>5. Nil \notin Txn
  BY Constants
<1>6. QED BY <1>1, <1>2, <1>3, <1>4, <1>5

LEMMA UndoTxnKeeps ==
    ASSUME IInv, NEW t \in Txn, UndoTxn(t)
    PROVE  (Contents /\ Redo /\ Undo)'
<1>1. /\ mode = "undo" /\ mode' = "undo" /\ undoing = NoUndo /\ t \in att
      /\ att' = att \ {t} /\ undoing' = [txn |-> t, lsn |-> LastLsn(t)]
      /\ UNCHANGED <<log, buffer, pc, pending>> /\ UNCHANGED disk /\ UNCHANGED mem
      /\ UNCHANGED pos /\ UNCHANGED applied
  BY DEF UndoTxn, running
<1>2. (stolen' = stolen) /\ (reused' = reused) /\ (recreated' = recreated)
  BY DEF UndoTxn, ghosts
<1>3. Contents' /\ Redo' /\ (Claimed' <=> Claimed)
  BY <1>1, <1>2, SamePages
<1>4. /\ \A u \in att : Unfinished(u)
      /\ Claimed => \A r \in Rid : \A k \in On(log, r) :
             LostDelete(log, log, On(log, r), k) => Restores(r, k)
      /\ \A r \in Rid : \A k \in On(log, r) :
             k \in Pos(log) /\ k \in Int /\ log[k + 1].txn \in Txn /\ log[k + 1].txn # Nil
  BY <1>1, UndoFacts
<1>5. /\ LastLsn(t) \in Pos(log) /\ LastLsn(t) \in Int /\ log[LastLsn(t) + 1].txn = t
      /\ \A k \in Pos(log) : log[k + 1].txn = t => k <= LastLsn(t)
  BY <1>1, <1>4, LastRecord DEF IInv, Pos
<1>6. Undoing(t, LastLsn(t))
  <2>1. \A e \in Pos(log) : e > LastLsn(t) => log[e + 1].txn # t
    BY <1>5 DEF Pos
  <2>2. QED BY <1>1, <1>4, <1>5, <2>1 DEF Undoing, NoneAfter
<1>7. Undo'
  <2>1. undoing'.txn = t /\ undoing'.lsn = LastLsn(t)
    BY <1>1
  <2>2. Undoing(undoing.txn, undoing.lsn)'
    BY <1>1, <1>6, <2>1 DEF Undoing, Unfinished, Lsns, Rec
  <2>3. \A u \in att' : Unfinished(u)'
    BY <1>1, <1>4 DEF Unfinished, Lsns, Rec
  <2>4. ASSUME Claimed, NEW r \in Rid, NEW k \in On(log, r), LostDelete(log, log, On(log, r), k)
        PROVE  Restores(r, k)'
    <3>1. Restores(r, k)
      BY <1>4, <2>4
    <3>2. CASE log[k + 1].txn = t
      BY <1>1, <1>4, <1>5, <2>1, <3>2 DEF Restores
    <3>3. CASE log[k + 1].txn # t
      <4>1. undoing.txn # log[k + 1].txn
        BY <1>1, <1>4 DEF NoUndo
      <4>2. QED BY <1>1, <3>1, <3>3, <4>1 DEF Restores
    <3>4. QED BY <3>2, <3>3
  <2>5. QED BY <1>1, <1>3, <2>2, <2>3, <2>4 DEF Undo
<1>8. QED BY <1>3, <1>7

LEMMA UndoBeginKeeps ==
    ASSUME IInv, UndoBegin
    PROVE  (Contents /\ Redo /\ Undo)'
<1> DEFINE u == undoing.lsn
<1>1. /\ mode = "undo" /\ mode' = "undo" /\ u # INVALID_LSN
      /\ Rec(u).type = "begin" /\ undoing' = NoUndo
      /\ UNCHANGED <<log, buffer, pc, pending>> /\ UNCHANGED disk /\ UNCHANGED mem
      /\ UNCHANGED pos /\ UNCHANGED applied /\ UNCHANGED att
  BY DEF UndoBegin, running
<1>2. (stolen' = stolen) /\ (reused' = reused) /\ (recreated' = recreated)
  BY DEF UndoBegin, ghosts
<1>3. Contents' /\ Redo' /\ (Claimed' <=> Claimed)
  BY <1>1, <1>2, SamePages
<1>4. /\ \A t \in att : Unfinished(t)
      /\ undoing # NoUndo => Undoing(undoing.txn, u)
      /\ Claimed => \A r \in Rid : \A k \in On(log, r) :
             LostDelete(log, log, On(log, r), k) => Restores(r, k)
      /\ \A r \in Rid : \A k \in On(log, r) :
             k \in Pos(log) /\ k \in Int /\ log[k + 1].txn \in Txn /\ IsW(log, k)
      /\ \A k \in Pos(log) : k \in Int /\ Rec(k) = log[k + 1]
  BY <1>1, UndoFacts
<1>5. Undoing(undoing.txn, u)
  BY <1>1, <1>4 DEF NoUndo
<1>6. u \in Pos(log) /\ u \in Int /\ log[u + 1].txn = undoing.txn /\ log[u + 1].type = "begin"
  BY <1>1, <1>4, <1>5 DEF Undoing
<1>7. Undo'
  <2>1. \A t \in att' : Unfinished(t)'
    BY <1>1, <1>4 DEF Unfinished, Lsns, Rec
  <2>2. ASSUME Claimed, NEW r \in Rid, NEW k \in On(log, r), LostDelete(log, log, On(log, r), k)
        PROVE  Restores(r, k)'
    <3>1. Restores(r, k)
      BY <1>4, <2>2
    <3>2. ~(undoing.txn = log[k + 1].txn /\ u >= k)
      <4>1. \A e \in Pos(log) : e > k /\ log[e + 1].txn = log[k + 1].txn => log[e + 1].type \notin Ends3
        BY <2>2 DEF LostDelete, Losing, NoneAfter
      <4>2. u # k
        BY <1>4, <1>6 DEF IsW, Writes
      <4>3. u >= k => u > k
        BY <1>4, <1>6, <4>2
      <4>4. QED BY <1>6, <4>1, <4>3 DEF Ends3
    <3>3. QED BY <1>1, <3>1, <3>2 DEF Restores
  <2>3. QED BY <1>1, <1>3, <2>1, <2>2 DEF Undo
<1>8. QED BY <1>3, <1>7

LEMMA UndoEndKeeps ==
    ASSUME IInv, UndoEnd
    PROVE  (Contents /\ Redo /\ Undo)'
<1>1. /\ mode = "undo" /\ mode' = "ready" /\ att = {} /\ undoing = NoUndo
      /\ UNCHANGED <<log, buffer, pc, pending>> /\ UNCHANGED disk /\ UNCHANGED mem
      /\ UNCHANGED pos /\ UNCHANGED applied /\ UNCHANGED undoing
  BY DEF UndoEnd, running, recovering
<1>2. (stolen' = stolen) /\ (reused' = reused) /\ (recreated' = recreated)
  BY DEF UndoEnd, ghosts
<1>3. Contents' /\ Redo' /\ (Claimed' <=> Claimed)
  BY <1>1, <1>2, SamePages
<1>4. /\ Claimed => \A r \in Rid : \A k \in On(log, r) :
             LostDelete(log, log, On(log, r), k) => Restores(r, k)
      /\ \A r \in Rid : \A k \in On(log, r) : log[k + 1].txn # Nil
  BY <1>1, UndoFacts
<1>5. Undo'
  <2>1. ASSUME Claimed, NEW r \in Rid, NEW k \in On(log, r), LostDelete(log, log, On(log, r), k)
        PROVE  Restores(r, k)'
    <3>1. Restores(r, k) /\ undoing.txn # log[k + 1].txn
      BY <1>1, <1>4, <2>1 DEF NoUndo
    <3>2. QED BY <1>1, <3>1 DEF Restores
  <2>2. QED BY <1>1, <1>3, <2>1 DEF Undo
<1>6. QED BY <1>3, <1>5

\* Undo is at a write of a transaction that has not ended.
LEMMA UndoPosition ==
    ASSUME IInv, mode = "undo", undoing.lsn # INVALID_LSN, IsWrite(undoing.lsn)
    PROVE  LET u == undoing.lsn
               p == log[u + 1].prev
           IN  /\ Undoing(undoing.txn, u) /\ u \in Pos(log) /\ u \in Int /\ IsW(log, u)
               /\ Rec(u) = log[u + 1] /\ log[u + 1].rid \in Rid /\ u \in On(log, log[u + 1].rid)
               /\ Shape(log[u + 1]) /\ log[u + 1].old \in Slot /\ ~Done(log, u)
               /\ p < u /\ p \in Int /\ Undoing(undoing.txn, p)
               /\ \A k \in Pos(log) : k < u /\ log[k + 1].txn = undoing.txn => k <= p
<1> DEFINE u == undoing.lsn
           p == log[u + 1].prev
           t == undoing.txn
<1>1. Undoing(t, u) /\ \A k \in Pos(log) : k \in Int /\ Rec(k) = log[k + 1]
  BY UndoFacts DEF NoUndo
<1>2. u \in Pos(log) /\ u \in Int /\ log[u + 1].txn = t /\ NoneAfter(log, u, {"begin"}) /\ t \in Txn
  BY <1>1 DEF Undoing
<1>3. /\ IsW(log, u) /\ Shape(log[u + 1]) /\ Chained(log, u)
      /\ log[u + 1].rid \in Rid /\ log[u + 1].old \in Slot
  BY <1>1, <1>2, WriteFacts DEF IInv
<1>4. /\ p \in Pos(log) /\ p \in Int /\ p < u /\ log[p + 1].txn = t
      /\ \A e \in Pos(log) : e > p /\ e < u => log[e + 1].txn # t
  BY <1>1, <1>2, <1>3 DEF Chained
<1>5. \A k \in Pos(log) : k < u /\ log[k + 1].txn = t => k <= p
  BY <1>1, <1>4
<1>6. ~Done(log, u)
  <2>1. PICK b \in Pos(log) : /\ log[b + 1].type = "begin" /\ log[b + 1].txn = t
                              /\ \A e \in Pos(log) : e > b /\ log[e + 1].txn = t =>
                                     log[e + 1].type \notin {"commit", "ABORT"}
    <3>1. Lsns = Pos(log)
      BY TypesOfState DEF IInv
    <3>2. QED BY <1>1, <3>1 DEF Undoing, Unfinished
  <2>2. b # u /\ ~(b > u)
    BY <1>2, <1>3, <2>1 DEF IsW, Writes, NoneAfter
  <2>3. b < u
    BY <1>1, <1>2, <2>2
  <2>4. \A e \in Pos(log) : e > u => e > b
    BY <1>1, <1>2, <2>3
  <2>5. QED BY <1>2, <2>1, <2>4 DEF Done, EndsIn, OneLife
<1>7. Undoing(t, p)
  <2>1. \A e \in Pos(log) : e > p /\ log[e + 1].txn = t => log[e + 1].type # "begin"
    <3>1. \A e \in Pos(log) : e > p => e < u \/ e = u \/ e > u
      BY <1>1, <1>2
    <3>2. log[u + 1].type # "begin"
      BY <1>3 DEF IsW, Writes
    <3>3. QED BY <1>2, <1>4, <3>1, <3>2 DEF NoneAfter
  <2>2. QED BY <1>1, <1>4, <2>1 DEF Undoing, NoneAfter
<1>8. u \in On(log, log[u + 1].rid)
  BY <1>2, <1>3 DEF On
<1>9. QED BY <1>1, <1>2, <1>3, <1>4, <1>5, <1>6, <1>7, <1>8

\* A lost delete whose page is stamped past it is in the slot until it is undone.
LEMMA LostDeleteIsDone ==
    ASSUME NEW lg, NEW r, NEW k \in On(lg, r), NEW n \in Nat, k < n, lg[k + 1].new = Nil,
           \A j \in On(lg, r) : j <= k, NEW x, NEW e, Ahead(lg, x, r, n, e)
    PROVE  x = Nil
<1>1. k \in Int
  BY OnIsWrite
<1>2. PICK q \in n .. Len(lg) : Holds(lg, x, r, q)
  BY <1>1 DEF Ahead
<1>3. k < q
  BY <1>1, <1>2
<1>4. Same(x, lg[k + 1].new)
  BY <1>2, <1>3 DEF Holds
<1>5. QED BY <1>4 DEF Same

LEMMA UndoRecordKeeps ==
    ASSUME IInv, UndoRecord
    PROVE  (Contents /\ Redo /\ Undo)'
<1> DEFINE u == undoing.lsn
           t == undoing.txn
           p == log[u + 1].prev
           r == log[u + 1].rid
<1>1. /\ mode = "undo" /\ u # INVALID_LSN /\ IsWrite(u)
      /\ UNCHANGED <<log, buffer, pc, pending>> /\ UNCHANGED disk
      /\ UNCHANGED pos /\ UNCHANGED applied /\ UNCHANGED att
      /\ undoing' = [undoing EXCEPT !.lsn = Rec(@).prev]
  BY DEF UndoRecord, running
<1>2. (stolen' = stolen) /\ (reused' = reused) /\ (recreated' = recreated)
  BY DEF UndoRecord, ghosts
<1>3. CASE UndoThrows(mem, u)
  <2>1. mode' = "failed" /\ UNCHANGED mem
    BY <1>3 DEF UndoRecord
  <2>2. Contents' /\ Redo'
    BY <1>1, <1>2, <2>1, SamePages
  <2>3. Undo'
    BY <2>1 DEF Undo
  <2>4. QED BY <2>2, <2>3
<1>4. CASE ~UndoThrows(mem, u)
  <2>1. mode' = "undo" /\ mem' = Undone(mem, u)
    BY <1>1, <1>4 DEF UndoRecord
  <2>2. /\ Undoing(t, u) /\ u \in Pos(log) /\ u \in Int /\ IsW(log, u) /\ Rec(u) = log[u + 1]
        /\ r \in Rid /\ u \in On(log, r) /\ Shape(log[u + 1]) /\ log[u + 1].old \in Slot
        /\ ~Done(log, u) /\ p < u /\ p \in Int /\ Undoing(t, p)
        /\ \A k \in Pos(log) : k < u /\ log[k + 1].txn = t => k <= p
    BY <1>1, UndoPosition
  <2>3. /\ IsPages(mem) /\ History(log) /\ Lsns = Pos(log)
        /\ \A j \in Pos(log) : ~Active(log, pc, j)
        /\ Claimed => Faithful(log) /\ \A q \in Rid : Good(disk, q) /\ Good(mem, q)
    BY <1>1, InRecovery DEF IInv, Recovering
  <2>4. /\ \A b \in PageNo : mem'[b].lsn = mem[b].lsn
        /\ \A q \in Rid : At(mem', q) = IF q = r THEN UndoneSlot(u, At(mem, q)) ELSE At(mem, q)
    BY <1>1, <2>1, <2>2, <2>3, UndonePages DEF IInv
  <2>5. \A q \in Rid : PageOf[q] \in PageNo /\ mem[PageOf[q]].lsn \in Nat
    BY <2>3, PageFacts DEF Pos
  <2>6. undoing'.txn = t /\ undoing'.lsn = p
    <3>1. undoing \in [txn : Txn \cup {Nil}, lsn : {INVALID_LSN} \cup Lsns]
      BY BaseParts DEF IInv, TypeRest
    <3>2. QED BY <1>1, <2>2, <3>1
  <2>7. /\ \A v \in att : Unfinished(v)
        /\ Claimed => \A q \in Rid : \A k \in On(log, q) :
               LostDelete(log, log, On(log, q), k) => Restores(q, k)
        /\ \A q \in Rid : \A k \in On(log, q) : k \in Pos(log) /\ k \in Int /\ IsW(log, k)
    BY <1>1, UndoFacts
  <2> HIDE DEF u, t, p, r
  <2>8. ASSUME Claimed, NEW k \in On(log, r), LostDelete(log, log, On(log, r), k)
        PROVE  k = u /\ Holds(log, At(mem', r), r, k)
    <3> DEFINE x == At(mem, r)
               n == mem[PageOf[r]].lsn + 1
    <3>1. /\ \A j \in On(log, r) : j <= k /\ (j # k => Done(log, j))
          /\ log[k + 1].type = "DELETE"
      BY <2>8 DEF LostDelete
    <3>2. k = u
      BY <2>2, <3>1
    <3>3. log[k + 1].new = Nil /\ Rec(u).type = "DELETE"
      BY <2>2, <3>1, <3>2 DEF Shape
    <3>4. CASE x = Nil
      <4>1. At(mem', r) = log[k + 1].old
        BY <2>2, <2>4, <3>2, <3>3, <3>4 DEF UndoneSlot
      <4>2. \A j \in On(log, r) : j < k => Done(log, j)
        BY <2>7, <2>2, <3>1
      <4>3. QED BY <2>2, <2>3, <2>8, <3>2, <4>1, <4>2 DEF Faithful
    <3>5. CASE x # Nil
      <4>1. At(mem', r) = x
        BY <2>2, <2>4, <3>3, <3>5 DEF UndoneSlot
      <4>2. Ahead(log, x, r, n, stolen) \/ Holds(log, x, r, k)
        BY <2>2, <2>3, <2>8 DEF Good, Reliable
      <4>3. n \in Nat /\ k < n
        <5>1. u <= mem[PageOf[r]].lsn
          BY <1>1, <2>2 DEF IInv, Redo, Recovering, r
        <5>2. mem[PageOf[r]].lsn \in Nat
          BY <2>2, <2>5
        <5>3. QED BY <2>2, <3>2, <5>1, <5>2
      <4> HIDE DEF x, n
      <4>4. ~Ahead(log, x, r, n, stolen)
        BY <3>1, <3>3, <3>5, <4>3, LostDeleteIsDone
      <4>5. QED BY <3>2, <4>1, <4>2, <4>4
    <3>6. QED BY <3>4, <3>5
  <2>9. ASSUME Claimed, NEW q \in Rid PROVE Good(mem', q)
    <3>1. mem'[PageOf[q]].lsn = mem[PageOf[q]].lsn
      BY <2>4, <2>5
    <3>2. CASE q # r
      <4>1. At(mem', q) = At(mem, q)
        BY <2>4, <3>2
      <4>2. Good(mem, q)
        BY <2>3, <2>9
      <4>3. QED BY <3>1, <4>1, <4>2 DEF Good
    <3>3. CASE q = r
      <4>1. ~Sound(log, pc, On(log, r))
        BY <2>2, <2>3 DEF Sound
      <4>2. \A k \in On(log, r) : LostDelete(log, log, On(log, r), k) => Holds(log, At(mem', r), r, k)
        BY <2>8, <2>9
      <4>3. QED BY <3>3, <4>1, <4>2 DEF Good, Reliable
    <3>4. QED BY <3>2, <3>3
  <2>10. Contents'
    BY <1>1, <1>2, <2>1, <2>3, <2>9, RecoveringContents DEF IInv
  <2>11. Redo'
    <3>1. ASSUME NEW k \in Pos(log), IsW(log, k) PROVE k <= mem'[PageOf[log[k + 1].rid]].lsn
      <4>1. log[k + 1].rid \in Rid
        BY <3>1, WriteFacts DEF IInv
      <4>2. k <= mem[PageOf[log[k + 1].rid]].lsn
        BY <1>1, <3>1 DEF IInv, Redo, Recovering
      <4>3. QED BY <2>4, <2>5, <4>1, <4>2
    <3>2. ~applied
      BY <1>1 DEF IInv, Redo
    <3>3. QED BY <1>1, <2>1, <3>1, <3>2 DEF Redo
  <2>12. Undo'
    <3>1. \A v \in att' : Unfinished(v)'
      BY <1>1, <2>7 DEF Unfinished, Lsns, Rec
    <3>2. Undoing(undoing.txn, undoing.lsn)'
      <4>1. /\ t \in Txn /\ Unfinished(t)
            /\ p \in Pos(log) /\ log[p + 1].txn = t /\ NoneAfter(log, p, {"begin"})
        BY <2>2 DEF Undoing
      <4>2. Unfinished(undoing.txn)'
        BY <1>1, <2>6, <4>1 DEF Unfinished, Lsns, Rec
      <4>3. /\ undoing'.txn \in Txn /\ undoing'.lsn \in Pos(log')
            /\ log'[undoing'.lsn + 1].txn = undoing'.txn
            /\ NoneAfter(log', undoing'.lsn, {"begin"})
        BY <1>1, <2>6, <4>1
      <4>4. QED BY <4>2, <4>3 DEF Undoing
    <3>3. ASSUME Claimed, NEW q \in Rid, NEW k \in On(log, q), LostDelete(log, log, On(log, q), k)
          PROVE  Restores(q, k)'
      <4>1. CASE q = r
        BY <1>1, <2>8, <3>3, <4>1 DEF Restores, At
      <4>2. CASE q # r
        <5>1. Restores(q, k)
          BY <2>7, <3>3
        <5>2. At(mem', q) = At(mem, q)
          BY <2>4, <4>2
        <5>3. k # u
          BY <4>2, OnIsWrite DEF r
        <5>4. log[k + 1].txn = t /\ u >= k => p >= k
          <6>1. u >= k => k < u
            BY <2>2, <2>7, <5>3
          <6>2. log[k + 1].txn = t /\ u >= k => k <= p
            BY <2>2, <2>7, <6>1
          <6>3. QED BY <2>2, <2>7, <6>2
        <5>5. QED BY <1>1, <2>1, <2>6, <5>1, <5>2, <5>4 DEF Restores, At, u, t
      <4>3. QED BY <4>1, <4>2
    <3>4. Claimed' <=> Claimed
      BY <1>2 DEF Claimed
    <3>5. QED BY <1>1, <2>1, <3>1, <3>2, <3>3, <3>4 DEF Undo
  <2>13. QED BY <2>10, <2>11, <2>12
<1>5. QED BY <1>3, <1>4

LEMMA ServeKeeps ==
    ASSUME IInv, Serve
    PROVE  (Contents /\ Redo /\ Undo)'
<1>1. /\ mode = "ready" /\ mode' = "run"
      /\ UNCHANGED <<log, buffer, pc, pending>> /\ UNCHANGED disk /\ UNCHANGED mem
      /\ UNCHANGED pos /\ UNCHANGED applied /\ UNCHANGED undoing /\ UNCHANGED stops
  BY DEF Serve, running, recovering, ghosts
<1>2. (stolen' = stolen) /\ (reused' = reused) /\ (recreated' = recreated)
  BY DEF Serve, ghosts
<1>3. /\ Hist = log /\ Len(log) \in Nat /\ stops # 0 /\ IsPages(mem) /\ Lsns = Pos(log)
      /\ \A t \in Txn : pending[t] = Nil
      /\ Claimed => \A r \in Rid : Good(disk, r) /\ Good(mem, r)
  BY <1>1, InRecovery DEF IInv, Recovering
<1>4. /\ Claimed => \A r \in Rid : \A k \in On(log, r) :
             LostDelete(log, log, On(log, r), k) => Restores(r, k)
      /\ \A r \in Rid : \A k \in On(log, r) : k \in Pos(log) /\ k \in Int /\ IsW(log, k)
  BY <1>1, UndoFacts
<1>5. ASSUME Claimed, NEW r \in Rid
      PROVE  UpToDate(log, log, pc, At(mem, r), r, ~stolen)
  <2> DEFINE n == mem[PageOf[r]].lsn + 1
             x == At(mem, r)
  <2>1. Reliable(log, log, pc, x, r, n, stolen)
    BY <1>3, <1>5 DEF Good
  <2>2. n \in Nat /\ n <= Len(log)
    BY <1>3, PageFacts DEF Pos
  <2>3. \A k \in On(log, r) : k < n
    <3>1. ASSUME NEW k \in On(log, r) PROVE k <= mem[PageOf[r]].lsn
      <4>1. k \in Pos(log) /\ IsW(log, k) /\ log[k + 1].rid = r
        BY OnIsWrite
      <4>2. QED BY <1>1, <4>1 DEF IInv, Redo, Recovering
    <3>2. mem[PageOf[r]].lsn \in Nat
      BY <1>3, PageFacts DEF Pos
    <3>3. QED BY <1>4, <3>1, <3>2
  <2>4. ASSUME NEW k \in On(log, r), LostDelete(log, log, On(log, r), k)
        PROVE  Holds(log, x, r, k)
    BY <1>1, <1>4, <1>5, <2>4 DEF Restores
  <2> HIDE DEF n, x
  <2>5. ASSUME Sound(log, pc, On(log, r)), On(log, r) # {} \/ ~stolen
        PROVE  Holds(log, x, r, Len(log))
    <3>1. Ahead(log, x, r, n, stolen)
      BY <2>1, <2>5 DEF Reliable
    <3>2. CASE \E q \in n .. Len(log) : Holds(log, x, r, q)
      <4>1. PICK q \in n .. Len(log) : Holds(log, x, r, q)
        BY <3>2
      <4>2. q \in Int /\ Len(log) \in Int /\ q <= Len(log)
            /\ \A k \in On(log, r) : ~(q <= k /\ k < Len(log))
        BY <1>3, <1>4, <2>2, <2>3, <4>1
      <4>3. QED BY <4>1, <4>2, HoldsMoves
    <3>3. CASE stolen /\ \A k \in On(log, r) : k >= n
      <4>1. \A k \in On(log, r) : FALSE
        BY <1>4, <2>2, <2>3, <3>3
      <4>2. QED BY <2>5, <3>3, <4>1
    <3>4. QED BY <3>1, <3>2, <3>3 DEF Ahead
  <2>6. QED BY <2>4, <2>5 DEF UpToDate, x
<1>6. Claimed => MemIsCurrent'
  <2>1. Hist' = log /\ log' = log /\ pc' = pc
    <3>1. Hist' = Hist
      BY <1>1 DEF Hist
    <3>2. QED BY <1>1, <1>3, <3>1
  <2>2. (~stolen \/ stops = 0)' <=> ~stolen
    BY <1>1, <1>2, <1>3
  <2>3. ASSUME Claimed, NEW r \in Rid
        PROVE  UpToDate(log, log, pc, At(mem, r), r, (~stolen \/ stops = 0)')
    BY <1>5, <2>2, <2>3 DEF UpToDate
  <2>4. QED BY <1>1, <1>3, <2>1, <2>3 DEF MemIsCurrent, At
<1>7. ~Recovering'
  BY <1>1 DEF Recovering
<1>8. Contents'
  BY <1>1, <1>2, <1>3, <1>6, <1>7, RecoveringContents DEF IInv
<1>9. Redo' /\ Undo'
  <2>1. ~applied /\ undoing = NoUndo
    BY <1>1 DEF IInv, Redo, Undo
  <2>2. QED BY <1>1, <1>7, <2>1 DEF Redo, Undo
<1>10. QED BY <1>8, <1>9

(***************************************************************************)
(* The invariant.                                                          *)
(***************************************************************************)

LEMMA QuietIdle ==
    ASSUME Idle, UNCHANGED <<buffer, running, stops>>, mode' = mode \/ mode # "run"
    PROVE  Idle'
BY DEF Idle, running

\* While the server runs, recovery has nothing under way.
LEMMA RunKeeps ==
    ASSUME IInv, mode = "run", mode' = "run", UNCHANGED applied, UNCHANGED undoing
    PROVE  Redo' /\ Undo'
<1>1. ~applied /\ undoing = NoUndo
  BY DEF IInv, Redo, Undo
<1>2. QED BY <1>1 DEF Redo, Undo, Recovering

LEMMA Unclaimed ==
    ASSUME ~Claimed'
    PROVE  Contents'
BY DEF Contents

LEMMA FlushPageKeeps ==
    ASSUME IInv, NEW p \in PageNo, FlushPage(p), Claimed' => Claimed
    PROVE  (Contents /\ Redo /\ Undo)'
<1>1. Contents'
  BY FlushPageContents, Unclaimed DEF IInv, Known
<1>2. /\ UNCHANGED <<mode, log, mem, pc, pos, att, undoing>> /\ UNCHANGED applied
  BY DEF FlushPage, running, recovering
<1>3. Redo'
  <2>1. mode' = "down" => pos' = 0
    BY <1>2 DEF IInv, Redo
  <2>2. Recovering' => \A k \in Pos(log') :
            IsW(log', k) /\ (mode' = "redo" => k < pos') => k <= mem'[PageOf[log'[k + 1].rid]].lsn
    BY <1>2 DEF IInv, Redo, Recovering
  <2>3. ASSUME applied'
        PROVE  /\ mode' = "redo" /\ pos' < Len(log') /\ IsW(log', pos') /\ ~Barrier(mem, pos)'
               /\ Claimed' /\ Kept(log[pos + 1].rid)'
                      => Ahead(log, At(mem, log[pos + 1].rid), log[pos + 1].rid, pos + 1, FALSE)'
    <3>1. /\ mode = "redo" /\ pos < Len(log) /\ IsW(log, pos) /\ ~Barrier(mem, pos)
          /\ Claimed /\ Kept(log[pos + 1].rid)
                 => Ahead(log, At(mem, log[pos + 1].rid), log[pos + 1].rid, pos + 1, FALSE)
      BY <1>2, <2>3 DEF IInv, Redo
    <3>2. ~Barrier(mem, pos)'
      BY <1>2, <3>1 DEF Barrier, Rec
    <3>3. Kept(log[pos + 1].rid)' => Kept(log[pos + 1].rid)
      BY <1>2 DEF Kept
    <3>4. QED BY <1>2, <3>1, <3>2, <3>3 DEF At
  <2>4. QED BY <2>1, <2>2, <2>3 DEF Redo
<1>4. Undo'
  <2>1. /\ mode # "undo" /\ mode # "failed" => undoing = NoUndo
        /\ mode = "undo" => \A t \in att : Unfinished(t)
        /\ mode = "undo" /\ undoing # NoUndo => Undoing(undoing.txn, undoing.lsn)
        /\ mode \in {"undo", "ready"} /\ Claimed =>
               \A r \in Rid : \A k \in On(log, r) :
                   LostDelete(log, log, On(log, r), k) => Restores(r, k)
    BY DEF IInv, Undo
  <2>2. \A t : Unfinished(t)' <=> Unfinished(t)
    BY <1>2 DEF Unfinished, Lsns, Rec
  <2>3. \A r, k : Restores(r, k)' <=> Restores(r, k)
    BY <1>2 DEF Restores, At
  <2>4. Undoing(undoing.txn, undoing.lsn)' <=> Undoing(undoing.txn, undoing.lsn)
    BY <1>2 DEF Undoing, Unfinished, Lsns, Rec
  <2>5. QED BY <1>2, <2>1, <2>2, <2>3, <2>4 DEF Undo
<1>5. QED BY <1>1, <1>3, <1>4

LEMMA StopKeepsContents ==
    ASSUME IInv, Crash \/ Shutdown, Claimed' => Claimed
    PROVE  (Contents /\ Redo /\ Undo)'
<1>1. Stopped /\ UNCHANGED <<log, disk, stolen>>
  BY DEF Crash, Shutdown
<1>2. Contents'
  BY <1>1, StopContents, Unclaimed DEF IInv, Known
<1>3. mode' = "down" /\ pos' = 0 /\ ~applied' /\ undoing' = NoUndo
  BY <1>1 DEF Stopped
<1>4. QED BY <1>2, <1>3 DEF Redo, Undo, Recovering

LEMMA NextContents ==
    ASSUME IInv, Next
    PROVE  (Contents /\ Redo /\ Undo)'
<1>1. Claimed' => Claimed
  BY ClaimedBack DEF IInv
<1>2. CASE \E t \in Txn : Begin(t) \/ AppendRecord(t) \/ Commit(t) \/ Abort(t) \/ End(t)
  <2>1. PICK t \in Txn : Begin(t) \/ AppendRecord(t) \/ Commit(t) \/ Abort(t) \/ End(t)
    BY <1>2
  <2>2. mode = "run" /\ mode' = "run" /\ UNCHANGED applied /\ UNCHANGED undoing
    BY <2>1 DEF Begin, AppendRecord, Commit, Abort, End, recovering
  <2>3. ASSUME Claimed' PROVE Contents'
    <3>1. Known
      BY <1>1, <2>3 DEF IInv, Known
    <3>2. QED BY <2>1, <2>3, <3>1, NoteContents, AppendContents, AbortContents
  <2>4. QED BY <2>2, <2>3, RunKeeps, Unclaimed
<1>3. CASE \E t \in Txn : \E r \in Rid : Insert(t, r) \/ Update(t, r) \/ Delete(t, r)
  <2>1. PICK t \in Txn, r \in Rid : Insert(t, r) \/ Update(t, r) \/ Delete(t, r)
    BY <1>3
  <2>2. PICK x, c : Changed(t, r, x, c)
    BY <2>1, ChangeIsChanged DEF IInv
  <2>3. mode = "run" /\ mode' = "run" /\ UNCHANGED applied /\ UNCHANGED undoing
    BY <2>2 DEF Changed, Change, recovering
  <2>4. ASSUME Claimed' PROVE Contents'
    <3>1. Known
      BY <1>1, <2>4 DEF IInv, Known
    <3>2. QED BY <2>2, <2>4, <3>1, ChangeContents
  <2>5. QED BY <2>3, <2>4, RunKeeps, Unclaimed
<1>4. CASE FlushLog
  <2>1. mode = "run" /\ mode' = "run" /\ UNCHANGED applied /\ UNCHANGED undoing
    BY <1>4 DEF FlushLog, IInv, Idle, recovering
  <2>2. ASSUME Claimed' PROVE Contents'
    <3>1. Known
      BY <1>1, <2>2 DEF IInv, Known
    <3>2. QED BY <1>4, <2>2, <3>1, FlushLogContents
  <2>3. QED BY <2>1, <2>2, RunKeeps, Unclaimed
<1>5. CASE \E p \in PageNo : FlushPage(p)
  BY <1>1, <1>5, FlushPageKeeps
<1>6. CASE RecreateTable
  <2>1. mode = "run" /\ mode' = "run" /\ UNCHANGED applied /\ UNCHANGED undoing
    BY <1>6 DEF RecreateTable, recovering
  <2>2. recreated' = recreated + 1 /\ recreated \in Nat
    BY <1>6, BaseParts DEF RecreateTable, IInv, TypeRest
  <2>3. recreated' # 0
    BY <2>2
  <2>4. ~Claimed'
    BY <2>3 DEF Claimed
  <2>5. QED BY <2>1, <2>4, RunKeeps, Unclaimed
<1>7. CASE Crash \/ Shutdown
  BY <1>1, <1>7, StopKeepsContents
<1>8. CASE RecoveryStep
  BY <1>8, AnalyzeKeeps, RedoSkipKeeps, RedoApplyKeeps, RedoStampKeeps, RedoEndKeeps, UndoTxnKeeps,
     UndoRecordKeeps, UndoBeginKeeps, UndoEndKeeps, ServeKeeps DEF RecoveryStep
<1>9. QED BY <1>2, <1>3, <1>4, <1>5, <1>6, <1>7, <1>8 DEF Next, TxnStep

LEMMA NextKept ==
    ASSUME IInv, Next
    PROVE  Kept1' /\ Kept2'
<1>1. Base /\ Idle /\ Histories /\ Redo /\ Undo
  BY DEF IInv
<1>2. Kept1
  BY <1>1, BaseParts DEF Kept1
<1>3. CASE \E t \in Txn : Begin(t) \/ AppendRecord(t) \/ Commit(t) \/ Abort(t) \/ End(t)
  BY <1>1, <1>3, BeginKeeps, AppendKeeps, FinishKeeps, EndIsFinished, EndKeeps, RunTypes
<1>4. CASE \E t \in Txn : \E r \in Rid : Insert(t, r) \/ Update(t, r) \/ Delete(t, r)
  <2>1. PICK t \in Txn, r \in Rid : Insert(t, r) \/ Update(t, r) \/ Delete(t, r)
    BY <1>4
  <2>2. PICK x, c : Changed(t, r, x, c)
    BY <1>1, <2>1, ChangeIsChanged
  <2>3. Kept1'
    BY <1>1, <2>2, ChangeKeeps
  <2>4. Kept2'
    BY <1>1, <2>2, RunTypes
  <2>5. QED BY <2>3, <2>4
<1>5. CASE FlushLog
  BY <1>1, <1>5, FlushKeeps, FlushTypes
<1>6. CASE (\E p \in PageNo : FlushPage(p)) \/ RecreateTable
  <2>1. UNCHANGED <<mode, log, buffer, running, stops>>
    BY <1>6 DEF FlushPage, RecreateTable
  <2>2. Idle'
    BY <1>1, <2>1, QuietIdle
  <2>3. Kept1'
    BY <1>2, <2>1, <2>2, QuietKeeps
  <2>4. Kept2'
    BY <1>1, <1>6, RunTypes
  <2>5. QED BY <2>3, <2>4
<1>7. CASE Crash \/ Shutdown
  <2>1. Stopped /\ UNCHANGED <<log, disk, recreated, writes>>
    BY <1>7 DEF Crash, Shutdown
  <2>2. QED BY <1>1, <2>1, StopKeeps, StopTypes
<1>8. CASE RecoveryStep
  <2>1. mode # "run" /\ UNCHANGED <<log, buffer, running, stops>>
    <3>1. CASE Analyze \/ RedoSkip \/ RedoApply \/ RedoEnd \/ (\E t \in Txn : UndoTxn(t))
      BY <3>1 DEF Analyze, RedoSkip, RedoApply, RedoEnd, UndoTxn, ghosts
    <3>2. CASE UndoRecord \/ UndoBegin \/ UndoEnd \/ Serve
      BY <3>2 DEF UndoRecord, UndoBegin, UndoEnd, Serve, ghosts
    <3>3. CASE RedoStamp
      BY <1>1, <3>3 DEF RedoStamp, Redo, ghosts
    <3>4. QED BY <1>8, <3>1, <3>2, <3>3 DEF RecoveryStep
  <2>2. Idle'
    BY <1>1, <2>1, QuietIdle
  <2>3. Kept1'
    BY <1>2, <2>1, <2>2, QuietKeeps
  <2>4. Kept2'
    BY <1>1, <1>8, RunTypes, RecoveryTypes DEF RecoveryStep
  <2>5. QED BY <2>3, <2>4
<1>9. QED BY <1>3, <1>4, <1>5, <1>6, <1>7, <1>8 DEF Next, TxnStep

LEMMA StutterKeeps ==
    ASSUME IInv, UNCHANGED vars
    PROVE  IInv'
<1>1. /\ UNCHANGED <<mode, log, buffer, disk, mem, running, recovering, stops>>
      /\ UNCHANGED <<mode, log, buffer, disk, mem, pc, pending, prev_lsn, write_set, lock>>
      /\ UNCHANGED <<pos, att, undoing, writes, stops, recreated>> /\ UNCHANGED applied
  BY DEF vars, running, recovering, ghosts
<1>2. (stolen' = stolen) /\ (reused' = reused)
  BY DEF vars, ghosts
<1>3. /\ Kept1 /\ Kept2 /\ FirstRun /\ Contents /\ Redo /\ Undo
  BY BaseParts DEF IInv, Kept1, Kept2
<1>4. Kept1'
  BY <1>1, <1>3, QuietIdle, QuietKeeps DEF Kept1
<1>5. Kept2'
  BY <1>1, <1>3 DEF Kept2, TypePages, TypeRest, IsPages, Lsns
<1>6. FirstRun'
  BY <1>1, <1>2, <1>3 DEF FirstRun
<1>7. Hist' = Hist /\ (Claimed' <=> Claimed) /\ (Recovering' <=> Recovering)
  BY <1>1, <1>2 DEF Hist, Claimed, Recovering
<1>8. Contents'
  <2>1. \A r : Settled(r)' <=> Settled(r)
    BY <1>1 DEF Settled
  <2>2. MemIsCurrent' <=> MemIsCurrent
    BY <1>1, <1>2, <1>7, <2>1 DEF MemIsCurrent, At
  <2>3. \A r : PageOK(disk, r)' <=> PageOK(disk, r)
    BY <1>1, <1>2, <1>7 DEF PageOK, At
  <2>4. \A r : PageOK(mem, r)' <=> PageOK(mem, r)
    BY <1>1, <1>2, <1>7 DEF PageOK, At
  <2>5. QED BY <1>1, <1>3, <1>7, <2>2, <2>3, <2>4 DEF Contents
<1>9. Redo'
  <2>1. Barrier(mem, pos)' <=> Barrier(mem, pos)
    BY <1>1 DEF Barrier, Rec
  <2>2. Kept(log[pos + 1].rid)' <=> Kept(log[pos + 1].rid)
    BY <1>1 DEF Kept
  <2>3. QED BY <1>1, <1>3, <1>7, <2>1, <2>2 DEF Redo, At
<1>10. Undo'
  <2>1. \A t : Unfinished(t)' <=> Unfinished(t)
    BY <1>1 DEF Unfinished, Lsns, Rec
  <2>2. \A r, k : Restores(r, k)' <=> Restores(r, k)
    BY <1>1 DEF Restores, At
  <2>3. Undoing(undoing.txn, undoing.lsn)' <=> Undoing(undoing.txn, undoing.lsn)
    BY <1>1 DEF Undoing, Unfinished, Lsns, Rec
  <2>4. QED BY <1>1, <1>3, <1>7, <2>1, <2>2, <2>3 DEF Undo
<1>11. Base'
  BY <1>4, <1>5, BasePartsNext DEF Kept1, Kept2
<1>12. QED BY <1>4, <1>6, <1>8, <1>9, <1>10, <1>11 DEF IInv, Kept1

LEMMA Inductive == IInv /\ [Next]_vars => IInv'
<1>1. ASSUME IInv, Next PROVE IInv'
  <2>1. Kept1' /\ Kept2' /\ (Contents /\ Redo /\ Undo)'
    BY <1>1, NextKept, NextContents
  <2>2. FirstRun'
    BY <1>1, FirstRunKept DEF IInv
  <2>3. Base'
    BY <2>1, BasePartsNext DEF Kept1, Kept2
  <2>4. QED BY <2>1, <2>2, <2>3 DEF IInv, Kept1
<1>2. QED BY <1>1, StutterKeeps

\* The history of the initial states: a transaction that has begun, written and committed.
Starts(h, b, w, c) ==
    /\ b \in LogRecord /\ w \in LogRecord /\ c \in LogRecord /\ h = <<b, w, c>>
    /\ b.type = "begin" /\ w.type = "INSERT" /\ c.type = "commit"
    /\ b.txn = w.txn /\ w.prev = 0 /\ w.rid \in Rid /\ w.old = Nil /\ w.new # Nil

LEMMA FirstHistory ==
    ASSUME NEW h, NEW b, NEW w, NEW c, Starts(h, b, w, c)
    PROVE  /\ h \in Seq(LogRecord) /\ Len(h) = 3 /\ Pos(h) = {0, 1, 2}
           /\ On(h, w.rid) = {1} /\ \A r : r # w.rid => On(h, r) = {}
           /\ h[2] = w
           /\ Shaped(h) /\ CommitIsLast(h) /\ Faithful(h)
<1>0. /\ b \in LogRecord /\ w \in LogRecord /\ c \in LogRecord /\ h = <<b, w, c>>
      /\ b.type = "begin" /\ w.type = "INSERT" /\ c.type = "commit"
      /\ b.txn = w.txn /\ w.prev = 0 /\ w.rid \in Rid /\ w.old = Nil /\ w.new # Nil
  BY DEF Starts
<1>1. /\ h \in Seq(LogRecord) /\ Len(h) = 3 /\ Pos(h) = {0, 1, 2}
      /\ h[0 + 1] = b /\ h[1 + 1] = w /\ h[2 + 1] = c
  BY <1>0 DEF Pos
<1>2. IsW(h, 1) /\ ~IsW(h, 0) /\ ~IsW(h, 2)
  BY <1>0, <1>1 DEF IsW, Writes
<1>3. On(h, w.rid) = {1} /\ \A r : r # w.rid => On(h, r) = {}
  BY <1>0, <1>1, <1>2 DEF On
<1>4. Shaped(h)
  <2>1. Shape(h[1 + 1])
    BY <1>0, <1>1 DEF Shape
  <2>2. Chained(h, 1)
    BY <1>0, <1>1 DEF Chained
  <2>3. Begun(h, 1)
    <3>1. NoneIn(h, 0, 1, Ends3)
      <4>1. \A e \in Pos(h) : e > 0 /\ e <= 1 => e = 1
        BY <1>1
      <4>2. h[1 + 1].type \notin Ends3
        BY <1>0, <1>1 DEF Ends3
      <4>3. QED BY <4>1, <4>2 DEF NoneIn
    <3>2. 0 \in Pos(h) /\ 0 < 1 /\ h[0 + 1].type = "begin" /\ h[0 + 1].txn = h[1 + 1].txn
      BY <1>0, <1>1
    <3>3. QED BY <3>1, <3>2 DEF Begun
  <2>4. QED BY <1>1, <1>2, <2>1, <2>2, <2>3 DEF Shaped
<1>5. CommitIsLast(h)
  <2>1. \A e \in Pos(h) : h[e + 1].type # "ABORT"
    BY <1>0, <1>1
  <2>2. QED BY <2>1 DEF CommitIsLast
<1>6. Faithful(h)
  <2>1. ASSUME NEW r \in Rid, NEW k \in On(h, r) PROVE Holds(h, h[k + 1].old, r, k)
    <3>1. r = w.rid /\ k = 1
      BY <1>3, <2>1
    <3>2. \A j \in On(h, r) : j = 1
      BY <1>3, <3>1
    <3>3. h[k + 1].old = Nil
      BY <1>0, <1>1, <3>1
    <3>4. QED BY <3>1, <3>2, <3>3 DEF Holds
  <2>2. QED BY <2>1 DEF Faithful
<1>7. QED BY <1>0, <1>1, <1>3, <1>4, <1>5, <1>6

LEMMA Initial == Init => IInv
<1> SUFFICES ASSUME Init PROVE IInv
  OBVIOUS
<1> DEFINE row == [trx |-> 0, val |-> 0]
           b == Note("begin", 0, INVALID_LSN)
           c == Note("commit", 0, INVALID_LSN)
<1>1. PICK s \in Rid :
          /\ log = <<b, [type |-> "INSERT", txn |-> 0, prev |-> 0, rid |-> s, old |-> Nil,
                         new |-> row], c>>
          /\ mem = Put(Empty, s, row) /\ disk \in {Empty, mem}
  BY DEF Init
<1> DEFINE w == [type |-> "INSERT", txn |-> 0, prev |-> 0, rid |-> s, old |-> Nil, new |-> row]
<1>2. /\ mode = "run" /\ buffer = <<>> /\ next_txn_id = 1
      /\ pc = [t \in Txn |-> IF t = 0 THEN "done" ELSE "none"]
      /\ pending = [t \in Txn |-> Nil] /\ prev_lsn = [t \in Txn |-> INVALID_LSN]
      /\ write_set = [t \in Txn |-> <<>>] /\ lock = [r \in Rid |-> Nil]
      /\ pos = 0 /\ att = {} /\ undoing = NoUndo /\ recreated = 0 /\ writes = 0 /\ stops = 0
  BY DEF Init
<1>3. ~applied /\ applied \in BOOLEAN /\ ~stolen /\ ~reused
  BY DEF Init
<1>4. 0 \in Txn /\ row \in Row /\ row \in Slot /\ row # Nil
  BY Constants DEF Row, Slot
<1>5. /\ b \in LogRecord /\ c \in LogRecord /\ b.type = "begin" /\ c.type = "commit" /\ b.txn = 0
  BY <1>4, NoteFacts DEF INVALID_LSN
<1>6. /\ w.type = "INSERT" /\ w.txn = 0 /\ w.prev = 0 /\ w.rid = s /\ w.old = Nil /\ w.new = row
      /\ w \in LogRecord
  <2>1. Nil \in Slot
    BY DEF Slot
  <2>2. "INSERT" \in {"begin", "commit", "ABORT"} \cup Writes
    BY DEF Writes
  <2>3. QED BY <1>4, <2>1, <2>2 DEF LogRecord
<1> HIDE DEF b, c, w, row
<1>7. log = <<b, w, c>>
  BY <1>1 DEF w
<1>8. /\ log \in Seq(LogRecord) /\ Len(log) = 3 /\ Pos(log) = {0, 1, 2}
      /\ On(log, s) = {1} /\ (\A r : r # s => On(log, r) = {})
      /\ log[2] = w /\ Shaped(log) /\ CommitIsLast(log) /\ Faithful(log)
  <2>1. Starts(log, b, w, c)
    BY <1>4, <1>5, <1>6, <1>7 DEF Starts
  <2>2. QED BY <1>6, <2>1, FirstHistory
<1>9. Hist = log /\ Lsns = {0, 1, 2}
  BY <1>2, <1>8 DEF Hist, Lsns, Pos
<1>10. /\ IsPages(Empty) /\ IsPages(mem)
       /\ \A q \in Rid : At(Empty, q) = Nil
       /\ \A q \in Rid : At(mem, q) = IF q = s THEN row ELSE Nil
       /\ \A p \in PageNo : Empty[p].lsn = 0 /\ mem[p].lsn = 0
  <2>1. /\ IsPages(Empty) /\ \A q \in Rid : At(Empty, q) = Nil
        /\ \A p \in PageNo : Empty[p].lsn = 0
    BY <1>9, EmptyPages
  <2>2. QED BY <1>1, <1>4, <2>1, PutPages
<1>11. /\ IsPages(disk) /\ \A p \in PageNo : disk[p].lsn = 0
       /\ (\A q \in Rid : At(disk, q) = Nil) \/ (\A q \in Rid : At(disk, q) = At(mem, q))
  <2>1. CASE disk = Empty
    BY <1>10, <2>1
  <2>2. CASE disk = mem
    BY <1>10, <2>2
  <2>3. QED BY <1>1, <2>1, <2>2
<1>12. \A t \in Txn : /\ pc[t] \in {"done", "none"} /\ (t >= 1 => pc[t] = "none")
                      /\ pending[t] = Nil /\ write_set[t] = <<>>
  BY <1>2, Constants
<1>13. Base
  <2>1. TypeLog /\ TypePages
    BY <1>2, <1>8, <1>10, <1>11 DEF TypeLog, TypePages
  <2>2. TypeTxns
    <3>1. /\ next_txn_id \in 0 .. MaxTxn + 1 /\ INVALID_LSN \in Int
      BY <1>2, Constants DEF INVALID_LSN
    <3>2. <<>> \in Seq([rid : Rid, old : Slot])
      OBVIOUS
    <3>3. QED BY <1>2, <3>1, <3>2 DEF TypeTxns, Phases
  <2>3. TypeRest
    BY <1>2, <1>3, <1>8 DEF TypeRest, NoUndo
  <2>4. QED BY <2>1, <2>2, <2>3, BaseParts
<1>14. Idle
  BY <1>2, <1>12 DEF Idle
<1>15. Histories
  <2>1. \A t \in Txn : pc[t] # "active" /\ pc[t] # "aborting"
    BY <1>12
  <2>2. \A j \in Pos(log) : ~Active(log, pc, j)
    <3>1. \A j \in Pos(log) : log[j + 1].txn \in Txn
      BY <1>13, TypesOfState, RecordFields DEF History
    <3>2. QED BY <2>1, <3>1 DEF Active
  <2>3. Lives(log, pc, prev_lsn) /\ Remembered(log, pc, write_set)
    BY <2>1 DEF Lives, Remembered
  <2>4. Locked(log, pc, lock)
    BY <2>2, OnIsWrite DEF Locked
  <2>5. Buffered(log, pc, Len(log))
    BY <1>8 DEF Buffered
  <2>6. QED BY <1>8, <1>9, <2>3, <2>4, <2>5 DEF Histories
<1>16. FirstRun
  BY <1>2, <1>10, <1>11 DEF FirstRun
<1>17. ASSUME NEW q \in Rid PROVE Holds(log, At(mem, q), q, 3)
  <2>1. CASE q = s
    <3>1. At(mem, q) = row /\ On(log, q) = {1}
      BY <1>8, <1>10, <2>1
    <3>2. Same(row, log[1 + 1].new)
      BY <1>4, <1>6, <1>8 DEF Same
    <3>3. ~(1 >= 3)
      OBVIOUS
    <3>4. QED BY <3>1, <3>2, <3>3 DEF Holds
  <2>2. CASE q # s
    <3>1. At(mem, q) = Nil /\ On(log, q) = {}
      BY <1>8, <1>10, <2>2
    <3>2. QED BY <3>1 DEF Holds
  <2>3. QED BY <2>1, <2>2
<1>18. ASSUME NEW q \in Rid, NEW k \in On(log, q) PROVE k = 1 /\ log[k + 1].type # "DELETE"
  <2>1. q = s /\ k = 1
    BY <1>8, <1>18
  <2>2. QED BY <1>6, <1>8, <2>1
<1>19. Contents
  <2>1. FaithfulNext(log, pending)
    BY <1>12 DEF FaithfulNext
  <2>2. MemIsCurrent
    <3>1. \A q \in Rid : UpToDate(log, log, pc, At(mem, q), q, ~stolen \/ stops = 0)
      BY <1>8, <1>17, <1>18 DEF UpToDate, LostDelete
    <3>2. QED BY <1>9, <1>12, <3>1 DEF MemIsCurrent
  <2>3. ASSUME NEW q \in Rid PROVE PageOK(disk, q)
    <3>1. disk[PageOf[q]].lsn + 1 = 1
      BY <1>10, <1>11, PageFacts
    <3>2. Ahead(log, At(disk, q), q, 1, stolen)
      <4>1. CASE At(disk, q) = Nil
        <5>1. \A k \in On(log, q) : k >= 1 /\ ~(k < 1)
          BY <1>18
        <5>2. Holds(log, At(disk, q), q, 1)
          BY <4>1, <5>1 DEF Holds
        <5>3. 1 \in 1 .. Len(log)
          BY <1>8
        <5>4. QED BY <5>2, <5>3 DEF Ahead
      <4>2. CASE At(disk, q) = At(mem, q)
        <5>1. 3 \in 1 .. Len(log)
          BY <1>8
        <5>2. QED BY <1>17, <4>2, <5>1 DEF Ahead
      <4>3. QED BY <1>11, <4>1, <4>2
    <3>3. QED BY <1>9, <3>1, <3>2 DEF PageOK, Reliable
  <2>4. ~Recovering
    BY <1>2 DEF Recovering
  <2>5. QED BY <1>8, <1>9, <2>1, <2>2, <2>3, <2>4 DEF Contents
<1>20. Redo /\ Undo
  BY <1>2, <1>3 DEF Redo, Undo, Recovering
<1>21. QED BY <1>13, <1>14, <1>15, <1>16, <1>19, <1>20 DEF IInv

LEMMA Invariant == Spec => []IInv
<1>1. QED BY Initial, Inductive, PTL DEF Spec

\* The state of every run of the system is of its type: whatever crash, flush or step of
\* recovery comes when, pages bear the lsn of a record of the log, and redo and undo stay
\* within it (log_recovery.cpp).
THEOREM TypeCorrect == Spec => []TypeOK
<1>1. IInv => TypeOK
  BY DEF IInv, Base
<1>2. QED BY <1>1, Invariant, PTL

\* The properties of Recovery speak of the log as the invariant does.
LEMMA SameTerms ==
    ASSUME Base
    PROVE  /\ \A r : WritesOf(r) = On(log, r)
           /\ \A k \in Pos(log) : (Committed(k) <=> Done(log, k)) /\ (Loser(k) <=> Losing(log, k))
<1>1. Lsns = Pos(log) /\ \A k \in Pos(log) : k \in Int /\ Rec(k) = log[k + 1]
  BY TypesOfState DEF Pos
<1>2. \A r : WritesOf(r) = On(log, r)
  BY <1>1 DEF WritesOf, On, IsWrite, IsW
<1>3. ASSUME NEW k \in Pos(log) PROVE Loser(k) <=> Losing(log, k)
  BY <1>1 DEF Loser, Losing, NoneAfter, Ends3
<1>4. ASSUME NEW k \in Pos(log), NEW e \in Pos(log), e > k PROVE SameLife(k, e) <=> OneLife(log, k, e)
  <2>1. \A b : b \in k + 1 .. e <=> b \in Pos(log) /\ b > k /\ b <= e
    BY <1>1, <1>4 DEF Pos
  <2>2. (\A b \in k + 1 .. e : ~(Rec(b).type = "begin" /\ Rec(b).txn = Rec(k).txn))
            <=> NoneIn(log, k, e, {"begin"})
    BY <1>1, <2>1 DEF NoneIn
  <2>3. QED BY <1>1, <2>2 DEF SameLife, OneLife
<1>5. ASSUME NEW k \in Pos(log), NEW T PROVE Ends(k, T) <=> EndsIn(log, k, T)
  BY <1>1, <1>4 DEF Ends, EndsIn
<1>6. ASSUME NEW k \in Pos(log) PROVE Committed(k) <=> Done(log, k)
  BY <1>5 DEF Committed, Done
<1>7. QED BY <1>2, <1>3, <1>6

\* After undo, a record of a slot that recovery answers for.
LEMMA ReadySlot ==
    ASSUME IInv, mode = "ready", Claimed, NEW r \in Rid, On(log, r) # {}
    PROVE  /\ Sound(log, pc, On(log, r)) => Holds(log, At(mem, r), r, Len(log))
           /\ \A k \in On(log, r) : LostDelete(log, log, On(log, r), k) => Holds(log, At(mem, r), r, k)
<1> DEFINE x == At(mem, r)
           n == mem[PageOf[r]].lsn + 1
<1>1. /\ Len(log) \in Nat /\ IsPages(mem) /\ Lsns = Pos(log)
      /\ Reliable(log, log, pc, x, r, n, stolen)
  BY InRecovery DEF IInv, Recovering, Good
<1>2. ASSUME NEW k \in On(log, r), LostDelete(log, log, On(log, r), k) PROVE Holds(log, x, r, k)
  BY <1>2, UndoFacts DEF Restores
<1>3. n \in Nat /\ \A k \in On(log, r) : k \in Int /\ k < n /\ k < Len(log)
  <2>1. mem[PageOf[r]].lsn \in Nat
    BY <1>1, PageFacts DEF Pos
  <2>2. ASSUME NEW k \in On(log, r) PROVE k \in Int /\ k <= mem[PageOf[r]].lsn /\ k < Len(log)
    <3>1. k \in Pos(log) /\ k \in Int /\ k < Len(log) /\ IsW(log, k) /\ log[k + 1].rid = r
      BY OnIsWrite
    <3>2. QED BY <3>1 DEF IInv, Redo, Recovering
  <2>3. QED BY <2>1, <2>2
<1> HIDE DEF x, n
<1>4. ASSUME Sound(log, pc, On(log, r)) PROVE Holds(log, x, r, Len(log))
  <2>1. Ahead(log, x, r, n, stolen)
    BY <1>1, <1>4 DEF Reliable
  <2>2. PICK q \in n .. Len(log) : Holds(log, x, r, q)
    <3>1. PICK k \in On(log, r) : TRUE
      OBVIOUS
    <3>2. ~(\A j \in On(log, r) : j >= n)
      BY <1>3, <3>1
    <3>3. QED BY <2>1, <3>2 DEF Ahead
  <2>3. q \in Int /\ Len(log) \in Int /\ q <= Len(log) /\ \A k \in On(log, r) : ~(q <= k /\ k < Len(log))
    BY <1>1, <1>3, <2>2
  <2>4. QED BY <2>2, <2>3, HoldsMoves
<1>5. QED BY <1>2, <1>4 DEF x

\* The content of a slot by those of its first n writes that have committed.
LEMMA HeldContent ==
    ASSUME NEW h, Len(h) \in Nat, NEW r, NEW n \in Int, NEW x \in Slot, Holds(h, x, r, n),
           NEW W, W = {k \in On(h, r) : k < n}
    PROVE  Same(x, IF W = {} THEN Nil ELSE h[Max(W) + 1].new)
<1>1. \A k \in On(h, r) : k \in Int /\ k >= 0 /\ k < Len(h)
  BY OnIsWrite
<1>2. CASE W = {}
  <2>1. \A k \in On(h, r) : k >= n
    BY <1>1, <1>2
  <2>2. x = Nil
    BY <2>1 DEF Holds
  <2>3. QED BY <1>2, <2>2 DEF Same
<1>3. CASE W # {}
  <2>1. W \subseteq 0 .. Len(h)
    BY <1>1
  <2>2. Max(W) \in W /\ \A k \in W : k <= Max(W)
    BY <1>3, <2>1, MaxIsGreatest
  <2>3. PICK m \in On(h, r) : m = Max(W) /\ m < n /\ \A k \in On(h, r) : k < n => k <= m
    BY <2>2
  <2>4. Same(x, h[m + 1].new)
    BY <2>3 DEF Holds
  <2>5. QED BY <1>3, <2>3, <2>4
<1>4. QED BY <1>2, <1>3

\* A record whose writers have all committed, but for a last one that has deleted it and
\* not ended, has its committed content when recovery is done, wherever the server and
\* recovery itself have crashed and whatever pages had reached the disk before the log
\* (analyze, redo and undo in log_recovery.cpp).
THEOREM CommittedSurvive == Spec => []CommittedWritesSurvive
<1>1. ASSUME IInv PROVE CommittedWritesSurvive
  <2>1. SUFFICES ASSUME mode = "ready", Claimed, NEW r \in Rid, WritesOf(r) # {},
                        WritersCommitted(r)
                 PROVE  Same(At(mem, r), CommittedContent(r))
    BY DEF CommittedWritesSurvive, Claimed
  <2> DEFINE x == At(mem, r)
             W == {k \in WritesOf(r) : Committed(k)}
  <2>2. Base /\ IsPages(mem) /\ Len(log) \in Nat /\ \A k \in Pos(log) : Rec(k) = log[k + 1]
    BY <1>1, TypesOfState DEF IInv
  <2>3. /\ WritesOf(r) = On(log, r)
        /\ \A k \in On(log, r) : /\ (Committed(k) <=> Done(log, k)) /\ (Loser(k) <=> Losing(log, k))
                                 /\ Rec(k) = log[k + 1] /\ k \in Int /\ k < Len(log) /\ k >= 0
    BY <2>2, SameTerms, OnIsWrite
  <2>4. x \in Slot
    BY <2>2, PageFacts
  <2>5. /\ Sound(log, pc, On(log, r)) => Holds(log, x, r, Len(log))
        /\ \A k \in On(log, r) : LostDelete(log, log, On(log, r), k) => Holds(log, x, r, k)
    BY <1>1, <2>1, <2>3, ReadySlot
  <2>6. CommittedContent(r) = IF W = {} THEN Nil ELSE log[Max(W) + 1].new
    <3>1. W # {} => Max(W) \in W
      <4>1. W \subseteq 0 .. Len(log)
        BY <2>2, <2>3
      <4>2. QED BY <2>2, <4>1, MaxIsGreatest
    <3>2. W # {} => Rec(Max(W)) = log[Max(W) + 1]
      BY <2>3, <3>1
    <3>3. QED BY <3>2 DEF CommittedContent
  <2> HIDE DEF x
  <2>7. CASE \A k \in On(log, r) : Done(log, k)
    <3>1. Holds(log, x, r, Len(log))
      BY <2>5, <2>7 DEF Sound
    <3>2. W = {k \in On(log, r) : k < Len(log)}
      BY <2>3, <2>7
    <3> HIDE DEF W
    <3>3. Same(x, IF W = {} THEN Nil ELSE log[Max(W) + 1].new)
      BY <2>2, <2>4, <3>1, <3>2, HeldContent
    <3>4. QED BY <2>6, <3>3 DEF x
  <2>8. CASE \E k \in On(log, r) : ~Done(log, k)
    <3>1. PICK k \in On(log, r) : ~Done(log, k)
      BY <2>8
    <3>2. /\ log[k + 1].type = "DELETE" /\ Losing(log, k)
          /\ \A j \in On(log, r) : j <= k
      BY <2>1, <2>3, <3>1 DEF WritersCommitted
    <3>3. ASSUME NEW j \in On(log, r), j # k PROVE Done(log, j)
      <4>1. j <= k /\ ~(k <= j)
        BY <2>3, <3>2, <3>3
      <4>2. QED BY <2>1, <2>3, <4>1 DEF WritersCommitted
    <3>4. LostDelete(log, log, On(log, r), k)
      BY <3>2, <3>3 DEF LostDelete
    <3>5. Holds(log, x, r, k) /\ k \in Int
      BY <2>3, <2>5, <3>4
    <3>6. W = {j \in On(log, r) : j < k}
      BY <2>3, <3>1, <3>2, <3>3
    <3> HIDE DEF W
    <3>7. Same(x, IF W = {} THEN Nil ELSE log[Max(W) + 1].new)
      BY <2>2, <2>4, <3>5, <3>6, HeldContent
    <3>8. QED BY <2>6, <3>7 DEF x
  <2>9. QED BY <2>7, <2>8
<1>2. QED BY <1>1, Invariant, PTL

=============================================================================
