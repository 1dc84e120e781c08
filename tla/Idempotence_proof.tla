------------------------- MODULE Idempotence_proof -------------------------
(***************************************************************************)
(* Proof that a recovery may crash and start over, at any step and as      *)
(* often as it likes, and, where it completes, still ends with the content *)
(* that an uninterrupted one would have led to (RecoveryIsIdempotent).  It *)
(* need not complete: undo throws at an insert or update it has undone     *)
(* before if the slot has been written back empty.                         *)
(*                                                                         *)
(* Redo is about pages: each page is one that an uninterrupted redo of the *)
(* disk as it was at the crash goes through, or has all of the log and has *)
(* been worked on by undo.  Which of the two it is the page LSN must tell, *)
(* and it moves after the change.  Undo is about slots: whatever a         *)
(* transaction has left in a slot, the undo of its records from the last   *)
(* to the first either leaves the slot alone, or brings it back to what    *)
(* the first of them has found, or throws; and what is half undone is      *)
(* again in one of these cases when undo starts from the last record.      *)
(* For this the changes of one transaction in a slot must follow one       *)
(* another, which the locks see to: that is what is said of the history.   *)
(***************************************************************************)
EXTENDS Recovery_proof

(***************************************************************************)
(* Pages and slots.                                                        *)
(***************************************************************************)
PageType(p) == [lsn : Int, slots : [OnPage(p) -> Slot]]
WritesPage(h, k, p) == IsW(h, k) /\ PageOf[h[k + 1].rid] = p
Deletes(h, k) == h[k + 1].type = "DELETE"

\* Redo of the record on its page, without the stamp and with it.
Applied(h, k, page) ==
    IF h[k + 1].type # "INSERT" /\ page.slots[h[k + 1].rid] = Nil THEN page
    ELSE [page EXCEPT !.slots[h[k + 1].rid] = h[k + 1].new]
PageRedo(h, k, p, page) ==
    IF WritesPage(h, k, p) /\ page.lsn < k THEN [Applied(h, k, page) EXCEPT !.lsn = k] ELSE page

\* Undo of the record in its slot.
SlotUndo(h, k, x) ==
    LET c == h[k + 1] IN
    IF c.type = "DELETE" THEN IF x = Nil THEN c.old ELSE x
    ELSE IF x # Nil /\ x.trx = c.txn THEN c.old ELSE x

\* f is the page p after each number of records that redo has done.
IsRedo(h, p, f) ==
    /\ f \in [0 .. Len(h) -> PageType(p)]
    /\ \A n \in Pos(h) : f[n + 1] = PageRedo(h, n, p, f[n])

(***************************************************************************)
(* What one unfinished transaction t has done to a slot: C is the set of   *)
(* its records there.                                                      *)
(***************************************************************************)
Lowest(C, k) == k \in C /\ \A j \in C : k <= j
Highest(C, k) == k \in C /\ \A j \in C : j <= k
Below(C, m, k) == k \in C /\ k < m /\ \A j \in C : j < m => j <= k

Stays(h, C, t, x) ==
    x # Nil /\ (x.trx # t \/ \E k \in C : Deletes(h, k) /\ \A j \in C : j = k)
Returns(h, C, t, x, m) ==
    /\ \A k \in C : Below(C, m, k) => /\ x = Nil => Deletes(h, k)
                                      /\ x # Nil => x.trx = t /\ ~(Lowest(C, k) /\ Deletes(h, k))
    /\ (\A k \in C : k >= m) => \A k \in C : Lowest(C, k) => x = h[k + 1].old
Stuck(h, C, x, m) == x = Nil /\ \E k \in C : Highest(C, k) /\ k < m /\ ~Deletes(h, k)
Before(h, C, x) == \A k \in C : Lowest(C, k) => x = h[k + 1].old

Own(h, t, r) == {k \in On(h, r) : Current(h, k, t)}
Leading(h, C, t, g, x, m) ==
    \/ Stays(h, C, t, x) /\ g = x
    \/ Returns(h, C, t, x, m) /\ Before(h, C, g)
    \/ Stuck(h, C, x, m)

Open(h, t) ==
    \E b \in Pos(h) : /\ h[b + 1].type = "begin" /\ h[b + 1].txn = t
                      /\ \A e \in Pos(h) : e > b /\ h[e + 1].txn = t =>
                                             h[e + 1].type \notin {"commit", "ABORT"}
Loses(h, t, r) == t \in Txn /\ Open(h, t) /\ Own(h, t, r) # {}
OneLoser(h, r) == \A t, u \in Txn : Loses(h, t, r) /\ Loses(h, u, r) => t = u

Leads(h, r, g, x, m) ==
    OneLoser(h, r) =>
        /\ \A t \in Txn : Loses(h, t, r) => Leading(h, Own(h, t, r), t, g, x, m[t])
        /\ (\A t \in Txn : ~Loses(h, t, r)) => x = g
Whole(h) == [t \in Txn |-> Len(h)]

Full(h, p, page) == \A k \in Pos(h) : WritesPage(h, k, p) => k <= page.lsn
Undoable(h, p, g, page, m) ==
    Full(h, p, page) /\ \A r \in OnPage(p) : Leads(h, r, g[r], page.slots[r], m)
Reached(h, p, f, g, page, n) ==
    \/ \E q \in n .. Len(h) : page = f[q]
    \/ \E q \in n .. Len(h) - 1 : /\ WritesPage(h, q, p) /\ f[q].lsn < q
                                  /\ page = Applied(h, q, f[q])
    \/ Undoable(h, p, g, page, Whole(h))
Way(h, p, f, g) ==
    IsRedo(h, p, f) /\ \A r \in OnPage(p) : Leads(h, r, g[r], f[Len(h)].slots[r], Whole(h))

Progress ==
    [t \in Txn |-> IF mode # "undo" THEN 0
                   ELSE IF undoing.txn = t THEN undoing.lsn + 1
                   ELSE IF t \in att THEN Len(log) ELSE 0]

RedoOn(p, f, g) ==
    IF applied /\ WritesPage(log, pos, p)
    THEN f[pos].lsn < pos /\ mem[p] = Applied(log, pos, f[pos])
    ELSE Reached(log, p, f, g, mem[p], pos)
Page(p, f) ==
    /\ Way(log, p, f, goal[p].slots)
    /\ Reached(log, p, f, goal[p].slots, disk[p], 0)
    /\ mode = "redo" => RedoOn(p, f, goal[p].slots)
    /\ mode \in {"undo", "ready"} => Undoable(log, p, goal[p].slots, mem[p], Progress)
Repeated == mode # "run" => \A p \in PageNo : \E f : Page(p, f)

(***************************************************************************)
(* The changes of one transaction in one slot.                             *)
(***************************************************************************)
Next2(h, r, j, k) ==
    /\ j \in On(h, r) /\ k \in On(h, r) /\ j < k /\ OneLife(h, j, k)
    /\ \A i \in On(h, r) : i > j /\ i < k => h[i + 1].txn # h[k + 1].txn
Successive(h) ==
    \A r \in Rid : \A j, k \in On(h, r) :
        Next2(h, r, j, k) => Leaves(h[j + 1].type, h[k + 1].old, h[k + 1].txn)
Latest(h, r, t, j) == Highest(Own(h, t, r), j)
\* m are pages of a server that runs, p and pend its pc and pending.
OwnLogged(h, m, pend) ==
    \A t \in Txn : pend[t] # Nil =>
        /\ Leaves(pend[t].type, At(m, pend[t].rid), t)
        /\ \A j : Latest(h, pend[t].rid, t, j) => Leaves(h[j + 1].type, pend[t].old, t)
OwnKept(h, m, p, pend) ==
    \A t \in Txn : \A r \in Rid : \A j :
        /\ p[t] = "active" /\ Latest(h, r, t, j)
        /\ pend[t] # Nil => pend[t].rid # r
        => Leaves(h[j + 1].type, At(m, r), t)
OwnChange == OwnLogged(Hist, mem, pending) /\ OwnKept(Hist, mem, pc, pending)

(***************************************************************************)
(* Undo of one transaction in one slot.                                    *)
(***************************************************************************)

\* What the records C of t in a slot say: each starts from what the one before it left.
Series(h, C, t) ==
    /\ Len(h) \in Nat /\ C \subseteq Pos(h)
    /\ \A k \in C : /\ h[k + 1].type \in Writes /\ h[k + 1].txn = t /\ Shape(h[k + 1])
                    /\ h[k + 1].old \in Slot
    /\ \A j, k \in C : Below(C, k, j) => Leaves(h[j + 1].type, h[k + 1].old, t)

LEMMA Extremes ==
    ASSUME NEW h, Len(h) \in Nat, NEW C, C \subseteq Pos(h)
    PROVE  /\ \A k \in C : k \in Int /\ 0 <= k /\ k < Len(h)
           /\ C # {} => (\E k \in C : Lowest(C, k)) /\ (\E k \in C : Highest(C, k))
           /\ \A m \in Int : (\E k \in C : k < m) => \E k \in C : Below(C, m, k)
<1>1. \A k \in C : k \in Nat /\ k < Len(h) /\ k \in 0 .. Len(h)
  BY DEF Pos
<1>2. ASSUME C # {} PROVE \E k \in C : Lowest(C, k)
  <2>1. C \subseteq Nat
    BY <1>1
  <2>2. Min(C) \in C /\ \A y \in C : Min(C) <= y
    BY <1>2, <2>1, MinIsLeast
  <2>3. QED BY <2>2 DEF Lowest
<1>3. ASSUME NEW S, S \subseteq C, S # {} PROVE \E k \in S : \A j \in S : j <= k
  <2>1. S \subseteq 0 .. Len(h)
    BY <1>1, <1>3
  <2>2. Max(S) \in S /\ \A y \in S : y <= Max(S)
    BY <1>3, <2>1, MaxIsGreatest
  <2>3. QED BY <2>2
<1>4. ASSUME C # {} PROVE \E k \in C : Highest(C, k)
  BY <1>3, <1>4 DEF Highest
<1>5. ASSUME NEW m \in Int, NEW q \in C, q < m PROVE \E k \in C : Below(C, m, k)
  <2> DEFINE S == {k \in C : k < m}
  <2>1. q \in S /\ S \subseteq C
    BY <1>5
  <2>2. PICK k \in S : \A j \in S : j <= k
    BY <1>3, <2>1
  <2>3. QED BY <2>2 DEF Below
<1>6. QED BY <1>1, <1>2, <1>4, <1>5

\* A slot that undo leaves alone stays as it is ...
LEMMA StaysOn ==
    ASSUME NEW h, NEW C, NEW t, Series(h, C, t), NEW x, Stays(h, C, t, x), NEW k \in C
    PROVE  SlotUndo(h, k, x) = x
<1>1. x # Nil /\ h[k + 1].txn = t
  BY DEF Series, Stays
<1>2. CASE x.trx # t
  BY <1>1, <1>2 DEF SlotUndo
<1>3. CASE \E q \in C : Deletes(h, q) /\ \A j \in C : j = q
  <2>1. Deletes(h, k)
    BY <1>3
  <2>2. QED BY <1>1, <2>1 DEF SlotUndo, Deletes
<1>4. QED BY <1>2, <1>3 DEF Stays

\* ... and the others follow the records back.
LEMMA ReturnsOn ==
    ASSUME NEW h, NEW C, NEW t, Series(h, C, t), NEW x, NEW m \in Int,
           Returns(h, C, t, x, m), NEW k \in C, Below(C, m, k)
    PROVE  Returns(h, C, t, SlotUndo(h, k, x), k)
<1> DEFINE y == SlotUndo(h, k, x)
           c == h[k + 1]
<1>1. /\ \A q \in C : q \in Int /\ 0 <= q /\ q < Len(h)
      /\ \A q \in C : q < k => \E j \in C : Below(C, k, j)
  BY Extremes DEF Series
<1>2. /\ c.type \in Writes /\ c.txn = t /\ Shape(c) /\ k < m
      /\ \A j \in C : Below(C, k, j) => Leaves(h[j + 1].type, c.old, t)
  BY DEF Series, Below
<1>3. /\ x = Nil => Deletes(h, k)
      /\ x # Nil => x.trx = t /\ ~(Lowest(C, k) /\ Deletes(h, k))
  BY DEF Returns
<1>4. CASE y = c.old
  <2>1. ASSUME NEW j \in C, Below(C, k, j)
        PROVE  /\ c.old = Nil => Deletes(h, j)
               /\ c.old # Nil => c.old.trx = t /\ ~Deletes(h, j)
    BY <1>2, <2>1 DEF Leaves, Deletes
  <2>2. ASSUME \A q \in C : q >= k, NEW q \in C, Lowest(C, q) PROVE y = h[q + 1].old
    <3>1. q = k
      BY <1>1, <2>2 DEF Lowest
    <3>2. QED BY <1>4, <3>1
  <2> HIDE DEF y, c
  <2>3. Returns(h, C, t, y, k)
    BY <1>4, <2>1, <2>2 DEF Returns
  <2>4. QED BY <2>3 DEF y
<1>5. CASE y # c.old
  <2>1. Deletes(h, k) /\ x # Nil /\ y = x
    BY <1>2, <1>3, <1>5 DEF SlotUndo, Deletes
  <2>2. x.trx = t /\ ~Lowest(C, k)
    BY <1>3, <2>1
  <2>3. PICK q \in C : q < k
    BY <1>1, <2>2 DEF Lowest
  <2>4. ASSUME NEW j \in C, Below(C, k, j) PROVE ~Deletes(h, j)
    <3>1. c.old # Nil
      BY <1>2, <2>1 DEF Shape, Deletes
    <3>2. QED BY <1>2, <2>4, <3>1 DEF Leaves, Deletes
  <2>5. ~\A j \in C : j >= k
    BY <1>1, <2>3
  <2> HIDE DEF y, c
  <2>6. Returns(h, C, t, y, k)
    BY <2>1, <2>2, <2>4, <2>5 DEF Returns
  <2>7. QED BY <2>6 DEF y
<1>6. QED BY <1>4, <1>5

\* Undo of one record, if it does not throw.
LEMMA UndoLeads ==
    ASSUME NEW h, NEW C, NEW t, Series(h, C, t), NEW g, NEW x, NEW m \in Int,
           Leading(h, C, t, g, x, m), NEW k \in C, Below(C, m, k),
           x # Nil \/ Deletes(h, k)
    PROVE  Leading(h, C, t, g, SlotUndo(h, k, x), k)
<1>1. CASE Stays(h, C, t, x) /\ g = x
  BY <1>1, StaysOn DEF Leading
<1>2. CASE Returns(h, C, t, x, m) /\ Before(h, C, g)
  BY <1>2, ReturnsOn DEF Leading
<1>3. CASE Stuck(h, C, x, m)
  <2>1. PICK q \in C : x = Nil /\ Highest(C, q) /\ q < m /\ ~Deletes(h, q)
    BY <1>3 DEF Stuck
  <2>2. \A j \in C : j \in Int
    BY Extremes DEF Series
  <2>3. q = k
    BY <2>1, <2>2 DEF Highest, Below
  <2>4. QED BY <2>1, <2>3
<1>4. QED BY <1>1, <1>2, <1>3 DEF Leading

\* Undo passes records that are not among them.
LEMMA PassedLeads ==
    ASSUME NEW h, NEW C, NEW t, Series(h, C, t), NEW g, NEW x, NEW m \in Int, NEW n \in Int,
           Leading(h, C, t, g, x, m), n <= m, \A k \in C : ~(n <= k /\ k < m)
    PROVE  Leading(h, C, t, g, x, n)
<1>1. \A k \in C : k \in Int /\ (k < n <=> k < m)
  <2>1. \A k \in C : k \in Int
    BY Extremes DEF Series
  <2>2. QED BY <2>1
<1>2. \A k \in C : Below(C, n, k) <=> Below(C, m, k)
  BY <1>1 DEF Below
<1>3. (\A k \in C : k >= n) <=> (\A k \in C : k >= m)
  BY <1>1
<1>4. Returns(h, C, t, x, m) => Returns(h, C, t, x, n)
  BY <1>2, <1>3 DEF Returns
<1>5. Stuck(h, C, x, m) => Stuck(h, C, x, n)
  BY <1>1 DEF Stuck
<1>6. QED BY <1>4, <1>5 DEF Leading

\* When undo is through, the slot is as it should be.
LEMMA LeadsHome ==
    ASSUME NEW h, NEW C, NEW t, Series(h, C, t), C # {}, NEW g, NEW x, NEW m \in Int,
           Leading(h, C, t, g, x, m), \A k \in C : k >= m
    PROVE  x = g
<1>1. PICK k \in C : Lowest(C, k)
  BY Extremes DEF Series
<1>2. \A j \in C : j \in Int
  BY Extremes DEF Series
<1>3. CASE Stuck(h, C, x, m)
  BY <1>2, <1>3 DEF Stuck
<1>4. CASE Returns(h, C, t, x, m) /\ Before(h, C, g)
  <2>1. x = h[k + 1].old
    BY <1>1, <1>4 DEF Returns
  <2>2. g = h[k + 1].old
    BY <1>1, <1>4 DEF Before
  <2>3. QED BY <2>1, <2>2
<1>5. QED BY <1>3, <1>4 DEF Leading

\* Every content of a slot is one of the three, before undo ...
LEMMA StartLeads ==
    ASSUME NEW h, NEW C, NEW t, Series(h, C, t), C # {}, NEW x
    PROVE  Stays(h, C, t, x) \/ Returns(h, C, t, x, Len(h)) \/ Stuck(h, C, x, Len(h))
<1>1. /\ \A k \in C : k \in Int /\ k < Len(h)
      /\ Len(h) \in Int
  BY Extremes DEF Series
<1>2. PICK k \in C : Highest(C, k)
  BY Extremes DEF Series
<1>3. \A j \in C : Below(C, Len(h), j) => j = k
  BY <1>1, <1>2 DEF Below, Highest
<1>4. ~\A j \in C : j >= Len(h)
  BY <1>1, <1>2
<1>5. CASE x = Nil
  <2>1. ~Deletes(h, k) => Stuck(h, C, x, Len(h))
    BY <1>1, <1>2, <1>5 DEF Stuck
  <2>2. Deletes(h, k) => Returns(h, C, t, x, Len(h))
    BY <1>3, <1>4, <1>5 DEF Returns
  <2>3. QED BY <2>1, <2>2
<1>6. CASE x # Nil /\ x.trx = t /\ ~Stays(h, C, t, x)
  <2>1. ~(Lowest(C, k) /\ Deletes(h, k))
    <3>1. SUFFICES ASSUME Lowest(C, k), Deletes(h, k) PROVE FALSE
      OBVIOUS
    <3>2. \A j \in C : j = k
      BY <1>1, <1>2, <3>1 DEF Lowest, Highest
    <3>3. QED BY <1>6, <3>1, <3>2 DEF Stays
  <2>2. QED BY <1>3, <1>4, <1>6, <2>1 DEF Returns
<1>7. QED BY <1>5, <1>6 DEF Stays

\* ... and also when it starts over.
LEMMA StartsOver ==
    ASSUME NEW h, NEW C, NEW t, Series(h, C, t), C # {}, NEW g, NEW x, NEW m \in Int,
           Leading(h, C, t, g, x, m)
    PROVE  Leading(h, C, t, g, x, Len(h))
<1>1. CASE Stays(h, C, t, x) /\ g = x
  BY <1>1 DEF Leading
<1>2. CASE Stuck(h, C, x, m)
  <2>1. \A k \in C : k < Len(h)
    BY Extremes DEF Series
  <2>2. QED BY <1>2, <2>1 DEF Leading, Stuck
<1>3. CASE Returns(h, C, t, x, m) /\ Before(h, C, g)
  <2>1. CASE Stays(h, C, t, x)
    <3>1. PICK k \in C : Lowest(C, k)
      BY Extremes DEF Series
    <3>2. /\ \A j \in C : j \in Int
          /\ (\E j \in C : j < m) => \E j \in C : Below(C, m, j)
      BY Extremes DEF Series
    <3>3. \A j \in C : j >= m
      <4> SUFFICES ASSUME NEW i \in C, ~(i >= m) PROVE FALSE
        OBVIOUS
      <4>1. PICK j \in C : Below(C, m, j)
        BY <3>2
      <4>2. x.trx = t /\ ~(Lowest(C, j) /\ Deletes(h, j))
        BY <1>3, <2>1, <4>1 DEF Returns, Stays
      <4>3. PICK q \in C : Deletes(h, q) /\ \A y \in C : y = q
        BY <2>1, <4>2 DEF Stays
      <4>4. j = q /\ k = q
        BY <4>3
      <4>5. QED BY <3>1, <4>2, <4>3, <4>4
    <3>4. x = g
      BY <1>3, <3>3, LeadsHome DEF Leading
    <3>5. QED BY <2>1, <3>4 DEF Leading
  <2>2. CASE ~Stays(h, C, t, x)
    BY <1>3, <2>2, StartLeads DEF Leading
  <2>3. QED BY <2>1, <2>2
<1>4. QED BY <1>1, <1>2, <1>3 DEF Leading

LEMMA OwnSeries ==
    ASSUME NEW h, History(h), Shaped(h), Successive(h), NEW t, NEW r \in Rid
    PROVE  Series(h, Own(h, t, r), t)
<1> DEFINE C == Own(h, t, r)
<1>1. /\ Len(h) \in Nat
      /\ \A k \in Pos(h) : k \in Int /\ h[k + 1] \in LogRecord
  BY DEF History, Pos
<1>2. \A k \in C : /\ k \in On(h, r) /\ k \in Pos(h) /\ IsW(h, k)
                   /\ h[k + 1].txn = t /\ NoneAfter(h, k, {"begin"})
  BY DEF Own, On, Current
<1>3. \A k \in C : /\ h[k + 1].type \in Writes /\ Shape(h[k + 1]) /\ h[k + 1].old \in Slot
  BY <1>1, <1>2, RecordFields DEF Shaped, IsW
<1>4. ASSUME NEW j \in C, NEW k \in C, Below(C, k, j)
      PROVE  Leaves(h[j + 1].type, h[k + 1].old, t)
  <2>1. j < k /\ j \in Int /\ k \in Int
    BY <1>1, <1>2, <1>4 DEF Below
  <2>2. OneLife(h, j, k)
    BY <1>2 DEF OneLife, NoneAfter, NoneIn
  <2>3. ASSUME NEW i \in On(h, r), i > j, i < k PROVE h[i + 1].txn # t
    <3>1. SUFFICES ASSUME h[i + 1].txn = t PROVE FALSE
      OBVIOUS
    <3>2. i \in Pos(h) /\ i \in Int
      BY <1>1 DEF On
    <3>3. NoneAfter(h, i, {"begin"})
      <4>1. \A e \in Pos(h) : e > i => e > j
        BY <1>1, <2>1, <2>3, <3>2
      <4>2. h[j + 1].txn = t /\ NoneAfter(h, j, {"begin"})
        BY <1>2
      <4>3. QED BY <3>1, <4>1, <4>2 DEF NoneAfter
    <3>4. i \in C
      BY <3>1, <3>3 DEF Own, Current
    <3>5. QED BY <1>4, <2>1, <2>3, <3>2, <3>4 DEF Below
  <2>4. Next2(h, r, j, k)
    BY <1>2, <2>1, <2>2, <2>3 DEF Next2
  <2>5. QED BY <1>2, <2>4 DEF Successive
<1>5. C \subseteq Pos(h)
  BY <1>2
<1> HIDE DEF C
<1>6. Series(h, C, t)
  BY <1>1, <1>2, <1>3, <1>4, <1>5 DEF Series
<1>7. QED BY <1>6 DEF C

\* A history in which undo can be followed.
Told(h) == History(h) /\ Shaped(h) /\ Successive(h)

\* Undo has visited records that are not of the slot.
LEMMA LeadsPassed ==
    ASSUME NEW h, Told(h), NEW r \in Rid, NEW g, NEW x,
           NEW m \in [Txn -> Int], NEW n \in [Txn -> Int], Leads(h, r, g, x, m),
           \A t \in Txn : Loses(h, t, r) =>
               n[t] <= m[t] /\ \A k \in Own(h, t, r) : ~(n[t] <= k /\ k < m[t])
    PROVE  Leads(h, r, g, x, n)
<1>1. ASSUME NEW t \in Txn, Loses(h, t, r), Leading(h, Own(h, t, r), t, g, x, m[t])
      PROVE  Leading(h, Own(h, t, r), t, g, x, n[t])
  <2>1. Series(h, Own(h, t, r), t)
    BY OwnSeries DEF Told
  <2>2. m[t] \in Int /\ n[t] \in Int
    OBVIOUS
  <2>3. QED BY <1>1, <2>1, <2>2, PassedLeads
<1>2. QED BY <1>1 DEF Leads

\* Undo starts over.
LEMMA LeadsAnew ==
    ASSUME NEW h, Told(h), NEW r \in Rid, NEW g, NEW x,
           NEW m \in [Txn -> Int], Leads(h, r, g, x, m)
    PROVE  Leads(h, r, g, x, Whole(h))
<1>1. ASSUME NEW t \in Txn, Loses(h, t, r), Leading(h, Own(h, t, r), t, g, x, m[t])
      PROVE  Leading(h, Own(h, t, r), t, g, x, Whole(h)[t])
  <2>1. Series(h, Own(h, t, r), t)
    BY OwnSeries DEF Told
  <2>2. m[t] \in Int /\ Own(h, t, r) # {} /\ Whole(h)[t] = Len(h)
    BY <1>1 DEF Loses, Whole
  <2>3. QED BY <1>1, <2>1, <2>2, StartsOver
<1>2. QED BY <1>1 DEF Leads

\* Undo is through.
LEMMA LeadsTo ==
    ASSUME NEW h, Told(h), NEW r \in Rid, OneLoser(h, r), NEW g, NEW x,
           NEW m \in [Txn -> Int], Leads(h, r, g, x, m),
           \A t \in Txn : Loses(h, t, r) => m[t] = 0
    PROVE  x = g
<1>1. CASE \A t \in Txn : ~Loses(h, t, r)
  BY <1>1 DEF Leads
<1>2. ASSUME NEW t \in Txn, Loses(h, t, r) PROVE x = g
  <2> DEFINE C == Own(h, t, r)
  <2>1. Series(h, C, t) /\ C # {}
    BY <1>2, OwnSeries DEF Told, Loses
  <2>2. Leading(h, C, t, g, x, 0)
    BY <1>2 DEF Leads
  <2>3. \A k \in C : k >= 0
    BY <2>1, Extremes DEF Series
  <2> HIDE DEF C
  <2>4. QED BY <2>1, <2>2, <2>3, LeadsHome
<1>3. QED BY <1>1, <1>2

(***************************************************************************)
(* Redo of one page.                                                       *)
(***************************************************************************)

LEMMA PageTypes ==
    ASSUME NEW h, History(h), Shaped(h), NEW p, NEW k \in Pos(h), WritesPage(h, k, p),
           NEW page \in PageType(p)
    PROVE  /\ h[k + 1].rid \in OnPage(p) /\ h[k + 1].new \in Slot /\ k \in Int
           /\ Applied(h, k, page) \in PageType(p) /\ Applied(h, k, page).lsn = page.lsn
           /\ Applied(h, k, Applied(h, k, page)) = Applied(h, k, page)
<1> DEFINE c == h[k + 1]
           r == c.rid
<1>1. c.rid \in OnPage(p) /\ c.new \in Slot /\ k \in Int
  <2>1. c \in LogRecord /\ k \in Int
    BY DEF History, Pos
  <2>2. Shape(c) /\ c.type \in Writes
    BY DEF Shaped, WritesPage, IsW
  <2>3. c.rid \in Rid /\ PageOf[c.rid] = p
    BY <2>2 DEF Shape, WritesPage
  <2> HIDE DEF c
  <2>4. QED BY <2>1, <2>3, RecordFields DEF OnPage
<1>2. page.lsn \in Int /\ page.slots \in [OnPage(p) -> Slot]
      /\ page = [lsn |-> page.lsn, slots |-> page.slots]
  BY DEF PageType
<1> DEFINE put == [page EXCEPT !.slots[r] = c.new]
<1>3. /\ put \in PageType(p) /\ put.lsn = page.lsn /\ put.slots[r] = c.new
      /\ put.slots = [page.slots EXCEPT ![r] = c.new]
      /\ [put EXCEPT !.slots[r] = c.new] = put
  BY <1>1, <1>2 DEF PageType
<1>4. Applied(h, k, page) \in {page, put}
  BY DEF Applied
<1>5. Applied(h, k, page) \in PageType(p) /\ Applied(h, k, page).lsn = page.lsn
  <2> HIDE DEF put
  <2>1. QED BY <1>3, <1>4
<1>6. Applied(h, k, Applied(h, k, page)) = Applied(h, k, page)
  <2>1. CASE c.type # "INSERT" /\ page.slots[r] = Nil
    BY <2>1 DEF Applied
  <2>2. CASE ~(c.type # "INSERT" /\ page.slots[r] = Nil)
    <3>1. Applied(h, k, page) = put
      BY <2>2 DEF Applied
    <3>2. Applied(h, k, put) \in {put, [put EXCEPT !.slots[r] = c.new]}
      BY DEF Applied
    <3> HIDE DEF put
    <3>3. QED BY <1>3, <3>1, <3>2
  <2>3. QED BY <2>1, <2>2
<1>7. QED BY <1>1, <1>5, <1>6

\* The stamp on the page is not behind the records that have been done.
LEMMA RedoLsn ==
    ASSUME NEW h, History(h), Shaped(h), NEW p, NEW f, IsRedo(h, p, f)
    PROVE  \A n \in 0 .. Len(h) : \A k \in Pos(h) :
               k < n /\ WritesPage(h, k, p) => k <= f[n].lsn
<1> DEFINE Good1(n) == \A k \in Pos(h) : k < n /\ WritesPage(h, k, p) => k <= f[n].lsn
           S == {n \in 0 .. Len(h) : ~Good1(n)}
<1> SUFFICES ASSUME S # {} PROVE FALSE
  OBVIOUS
<1>1. Len(h) \in Nat /\ \A k \in Pos(h) : k \in Nat /\ k + 1 \in 0 .. Len(h) /\ k \in 0 .. Len(h)
  BY DEF History, Pos
<1>2. PICK n \in S : \A y \in S : n <= y
  <2>1. S \subseteq Nat
    BY <1>1
  <2> HIDE DEF S
  <2>2. QED BY <2>1, MinIsLeast
<1>3. n \in 0 .. Len(h) /\ ~Good1(n)
  OBVIOUS
<1>4. PICK k \in Pos(h) : k < n /\ WritesPage(h, k, p) /\ ~(k <= f[n].lsn)
  BY <1>3
<1>5. n - 1 \in Pos(h) /\ n - 1 \in 0 .. Len(h) /\ ~(n <= n - 1) /\ n - 1 + 1 = n
  BY <1>1, <1>3, <1>4 DEF Pos
<1>6. Good1(n - 1)
  BY <1>2, <1>5
<1> DEFINE page == f[n - 1]
<1>7. page \in PageType(p) /\ f[n] = PageRedo(h, n - 1, p, page)
  BY <1>1, <1>3, <1>5 DEF IsRedo
<1>8. page.lsn \in Int
  BY <1>7 DEF PageType
<1>9. CASE WritesPage(h, n - 1, p) /\ page.lsn < n - 1
  <2>1. f[n] = [Applied(h, n - 1, page) EXCEPT !.lsn = n - 1]
    BY <1>7, <1>9 DEF PageRedo
  <2>2. Applied(h, n - 1, page) \in PageType(p)
    BY <1>5, <1>7, <1>9, PageTypes
  <2> HIDE DEF page
  <2>3. f[n].lsn = n - 1
    BY <2>1, <2>2 DEF PageType
  <2>4. QED BY <1>1, <1>3, <1>4, <2>3
<1>10. CASE ~(WritesPage(h, n - 1, p) /\ page.lsn < n - 1)
  <2>1. f[n] = page
    BY <1>7, <1>10 DEF PageRedo
  <2>2. k = n - 1 \/ k < n - 1
    BY <1>1, <1>3, <1>4
  <2>3. k = n - 1 => k <= page.lsn
    BY <1>1, <1>4, <1>8, <1>10
  <2>4. k < n - 1 => k <= page.lsn
    BY <1>4, <1>6
  <2>5. QED BY <1>4, <2>1, <2>2, <2>3, <2>4
<1>11. QED BY <1>9, <1>10

\* A redo of the page.
Replay(h, p, f) == History(h) /\ Shaped(h) /\ IsRedo(h, p, f)

LEMMA ReplayFacts ==
    ASSUME NEW h, NEW p, NEW f, Replay(h, p, f)
    PROVE  /\ Len(h) \in Nat /\ Len(h) \in 0 .. Len(h)
           /\ \A n \in Pos(h) : /\ n \in 0 .. Len(h) /\ n \in Int /\ n + 1 \in 0 .. Len(h)
                                /\ n \in 0 .. Len(h) - 1 /\ n + 1 \in Int
                                /\ f[n + 1] = PageRedo(h, n, p, f[n])
           /\ \A n \in 0 .. Len(h) : n \in Int /\ f[n] \in PageType(p) /\ f[n].lsn \in Int
           /\ 0 .. Len(h) - 1 = Pos(h)
<1>1. Len(h) \in Nat
  BY DEF Replay, History
<1>2. \A n \in 0 .. Len(h) : n \in Int /\ f[n] \in PageType(p)
  BY <1>1 DEF Replay, IsRedo
<1>3. \A n \in 0 .. Len(h) : f[n].lsn \in Int
  BY <1>2 DEF PageType
<1>4. \A n \in Pos(h) : f[n + 1] = PageRedo(h, n, p, f[n])
  BY DEF Replay, IsRedo
<1>5. \A n \in Pos(h) : /\ n \in 0 .. Len(h) /\ n \in Int /\ n + 1 \in 0 .. Len(h)
                        /\ n \in 0 .. Len(h) - 1 /\ n + 1 \in Int
  BY <1>1 DEF Pos
<1>6. QED BY <1>1, <1>2, <1>3, <1>4, <1>5 DEF Pos

LEMMA ReachedAnew ==
    ASSUME NEW h, NEW p, NEW f, Replay(h, p, f), NEW g, NEW page, NEW n \in Nat,
           Reached(h, p, f, g, page, n)
    PROVE  Reached(h, p, f, g, page, 0)
<1>1. \A q : (q \in n .. Len(h) => q \in 0 .. Len(h))
             /\ (q \in n .. Len(h) - 1 => q \in 0 .. Len(h) - 1)
  BY ReplayFacts
<1>2. QED BY <1>1 DEF Reached

\* Redo passes a record that is not of the page, or is in it.
LEMMA ReachedSkip ==
    ASSUME NEW h, NEW p, NEW f, Replay(h, p, f), NEW g, NEW page, NEW n \in Pos(h),
           Reached(h, p, f, g, page, n), ~WritesPage(h, n, p) \/ page.lsn >= n
    PROVE  Reached(h, p, f, g, page, n + 1)
<1>1. /\ Len(h) \in Nat /\ n \in 0 .. Len(h) /\ n \in Int /\ n + 1 \in n + 1 .. Len(h)
      /\ f[n + 1] = PageRedo(h, n, p, f[n]) /\ f[n].lsn \in Int /\ f[n] \in PageType(p)
  BY ReplayFacts
<1>2. CASE \E q \in n .. Len(h) : page = f[q]
  <2>1. PICK q \in n .. Len(h) : page = f[q]
    BY <1>2
  <2>2. CASE q = n
    <3>1. f[n + 1] = page
      BY <1>1, <2>1, <2>2 DEF PageRedo
    <3>2. QED BY <1>1, <3>1 DEF Reached
  <2>3. CASE q # n
    <3>1. q \in n + 1 .. Len(h)
      BY <1>1, <2>3
    <3>2. QED BY <2>1, <3>1 DEF Reached
  <2>4. QED BY <2>2, <2>3
<1>3. ASSUME NEW q \in n .. Len(h) - 1, WritesPage(h, q, p), f[q].lsn < q,
             page = Applied(h, q, f[q])
      PROVE  Reached(h, p, f, g, page, n + 1)
  <2>1. q # n
    <3>1. SUFFICES ASSUME q = n PROVE FALSE
      OBVIOUS
    <3>2. page.lsn = f[n].lsn
      BY <1>1, <1>3, <3>1, PageTypes DEF Replay
    <3>3. QED BY <1>1, <1>3, <3>1, <3>2
  <2>2. q \in n + 1 .. Len(h) - 1
    BY <1>1, <2>1
  <2>3. QED BY <1>3, <2>2 DEF Reached
<1>4. CASE Undoable(h, p, g, page, Whole(h))
  BY <1>4 DEF Reached
<1>5. QED BY <1>2, <1>3, <1>4 DEF Reached

\* Redo of a record that is not in the page.
LEMMA ReachedApply ==
    ASSUME NEW h, NEW p, NEW f, Replay(h, p, f), NEW g, NEW page, NEW n \in Pos(h),
           Reached(h, p, f, g, page, n), WritesPage(h, n, p), ~(page.lsn >= n),
           page.lsn \in Int
    PROVE  f[n].lsn < n /\ Applied(h, n, page) = Applied(h, n, f[n])
<1>1. /\ Len(h) \in Nat /\ n \in 0 .. Len(h) /\ n \in Int
      /\ \A q \in n .. Len(h) : /\ q \in 0 .. Len(h) /\ q \in Int
                                /\ f[q].lsn \in Int /\ f[q] \in PageType(p)
      /\ \A q \in n .. Len(h) - 1 : q \in n .. Len(h) /\ q \in Pos(h)
  <2>1. n .. Len(h) \subseteq 0 .. Len(h) /\ n .. Len(h) - 1 \subseteq 0 .. Len(h) - 1
    BY ReplayFacts
  <2>2. n .. Len(h) - 1 \subseteq n .. Len(h)
    BY ReplayFacts
  <2>3. QED BY <2>1, <2>2, ReplayFacts
<1>2. ASSUME NEW q \in n .. Len(h), f[q].lsn = page.lsn PROVE q = n
  <2>1. SUFFICES ASSUME n < q PROVE FALSE
    BY <1>1
  <2>2. n <= f[q].lsn
    BY <1>1, <2>1, RedoLsn DEF Replay
  <2>3. QED BY <1>1, <1>2, <2>2
<1>3. CASE \E q \in n .. Len(h) : page = f[q]
  <2>1. page = f[n]
    BY <1>2, <1>3
  <2>2. QED BY <1>1, <2>1
<1>4. ASSUME NEW q \in n .. Len(h) - 1, WritesPage(h, q, p), f[q].lsn < q,
             page = Applied(h, q, f[q])
      PROVE  f[n].lsn < n /\ Applied(h, n, page) = Applied(h, n, f[n])
  <2>1. /\ Applied(h, q, f[q]).lsn = f[q].lsn
        /\ Applied(h, q, Applied(h, q, f[q])) = Applied(h, q, f[q])
    BY <1>1, <1>4, PageTypes DEF Replay
  <2>2. q = n
    BY <1>1, <1>2, <1>4, <2>1
  <2>3. QED BY <1>4, <2>1, <2>2
<1>5. CASE Undoable(h, p, g, page, Whole(h))
  <2>1. n <= page.lsn
    BY <1>5 DEF Undoable, Full
  <2>2. QED BY <1>1, <2>1
<1>6. QED BY <1>3, <1>4, <1>5 DEF Reached

\* The stamp ends the redo of a record.
LEMMA ReachedStamp ==
    ASSUME NEW h, NEW p, NEW f, Replay(h, p, f), NEW g, NEW page, NEW n \in Pos(h),
           WritesPage(h, n, p), f[n].lsn < n, page = Applied(h, n, f[n])
    PROVE  Reached(h, p, f, g, [page EXCEPT !.lsn = n], n + 1)
<1>1. f[n + 1] = PageRedo(h, n, p, f[n]) /\ n + 1 \in n + 1 .. Len(h)
  BY ReplayFacts
<1>2. f[n + 1] = [page EXCEPT !.lsn = n]
  BY <1>1 DEF PageRedo
<1>3. QED BY <1>1, <1>2 DEF Reached

\* Redo is through.
LEMMA ReachedEnd ==
    ASSUME NEW h, NEW p, NEW f, Replay(h, p, f), NEW g, Way(h, p, f, g), NEW page,
           Reached(h, p, f, g, page, Len(h))
    PROVE  Undoable(h, p, g, page, Whole(h))
<1>1. Len(h) \in Nat /\ Len(h) .. Len(h) = {Len(h)} /\ Len(h) .. Len(h) - 1 = {}
  BY ReplayFacts
<1>2. CASE page = f[Len(h)]
  <2>1. Full(h, p, page)
    <3>1. ASSUME NEW k \in Pos(h), WritesPage(h, k, p) PROVE k <= f[Len(h)].lsn
      <4>1. k < Len(h) /\ Len(h) \in 0 .. Len(h)
        BY <1>1 DEF Pos
      <4>2. QED BY <3>1, <4>1, RedoLsn DEF Replay
    <3>2. QED BY <1>2, <3>1 DEF Full
  <2>2. QED BY <1>2, <2>1 DEF Undoable, Way
<1>3. QED BY <1>1, <1>2 DEF Reached

(***************************************************************************)
(* Recovery's operators on one page and on one slot.                       *)
(***************************************************************************)

LEMMA PageOfPages ==
    ASSUME NEW pages, IsPages(pages), NEW p \in PageNo
    PROVE  /\ pages[p] \in PageType(p)
           /\ \A r \in OnPage(p) : r \in Rid /\ PageOf[r] = p /\ pages[p].slots[r] = At(pages, r)
           /\ DOMAIN pages = PageNo
<1> DEFINE P == [lsn : Lsns, slots : UNION {[OnPage(q) -> Slot] : q \in PageNo}]
<1>1. /\ pages \in [PageNo -> P] /\ pages[p] \in P /\ pages[p].slots \in [OnPage(p) -> Slot]
      /\ pages[p] = [lsn |-> pages[p].lsn, slots |-> pages[p].slots] /\ pages[p].lsn \in Lsns
  BY DEF IsPages
<1>2. Lsns \subseteq Int
  BY DEF Lsns
<1> HIDE DEF P
<1>3. pages[p] \in PageType(p)
  BY <1>1, <1>2 DEF PageType
<1>4. \A r \in OnPage(p) : r \in Rid /\ PageOf[r] = p /\ pages[p].slots[r] = At(pages, r)
  BY DEF OnPage, At
<1>5. QED BY <1>1, <1>3, <1>4

LEMMA RedoneOnPage ==
    ASSUME Base, Histories, NEW k \in Pos(log), IsWrite(k), NEW pages, IsPages(pages),
           NEW p \in PageNo
    PROVE  Redone(pages, k)[p] =
               IF WritesPage(log, k, p) THEN Applied(log, k, pages[p]) ELSE pages[p]
<1> DEFINE r == Rec(k).rid
<1>1. r \in Rid /\ PageOf[r] \in PageNo /\ Rec(k) = log[k + 1] /\ IsW(log, k)
  BY WriteFacts DEF PageNo
<1>2. WritesPage(log, k, p) <=> PageOf[r] = p
  BY <1>1 DEF WritesPage
<1>3. DOMAIN pages = PageNo
  BY PageOfPages
<1> HIDE DEF r
<1>4. \A x : Put(pages, r, x)[p] =
          IF PageOf[r] = p THEN [pages[p] EXCEPT !.slots[r] = x] ELSE pages[p]
  BY <1>1, <1>3 DEF Put
<1>5. Redone(pages, k)[p] = IF PageOf[r] = p THEN Applied(log, k, pages[p]) ELSE pages[p]
  <2>1. CASE Rec(k).type # "INSERT" /\ At(pages, r) = Nil
    <3>1. PageOf[r] = p => Applied(log, k, pages[p]) = pages[p]
      BY <1>1, <2>1 DEF Applied, At, r
    <3>2. Redone(pages, k) = pages
      BY <2>1 DEF Redone, r
    <3>3. QED BY <3>1, <3>2
  <2>2. CASE ~(Rec(k).type # "INSERT" /\ At(pages, r) = Nil)
    <3>1. PageOf[r] = p => Applied(log, k, pages[p]) = [pages[p] EXCEPT !.slots[r] = Rec(k).new]
      BY <1>1, <2>2 DEF Applied, At, r
    <3>2. Redone(pages, k) = Put(pages, r, Rec(k).new)
      BY <2>2 DEF Redone, r
    <3>3. QED BY <1>4, <3>1, <3>2
  <2>3. QED BY <2>1, <2>2
<1>6. QED BY <1>2, <1>5

LEMMA StampOnPage ==
    ASSUME Base, Histories, NEW k \in Pos(log), IsWrite(k), NEW pages, IsPages(pages),
           NEW p \in PageNo
    PROVE  /\ Stamp(pages, k)[p] =
                  IF WritesPage(log, k, p) THEN [pages[p] EXCEPT !.lsn = k] ELSE pages[p]
           /\ WritesPage(log, k, p) => (Barrier(pages, k) <=> pages[p].lsn >= k)
<1> DEFINE r == Rec(k).rid
<1>1. r \in Rid /\ PageOf[r] \in PageNo /\ Rec(k) = log[k + 1] /\ IsW(log, k)
  BY WriteFacts DEF PageNo
<1>2. WritesPage(log, k, p) <=> PageOf[r] = p
  BY <1>1 DEF WritesPage
<1>3. DOMAIN pages = PageNo
  BY PageOfPages
<1> HIDE DEF r
<1>4. Stamp(pages, k)[p] = IF PageOf[r] = p THEN [pages[p] EXCEPT !.lsn = k] ELSE pages[p]
  BY <1>1, <1>3 DEF Stamp, r
<1>5. QED BY <1>2, <1>4 DEF Barrier, r

LEMMA UndoOfSlot ==
    ASSUME Base, Histories, NEW k \in Pos(log), IsWrite(k), NEW pages, IsPages(pages)
    PROVE  /\ IsPages(Undone(pages, k))
           /\ \A p \in PageNo : Undone(pages, k)[p].lsn = pages[p].lsn
           /\ \A q \in Rid : At(Undone(pages, k), q) =
                  IF k \in On(log, q) THEN SlotUndo(log, k, At(pages, q)) ELSE At(pages, q)
<1>1. \A q \in Rid : k \in On(log, q) <=> Rec(k).rid = q
  BY WriteFacts DEF On
<1>2. \A x : UndoneSlot(k, x) = SlotUndo(log, k, x)
  BY WriteFacts DEF UndoneSlot, SlotUndo
<1>3. QED BY <1>1, <1>2, UndonePages

\* The records that undo visits are those of the last life of an unfinished transaction.
LEMMA ChainIsOwn ==
    ASSUME Base, Histories, NEW t \in Txn
    PROVE  /\ Unfinished(t) <=> Open(log, t)
           /\ Unfinished(t) => \A k : k \in Chain(t) <=>
                  k \in Pos(log) /\ IsW(log, k) /\ Current(log, k, t)
           /\ \A r \in Rid : Loses(log, t, r) <=> t \in Losers(r)
<1>1. /\ Lsns = Pos(log) /\ Len(log) \in Nat /\ History(log)
      /\ \A k \in Pos(log) : Rec(k) = log[k + 1]
      /\ \A k \in Pos(log) : IsW(log, k) <=> IsWrite(k)
  BY TypesOfState, WriteFacts
<1>2. Unfinished(t) <=> Open(log, t)
  BY <1>1 DEF Unfinished, Open
<1>3. ASSUME Unfinished(t), NEW k
      PROVE  k \in Chain(t) <=> k \in Pos(log) /\ IsW(log, k) /\ Current(log, k, t)
  <2> DEFINE S == {j \in Lsns : Rec(j).txn = t /\ Rec(j).type = "begin"}
  <2>1. S # {} /\ S \subseteq 0 .. Len(log)
    BY <1>1, <1>3 DEF Unfinished, Pos
  <2>2. Max(S) \in S /\ \A y \in S : y <= Max(S)
    BY <1>1, <2>1, MaxIsGreatest
  <2>3. Chain(t) = {j \in Lsns : j > Max(S) /\ Rec(j).txn = t /\ IsWrite(j)}
    BY DEF Chain
  <2>4. \A j \in Pos(log) : j \in Int
    BY DEF Pos
  <2> DEFINE b == Max(S)
  <2>5. /\ b \in Pos(log) /\ log[b + 1].txn = t /\ log[b + 1].type = "begin"
        /\ \A e \in Pos(log) : log[e + 1].txn = t /\ log[e + 1].type = "begin" => e <= b
    BY <1>1, <2>2
  <2> HIDE DEF b
  <2>6. Chain(t) = {j \in Lsns : j > b /\ Rec(j).txn = t /\ IsWrite(j)}
    BY <2>3 DEF b
  <2>7. ASSUME k \in Pos(log), IsW(log, k), log[k + 1].txn = t
        PROVE  k > b <=> NoneAfter(log, k, {"begin"})
    <3>1. k # b
      BY <2>5, <2>7 DEF IsW, Writes
    <3>2. k > b => NoneAfter(log, k, {"begin"})
      BY <2>4, <2>5, <2>7 DEF NoneAfter
    <3>3. b > k => ~NoneAfter(log, k, {"begin"})
      BY <2>5, <2>7 DEF NoneAfter
    <3>4. QED BY <2>4, <2>5, <2>7, <3>1, <3>2, <3>3
  <2>8. QED BY <1>1, <2>6, <2>7 DEF Current
<1>4. ASSUME NEW r \in Rid PROVE Loses(log, t, r) <=> t \in Losers(r)
  <2>1. WritesOf(r) = On(log, r)
    BY <1>1 DEF WritesOf, On
  <2>2. Unfinished(t) => Chain(t) \cap WritesOf(r) = Own(log, t, r)
    BY <1>3, <2>1 DEF Own, On
  <2>3. QED BY <1>2, <2>2 DEF Loses, Losers
<1>5. QED BY <1>2, <1>3, <1>4

(***************************************************************************)
(* What a recovery that nothing interrupts makes of the pages.             *)
(***************************************************************************)

LEMMA RecoveryExists ==
    ASSUME NEW m \in Nat
    PROVE  \E g : g = [n \in 0 .. m |-> IF n = 0 THEN disk ELSE Recover(g[n - 1], n - 1)]
<1> DEFINE Exists(k) == \E g : g = [n \in 0 .. k |-> IF n = 0 THEN disk ELSE Recover(g[n - 1], n - 1)]
           S == {k \in Nat : ~Exists(k)}
<1> SUFFICES ASSUME S # {} PROVE FALSE
  OBVIOUS
<1>1. PICK k \in S : \A y \in S : k <= y
  <2>1. S \subseteq Nat
    OBVIOUS
  <2> HIDE DEF S
  <2>2. QED BY <2>1, MinIsLeast
<1>2. k \in Nat /\ ~Exists(k)
  OBVIOUS
<1>3. k # 0
  <2>1. Exists(0)
    <3> DEFINE g == [n \in 0 .. 0 |-> disk]
    <3>1. g = [n \in 0 .. 0 |-> IF n = 0 THEN disk ELSE Recover(g[n - 1], n - 1)]
      OBVIOUS
    <3>2. QED BY <3>1
  <2>2. QED BY <1>2, <2>1
<1>4. Exists(k - 1)
  <2>1. k - 1 \in Nat /\ ~(k <= k - 1)
    BY <1>2, <1>3
  <2>2. k - 1 \notin S
    BY <1>1, <2>1
  <2>3. QED BY <2>1, <2>2
<1>5. PICK g : g = [n \in 0 .. k - 1 |-> IF n = 0 THEN disk ELSE Recover(g[n - 1], n - 1)]
  BY <1>4
<1>6. Exists(k)
  <2> DEFINE h == [n \in 0 .. k |-> IF n = k THEN Recover(g[k - 1], k - 1) ELSE g[n]]
  <2>1. \A n \in 0 .. k : h[n] = IF n = 0 THEN disk ELSE Recover(h[n - 1], n - 1)
    <3> TAKE n \in 0 .. k
    <3>1. CASE n = k
      <4>1. n # 0 /\ n - 1 \in 0 .. k /\ n - 1 # k
        BY <1>2, <1>3, <3>1
      <4>2. h[n - 1] = g[k - 1] /\ h[n] = Recover(g[k - 1], k - 1)
        BY <3>1, <4>1
      <4>3. QED BY <3>1, <4>1, <4>2
    <3>2. CASE n # k
      <4>1. n \in 0 .. k - 1 /\ h[n] = g[n]
        BY <1>2, <3>2
      <4>2. n # 0 => n - 1 \in 0 .. k /\ n - 1 # k
        BY <1>2, <4>1
      <4>3. n # 0 => h[n - 1] = g[n - 1]
        BY <4>2
      <4> HIDE DEF h
      <4>4. g[n] = IF n = 0 THEN disk ELSE Recover(g[n - 1], n - 1)
        BY <1>5, <4>1
      <4>5. QED BY <4>1, <4>3, <4>4
    <3>3. QED BY <3>1, <3>2
  <2>2. h = [n \in 0 .. k |-> h[n]]
    OBVIOUS
  <2> HIDE DEF h
  <2>3. h = [n \in 0 .. k |-> IF n = 0 THEN disk ELSE Recover(h[n - 1], n - 1)]
    BY <2>1, <2>2
  <2>4. QED BY <2>3
<1>7. QED BY <1>2, <1>6

\* The steps of the recovery lead from pages to pages.
LEMMA RecoverySteps ==
    ASSUME Base, Histories
    PROVE  /\ recovered[0] = disk
           /\ \A n \in 0 .. 2 * Len(log) : IsPages(recovered[n])
           /\ \A n \in 0 .. 2 * Len(log) :
                  n # 0 => /\ n - 1 \in 0 .. 2 * Len(log)
                           /\ recovered[n] = Recover(recovered[n - 1], n - 1)
<1> DEFINE N == 0 .. 2 * Len(log)
<1>1. Len(log) \in Nat /\ 2 * Len(log) \in Nat /\ Lsns = Pos(log) /\ IsPages(disk)
  BY TypesOfState, BaseParts DEF TypePages
<1>2. recovered = [n \in N |-> IF n = 0 THEN disk ELSE Recover(recovered[n - 1], n - 1)]
  <2>1. \E g : g = [n \in N |-> IF n = 0 THEN disk ELSE Recover(g[n - 1], n - 1)]
    BY <1>1, RecoveryExists
  <2>2. QED BY <2>1 DEF recovered
<1>3. recovered[0] = disk
  BY <1>1, <1>2
<1>4. \A n \in N : n # 0 => n - 1 \in N /\ recovered[n] = Recover(recovered[n - 1], n - 1)
  BY <1>1, <1>2
<1>5. ASSUME NEW n \in 0 .. 2 * Len(log) - 1, NEW pages, IsPages(pages)
      PROVE  IsPages(Recover(pages, n))
  <2>1. CASE n < Len(log)
    <3>1. n \in Pos(log)
      BY <1>1, <2>1 DEF Pos
    <3>2. CASE ~IsWrite(n) \/ Barrier(pages, n)
      BY <1>5, <2>1, <3>2 DEF Recover
    <3>3. CASE ~(~IsWrite(n) \/ Barrier(pages, n))
      <4>1. IsPages(Redone(pages, n)) /\ Rec(n).rid \in Rid
        BY <1>5, <3>1, <3>3, RedonePages, WriteFacts
      <4>2. IsPages(Stamp(Redone(pages, n), n))
        BY <1>1, <3>1, <4>1, StampPages
      <4>3. QED BY <2>1, <3>3, <4>2 DEF Recover
    <3>4. QED BY <3>2, <3>3
  <2>2. CASE ~(n < Len(log))
    <3> DEFINE k == 2 * Len(log) - 1 - n
    <3>1. k \in Pos(log)
      BY <1>1, <2>2 DEF Pos
    <3>2. Recover(pages, n) = IF \E t \in Txn : Unfinished(t) /\ k \in Chain(t)
                              THEN Undone(pages, k) ELSE pages
      BY <2>2 DEF Recover
    <3> HIDE DEF k
    <3>3. ASSUME NEW t \in Txn, Unfinished(t), k \in Chain(t) PROVE IsWrite(k)
      BY <3>1, <3>3, ChainIsOwn, WriteFacts
    <3>4. CASE \E t \in Txn : Unfinished(t) /\ k \in Chain(t)
      BY <1>5, <3>1, <3>2, <3>3, <3>4, UndonePages
    <3>5. QED BY <1>5, <3>2, <3>4
  <2>3. QED BY <2>1, <2>2
<1>6. \A n \in N : IsPages(recovered[n])
  <2> DEFINE S == {n \in N : ~IsPages(recovered[n])}
  <2> SUFFICES ASSUME S # {} PROVE FALSE
    OBVIOUS
  <2>1. PICK n \in S : \A y \in S : n <= y
    <3>1. S \subseteq Nat
      BY <1>1
    <3> HIDE DEF S
    <3>2. QED BY <3>1, MinIsLeast
  <2>2. n \in N /\ ~IsPages(recovered[n])
    OBVIOUS
  <2>3. n # 0
    BY <1>1, <1>3, <2>2
  <2>4. n - 1 \in N /\ n - 1 \in 0 .. 2 * Len(log) - 1 /\ ~(n <= n - 1)
    BY <1>1, <2>2, <2>3
  <2>5. IsPages(recovered[n - 1])
    BY <2>1, <2>4
  <2>6. recovered[n] = Recover(recovered[n - 1], n - 1)
    BY <1>4, <2>2, <2>3
  <2>7. QED BY <1>5, <2>2, <2>4, <2>5, <2>6
<1>7. QED BY <1>3, <1>4, <1>6

\* Its first half is a redo of each page.
LEMMA RecoveryRedoes ==
    ASSUME Base, Histories, NEW p \in PageNo
    PROVE  IsRedo(log, p, [n \in 0 .. Len(log) |-> recovered[n][p]])
<1> DEFINE f == [n \in 0 .. Len(log) |-> recovered[n][p]]
<1>1. /\ Len(log) \in Nat /\ \A n \in 0 .. Len(log) : n \in 0 .. 2 * Len(log)
      /\ \A n \in Pos(log) : /\ n + 1 \in 0 .. Len(log) /\ n \in 0 .. Len(log) /\ n < Len(log)
                             /\ n + 1 # 0 /\ n + 1 - 1 = n /\ n \in Int
                             /\ n + 1 \in 0 .. 2 * Len(log)
  <2>1. Len(log) \in Nat
    BY TypesOfState
  <2>2. QED BY <2>1 DEF Pos
<1>2. \A n \in 0 .. Len(log) : IsPages(recovered[n]) /\ f[n] = recovered[n][p]
  BY <1>1, RecoverySteps
<1>3. \A n \in 0 .. Len(log) : f[n] \in PageType(p)
  BY <1>2, PageOfPages
<1>4. ASSUME NEW n \in Pos(log) PROVE f[n + 1] = PageRedo(log, n, p, f[n])
  <2> DEFINE pages == recovered[n]
  <2>1. recovered[n + 1] = Recover(pages, n)
    <3>1. recovered[n + 1] = Recover(recovered[n + 1 - 1], n + 1 - 1)
      BY <1>1, RecoverySteps
    <3>2. QED BY <1>1, <3>1
  <2>2. IsPages(pages) /\ f[n] = pages[p] /\ f[n + 1] = Recover(pages, n)[p]
    BY <1>1, <1>2, <2>1
  <2>3. f[n].lsn \in Int /\ n \in Int
    BY <1>1, <1>3 DEF PageType
  <2> HIDE DEF f, pages
  <2>4. CASE ~IsWrite(n) \/ Barrier(pages, n)
    <3>1. f[n + 1] = f[n]
      BY <1>1, <2>2, <2>4 DEF Recover
    <3>2. ~(WritesPage(log, n, p) /\ f[n].lsn < n)
      <4>1. WritesPage(log, n, p) => IsWrite(n)
        BY WriteFacts DEF WritesPage
      <4>2. IsWrite(n) /\ WritesPage(log, n, p) => pages[p].lsn >= n
        BY <2>2, <2>4, StampOnPage
      <4>3. QED BY <2>2, <2>3, <4>1, <4>2
    <3>3. QED BY <3>1, <3>2 DEF PageRedo
  <2>5. CASE ~(~IsWrite(n) \/ Barrier(pages, n))
    <3>1. Recover(pages, n) = Stamp(Redone(pages, n), n)
      BY <1>1, <2>5 DEF Recover
    <3>2. IsPages(Redone(pages, n))
      BY <2>2, <2>5, RedonePages
    <3>3. f[n + 1] = IF WritesPage(log, n, p) THEN [Applied(log, n, f[n]) EXCEPT !.lsn = n] ELSE f[n]
      <4>1. Redone(pages, n)[p] = IF WritesPage(log, n, p) THEN Applied(log, n, f[n]) ELSE f[n]
        <5>1. Redone(pages, n)[p] =
                  IF WritesPage(log, n, p) THEN Applied(log, n, pages[p]) ELSE pages[p]
          BY <2>2, <2>5, RedoneOnPage
        <5>2. QED BY <2>2, <5>1
      <4> DEFINE next == Redone(pages, n)
      <4>2. Stamp(next, n)[p] = IF WritesPage(log, n, p) THEN [next[p] EXCEPT !.lsn = n] ELSE next[p]
        <5> HIDE DEF next
        <5>1. QED BY <2>5, <3>2, StampOnPage DEF next
      <4>3. f[n + 1] = Stamp(next, n)[p]
        BY <2>2, <3>1
      <4>4. CASE WritesPage(log, n, p)
        BY <4>1, <4>2, <4>3, <4>4
      <4>5. CASE ~WritesPage(log, n, p)
        BY <4>1, <4>2, <4>3, <4>5
      <4>6. QED BY <4>4, <4>5
    <3>4. WritesPage(log, n, p) => f[n].lsn < n
      <4>1. WritesPage(log, n, p) => ~(pages[p].lsn >= n)
        BY <2>2, <2>5, StampOnPage
      <4>2. QED BY <2>2, <2>3, <4>1
    <3>5. QED BY <3>3, <3>4 DEF PageRedo
  <2>6. QED BY <2>4, <2>5
<1>5. f \in [0 .. Len(log) -> PageType(p)]
  BY <1>3
<1> HIDE DEF f
<1>6. IsRedo(log, p, f)
  BY <1>4, <1>5 DEF IsRedo
<1>7. QED BY <1>6 DEF f

\* In its second half the recovery undoes the records of a slot, the last one first: x is
\* in the slot when it has passed the last n records.
Undoes(h, r, k) == k \in On(h, r) /\ \E t \in Txn : Open(h, t) /\ Current(h, k, t)
IsUndo(h, r, x) ==
    \A n \in Pos(h) :
        x[n + 1] = IF Undoes(h, r, Len(h) - 1 - n) THEN SlotUndo(h, Len(h) - 1 - n, x[n]) ELSE x[n]

LEMMA RecoveryUndoes ==
    ASSUME Base, Histories, NEW r \in Rid
    PROVE  IsUndo(log, r, [n \in 0 .. Len(log) |-> At(recovered[Len(log) + n], r)])
<1> DEFINE x == [n \in 0 .. Len(log) |-> At(recovered[Len(log) + n], r)]
<1>1. Len(log) \in Nat /\ \A n \in Pos(log) : n \in Int /\ n >= 0 /\ n < Len(log)
  BY TypesOfState DEF Pos
<1>2. ASSUME NEW n \in Pos(log)
      PROVE  x[n + 1] = IF Undoes(log, r, Len(log) - 1 - n)
                        THEN SlotUndo(log, Len(log) - 1 - n, x[n]) ELSE x[n]
  <2> DEFINE m == Len(log) + n
             k == Len(log) - 1 - n
             pages == recovered[m]
  <2>1. /\ n \in 0 .. Len(log) /\ n + 1 \in 0 .. Len(log)
        /\ m \in 0 .. 2 * Len(log) /\ m + 1 \in 0 .. 2 * Len(log) /\ m + 1 # 0
        /\ m + 1 - 1 = m /\ Len(log) + (n + 1) = m + 1 /\ ~(m < Len(log))
        /\ k \in Pos(log) /\ 2 * Len(log) - 1 - m = k
    BY <1>1 DEF Pos
  <2>2. x[n] = At(pages, r) /\ x[n + 1] = At(recovered[m + 1], r)
    BY <2>1
  <2>3. recovered[m + 1] = Recover(pages, m) /\ IsPages(pages)
    <3> HIDE DEF m
    <3>1. recovered[m + 1] = Recover(recovered[m + 1 - 1], m + 1 - 1)
      BY <2>1, RecoverySteps
    <3>2. QED BY <2>1, <3>1, RecoverySteps
  <2>4. Recover(pages, m) = IF \E t \in Txn : Unfinished(t) /\ k \in Chain(t)
                            THEN Undone(pages, k) ELSE pages
    BY <2>1 DEF Recover
  <2> HIDE DEF x, m, k, pages
  <2>5. \A t \in Txn : Unfinished(t) /\ k \in Chain(t) <=>
                           Open(log, t) /\ IsW(log, k) /\ Current(log, k, t)
    BY <2>1, ChainIsOwn
  <2>6. CASE \E t \in Txn : Unfinished(t) /\ k \in Chain(t)
    <3>1. IsWrite(k) /\ (Undoes(log, r, k) <=> k \in On(log, r))
      BY <2>1, <2>5, <2>6, WriteFacts DEF Undoes
    <3>2. At(Undone(pages, k), r) =
              IF k \in On(log, r) THEN SlotUndo(log, k, At(pages, r)) ELSE At(pages, r)
      BY <2>1, <2>3, <3>1, UndoOfSlot
    <3>3. x[n + 1] = At(Undone(pages, k), r)
      BY <2>2, <2>3, <2>4, <2>6
    <3>4. x[n + 1] = IF Undoes(log, r, k) THEN SlotUndo(log, k, x[n]) ELSE x[n]
      BY <2>2, <3>1, <3>2, <3>3
    <3>5. QED BY <3>4 DEF k
  <2>7. CASE ~\E t \in Txn : Unfinished(t) /\ k \in Chain(t)
    <3>1. ~Undoes(log, r, k)
      BY <2>5, <2>7 DEF Undoes, On
    <3>2. x[n + 1] = x[n]
      BY <2>2, <2>3, <2>4, <2>7
    <3>3. QED BY <3>1, <3>2 DEF k
  <2>8. QED BY <2>6, <2>7
<1> HIDE DEF x
<1>3. IsUndo(log, r, x)
  BY <1>2 DEF IsUndo
<1>4. QED BY <1>3 DEF x

\* A fact about the slot that every step keeps.
LEMMA UndoStays ==
    ASSUME NEW h, Len(h) \in Nat, NEW r, NEW x, IsUndo(h, r, x),
           \A k \in Pos(h) : Undoes(h, r, k) => SlotUndo(h, k, x[0]) = x[0]
    PROVE  x[Len(h)] = x[0]
<1> DEFINE S == {n \in 0 .. Len(h) : x[n] # x[0]}
<1> SUFFICES ASSUME S # {} PROVE FALSE
  OBVIOUS
<1>1. PICK n \in S : \A y \in S : n <= y
  <2>1. S \subseteq Nat
    OBVIOUS
  <2> HIDE DEF S
  <2>2. QED BY <2>1, MinIsLeast
<1>2. n \in 0 .. Len(h) /\ x[n] # x[0] /\ n # 0
  OBVIOUS
<1>3. /\ n - 1 \in Pos(h) /\ n - 1 \in 0 .. Len(h) /\ ~(n <= n - 1) /\ n - 1 + 1 = n
      /\ Len(h) - 1 - (n - 1) \in Pos(h)
  BY <1>2 DEF Pos
<1>4. x[n - 1] = x[0]
  BY <1>1, <1>3
<1> DEFINE k == Len(h) - 1 - (n - 1)
<1>5. x[n - 1 + 1] = IF Undoes(h, r, k) THEN SlotUndo(h, k, x[n - 1]) ELSE x[n - 1]
  BY <1>3 DEF IsUndo
<1>6. k \in Pos(h)
  BY <1>3
<1> HIDE DEF k
<1>7. QED BY <1>2, <1>3, <1>4, <1>5, <1>6

LEMMA UndoReturns ==
    ASSUME NEW h, NEW r, NEW t, NEW C, Series(h, C, t), NEW x, IsUndo(h, r, x),
           \A k \in Pos(h) : Undoes(h, r, k) <=> k \in C,
           Returns(h, C, t, x[0], Len(h))
    PROVE  Returns(h, C, t, x[Len(h)], 0)
<1> DEFINE Back(n) == Returns(h, C, t, x[n], Len(h) - n)
           S == {n \in 0 .. Len(h) : ~Back(n)}
<1>1. Len(h) \in Nat /\ \A j \in C : j \in Int
  BY Extremes DEF Series
<1>2. S = {}
  <2> SUFFICES ASSUME S # {} PROVE FALSE
    OBVIOUS
  <2>1. PICK n \in S : \A y \in S : n <= y
    <3>1. S \subseteq Nat
      BY <1>1
    <3> HIDE DEF S
    <3>2. QED BY <3>1, MinIsLeast
  <2>2. n \in 0 .. Len(h) /\ ~Back(n)
    OBVIOUS
  <2>3. n # 0
    <3>1. Len(h) - 0 = Len(h)
      BY <1>1
    <3>2. Back(0)
      BY <3>1
    <3>3. QED BY <2>2, <3>2
  <2> DEFINE k == Len(h) - n
  <2>4. /\ n - 1 \in Pos(h) /\ n - 1 \in 0 .. Len(h) /\ ~(n <= n - 1) /\ n - 1 + 1 = n
        /\ k \in Pos(h) /\ Len(h) - 1 - (n - 1) = k /\ Len(h) - (n - 1) = k + 1 /\ k \in Int
        /\ k + 1 \in Int
    BY <1>1, <2>2, <2>3 DEF Pos
  <2>5. Returns(h, C, t, x[n - 1], k + 1)
    <3>1. Back(n - 1)
      BY <2>1, <2>4
    <3> HIDE DEF k
    <3>2. QED BY <2>4, <3>1
  <2>6. x[n] = IF Undoes(h, r, k) THEN SlotUndo(h, k, x[n - 1]) ELSE x[n - 1]
    <3> HIDE DEF k
    <3>1. x[n - 1 + 1] = IF Undoes(h, r, Len(h) - 1 - (n - 1))
                         THEN SlotUndo(h, Len(h) - 1 - (n - 1), x[n - 1]) ELSE x[n - 1]
      BY <2>4 DEF IsUndo
    <3>2. QED BY <2>4, <3>1
  <2>7. ~Returns(h, C, t, x[n], k)
    BY <2>2
  <2> HIDE DEF k, S
  <2>8. CASE k \in C
    <3>1. Below(C, k + 1, k)
      BY <1>1, <2>4, <2>8 DEF Below
    <3>2. x[n] = SlotUndo(h, k, x[n - 1])
      BY <2>4, <2>6, <2>8
    <3>3. QED BY <2>4, <2>5, <2>7, <2>8, <3>1, <3>2, ReturnsOn
  <2>9. CASE k \notin C
    <3>1. x[n] = x[n - 1]
      BY <2>4, <2>6, <2>9
    <3>2. \A j \in C : Below(C, k, j) <=> Below(C, k + 1, j)
      BY <1>1, <2>4, <2>9 DEF Below
    <3>3. (\A j \in C : j >= k) => \A j \in C : j >= k + 1
      BY <1>1, <2>4, <2>9
    <3>4. Returns(h, C, t, x[n - 1], k)
      BY <2>5, <3>2, <3>3 DEF Returns
    <3>5. QED BY <2>7, <3>1, <3>4
  <2>10. QED BY <2>8, <2>9
<1>3. Len(h) \in 0 .. Len(h) /\ Len(h) - Len(h) = 0
  BY <1>1
<1>4. Back(Len(h))
  BY <1>2, <1>3
<1>5. QED BY <1>3, <1>4

LEMMA UndoLeadsTo ==
    ASSUME NEW h, Told(h), NEW r \in Rid, NEW x, IsUndo(h, r, x)
    PROVE  Leads(h, r, x[Len(h)], x[0], Whole(h))
<1> SUFFICES ASSUME OneLoser(h, r) PROVE Leads(h, r, x[Len(h)], x[0], Whole(h))
  BY DEF Leads
<1>1. Len(h) \in Nat
  BY DEF Told, History
<1>2. \A k \in Pos(h) : Undoes(h, r, k) <=>
          \E t \in Txn : Loses(h, t, r) /\ k \in Own(h, t, r)
  BY DEF Undoes, Loses, Own
<1>3. CASE \A t \in Txn : ~Loses(h, t, r)
  <2>1. x[Len(h)] = x[0]
    BY <1>1, <1>2, <1>3, UndoStays
  <2>2. QED BY <1>3, <2>1 DEF Leads
<1>4. ASSUME NEW t \in Txn, Loses(h, t, r)
      PROVE  Leading(h, Own(h, t, r), t, x[Len(h)], x[0], Whole(h)[t])
  <2> DEFINE C == Own(h, t, r)
  <2>1. Series(h, C, t) /\ C # {} /\ Whole(h)[t] = Len(h)
    BY <1>4, OwnSeries DEF Told, Loses, Whole
  <2>2. \A k \in Pos(h) : Undoes(h, r, k) <=> k \in C
    BY <1>2, <1>4 DEF OneLoser
  <2> HIDE DEF C
  <2>3. CASE Stays(h, C, t, x[0])
    <3>1. x[Len(h)] = x[0]
      BY <1>1, <2>1, <2>2, <2>3, StaysOn, UndoStays
    <3>2. Leading(h, C, t, x[Len(h)], x[0], Len(h))
      BY <2>3, <3>1 DEF Leading
    <3>3. QED BY <2>1, <3>2 DEF C
  <2>4. CASE Returns(h, C, t, x[0], Len(h))
    <3>1. Returns(h, C, t, x[Len(h)], 0)
      BY <2>1, <2>2, <2>4, UndoReturns
    <3>2. \A k \in C : k >= 0
      BY <2>1, Extremes DEF Series
    <3>3. Before(h, C, x[Len(h)])
      BY <3>1, <3>2 DEF Returns, Before
    <3>4. Leading(h, C, t, x[Len(h)], x[0], Len(h))
      BY <2>4, <3>3 DEF Leading
    <3>5. QED BY <2>1, <3>4 DEF C
  <2>5. CASE Stuck(h, C, x[0], Len(h))
    <3>1. Leading(h, C, t, x[Len(h)], x[0], Len(h))
      BY <2>5 DEF Leading
    <3>2. QED BY <2>1, <3>1 DEF C
  <2>6. QED BY <2>1, <2>3, <2>4, <2>5, StartLeads
<1>5. CASE \E t \in Txn : Loses(h, t, r)
  BY <1>4, <1>5 DEF Leads
<1>6. QED BY <1>3, <1>5

\* The way of every page to what recovery makes of it.
LEMMA WayExists ==
    ASSUME Base, Histories, Told(log), NEW p \in PageNo
    PROVE  \E f : Way(log, p, f, Recovered[p].slots) /\ f[0] = disk[p]
<1> DEFINE f == [n \in 0 .. Len(log) |-> recovered[n][p]]
<1>1. /\ Len(log) \in Nat /\ 0 \in 0 .. Len(log) /\ Len(log) \in 0 .. Len(log)
      /\ Len(log) \in 0 .. 2 * Len(log) /\ 2 * Len(log) \in 0 .. 2 * Len(log)
      /\ Len(log) + 0 = Len(log) /\ Len(log) + Len(log) = 2 * Len(log)
  BY TypesOfState
<1>2. IsRedo(log, p, f)
  BY RecoveryRedoes
<1>3. f[0] = disk[p] /\ f[Len(log)] = recovered[Len(log)][p]
  BY <1>1, RecoverySteps
<1>4. ASSUME NEW r \in OnPage(p)
      PROVE  Leads(log, r, Recovered[p].slots[r], f[Len(log)].slots[r], Whole(log))
  <2> DEFINE x == [n \in 0 .. Len(log) |-> At(recovered[Len(log) + n], r)]
  <2>1. r \in Rid
    BY DEF OnPage
  <2>2. IsUndo(log, r, x)
    BY <2>1, RecoveryUndoes
  <2>3. x[0] = At(recovered[Len(log)], r) /\ x[Len(log)] = At(Recovered, r)
    BY <1>1 DEF Recovered
  <2>4. IsPages(recovered[Len(log)]) /\ IsPages(Recovered)
    BY <1>1, RecoverySteps DEF Recovered
  <2>5. /\ recovered[Len(log)][p].slots[r] = At(recovered[Len(log)], r)
        /\ Recovered[p].slots[r] = At(Recovered, r)
    BY <2>4, PageOfPages
  <2> HIDE DEF x
  <2>6. Leads(log, r, x[Len(log)], x[0], Whole(log))
    BY <2>1, <2>2, UndoLeadsTo
  <2>7. QED BY <1>3, <2>3, <2>5, <2>6
<1> HIDE DEF f
<1>5. Way(log, p, f, Recovered[p].slots)
  BY <1>2, <1>4 DEF Way
<1>6. QED BY <1>3, <1>5

(***************************************************************************)
(* A transaction's changes of a slot follow one another: kept by every     *)
(* step of a run.                                                          *)
(***************************************************************************)

LEMMA SuccessiveShrinks ==
    ASSUME NEW h, NEW g, Extends(g, h), Successive(h)
    PROVE  Successive(g)
<1>1. Pos(g) \subseteq Pos(h) /\ \A k \in Pos(g) : h[k + 1] = g[k + 1]
  BY DEF Extends, History, Pos
<1>2. \A i \in Pos(h), k \in Pos(g) : i < k => i \in Pos(g)
  BY DEF Extends, History, Pos
<1>3. SUFFICES ASSUME NEW r \in Rid, NEW j \in On(g, r), NEW k \in On(g, r), Next2(g, r, j, k)
               PROVE  Leaves(g[j + 1].type, g[k + 1].old, g[k + 1].txn)
  BY DEF Successive
<1>4. On(g, r) = On(h, r) \cap Pos(g)
  BY ExtendedLives
<1>5. j \in Pos(g) /\ k \in Pos(g) /\ j \in On(h, r) /\ k \in On(h, r)
  BY <1>4
<1>6. On(h, r) \subseteq Pos(h)
  BY DEF On
<1>7. OneLife(h, j, k)
  BY <1>3, <1>5, ExtendedLives DEF Next2
<1>8. \A i \in On(h, r) : i > j /\ i < k => i \in On(g, r) /\ h[i + 1] = g[i + 1]
  BY <1>1, <1>2, <1>4, <1>5, <1>6
<1>9. Next2(h, r, j, k)
  BY <1>1, <1>3, <1>5, <1>7, <1>8 DEF Next2
<1>10. QED BY <1>1, <1>5, <1>9 DEF Successive

LEMMA LatestGrows ==
    ASSUME NEW h, NEW g, NEW x, GrowsBy(h, g, x), NEW t, NEW r, NEW j, Latest(g, r, t, j)
    PROVE  \/ j = Len(h) /\ x.type \in Writes /\ x.rid = r /\ x.txn = t
           \/ /\ Latest(h, r, t, j) /\ g[j + 1] = h[j + 1]
              /\ ~(x.type \in Writes /\ x.rid = r /\ x.txn = t)
              /\ ~(x.type = "begin" /\ x.txn = t)
<1>1. /\ Len(h) \in Nat /\ g[Len(h) + 1] = x /\ \A k \in Pos(h) : g[k + 1] = h[k + 1]
      /\ \A k \in Pos(h) : k \in Int /\ k < Len(h)
  BY DEF GrowsBy, Extends, History, Pos
<1>2. j \in On(g, r) /\ Current(g, j, t) /\ \A i \in On(g, r) : Current(g, i, t) => i <= j
  BY DEF Latest, Highest, Own
<1>3. /\ On(g, r) = On(h, r) \cup (IF x.type \in Writes /\ x.rid = r THEN {Len(h)} ELSE {})
      /\ \A i \in Pos(h) : NoneAfter(g, i, {"begin"}) <=>
             NoneAfter(h, i, {"begin"}) /\ (x.txn = h[i + 1].txn => x.type \notin {"begin"})
      /\ NoneAfter(g, Len(h), {"begin"})
  BY OneMore
<1>4. On(h, r) \subseteq Pos(h)
  BY DEF On
<1>5. CASE j = Len(h)
  BY <1>1, <1>2, <1>3, <1>4, <1>5 DEF Current
<1>6. CASE j # Len(h)
  <2>1. j \in On(h, r) /\ j \in Pos(h) /\ g[j + 1] = h[j + 1]
    BY <1>1, <1>2, <1>3, <1>4, <1>6
  <2>2. Current(h, j, t) /\ ~(x.type = "begin" /\ x.txn = t)
    BY <1>2, <1>3, <2>1 DEF Current
  <2>3. ASSUME NEW i \in On(h, r), Current(h, i, t) PROVE i <= j
    <3>1. i \in Pos(h) /\ g[i + 1] = h[i + 1] /\ i \in On(g, r)
      BY <1>1, <1>3, <1>4
    <3>2. Current(g, i, t)
      BY <1>3, <2>2, <2>3, <3>1 DEF Current
    <3>3. QED BY <1>2, <3>1, <3>2
  <2>4. ~(x.type \in Writes /\ x.rid = r /\ x.txn = t)
    <3>1. SUFFICES ASSUME x.type \in Writes, x.rid = r, x.txn = t PROVE FALSE
      OBVIOUS
    <3>2. Len(h) \in On(g, r) /\ Current(g, Len(h), t)
      BY <1>1, <1>3, <3>1 DEF Current
    <3>3. QED BY <1>1, <1>2, <2>1, <3>2
  <2>5. QED BY <2>1, <2>2, <2>3, <2>4 DEF Latest, Highest, Own
<1>7. QED BY <1>5, <1>6

LEMMA SuccessiveGrows ==
    ASSUME NEW h, NEW g, NEW x, GrowsBy(h, g, x), Successive(h),
           x.type \in Writes => \A j : Latest(h, x.rid, x.txn, j) =>
                                           Leaves(h[j + 1].type, x.old, x.txn)
    PROVE  Successive(g)
<1>1. /\ Len(h) \in Nat /\ g[Len(h) + 1] = x /\ \A k \in Pos(h) : g[k + 1] = h[k + 1]
      /\ \A k \in Pos(h) : k \in Int /\ k < Len(h)
      /\ Pos(g) = Pos(h) \cup {Len(h)}
  <2>1. Len(h) \in Nat /\ Len(g) = Len(h) + 1
    BY DEF GrowsBy, Extends, History
  <2>2. Pos(g) = Pos(h) \cup {Len(h)}
    BY <2>1 DEF Pos
  <2>3. QED BY <2>1, <2>2 DEF GrowsBy, Extends, History, Pos
<1>2. SUFFICES ASSUME NEW r \in Rid, NEW j \in On(g, r), NEW k \in On(g, r), Next2(g, r, j, k)
               PROVE  Leaves(g[j + 1].type, g[k + 1].old, g[k + 1].txn)
  BY DEF Successive
<1>3. On(g, r) = On(h, r) \cup (IF x.type \in Writes /\ x.rid = r THEN {Len(h)} ELSE {})
  BY OneMore
<1>4. On(h, r) \subseteq Pos(h) /\ Extends(h, g)
  BY DEF On, GrowsBy
<1>5. j \in On(h, r) /\ j \in Pos(h)
  BY <1>1, <1>2, <1>3, <1>4 DEF Next2
<1>6. CASE k \in On(h, r)
  <2>1. OneLife(h, j, k)
    BY <1>2, <1>4, <1>5, <1>6, ExtendedLives DEF Next2
  <2>2. \A i \in On(h, r) : i \in On(g, r) /\ g[i + 1] = h[i + 1]
    BY <1>1, <1>3, <1>4
  <2>3. Next2(h, r, j, k)
    BY <1>2, <1>5, <1>6, <2>1, <2>2 DEF Next2
  <2>4. QED BY <1>5, <1>6, <2>2, <2>3 DEF Successive
<1>7. CASE k \notin On(h, r)
  <2>1. k = Len(h) /\ x.type \in Writes /\ x.rid = r /\ g[k + 1] = x
    BY <1>1, <1>3, <1>7
  <2>2. h[j + 1].txn = x.txn /\ NoneIn(g, j, k, {"begin"}) /\ h[j + 1] = g[j + 1]
    BY <1>1, <1>2, <1>5, <2>1 DEF Next2, OneLife
  <2>3. NoneAfter(h, j, {"begin"})
    <3>1. \A e \in Pos(h) : e \in Pos(g) /\ e <= k /\ g[e + 1] = h[e + 1]
      BY <1>1, <2>1
    <3>2. QED BY <2>2, <3>1 DEF NoneIn, NoneAfter
  <2>4. ASSUME NEW i \in On(h, r), Current(h, i, x.txn) PROVE i <= j
    <3>1. i \in Int /\ j \in Int /\ i < k /\ i \in On(g, r) /\ g[i + 1] = h[i + 1]
      BY <1>1, <1>3, <1>4, <1>5, <2>1
    <3>2. g[i + 1].txn = g[k + 1].txn
      BY <2>1, <2>4, <3>1 DEF Current
    <3>3. QED BY <1>2, <3>1, <3>2 DEF Next2
  <2>5. Latest(h, r, x.txn, j)
    BY <1>5, <2>2, <2>3, <2>4 DEF Latest, Highest, Own, Current
  <2>6. QED BY <2>1, <2>2, <2>5
<1>8. QED BY <1>6, <1>7

\* A record that is no write: some transactions may have ended, none has changed a slot
\* of another.
Noted(h, x, m, n, p, q, pend) ==
    /\ x.type \notin Writes
    /\ \A u \in Txn : pend[u] # Nil => At(n, pend[u].rid) = At(m, pend[u].rid)
    /\ \A u \in Txn : q[u] = "active" =>
           \/ p[u] = "active" /\ \A r \in Rid : \A j : Latest(h, r, u, j) => At(n, r) = At(m, r)
           \/ x.type = "begin" /\ x.txn = u

LEMMA OwnNoted ==
    ASSUME NEW h, NEW g, NEW x, GrowsBy(h, g, x), NEW m, NEW n, NEW p, NEW q, NEW pend,
           OwnLogged(h, m, pend), OwnKept(h, m, p, pend), Noted(h, x, m, n, p, q, pend)
    PROVE  OwnLogged(g, n, pend) /\ OwnKept(g, n, q, pend)
<1>1. ASSUME NEW t, NEW r, NEW j, Latest(g, r, t, j)
      PROVE  Latest(h, r, t, j) /\ g[j + 1] = h[j + 1] /\ ~(x.type = "begin" /\ x.txn = t)
  BY <1>1, LatestGrows DEF Noted
<1>2. OwnLogged(g, n, pend)
  BY <1>1 DEF OwnLogged, Noted
<1>3. OwnKept(g, n, q, pend)
  BY <1>1 DEF OwnKept, Noted
<1>4. QED BY <1>2, <1>3

Orderly == Successive(Hist) /\ OwnChange

LEMMA QuietOrderly ==
    ASSUME Orderly, Hist' = Hist, mem' = mem, pending' = pending,
           \A t \in Txn : pc'[t] = "active" => pc[t] = "active"
    PROVE  Orderly'
<1>1. OwnLogged(Hist, mem, pending) /\ OwnKept(Hist, mem, pc', pending)
  BY DEF Orderly, OwnChange, OwnKept
<1>2. OwnLogged(Hist', mem', pending') /\ OwnKept(Hist', mem', pc', pending')
  BY <1>1
<1>3. Successive(Hist')
  BY DEF Orderly
<1>4. QED BY <1>2, <1>3 DEF Orderly, OwnChange

\* No transaction runs.
LEMMA NoneOrderly ==
    ASSUME Successive(Hist'), \A t \in Txn : pc'[t] # "active" /\ pending'[t] = Nil
    PROVE  Orderly'
BY DEF Orderly, OwnChange, OwnLogged, OwnKept

LEMMA NoteOrderly ==
    ASSUME IInv, Orderly, NEW t \in Txn, NEW type \in {"begin", "commit", "ABORT"},
           log' = log, buffer' = Append(buffer, Note(type, t, INVALID_LSN)),
           UNCHANGED pending,
           \A u \in Txn : pending[u] # Nil => At(mem', pending[u].rid) = At(mem, pending[u].rid),
           \A u \in Txn : pc'[u] = "active" =>
               \/ pc[u] = "active" /\ \A r \in Rid : \A j :
                      Latest(Hist, r, u, j) => At(mem', r) = At(mem, r)
               \/ type = "begin" /\ u = t
    PROVE  Orderly'
<1> DEFINE x == Note(type, t, INVALID_LSN)
<1>1. x \in LogRecord /\ x.type = type /\ x.txn = t /\ x.type \notin Writes
  BY NoteFacts DEF INVALID_LSN, Writes
<1>2. TypeLog
  BY BaseParts DEF IInv
<1> HIDE DEF x
<1>3. GrowsBy(Hist, Hist', x)
  BY <1>1, <1>2, AppendedHistory DEF TypeLog, x
<1>4. Successive(Hist')
  BY <1>1, <1>3, SuccessiveGrows DEF Orderly
<1>5. OwnLogged(Hist, mem, pending) /\ OwnKept(Hist, mem, pc, pending)
  BY DEF Orderly, OwnChange
<1>6. OwnLogged(Hist', mem', pending) /\ OwnKept(Hist', mem', pc', pending)
  <2>1. \A u \in Txn : pc'[u] = "active" =>
            \/ pc[u] = "active" /\ \A r \in Rid : \A j :
                   Latest(Hist, r, u, j) => At(mem', r) = At(mem, r)
            \/ x.type = "begin" /\ x.txn = u
    BY <1>1
  <2>2. Noted(Hist, x, mem, mem', pc, pc', pending)
    BY <1>1, <2>1 DEF Noted
  <2>3. QED BY <1>3, <1>5, <2>2, OwnNoted
<1>7. OwnLogged(Hist', mem', pending') /\ OwnKept(Hist', mem', pc', pending')
  BY <1>6
<1>8. QED BY <1>4, <1>7 DEF Orderly, OwnChange

LEMMA BeginOrderly ==
    ASSUME IInv, Orderly, NEW t \in Txn, Begin(t)
    PROVE  Orderly'
<1>1. /\ log' = log /\ buffer' = Append(buffer, Note("begin", t, INVALID_LSN))
      /\ UNCHANGED pending /\ mem' = mem /\ pc' = [pc EXCEPT ![t] = "active"]
  BY DEF Begin
<1>2. pc \in [Txn -> Phases]
  BY TypesOfState DEF IInv
<1>3. \A u \in Txn : u # t => pc'[u] = pc[u]
  BY <1>1, <1>2
<1>4. QED BY <1>1, <1>3, NoteOrderly

\* The slots that other transactions have changed are locked by them.
LEMMA AbortLeaves ==
    ASSUME IInv, NEW t \in Txn, Abort(t)
    PROVE  /\ \A u \in Txn : pending[u] # Nil => At(mem', pending[u].rid) = At(mem, pending[u].rid)
           /\ \A u \in Txn : pc[u] = "active" /\ u # t => \A r \in Rid : \A j :
                  Latest(Hist, r, u, j) => At(mem', r) = At(mem, r)
<1>1. /\ Locked(Hist, pc, lock) /\ Remembered(Hist, pc, write_set) /\ TypeTxns /\ IsPages(mem)
  BY BaseParts, TypesOfState DEF IInv, Histories
<1>2. mem' = Restored(t) /\ pc[t] = "active" /\ pending[t] = Nil
  BY DEF Abort
<1>3. \A r \in Rid : ~Mentions(write_set[t], r) => At(mem', r) = At(mem, r)
  BY <1>1, <1>2, RestoredPages DEF TypeTxns
<1>4. \A r \in Rid : Mentions(write_set[t], r) => \E j \in On(Hist, r) : Current(Hist, j, t)
  BY <1>1, <1>2 DEF Remembered
<1>5. ASSUME NEW r \in Rid, lock[r] # t PROVE At(mem', r) = At(mem, r)
  <2>1. \A j \in On(Hist, r) : ~Current(Hist, j, t)
    BY <1>1, <1>2, <1>5 DEF Locked, Active, Current
  <2>2. QED BY <1>3, <1>4, <2>1
<1>6. \A u \in Txn : pending[u] # Nil => pending[u].rid \in Rid /\ lock[pending[u].rid] = u
  BY PendingLocked DEF IInv
<1>7. ASSUME NEW u \in Txn, pc[u] = "active", NEW r \in Rid, NEW j, Latest(Hist, r, u, j)
      PROVE  lock[r] = u
  <2>1. j \in On(Hist, r) /\ Active(Hist, pc, j) /\ Hist[j + 1].txn = u
    BY <1>7 DEF Latest, Highest, Own, Active, Current
  <2>2. QED BY <1>1, <2>1 DEF Locked
<1>8. QED BY <1>2, <1>5, <1>6, <1>7

LEMMA FinishOrderly ==
    ASSUME IInv, Orderly, NEW t \in Txn, Commit(t) \/ Abort(t) \/ End(t)
    PROVE  Orderly'
<1>1. pc \in [Txn -> Phases]
  BY TypesOfState DEF IInv
<1>2. CASE Commit(t)
  <2>1. /\ log' = log /\ buffer' = Append(buffer, Note("commit", t, INVALID_LSN))
        /\ UNCHANGED pending /\ mem' = mem /\ pc' = [pc EXCEPT ![t] = "committing"]
    BY <1>2 DEF Commit
  <2>2. \A u \in Txn : pc'[u] = "active" => pc[u] = "active"
    BY <1>1, <2>1
  <2>3. QED BY <2>1, <2>2, NoteOrderly
<1>3. CASE Abort(t)
  <2>1. /\ log' = log /\ buffer' = Append(buffer, Note("ABORT", t, INVALID_LSN))
        /\ UNCHANGED pending /\ pc' = [pc EXCEPT ![t] = "aborting"]
    BY <1>3 DEF Abort
  <2>2. \A u \in Txn : pc'[u] = "active" => pc[u] = "active" /\ u # t
    BY <1>1, <2>1
  <2>3. QED BY <1>3, <2>1, <2>2, AbortLeaves, NoteOrderly
<1>4. CASE End(t)
  <2>1. PICK c \in {"done", "committing"} :
            /\ UNCHANGED <<log, pending>> /\ mem' = mem /\ pc' = [pc EXCEPT ![t] = c]
            /\ \/ buffer' = buffer
               \/ buffer' = Append(buffer, Note("commit", t, INVALID_LSN))
    BY <1>4 DEF End
  <2>2. \A u \in Txn : pc'[u] = "active" => pc[u] = "active"
    BY <1>1, <2>1
  <2>3. CASE buffer' = buffer
    <3>1. Hist' = Hist
      BY <2>1, <2>3 DEF Hist
    <3>2. QED BY <2>1, <2>2, <3>1, QuietOrderly
  <2>4. CASE buffer' = Append(buffer, Note("commit", t, INVALID_LSN))
    BY <2>1, <2>2, <2>4, NoteOrderly
  <2>5. QED BY <2>1, <2>3, <2>4
<1>5. QED BY <1>2, <1>3, <1>4

LEMMA ChangeOrderly ==
    ASSUME IInv, Orderly, NEW t \in Txn, NEW r \in Rid, NEW x, NEW c, Changed(t, r, x, c)
    PROVE  Orderly'
<1>1. /\ IsPages(mem) /\ TypeTxns /\ Locked(Hist, pc, lock)
  BY BaseParts, TypesOfState DEF IInv, Histories
<1>2. /\ pc[t] = "active" /\ pending[t] = Nil /\ lock[r] \in {Nil, t}
      /\ mem' = Put(mem, r, x) /\ pending' = [pending EXCEPT ![t] = c]
      /\ UNCHANGED <<log, buffer, pc>>
      /\ x \in Slot /\ c.rid = r /\ c.old = At(mem, r) /\ Leaves(c.type, x, t)
  BY DEF Changed, Change
<1>3. \A u \in Txn : pending'[u] = IF u = t THEN c ELSE pending[u]
  BY <1>1, <1>2 DEF TypeTxns
<1>4. \A q \in Rid : At(mem', q) = IF q = r THEN x ELSE At(mem, q)
  BY <1>1, <1>2, PutPages
<1>5. Hist' = Hist /\ Successive(Hist)
  BY <1>2 DEF Hist, Orderly
<1>6. OwnLogged(Hist, mem, pending) /\ OwnKept(Hist, mem, pc, pending)
  BY DEF Orderly, OwnChange
<1>7. \A u \in Txn : u # t /\ pending[u] # Nil => pending[u].rid \in Rid /\ pending[u].rid # r
  <2>1. \A u \in Txn : pending[u] # Nil => pending[u].rid \in Rid /\ lock[pending[u].rid] = u
    BY PendingLocked DEF IInv
  <2>2. QED BY <1>2, <2>1, Constants
<1>8. OwnLogged(Hist, mem', pending')
  <2>1. SUFFICES ASSUME NEW u \in Txn, pending'[u] # Nil
                 PROVE  /\ Leaves(pending'[u].type, At(mem', pending'[u].rid), u)
                        /\ \A j : Latest(Hist, pending'[u].rid, u, j) =>
                                      Leaves(Hist[j + 1].type, pending'[u].old, u)
    BY DEF OwnLogged
  <2>2. CASE u = t
    <3>1. \A j : Latest(Hist, r, t, j) => Leaves(Hist[j + 1].type, At(mem, r), t)
      BY <1>2, <1>6 DEF OwnKept
    <3>2. QED BY <1>2, <1>3, <1>4, <2>2, <3>1
  <2>3. CASE u # t
    BY <1>3, <1>4, <1>6, <1>7, <2>1, <2>3 DEF OwnLogged
  <2>4. QED BY <2>2, <2>3
<1>9. OwnKept(Hist, mem', pc, pending')
  <2>1. SUFFICES ASSUME NEW u \in Txn, NEW q \in Rid, NEW j, pc[u] = "active",
                        Latest(Hist, q, u, j), pending'[u] # Nil => pending'[u].rid # q
                 PROVE  Leaves(Hist[j + 1].type, At(mem', q), u)
    BY DEF OwnKept
  <2>2. q # r
    <3>1. SUFFICES ASSUME q = r PROVE FALSE
      OBVIOUS
    <3>2. c # Nil
      BY Constants DEF Changed
    <3>3. u # t
      BY <1>2, <1>3, <2>1, <3>1, <3>2
    <3>4. j \in On(Hist, q) /\ Active(Hist, pc, j) /\ Hist[j + 1].txn = u
      BY <2>1 DEF Latest, Highest, Own, Active, Current
    <3>5. lock[q] = u
      BY <1>1, <3>4 DEF Locked
    <3>6. QED BY <1>2, <3>1, <3>3, <3>5, Constants
  <2>3. At(mem', q) = At(mem, q)
    BY <1>4, <2>2
  <2>4. pending[u] # Nil => pending[u].rid # q
    BY <1>2, <1>3, <2>1
  <2>5. QED BY <1>6, <2>1, <2>3, <2>4 DEF OwnKept
<1>10. QED BY <1>2, <1>5, <1>8, <1>9 DEF Orderly, OwnChange

LEMMA AppendOrderly ==
    ASSUME IInv, Orderly, NEW t \in Txn, AppendRecord(t)
    PROVE  Orderly'
<1> DEFINE x == pending[t]
           r == x.rid
<1>1. TypeLog /\ TypeTxns
  BY BaseParts DEF IInv
<1>2. /\ x # Nil /\ x \in LogRecord /\ buffer' = Append(buffer, x)
      /\ pending' = [pending EXCEPT ![t] = Nil] /\ mem' = mem
      /\ UNCHANGED <<log, pc>>
  BY <1>1 DEF AppendRecord, TypeTxns
<1>3. /\ \A u \in Txn : pending[u] # Nil =>
             /\ lock[pending[u].rid] = u /\ pending[u].rid \in Rid /\ pc[u] = "active"
             /\ pending[u].type \in Writes /\ pending[u].txn = u
  BY PendingLocked DEF IInv
<1>4. /\ OwnLogged(Hist, mem, pending) /\ OwnKept(Hist, mem, pc, pending)
      /\ Successive(Hist)
  BY DEF Orderly, OwnChange
<1>5. x.txn = t /\ x.type \in Writes /\ r \in Rid /\ lock[r] = t
  BY <1>2, <1>3
<1>6. GrowsBy(Hist, Hist', x)
  BY <1>1, <1>2, AppendedHistory DEF TypeLog
<1>7. \A u \in Txn : pending'[u] = IF u = t THEN Nil ELSE pending[u]
  BY <1>1, <1>2 DEF TypeTxns
<1>8. /\ Leaves(x.type, At(mem, r), t)
      /\ \A j : Latest(Hist, r, t, j) => Leaves(Hist[j + 1].type, x.old, t)
  BY <1>2, <1>4 DEF OwnLogged
<1> HIDE DEF x
<1>9. Successive(Hist')
  BY <1>4, <1>5, <1>6, <1>8, SuccessiveGrows
<1>10. Hist'[Len(Hist) + 1] = x
  BY <1>6 DEF GrowsBy
<1>11. OwnLogged(Hist', mem, pending')
  <2>1. SUFFICES ASSUME NEW u \in Txn, pending'[u] # Nil
                 PROVE  /\ Leaves(pending[u].type, At(mem, pending[u].rid), u)
                        /\ \A j : Latest(Hist', pending[u].rid, u, j) =>
                                      Leaves(Hist'[j + 1].type, pending[u].old, u)
    BY <1>7 DEF OwnLogged
  <2>2. u # t /\ pending[u] # Nil
    BY <1>7, <2>1
  <2>3. ASSUME NEW j, Latest(Hist', pending[u].rid, u, j)
        PROVE  Leaves(Hist'[j + 1].type, pending[u].old, u)
    <3>1. Latest(Hist, pending[u].rid, u, j) /\ Hist'[j + 1] = Hist[j + 1]
      BY <1>5, <1>6, <2>2, <2>3, LatestGrows
    <3>2. QED BY <1>4, <2>2, <3>1 DEF OwnLogged
  <2>4. QED BY <1>4, <2>2, <2>3 DEF OwnLogged
<1>12. OwnKept(Hist', mem, pc, pending')
  <2>1. SUFFICES ASSUME NEW u \in Txn, NEW q \in Rid, NEW j, pc[u] = "active",
                        Latest(Hist', q, u, j), pending'[u] # Nil => pending'[u].rid # q
                 PROVE  Leaves(Hist'[j + 1].type, At(mem, q), u)
    BY DEF OwnKept
  <2>2. CASE j = Len(Hist) /\ q = r /\ u = t
    BY <1>8, <1>10, <2>2
  <2>3. CASE /\ Latest(Hist, q, u, j) /\ Hist'[j + 1] = Hist[j + 1]
             /\ ~(x.type \in Writes /\ x.rid = q /\ x.txn = u)
    <3>1. pending[u] # Nil => pending[u].rid # q
      BY <1>5, <1>7, <2>1, <2>3 DEF x
    <3>2. QED BY <1>4, <2>1, <2>3, <3>1 DEF OwnKept
  <2>4. QED BY <1>5, <1>6, <2>1, <2>2, <2>3, LatestGrows
<1>13. OwnLogged(Hist', mem', pending') /\ OwnKept(Hist', mem', pc', pending')
  BY <1>2, <1>11, <1>12
<1>14. QED BY <1>9, <1>13 DEF Orderly, OwnChange

LEMMA StopOrderly ==
    ASSUME IInv, Orderly, Stopped, log' = log
    PROVE  Orderly'
<1>1. buffer' = <<>> /\ \A t \in Txn : pc'[t] # "active" /\ pending'[t] = Nil
  BY DEF Stopped
<1>2. Hist' = log /\ Successive(log)
  <2>1. log \in Seq(LogRecord) /\ Extends(log, Hist)
    BY BaseParts, TypesOfState DEF IInv, TypeLog
  <2>2. QED BY <1>1, <2>1, SuccessiveShrinks DEF Hist, Orderly
<1>3. QED BY <1>1, <1>2, NoneOrderly

\* The step leaves the history, and no transaction runs.
LEMMA IdleOrderly ==
    ASSUME IInv, Orderly, UNCHANGED <<log, buffer, pc, pending>>,
           \A t \in Txn : pc[t] # "active"
    PROVE  Orderly'
<1>1. \A t \in Txn : pending[t] = Nil
  BY PendingLocked DEF IInv
<1>2. Hist' = Hist /\ \A t \in Txn : pc'[t] # "active" /\ pending'[t] = Nil
  BY <1>1 DEF Hist
<1>3. QED BY <1>2, NoneOrderly DEF Orderly

LEMMA NextOrderly ==
    ASSUME IInv, Orderly, [Next]_vars
    PROVE  Orderly'
<1>1. CASE \E t \in Txn : Begin(t) \/ AppendRecord(t) \/ Commit(t) \/ Abort(t) \/ End(t)
  BY <1>1, BeginOrderly, AppendOrderly, FinishOrderly
<1>2. CASE \E t \in Txn : \E r \in Rid : Insert(t, r) \/ Update(t, r) \/ Delete(t, r)
  <2>1. PICK t \in Txn, r \in Rid : Insert(t, r) \/ Update(t, r) \/ Delete(t, r)
    BY <1>2
  <2>2. PICK x, c : Changed(t, r, x, c)
    BY <2>1, ChangeIsChanged DEF IInv
  <2>3. QED BY <2>2, ChangeOrderly
<1>3. CASE FlushLog \/ UNCHANGED vars \/ \E p \in PageNo : FlushPage(p)
  <2>1. UNCHANGED <<pc, pending>> /\ mem' = mem
    BY <1>3 DEF FlushLog, FlushPage, vars, running
  <2>2. Hist' = Hist
    <3>1. CASE FlushLog
      BY <3>1, BaseParts, FlushedHistory DEF IInv, TypeLog
    <3>2. CASE UNCHANGED <<log, buffer>>
      BY <3>2 DEF Hist
    <3>3. QED BY <1>3, <3>1, <3>2 DEF FlushPage, vars
  <2>3. QED BY <2>1, <2>2, QuietOrderly
<1>4. CASE RecreateTable
  <2>1. UNCHANGED <<log, buffer, pc, pending>> /\ \A t \in Txn : pc[t] # "active"
    BY <1>4 DEF RecreateTable, running
  <2>2. QED BY <2>1, IdleOrderly
<1>5. CASE Crash \/ Shutdown
  BY <1>5, StopOrderly DEF Crash, Shutdown
<1>6. CASE RecoveryStep
  <2>1. mode # "run" /\ UNCHANGED <<log, buffer, running>>
    <3>1. CASE Analyze \/ RedoSkip \/ RedoApply \/ RedoEnd \/ (\E t \in Txn : UndoTxn(t))
      BY <3>1 DEF Analyze, RedoSkip, RedoApply, RedoEnd, UndoTxn
    <3>2. CASE UndoRecord \/ UndoBegin \/ UndoEnd \/ Serve
      BY <3>2 DEF UndoRecord, UndoBegin, UndoEnd, Serve
    <3>3. CASE RedoStamp
      BY <3>3 DEF RedoStamp, IInv, Redo
    <3>4. QED BY <1>6, <3>1, <3>2, <3>3 DEF RecoveryStep
  <2>2. \A t \in Txn : pc[t] # "active"
    BY <2>1 DEF IInv, Idle
  <2>3. QED BY <2>1, <2>2, IdleOrderly DEF running
<1>7. QED BY <1>1, <1>2, <1>3, <1>4, <1>5, <1>6 DEF Next, TxnStep

LEMMA InitOrderly == Init => Orderly
<1>1. SUFFICES ASSUME Init PROVE Orderly
  OBVIOUS
<1>2. IInv
  BY <1>1, Initial
<1>3. PICK r \in Rid : LET row == [trx |-> 0, val |-> 0] IN
          /\ log = <<Note("begin", 0, INVALID_LSN),
                     [type |-> "INSERT", txn |-> 0, prev |-> 0, rid |-> r, old |-> Nil, new |-> row],
                     Note("commit", 0, INVALID_LSN)>>
          /\ buffer = <<>> /\ pc = [t \in Txn |-> IF t = 0 THEN "done" ELSE "none"]
          /\ pending = [t \in Txn |-> Nil]
  BY <1>1 DEF Init
<1>4. Len(log) = 3 /\ log[1].type = "begin" /\ log[3].type = "commit" /\ Hist = log
  BY <1>2, <1>3, TypesOfState DEF Note, IInv
<1>5. \A q : \A k \in On(Hist, q) : k = 1
  <2>1. \A k \in Pos(log) : k = 0 \/ k = 1 \/ k = 2
    BY <1>4 DEF Pos
  <2>2. ~IsW(log, 0) /\ ~IsW(log, 2)
    BY <1>4 DEF IsW, Writes
  <2>3. QED BY <1>4, <2>1, <2>2 DEF On
<1>6. Successive(Hist)
  BY <1>5 DEF Successive, Next2
<1>7. OwnChange
  BY <1>3 DEF OwnChange, OwnLogged, OwnKept
<1>8. QED BY <1>6, <1>7 DEF Orderly

(***************************************************************************)
(* Every page stays on its way: step by step.                              *)
(***************************************************************************)

LEMMA ToldLog ==
    ASSUME IInv, Orderly
    PROVE  /\ Base /\ Histories /\ Told(log) /\ Len(log) \in Nat /\ Lsns = Pos(log)
           /\ \A k \in Pos(log) : k \in Int /\ Rec(k) = log[k + 1] /\ (IsW(log, k) <=> IsWrite(k))
           /\ IsPages(mem) /\ IsPages(disk)
<1>1. Base /\ Histories
  BY DEF IInv
<1>2. /\ Extends(log, Hist) /\ History(log) /\ Len(log) \in Nat /\ Lsns = Pos(log)
      /\ \A k \in Pos(log) : Rec(k) = log[k + 1]
      /\ IsPages(mem) /\ IsPages(disk)
  BY <1>1, TypesOfState
<1>3. Shaped(log) /\ \A k \in Pos(log) : IsW(log, k) <=> IsWrite(k)
  BY <1>1, WriteFacts
<1>4. Successive(log)
  BY <1>2, SuccessiveShrinks DEF Orderly
<1>5. \A k \in Pos(log) : k \in Int
  BY DEF Pos
<1>6. QED BY <1>1, <1>2, <1>3, <1>4, <1>5 DEF Told

\* One page in a step of recovery, or in one that writes pages.
LEMMA PageMoves ==
    ASSUME NEW p, NEW f, Page(p, f), log' = log, goal' = goal,
           disk'[p] # disk[p] => Reached(log, p, f, goal[p].slots, disk'[p], 0),
           mode' = "redo" => RedoOn(p, f, goal[p].slots)',
           mode' \in {"undo", "ready"} => Undoable(log, p, goal[p].slots, mem'[p], Progress')
    PROVE  Page(p, f)'
<1>1. Way(log', p, f, goal'[p].slots)
  BY DEF Page
<1>2. Reached(log', p, f, goal'[p].slots, disk'[p], 0)
  BY DEF Page
<1>3. mode' \in {"undo", "ready"} => Undoable(log', p, goal'[p].slots, mem'[p], Progress')
  OBVIOUS
<1>4. QED BY <1>1, <1>2, <1>3 DEF Page

LEMMA ProgressTypes ==
    ASSUME Base
    PROVE  Progress \in [Txn -> Int]
<1>1. undoing.lsn \in Int /\ Len(log) \in Nat
  <2>1. undoing \in [txn : Txn \cup {Nil}, lsn : {INVALID_LSN} \cup Lsns] /\ Len(log) \in Nat
    BY TypesOfState DEF Base, TypeOK
  <2>2. QED BY <2>1 DEF INVALID_LSN, Lsns
<1>2. QED BY <1>1 DEF Progress

LEMMA ProgressTypesNext ==
    ASSUME Base'
    PROVE  Progress' \in [Txn -> Int]
<1>1. undoing'.lsn \in Int /\ Len(log') \in Nat
  <2>1. undoing' \in [txn : Txn \cup {Nil}, lsn : {INVALID_LSN} \cup Lsns'] /\ Len(log') \in Nat
    BY BasePartsNext DEF TypeRest, TypeLog
  <2>2. QED BY <2>1 DEF INVALID_LSN, Lsns
<1>2. QED BY <1>1 DEF Progress

\* A page that recovery writes is one that it has reached.
LEMMA WrittenPage ==
    ASSUME IInv, Orderly, NEW p \in PageNo, NEW f, Page(p, f), mode \in {"redo", "undo", "ready"}
    PROVE  Reached(log, p, f, goal[p].slots, mem[p], 0)
<1> DEFINE g == goal[p].slots
<1>1. Told(log) /\ Base /\ Len(log) \in Nat
  BY ToldLog
<1>2. Replay(log, p, f)
  BY <1>1 DEF Page, Way, Replay, Told
<1>3. CASE mode = "redo"
  <2>1. RedoOn(p, f, g)
    BY <1>3 DEF Page
  <2>2. CASE applied /\ WritesPage(log, pos, p)
    <3>1. pos \in 0 .. Len(log) - 1
      BY <1>1, <2>2, BaseParts DEF IInv, Redo, TypeRest
    <3>2. QED BY <2>1, <2>2, <3>1 DEF RedoOn, Reached
  <2>3. CASE ~(applied /\ WritesPage(log, pos, p))
    <3>1. pos \in Nat
      BY <1>1, BaseParts DEF TypeRest
    <3>2. Reached(log, p, f, g, mem[p], pos)
      BY <2>1, <2>3 DEF RedoOn
    <3>3. QED BY <1>2, <3>1, <3>2, ReachedAnew
  <2>4. QED BY <2>2, <2>3
<1>4. CASE mode \in {"undo", "ready"}
  <2>1. Undoable(log, p, g, mem[p], Progress)
    BY <1>4 DEF Page
  <2>2. Progress \in [Txn -> Int]
    BY <1>1, ProgressTypes
  <2>3. \A r \in OnPage(p) : r \in Rid
    BY DEF OnPage
  <2>4. \A r \in OnPage(p) : Leads(log, r, g[r], mem[p].slots[r], Whole(log))
    BY <1>1, <2>1, <2>2, <2>3, LeadsAnew DEF Undoable
  <2>5. Undoable(log, p, g, mem[p], Whole(log))
    BY <2>1, <2>4 DEF Undoable
  <2>6. QED BY <2>5 DEF Reached
<1>5. QED BY <1>3, <1>4

LEMMA FlushPageRepeats ==
    ASSUME IInv, Orderly, NEW q \in PageNo, FlushPage(q), mode # "run",
           NEW p \in PageNo, NEW f, Page(p, f)
    PROVE  Page(p, f)'
<1>1. /\ mode \in {"redo", "undo", "ready"} /\ disk' = [disk EXCEPT ![q] = mem[q]]
      /\ UNCHANGED <<mode, log, mem, pos, att, undoing, goal>> /\ UNCHANGED applied
  BY DEF FlushPage, recovering
<1>2. DOMAIN disk = PageNo
  BY ToldLog, PageOfPages
<1>3. disk'[p] # disk[p] => disk'[p] = mem[p]
  BY <1>1, <1>2
<1>4. disk'[p] # disk[p] => Reached(log, p, f, goal[p].slots, disk'[p], 0)
  BY <1>1, <1>3, WrittenPage
<1>5. mode' = "redo" => RedoOn(p, f, goal[p].slots)'
  <2>1. mode = "redo" => RedoOn(p, f, goal[p].slots)
    BY DEF Page
  <2>2. QED BY <1>1, <2>1 DEF RedoOn
<1>6. Progress' = Progress
  BY <1>1 DEF Progress
<1>7. mode' \in {"undo", "ready"} => Undoable(log, p, goal[p].slots, mem'[p], Progress')
  BY <1>1, <1>6 DEF Page
<1>8. QED BY <1>1, <1>4, <1>5, <1>7, PageMoves

LEMMA CrashRepeats ==
    ASSUME IInv, Orderly, Repeated, Crash \/ Shutdown, NEW p \in PageNo
    PROVE  \E f : Page(p, f)'
<1>1. mode' = "down" /\ log' = log /\ disk' = disk
  BY DEF Crash, Shutdown, Stopped
<1>2. CASE mode = "run"
  <2>1. goal' = Recovered
    BY <1>2 DEF Crash, Shutdown
  <2>2. PICK f : Way(log, p, f, Recovered[p].slots) /\ f[0] = disk[p]
    BY ToldLog, WayExists
  <2>3. Reached(log, p, f, Recovered[p].slots, disk[p], 0)
    <3>1. 0 \in 0 .. Len(log)
      BY ToldLog
    <3>2. QED BY <2>2, <3>1 DEF Reached
  <2>4. Way(log', p, f, goal'[p].slots) /\ Reached(log', p, f, goal'[p].slots, disk'[p], 0)
    BY <1>1, <2>1, <2>2, <2>3
  <2>5. Page(p, f)'
    BY <1>1, <2>4 DEF Page
  <2>6. QED BY <2>5
<1>3. CASE mode # "run"
  <2>1. goal' = goal
    BY <1>3 DEF Crash, Shutdown
  <2>2. PICK f : Page(p, f)
    BY <1>3 DEF Repeated
  <2>3. Page(p, f)'
    BY <1>1, <2>1, <2>2, PageMoves
  <2>4. QED BY <2>3
<1>4. QED BY <1>2, <1>3

LEMMA AnalyzeRepeats ==
    ASSUME IInv, Analyze, NEW p \in PageNo, NEW f, Page(p, f)
    PROVE  Page(p, f)'
<1>1. /\ mode = "down" /\ mode' = "redo" /\ mem' = disk
      /\ UNCHANGED <<log, disk, goal, pos>> /\ UNCHANGED applied
  BY DEF Analyze, recovering, ghosts
<1>2. pos = 0 /\ ~applied
  BY <1>1 DEF IInv, Redo
<1>3. Reached(log', p, f, goal'[p].slots, mem'[p], pos') /\ ~applied'
  BY <1>1, <1>2 DEF Page
<1>4. RedoOn(p, f, goal[p].slots)'
  BY <1>3 DEF RedoOn
<1>5. QED BY <1>1, <1>4, PageMoves

\* Redo on one page: the history is as the lemmas on one page want it.
LEMMA RedoFacts ==
    ASSUME IInv, Orderly, mode = "redo", NEW p \in PageNo, NEW f, Page(p, f)
    PROVE  /\ Replay(log, p, f) /\ pos \in Nat /\ RedoOn(p, f, goal[p].slots)
           /\ pos < Len(log) => pos \in Pos(log) /\ pos + 1 \in Nat
           /\ mem[p].lsn \in Int
<1>1. Told(log) /\ Base /\ IsPages(mem) /\ Len(log) \in Nat
  BY ToldLog
<1>2. Replay(log, p, f)
  BY <1>1 DEF Page, Way, Replay, Told
<1>3. pos \in Nat
  BY <1>1, BaseParts DEF TypeRest
<1>4. mem[p].lsn \in Int
  BY <1>1, PageOfPages DEF PageType
<1>5. QED BY <1>1, <1>2, <1>3, <1>4 DEF Page, Pos

LEMMA RedoSkipRepeats ==
    ASSUME IInv, Orderly, RedoSkip, NEW p \in PageNo, NEW f, Page(p, f)
    PROVE  Page(p, f)'
<1> DEFINE g == goal[p].slots
<1>1. /\ mode = "redo" /\ ~applied /\ pos < Len(log) /\ (IsWrite(pos) => Barrier(mem, pos))
      /\ pos' = pos + 1
      /\ UNCHANGED <<mode, log, disk, mem, goal>> /\ UNCHANGED applied
  BY DEF RedoSkip, ghosts
<1>2. Replay(log, p, f) /\ pos \in Pos(log) /\ pos \in Nat /\ RedoOn(p, f, g)
  BY <1>1, RedoFacts
<1>3. Reached(log, p, f, g, mem[p], pos)
  BY <1>1, <1>2 DEF RedoOn
<1>4. ~WritesPage(log, pos, p) \/ mem[p].lsn >= pos
  <2>1. SUFFICES ASSUME WritesPage(log, pos, p) PROVE mem[p].lsn >= pos
    OBVIOUS
  <2>2. IsWrite(pos)
    BY <1>2, <2>1, ToldLog DEF WritesPage
  <2>3. QED BY <1>1, <1>2, <2>1, <2>2, ToldLog, StampOnPage
<1>5. Reached(log, p, f, g, mem[p], pos + 1)
  BY <1>2, <1>3, <1>4, ReachedSkip
<1>6. RedoOn(p, f, g)'
  BY <1>1, <1>5 DEF RedoOn
<1>7. QED BY <1>1, <1>6, PageMoves

LEMMA RedoApplyRepeats ==
    ASSUME IInv, Orderly, RedoApply, NEW p \in PageNo, NEW f, Page(p, f)
    PROVE  Page(p, f)'
<1> DEFINE g == goal[p].slots
<1>1. /\ mode = "redo" /\ ~applied /\ pos < Len(log) /\ IsWrite(pos) /\ ~Barrier(mem, pos)
      /\ mem' = Redone(mem, pos) /\ applied'
      /\ UNCHANGED <<mode, log, disk, pos, goal>>
  BY DEF RedoApply, ghosts
<1>2. Replay(log, p, f) /\ pos \in Pos(log) /\ pos \in Nat /\ RedoOn(p, f, g)
      /\ mem[p].lsn \in Int
  BY <1>1, RedoFacts
<1>3. Reached(log, p, f, g, mem[p], pos)
  BY <1>1, <1>2 DEF RedoOn
<1>4. mem'[p] = IF WritesPage(log, pos, p) THEN Applied(log, pos, mem[p]) ELSE mem[p]
  BY <1>1, <1>2, ToldLog, RedoneOnPage
<1>5. CASE WritesPage(log, pos, p)
  <2>1. ~(mem[p].lsn >= pos)
    BY <1>1, <1>2, <1>5, ToldLog, StampOnPage
  <2>2. f[pos].lsn < pos /\ Applied(log, pos, mem[p]) = Applied(log, pos, f[pos])
    BY <1>2, <1>3, <1>5, <2>1, ReachedApply
  <2>3. RedoOn(p, f, g)'
    BY <1>1, <1>4, <1>5, <2>2 DEF RedoOn
  <2>4. QED BY <1>1, <2>3, PageMoves
<1>6. CASE ~WritesPage(log, pos, p)
  <2>1. RedoOn(p, f, g)'
    BY <1>1, <1>3, <1>4, <1>6 DEF RedoOn
  <2>2. QED BY <1>1, <2>1, PageMoves
<1>7. QED BY <1>5, <1>6

LEMMA RedoStampRepeats ==
    ASSUME IInv, Orderly, RedoStamp, NEW p \in PageNo, NEW f, Page(p, f)
    PROVE  Page(p, f)'
<1> DEFINE g == goal[p].slots
<1>1. /\ applied /\ mem' = Stamp(mem, pos) /\ pos' = pos + 1 /\ ~applied'
      /\ UNCHANGED <<mode, log, disk, goal>>
  BY DEF RedoStamp, ghosts
<1>2. mode = "redo" /\ pos < Len(log) /\ IsW(log, pos)
  BY <1>1 DEF IInv, Redo
<1>3. Replay(log, p, f) /\ pos \in Pos(log) /\ pos \in Nat /\ RedoOn(p, f, g)
  BY <1>2, RedoFacts
<1>4. mem'[p] = IF WritesPage(log, pos, p) THEN [mem[p] EXCEPT !.lsn = pos] ELSE mem[p]
  BY <1>1, <1>2, <1>3, ToldLog, StampOnPage
<1>5. Reached(log, p, f, g, mem'[p], pos + 1)
  <2>1. CASE WritesPage(log, pos, p)
    <3>1. f[pos].lsn < pos /\ mem[p] = Applied(log, pos, f[pos])
      BY <1>1, <1>3, <2>1 DEF RedoOn
    <3>2. QED BY <1>3, <1>4, <2>1, <3>1, ReachedStamp
  <2>2. CASE ~WritesPage(log, pos, p)
    <3>1. Reached(log, p, f, g, mem[p], pos)
      BY <1>3, <2>2 DEF RedoOn
    <3>2. QED BY <1>3, <1>4, <2>2, <3>1, ReachedSkip
  <2>3. QED BY <2>1, <2>2
<1>6. RedoOn(p, f, g)'
  BY <1>1, <1>5 DEF RedoOn
<1>7. QED BY <1>1, <1>2, <1>6, PageMoves

\* Undo passes records that change no slot, or none.
LEMMA UndoablePassed ==
    ASSUME NEW h, Told(h), NEW p \in PageNo, NEW g, NEW page,
           NEW m \in [Txn -> Int], NEW n \in [Txn -> Int], Undoable(h, p, g, page, m),
           \A t \in Txn : Open(h, t) =>
               n[t] <= m[t] /\ \A r \in Rid : \A k \in Own(h, t, r) : ~(n[t] <= k /\ k < m[t])
    PROVE  Undoable(h, p, g, page, n)
<1>1. ASSUME NEW r \in OnPage(p) PROVE Leads(h, r, g[r], page.slots[r], n)
  <2>1. r \in Rid
    BY DEF OnPage
  <2>2. Leads(h, r, g[r], page.slots[r], m)
    BY DEF Undoable
  <2>3. \A t \in Txn : Loses(h, t, r) =>
            n[t] <= m[t] /\ \A k \in Own(h, t, r) : ~(n[t] <= k /\ k < m[t])
    BY <2>1 DEF Loses
  <2>4. QED BY <2>1, <2>2, <2>3, LeadsPassed
<1>2. QED BY <1>1 DEF Undoable

LEMMA RedoEndRepeats ==
    ASSUME IInv, Orderly, RedoEnd, Base', NEW p \in PageNo, NEW f, Page(p, f)
    PROVE  Page(p, f)'
<1> DEFINE g == goal[p].slots
<1>1. /\ mode = "redo" /\ pos = Len(log) /\ disk' = mem /\ mode' = "undo"
      /\ att' = {t \in Txn : Unfinished(t)}
      /\ UNCHANGED <<log, mem, goal, undoing>>
  BY DEF RedoEnd, ghosts
<1>2. undoing = NoUndo /\ ~applied
  <2>1. undoing = NoUndo
    BY <1>1 DEF IInv, Undo
  <2>2. applied => pos < Len(log)
    BY DEF IInv, Redo
  <2>3. ~(pos < Len(log))
    BY <1>1, ToldLog
  <2>4. QED BY <2>1, <2>2, <2>3
<1>3. Replay(log, p, f) /\ RedoOn(p, f, g) /\ Way(log, p, f, g)
  BY <1>1, RedoFacts DEF Page
<1>4. Reached(log, p, f, g, mem[p], Len(log))
  BY <1>1, <1>2, <1>3 DEF RedoOn
<1>5. Undoable(log, p, g, mem[p], Whole(log))
  BY <1>3, <1>4, ReachedEnd
<1>6. Reached(log, p, f, g, disk'[p], 0)
  BY <1>1, <1>5 DEF Reached
<1>7. Undoable(log, p, g, mem[p], Progress')
  <2>1. Progress' \in [Txn -> Int] /\ Whole(log) \in [Txn -> Int]
    BY ToldLog, ProgressTypesNext DEF Whole
  <2>2. ASSUME NEW t \in Txn, Open(log, t) PROVE Progress'[t] = Len(log)
    <3>1. t \in att' /\ undoing'.txn # t
      BY <1>1, <1>2, <2>2, ToldLog, ChainIsOwn, Constants DEF NoUndo
    <3>2. QED BY <1>1, <3>1 DEF Progress
  <2>3. \A t \in Txn : Whole(log)[t] = Len(log) /\ Len(log) \in Nat
    BY ToldLog DEF Whole
  <2>4. \A t \in Txn : Open(log, t) =>
            Progress'[t] <= Whole(log)[t]
            /\ \A r \in Rid : \A k \in Own(log, t, r) : ~(Progress'[t] <= k /\ k < Whole(log)[t])
    <3>1. \A t \in Txn : \A r \in Rid : \A k \in Own(log, t, r) : k \in Int
      BY ToldLog DEF Own, On
    <3>2. QED BY <2>2, <2>3, <3>1
  <2>5. QED BY <1>5, <2>1, <2>4, ToldLog, UndoablePassed
<1>8. QED BY <1>1, <1>6, <1>7, PageMoves

\* Undo takes a step that changes no page.
LEMMA UndoPasses ==
    ASSUME IInv, Orderly, mode \in {"undo", "ready"}, NEW p \in PageNo, NEW f, Page(p, f), Base',
           mode' \in {"undo", "ready"}, log' = log, goal' = goal, disk' = disk, mem' = mem,
           \A t \in Txn : Open(log, t) =>
               /\ Progress'[t] <= Progress[t]
               /\ \A r \in Rid : \A k \in Own(log, t, r) : ~(Progress'[t] <= k /\ k < Progress[t])
    PROVE  Page(p, f)'
<1>1. Undoable(log, p, goal[p].slots, mem[p], Progress)
  BY DEF Page
<1>2. Progress \in [Txn -> Int] /\ Progress' \in [Txn -> Int]
  BY ToldLog, ProgressTypes, ProgressTypesNext
<1>3. Undoable(log, p, goal[p].slots, mem[p], Progress')
  <2> DEFINE m == Progress
             n == Progress'
  <2>1. \A t \in Txn : Open(log, t) =>
            n[t] <= m[t] /\ \A r \in Rid : \A k \in Own(log, t, r) : ~(n[t] <= k /\ k < m[t])
    OBVIOUS
  <2>2. m \in [Txn -> Int] /\ n \in [Txn -> Int] /\ Undoable(log, p, goal[p].slots, mem[p], m)
    BY <1>1, <1>2
  <2> HIDE DEF m, n
  <2>3. Undoable(log, p, goal[p].slots, mem[p], n)
    BY <2>1, <2>2, ToldLog, UndoablePassed
  <2>4. QED BY <2>3 DEF n
<1>4. QED BY <1>3, PageMoves

LEMMA UndoTxnRepeats ==
    ASSUME IInv, Orderly, Base', NEW t \in Txn, UndoTxn(t), NEW p \in PageNo, NEW f, Page(p, f)
    PROVE  Page(p, f)'
<1>1. /\ mode = "undo" /\ undoing = NoUndo /\ t \in att /\ att' = att \ {t}
      /\ undoing' = [txn |-> t, lsn |-> LastLsn(t)]
      /\ UNCHANGED <<mode, log, disk, mem, goal>>
  BY DEF UndoTxn, ghosts
<1>2. Unfinished(t)
  BY <1>1, UndoFacts
<1>3. /\ LastLsn(t) \in Pos(log) /\ \A k \in Pos(log) : log[k + 1].txn = t => k <= LastLsn(t)
  BY <1>2, LastRecord DEF IInv
<1>4. Progress[t] = Len(log) /\ Progress'[t] = LastLsn(t) + 1 /\ LastLsn(t) + 1 <= Len(log)
  <2>1. undoing.txn # t
    BY <1>1, Constants DEF NoUndo
  <2>2. Progress[t] = Len(log) /\ Progress'[t] = LastLsn(t) + 1
    BY <1>1, <2>1 DEF Progress
  <2>3. QED BY <1>3, <2>2, ToldLog DEF Pos
<1>5. \A u \in Txn : u # t => Progress'[u] = Progress[u]
  <2>1. \A u \in Txn : undoing.txn # u
    BY <1>1, Constants DEF NoUndo
  <2>2. QED BY <1>1, <2>1 DEF Progress
<1>6. \A u \in Txn : \A r \in Rid : \A k \in Own(log, u, r) :
          k \in Pos(log) /\ k \in Int /\ log[k + 1].txn = u
  BY ToldLog DEF Own, On, Current
<1>7. Progress \in [Txn -> Int] /\ LastLsn(t) \in Int
  BY <1>3, ToldLog, ProgressTypes
<1>8. ASSUME NEW u \in Txn
      PROVE  /\ Progress'[u] <= Progress[u]
             /\ \A r \in Rid : \A k \in Own(log, u, r) : ~(Progress'[u] <= k /\ k < Progress[u])
  <2>1. CASE u = t
    <3>1. \A r \in Rid : \A k \in Own(log, u, r) : k \in Int /\ k <= LastLsn(t)
      BY <1>3, <1>6, <2>1
    <3>2. QED BY <1>4, <1>7, <2>1, <3>1
  <2>2. CASE u # t
    <3>1. Progress'[u] = Progress[u] /\ Progress[u] \in Int
      BY <1>5, <1>7, <2>2
    <3>2. \A r \in Rid : \A k \in Own(log, u, r) : k \in Int
      BY <1>6
    <3>3. QED BY <3>1, <3>2
  <2>3. QED BY <2>1, <2>2
<1>9. QED BY <1>1, <1>8, UndoPasses

LEMMA UndoBeginRepeats ==
    ASSUME IInv, Orderly, Base', undoing.txn \notin att, UndoBegin, NEW p \in PageNo, NEW f, Page(p, f)
    PROVE  Page(p, f)'
<1> DEFINE t == undoing.txn
           b == undoing.lsn
<1>1. /\ mode = "undo" /\ b # INVALID_LSN /\ Rec(b).type = "begin" /\ undoing' = NoUndo
      /\ UNCHANGED <<mode, log, disk, mem, att, goal>>
  BY DEF UndoBegin, ghosts
<1>2. t \in Txn /\ b \in Pos(log) /\ log[b + 1].txn = t /\ log[b + 1].type = "begin"
  <2>1. Undoing(t, b)
    BY <1>1, UndoFacts DEF NoUndo
  <2>2. QED BY <1>1, <2>1, ToldLog DEF Undoing
<1>3. ASSUME NEW r \in Rid, NEW k \in Own(log, t, r) PROVE k \in Int /\ b < k
  <2>1. k \in Pos(log) /\ IsW(log, k) /\ log[k + 1].txn = t /\ NoneAfter(log, k, {"begin"})
    BY DEF Own, On, Current
  <2>2. ~(b > k)
    BY <1>2, <2>1 DEF NoneAfter
  <2>3. b # k
    BY <1>2, <2>1 DEF IsW, Writes
  <2>4. k \in Int /\ b \in Int
    BY <1>2, <2>1, ToldLog
  <2>5. QED BY <2>2, <2>3, <2>4
<1>4. Progress[t] = b + 1 /\ Progress'[t] = 0
  <2>1. undoing'.txn # t /\ t \notin att'
    BY <1>1, <1>2, Constants DEF NoUndo
  <2>2. QED BY <1>1, <1>2, <2>1 DEF Progress
<1>5. \A u \in Txn : u # t => Progress'[u] = Progress[u]
  <2>1. \A u \in Txn : undoing'.txn # u
    BY <1>1, Constants DEF NoUndo
  <2>2. QED BY <1>1, <2>1 DEF Progress
<1>6. Progress \in [Txn -> Int] /\ b \in Nat
  BY <1>2, ToldLog, ProgressTypes DEF Pos
<1>7. ASSUME NEW u \in Txn
      PROVE  /\ Progress'[u] <= Progress[u]
             /\ \A r \in Rid : \A k \in Own(log, u, r) : ~(Progress'[u] <= k /\ k < Progress[u])
  <2>1. CASE u = t
    BY <1>3, <1>4, <1>6, <2>1
  <2>2. CASE u # t
    <3>1. Progress'[u] = Progress[u] /\ Progress[u] \in Int
      BY <1>5, <1>6, <2>2
    <3>2. \A r \in Rid : \A k \in Own(log, u, r) : k \in Int
      BY ToldLog DEF Own, On
    <3>3. QED BY <3>1, <3>2
  <2>3. QED BY <2>1, <2>2
<1>8. QED BY <1>1, <1>7, UndoPasses

LEMMA UndoEndRepeats ==
    ASSUME IInv, Orderly, Base', UndoEnd, NEW p \in PageNo, NEW f, Page(p, f)
    PROVE  Page(p, f)'
<1>1. /\ mode = "undo" /\ mode' = "ready" /\ att = {} /\ undoing = NoUndo
      /\ UNCHANGED <<log, disk, mem, goal>>
  BY DEF UndoEnd, ghosts
<1>2. \A t \in Txn : Progress[t] = 0 /\ Progress'[t] = 0
  BY <1>1, Constants DEF Progress, NoUndo
<1>3. \A u \in Txn : \A r \in Rid : \A k \in Own(log, u, r) : k \in Int
  BY ToldLog DEF Own, On
<1>4. QED BY <1>1, <1>2, <1>3, UndoPasses

\* Undo of the last record of t in the slot that is not yet undone.
LEMMA LeadsUndone ==
    ASSUME NEW h, Told(h), NEW r \in Rid, NEW g, NEW x,
           NEW m \in [Txn -> Int], NEW n \in [Txn -> Int], Leads(h, r, g, x, m),
           NEW t \in Txn, Open(h, t), NEW k \in Own(h, t, r), m[t] = k + 1,
           x # Nil \/ Deletes(h, k),
           n[t] <= k, \A j \in Own(h, t, r) : ~(n[t] <= j /\ j < k)
    PROVE  Leads(h, r, g, SlotUndo(h, k, x), n)
<1> DEFINE C == Own(h, t, r)
<1>1. SUFFICES ASSUME OneLoser(h, r)
               PROVE  /\ \A u \in Txn : Loses(h, u, r) =>
                             Leading(h, Own(h, u, r), u, g, SlotUndo(h, k, x), n[u])
                      /\ (\A u \in Txn : ~Loses(h, u, r)) => SlotUndo(h, k, x) = g
  BY DEF Leads
<1>2. Loses(h, t, r)
  BY DEF Loses
<1>3. Series(h, C, t)
  BY OwnSeries DEF Told
<1>4. k \in Int /\ \A j \in C : j \in Int
  BY <1>3, Extremes DEF Series
<1>5. Leading(h, C, t, g, x, k + 1)
  BY <1>1, <1>2 DEF Leads
<1> HIDE DEF C
<1>6. k \in C /\ n[t] \in Int /\ \A j \in C : ~(n[t] <= j /\ j < k)
  BY DEF C
<1>7. Below(C, k + 1, k)
  BY <1>4, <1>6 DEF Below
<1>8. Leading(h, C, t, g, SlotUndo(h, k, x), k)
  BY <1>3, <1>4, <1>5, <1>6, <1>7, UndoLeads
<1>9. Leading(h, C, t, g, SlotUndo(h, k, x), n[t])
  BY <1>3, <1>4, <1>6, <1>8, PassedLeads
<1>10. \A u \in Txn : Loses(h, u, r) => u = t
  BY <1>1, <1>2 DEF OneLoser
<1>11. QED BY <1>2, <1>9, <1>10 DEF C

LEMMA UndoRecordRepeats ==
    ASSUME IInv, Orderly, Base', undoing.txn \notin att, UndoRecord, NEW p \in PageNo, NEW f,
           Page(p, f)
    PROVE  Page(p, f)'
<1> DEFINE t == undoing.txn
           u == undoing.lsn
           v == log[u + 1].prev
           g == goal[p].slots
<1>1. /\ mode = "undo" /\ u # INVALID_LSN /\ IsWrite(u) /\ undoing' = [undoing EXCEPT !.lsn = Rec(u).prev]
      /\ \/ mode' = "failed"
         \/ ~UndoThrows(mem, u) /\ mem' = Undone(mem, u) /\ mode' = mode
      /\ UNCHANGED <<log, disk, att, goal>>
  BY DEF UndoRecord, ghosts
<1>2. CASE mode' = "failed"
  BY <1>1, <1>2, PageMoves
<1>3. CASE ~UndoThrows(mem, u) /\ mem' = Undone(mem, u) /\ mode' = mode
  <2>1. /\ t \in Txn /\ Open(log, t) /\ Current(log, u, t) /\ u \in Pos(log) /\ u \in Int /\ IsW(log, u)
        /\ Rec(u) = log[u + 1] /\ log[u + 1].rid \in Rid /\ Shape(log[u + 1])
        /\ v < u /\ v \in Int /\ log[u + 1].txn = t
        /\ \A k \in Pos(log) : k < u /\ log[k + 1].txn = t => k <= v
    <3>1. /\ Undoing(t, u) /\ u \in Pos(log) /\ u \in Int /\ IsW(log, u)
          /\ Rec(u) = log[u + 1] /\ log[u + 1].rid \in Rid /\ Shape(log[u + 1])
          /\ v < u /\ v \in Int
          /\ \A k \in Pos(log) : k < u /\ log[k + 1].txn = t => k <= v
      BY <1>1, UndoPosition
    <3>2. t \in Txn /\ Unfinished(t) /\ log[u + 1].txn = t /\ NoneAfter(log, u, {"begin"})
      BY <3>1 DEF Undoing
    <3>3. Open(log, t)
      BY <3>2, ToldLog, ChainIsOwn
    <3>4. QED BY <3>1, <3>2, <3>3 DEF Current
  <2>2. undoing'.txn = t /\ undoing'.lsn = v
    <3>1. undoing = [txn |-> t, lsn |-> u]
      BY BaseParts DEF IInv, TypeRest
    <3>2. QED BY <1>1, <2>1, <3>1
  <2>3. /\ Progress[t] = u + 1 /\ Progress'[t] = v + 1
        /\ \A s \in Txn : s # t => Progress'[s] = Progress[s]
    <3>1. Progress[t] = u + 1 /\ Progress'[t] = v + 1
      BY <1>1, <1>3, <2>1, <2>2 DEF Progress
    <3>2. \A s \in Txn : s # t => Progress'[s] = Progress[s]
      BY <1>1, <1>3, <2>2 DEF Progress
    <3>3. QED BY <3>1, <3>2
  <2>4. /\ IsPages(Undone(mem, u)) /\ Undone(mem, u)[p].lsn = mem[p].lsn
        /\ \A r \in Rid : At(Undone(mem, u), r) =
               IF u \in On(log, r) THEN SlotUndo(log, u, At(mem, r)) ELSE At(mem, r)
    BY <1>1, <2>1, ToldLog, UndoOfSlot
  <2>5. \A r \in OnPage(p) : /\ r \in Rid /\ mem[p].slots[r] = At(mem, r)
                             /\ mem'[p].slots[r] = At(Undone(mem, u), r)
    BY <1>3, <2>4, ToldLog, PageOfPages
  <2>6. Undoable(log, p, g, mem[p], Progress)
    BY <1>1 DEF Page
  <2>7. Progress \in [Txn -> Int] /\ Progress' \in [Txn -> Int]
    BY ToldLog, ProgressTypes, ProgressTypesNext
  <2>8. \A s \in Txn : \A r \in Rid : \A k \in Own(log, s, r) :
            k \in On(log, r) /\ k \in Pos(log) /\ k \in Int /\ log[k + 1].txn = s
    BY ToldLog DEF Own, On, Current
  <2>9. ASSUME NEW r \in OnPage(p) PROVE Leads(log, r, g[r], mem'[p].slots[r], Progress')
    <3> DEFINE m == Progress
               n == Progress'
               x == At(mem, r)
    <3>1. r \in Rid /\ Leads(log, r, g[r], x, m) /\ m \in [Txn -> Int] /\ n \in [Txn -> Int]
          /\ m[t] = u + 1 /\ n[t] = v + 1 /\ \A s \in Txn : s # t => n[s] = m[s]
      BY <2>3, <2>5, <2>6, <2>7 DEF Undoable
    <3> HIDE DEF m, n
    <3>2. CASE u \in On(log, r)
      <4>1. u \in Own(log, t, r)
        BY <2>1, <3>2 DEF Own
      <4>2. x # Nil \/ Deletes(log, u)
        <5>1. log[u + 1].rid = r /\ log[u + 1].type \in Writes
          BY <2>1, <3>2 DEF On, IsW
        <5>2. QED BY <1>3, <2>1, <5>1 DEF UndoThrows, Deletes, Writes
      <4>3. n[t] <= u /\ \A j \in Own(log, t, r) : ~(n[t] <= j /\ j < u)
        <5>1. \A j \in Own(log, t, r) : j \in Int /\ (j < u => j <= v)
          BY <2>1, <2>8, <3>1
        <5>2. QED BY <2>1, <3>1, <5>1
      <4>4. Leads(log, r, g[r], SlotUndo(log, u, x), n)
        BY <2>1, <3>1, <4>1, <4>2, <4>3, ToldLog, LeadsUndone
      <4>5. QED BY <2>4, <2>5, <3>1, <3>2, <4>4 DEF n
    <3>3. CASE u \notin On(log, r)
      <4>1. ASSUME NEW s \in Txn
            PROVE  n[s] <= m[s] /\ \A k \in Own(log, s, r) : ~(n[s] <= k /\ k < m[s])
        <5>1. m[s] \in Int /\ \A k \in Own(log, s, r) : k \in Int
          BY <2>8, <3>1
        <5>2. CASE s = t
          <6>1. \A k \in Own(log, s, r) : k # u /\ k \in Int /\ (k < u => k <= v)
            BY <2>1, <2>8, <3>1, <3>3, <5>2
          <6>2. QED BY <2>1, <3>1, <5>2, <6>1
        <5>3. CASE s # t
          BY <3>1, <5>1, <5>3
        <5>4. QED BY <5>2, <5>3
      <4>2. Leads(log, r, g[r], x, n)
        BY <3>1, <4>1, ToldLog, LeadsPassed
      <4>3. QED BY <2>4, <2>5, <3>1, <3>3, <4>2 DEF n
    <3>4. QED BY <3>2, <3>3
  <2>10. Full(log, p, mem'[p])
    BY <1>3, <2>4, <2>6 DEF Undoable, Full
  <2>11. Undoable(log, p, g, mem'[p], Progress')
    BY <2>9, <2>10 DEF Undoable
  <2>12. QED BY <1>1, <1>3, <2>11, PageMoves
<1>4. QED BY <1>1, <1>2, <1>3

\* What no step of any run breaks: the strengthening of RecoveryIsIdempotent.
RInv == IInv /\ Orderly /\ Repeated /\ undoing.txn \notin att

LEMMA UndoneOnce ==
    ASSUME IInv, undoing.txn \notin att, [Next]_vars
    PROVE  undoing'.txn \notin att'
<1>1. att \subseteq Txn /\ Nil \notin Txn /\ undoing.txn \in Txn \cup {Nil}
  BY BaseParts, Constants DEF IInv, TypeRest
<1>2. CASE UNCHANGED <<att, undoing>>
  BY <1>2
<1>3. CASE Crash \/ Shutdown
  BY <1>3 DEF Crash, Shutdown, Stopped
<1>4. CASE RecoveryStep
  <2>1. CASE Analyze \/ RedoSkip \/ RedoApply \/ RedoStamp \/ UndoEnd \/ Serve
    BY <1>2, <2>1 DEF Analyze, RedoSkip, RedoApply, RedoStamp, UndoEnd, Serve, recovering
  <2>2. CASE RedoEnd
    <3>1. undoing' = undoing /\ undoing = NoUndo /\ att' \subseteq Txn
      BY <2>2 DEF RedoEnd, IInv, Undo
    <3>2. QED BY <1>1, <3>1 DEF NoUndo
  <2>3. CASE \E t \in Txn : UndoTxn(t)
    BY <2>3 DEF UndoTxn
  <2>4. CASE UndoRecord
    <3>1. undoing \in [txn : Txn \cup {Nil}, lsn : {INVALID_LSN} \cup Lsns]
      BY BaseParts DEF IInv, TypeRest
    <3>2. undoing'.txn = undoing.txn /\ att' = att
      BY <2>4, <3>1 DEF UndoRecord
    <3>3. QED BY <3>2
  <2>5. CASE UndoBegin
    BY <1>1, <2>5 DEF UndoBegin, NoUndo
  <2>6. QED BY <1>4, <2>1, <2>2, <2>3, <2>4, <2>5 DEF RecoveryStep
<1>5. CASE \E t \in Txn : TxnStep(t)
  <2>1. PICK t \in Txn : TxnStep(t)
    BY <1>5
  <2>2. CASE Begin(t) \/ AppendRecord(t) \/ Commit(t) \/ Abort(t) \/ End(t)
    BY <1>2, <2>2 DEF Begin, AppendRecord, Commit, Abort, End, recovering
  <2>3. CASE \E r \in Rid : Insert(t, r) \/ Update(t, r) \/ Delete(t, r)
    BY <1>2, <2>3 DEF Insert, Update, Delete, Change, recovering
  <2>4. QED BY <2>1, <2>2, <2>3 DEF TxnStep
<1>6. CASE FlushLog \/ RecreateTable \/ UNCHANGED vars \/ \E p \in PageNo : FlushPage(p)
  BY <1>2, <1>6 DEF FlushLog, RecreateTable, FlushPage, vars, recovering
<1>7. QED BY <1>3, <1>4, <1>5, <1>6 DEF Next

LEMMA StutterRepeats ==
    ASSUME Repeated, UNCHANGED vars
    PROVE  Repeated'
<1>1. /\ UNCHANGED <<mode, log, disk, mem, pos, att, undoing, goal>> /\ UNCHANGED applied
  BY DEF vars, recovering, ghosts
<1>2. Progress' = Progress
  BY <1>1 DEF Progress
<1>3. ASSUME mode # "run", NEW p \in PageNo, NEW f, Page(p, f) PROVE Page(p, f)'
  <2>1. (mode = "redo" => RedoOn(p, f, goal[p].slots)')
    BY <1>1, <1>3 DEF Page, RedoOn
  <2>2. mode \in {"undo", "ready"} => Undoable(log, p, goal[p].slots, mem'[p], Progress')
    BY <1>1, <1>2, <1>3 DEF Page
  <2>3. QED BY <1>1, <1>3, <2>1, <2>2, PageMoves
<1>4. QED BY <1>1, <1>3 DEF Repeated

LEMMA NextRepeats ==
    ASSUME RInv, Base', Next
    PROVE  Repeated'
<1>1. IInv /\ Orderly /\ Repeated /\ undoing.txn \notin att
  BY DEF RInv
<1>2. CASE mode' = "run"
  BY <1>2 DEF Repeated
<1>3. CASE Crash \/ Shutdown
  BY <1>1, <1>3, CrashRepeats DEF Repeated
<1>4. ASSUME mode # "run", \A p \in PageNo : \A f : Page(p, f) => Page(p, f)'
      PROVE  Repeated'
  BY <1>1, <1>4 DEF Repeated
<1>5. CASE \E p \in PageNo : FlushPage(p)
  <2>1. PICK q \in PageNo : FlushPage(q)
    BY <1>5
  <2>2. CASE mode = "run"
    BY <1>2, <2>1, <2>2 DEF FlushPage
  <2>3. QED BY <1>1, <1>4, <2>1, <2>2, FlushPageRepeats
<1>6. CASE RecoveryStep
  <2>1. CASE Serve
    BY <1>2, <2>1 DEF Serve
  <2>2. CASE Analyze \/ RedoSkip \/ RedoApply \/ RedoStamp \/ RedoEnd
    <3>1. mode # "run"
      BY <1>1, <2>2 DEF Analyze, RedoSkip, RedoApply, RedoStamp, RedoEnd, IInv, Redo
    <3>2. \A p \in PageNo : \A f : Page(p, f) => Page(p, f)'
      BY <1>1, <2>2, AnalyzeRepeats, RedoSkipRepeats, RedoApplyRepeats, RedoStampRepeats,
         RedoEndRepeats
    <3>3. QED BY <1>4, <3>1, <3>2
  <2>3. CASE UndoRecord \/ UndoBegin \/ UndoEnd \/ \E t \in Txn : UndoTxn(t)
    <3>1. mode # "run"
      BY <2>3 DEF UndoRecord, UndoBegin, UndoEnd, UndoTxn
    <3>2. \A p \in PageNo : \A f : Page(p, f) => Page(p, f)'
      BY <1>1, <2>3, UndoRecordRepeats, UndoBeginRepeats, UndoEndRepeats, UndoTxnRepeats
    <3>3. QED BY <1>4, <3>1, <3>2
  <2>4. QED BY <1>6, <2>1, <2>2, <2>3 DEF RecoveryStep
<1>7. CASE (\E t \in Txn : TxnStep(t)) \/ FlushLog \/ RecreateTable
  <2>1. mode' = "run"
    <3>1. CASE FlushLog
      BY <1>1, <3>1 DEF FlushLog, IInv, Idle
    <3>2. CASE RecreateTable
      BY <3>2 DEF RecreateTable
    <3>3. CASE \E t \in Txn : Begin(t) \/ AppendRecord(t) \/ Commit(t) \/ Abort(t) \/ End(t)
      BY <3>3 DEF Begin, AppendRecord, Commit, Abort, End
    <3>4. CASE \E t \in Txn : \E r \in Rid : Insert(t, r) \/ Update(t, r) \/ Delete(t, r)
      BY <3>4 DEF Insert, Update, Delete, Change
    <3>5. QED BY <1>7, <3>1, <3>2, <3>3, <3>4 DEF TxnStep
  <2>2. QED BY <1>2, <2>1
<1>8. QED BY <1>3, <1>5, <1>6, <1>7 DEF Next

LEMMA RepeatedInductive == RInv /\ [Next]_vars => RInv'
<1>1. SUFFICES ASSUME RInv, [Next]_vars PROVE RInv'
  OBVIOUS
<1>2. IInv'
  BY <1>1, Inductive DEF RInv
<1>3. Orderly' /\ (undoing.txn \notin att)'
  BY <1>1, NextOrderly, UndoneOnce DEF RInv
<1>4. Repeated'
  <2>1. Base'
    BY <1>2 DEF IInv
  <2>2. QED BY <1>1, <2>1, NextRepeats, StutterRepeats DEF RInv
<1>5. QED BY <1>2, <1>3, <1>4 DEF RInv

LEMMA RepeatedInitially == Init => RInv
<1>1. SUFFICES ASSUME Init PROVE RInv
  OBVIOUS
<1>2. mode = "run" /\ att = {}
  BY <1>1 DEF Init
<1>3. QED BY <1>1, <1>2, Initial, InitOrderly DEF RInv, Repeated

LEMMA RepeatedInvariant == Spec => []RInv
BY RepeatedInitially, RepeatedInductive, PTL DEF Spec

LEMMA RepeatedIsIdempotent == RInv => RecoveryIsIdempotent
<1>1. SUFFICES ASSUME RInv, mode = "ready", NEW r \in Rid, \A t, u \in Losers(r) : t = u
               PROVE  At(mem, r) = At(goal, r)
  BY DEF RecoveryIsIdempotent
<1> DEFINE p == PageOf[r]
           g == goal[p].slots
<1>2. IInv /\ Orderly /\ Repeated
  BY <1>1 DEF RInv
<1>3. p \in PageNo /\ r \in OnPage(p)
  BY DEF PageNo, OnPage
<1>4. PICK f : Page(p, f)
  BY <1>1, <1>2, <1>3 DEF Repeated
<1>5. Leads(log, r, g[r], mem[p].slots[r], Progress)
  BY <1>1, <1>3, <1>4 DEF Page, Undoable
<1>6. OneLoser(log, r)
  BY <1>1, <1>2, ToldLog, ChainIsOwn DEF OneLoser
<1>7. Progress \in [Txn -> Int] /\ \A t \in Txn : Progress[t] = 0
  BY <1>1, <1>2, ToldLog, ProgressTypes DEF Progress
<1>8. mem[p].slots[r] = g[r]
  BY <1>2, <1>5, <1>6, <1>7, ToldLog, LeadsTo
<1>9. QED BY <1>8 DEF At

\* A recovery that crashes and starts over, at any step and as often as it may, and completes,
\* ends with the content in every slot that a recovery without a crash would have led to, if at
\* most one transaction has left changes of the slot unfinished: redo is guarded by the lsn of
\* the page, undo by the transaction's id in the record (LogRecovery::redo and undo,
\* log_recovery.cpp).  Nothing is said of a recovery that throws at an INSERT or UPDATE which it
\* has undone and written back before (log_recovery.cpp:65, 103): it never completes.
THEOREM RecoveryRepeats == Spec => []RecoveryIsIdempotent
BY RepeatedInvariant, RepeatedIsIdempotent, PTL

=============================================================================
