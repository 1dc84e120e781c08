-------------------------- MODULE LockManager_proof --------------------------
(***************************************************************************)
(* Theorems about LockManager, for every set of transactions, items and    *)
(* requests: type correctness, mutual exclusion of conflicting locks, no   *)
(* lost wake-up, and no record or gap lock that outlives its transaction.  *)
(***************************************************************************)
EXTENDS LockManager, SequenceTheorems, WellFoundedInduction, TLAPS

\* t is inside lock_common, beyond the look at what it holds already.
Busy(t) == pc[t] \in {"loop", "block", "asleep", "notified"}

\* It then asks for a mode that its item knows.
Asking == \A t \in Txn : Busy(t) => ItemOf(t) \in Item /\ ModeOf(t) \in ModesOf(ItemOf(t))

\* Granted modes are modes of the item, and the group mode is the one
\* update_group_lock_mode computes from them.
Grouped ==
    \A i \in Item : /\ ModesIn(granted[i]) \subseteq ModesOf(i)
                    /\ group[i] = GroupOf(granted[i])

\* Between the look at the queue and the wait, the latch of the item is held.
Latched == \A t \in Txn : pc[t] \in {"loop", "block"} => latch[ItemOf(t)] = t

\* Whoever sleeps is in the queue of its item, and could not be granted its lock.
Queued ==
    \A t \in Txn : /\ pc[t] = "asleep" => t \in waiting[ItemOf(t)]
                   /\ pc[t] \in {"block", "asleep"} => ~Compatible(t)

\* On a record or gap a transaction has one granted request at most, which its
\* lock_set_ knows of; it asks for another only on a gap, in the other mode.
Single ==
    \A i \in Record \cup Gap :
        /\ \A t \in Txn : t \in Holders(i) => i \in lock_set[t]
        /\ \A k, n \in DOMAIN granted[i] : granted[i][k][1] = granted[i][n][1] => k = n
NotHeld ==
    \A t \in Txn : Busy(t) /\ ItemOf(t) \in Record \cup Gap =>
        \A k \in DOMAIN granted[ItemOf(t)] : granted[ItemOf(t)][k][1] = t =>
            ItemOf(t) \in Gap /\ granted[ItemOf(t)][k][2] # ModeOf(t)
Released == \A t \in Txn : pc[t] \in {"committed", "aborted"} => lock_set[t] = {}

\* The detector knows its victim while it works on it.
Chosen == det.pc # "idle" => det.victim \in Txn

IInv ==
    /\ TypeOK /\ Asking /\ Grouped /\ NoConflictingGrants
    /\ Latched /\ Queued
    /\ Single /\ NotHeld /\ Released /\ Chosen

-----------------------------------------------------------------------------
(* Modes *)

\* The matrix of is_compatible against the group mode decides for each granted
\* mode by itself, in both directions (of GAP and INSERT_INT only one is granted).
LEMMA GroupModeDecides ==
    ASSUME NEW i \in Item, NEW ms \in SUBSET ModesOf(i), NEW m \in ModesOf(i), NEW h \in ms,
           ~({"GAP", "INSERT_INT"} \subseteq ms), is_compatible(m, Strongest(ms))
    PROVE  is_compatible(m, Strongest({h})) /\ is_compatible(h, Strongest({m}))
<1> USE DEF is_compatible, CompatibleGroups
<1>1. CASE i \in Table
  <2>1. ms \subseteq {"IS", "IX", "S", "X"} /\ m \in {"IS", "IX", "S", "X"} /\ h \in {"IS", "IX", "S", "X"}
    BY <1>1 DEF ModesOf
  <2>2. \A x \in {"IS", "IX", "S", "X"} : Strongest({x}) = x
    BY DEF Strongest
  <2>3. CASE m = "X"
    BY <2>1, <2>3 DEF Strongest
  <2>4. CASE m = "S"
    <3>1. h \in {"IS", "S"}
      BY <2>1, <2>4 DEF Strongest
    <3>2. QED BY <2>2, <2>4, <3>1
  <2>5. CASE m = "IX"
    <3>1. h \in {"IS", "IX"}
      BY <2>1, <2>5 DEF Strongest
    <3>2. QED BY <2>2, <2>5, <3>1
  <2>6. CASE m = "IS"
    <3>1. h \in {"IS", "IX", "S"}
      BY <2>1, <2>6 DEF Strongest
    <3>2. QED BY <2>2, <2>6, <3>1
  <2>7. QED BY <2>1, <2>3, <2>4, <2>5, <2>6
<1>2. CASE i \notin Table /\ i \in Record
  <2>1. ms \subseteq {"S", "X"} /\ m \in {"S", "X"} /\ h \in {"S", "X"}
    BY <1>2 DEF ModesOf
  <2>2. QED BY <2>1 DEF Strongest
<1>3. CASE i \notin Table /\ i \notin Record
  <2>1. ms \subseteq {"GAP", "INSERT_INT"} /\ m \in {"GAP", "INSERT_INT"} /\ h \in {"GAP", "INSERT_INT"}
    BY <1>3 DEF ModesOf
  <2>2. \A x \in {"GAP", "INSERT_INT"} : Strongest({x}) = x
    BY DEF Strongest
  <2>3. "GAP" \in ms => Strongest(ms) = "GAP"
    BY <2>1 DEF Strongest
  <2>4. "GAP" \notin ms => ms = {"INSERT_INT"}
    BY <2>1
  <2>5. m = h
    BY <2>1, <2>2, <2>3, <2>4
  <2>6. QED BY <2>1, <2>2, <2>5
<1>4. QED BY <1>1, <1>2, <1>3

\* A mode that is granted makes no room for a request that had none.
LEMMA GrantMakesNoRoom ==
    ASSUME NEW i \in Item, NEW ms \in SUBSET ModesOf(i), NEW m \in ModesOf(i), NEW w \in ModesOf(i),
           is_compatible(m, Strongest(ms)), is_compatible(w, Strongest(ms \cup {m}))
    PROVE  is_compatible(w, Strongest(ms))
<1> USE DEF is_compatible, CompatibleGroups
<1>1. CASE i \in Table
  <2>1. ms \subseteq {"IS", "IX", "S", "X"} /\ m \in {"IS", "IX", "S", "X"} /\ w \in {"IS", "IX", "S", "X"}
    BY <1>1 DEF ModesOf
  <2>2. QED BY <2>1 DEF Strongest
<1>2. CASE i \notin Table /\ i \in Record
  <2>1. ms \subseteq {"S", "X"} /\ m \in {"S", "X"} /\ w \in {"S", "X"}
    BY <1>2 DEF ModesOf
  <2>2. QED BY <2>1 DEF Strongest
<1>3. CASE i \notin Table /\ i \notin Record
  <2>1. ms \subseteq {"GAP", "INSERT_INT"} /\ m \in {"GAP", "INSERT_INT"} /\ w \in {"GAP", "INSERT_INT"}
    BY <1>3 DEF ModesOf
  <2>2. QED BY <2>1 DEF Strongest
<1>4. QED BY <1>1, <1>2, <1>3

\* An exclusive lock leaves room for nobody.
LEMMA ExclusiveIsAlone ==
    ASSUME NEW ms, "X" \in ms, NEW w \in Mode
    PROVE  ~is_compatible(w, Strongest(ms))
BY DEF is_compatible, CompatibleGroups, Strongest, Mode

LEMMA GroupType ==
    ASSUME NEW i \in Item, NEW ms \in SUBSET ModesOf(i)
    PROVE  Strongest(ms) \in GroupMode
<1>1. CASE i \in Table
  BY <1>1 DEF ModesOf, Strongest, GroupMode, Mode
<1>2. CASE i \notin Table
  BY <1>2 DEF ModesOf, Strongest, GroupMode, Mode
<1>3. QED BY <1>1, <1>2

-----------------------------------------------------------------------------
(* Queues *)

\* unlock erases one request, of the transaction that calls it.
LEMMA WithoutFirstOf ==
    ASSUME NEW q \in Seq(Txn \X Mode), NEW t \in Txn, \E k \in DOMAIN q : q[k][1] = t
    PROVE  LET r == WithoutFirst(q, t) IN
           /\ r \in Seq(Txn \X Mode)
           /\ \E f \in DOMAIN q :
                  /\ q[f][1] = t
                  /\ DOMAIN r = 1 .. Len(q) - 1
                  /\ \A k \in DOMAIN r : r[k] = IF k < f THEN q[k] ELSE q[k + 1]
<1>1. DOMAIN q = 1 .. Len(q) /\ Len(q) \in Nat
  BY LenProperties
<1> DEFINE Mine == {k \in Nat : k \in DOMAIN q /\ q[k][1] = t}
<1>2. Mine \subseteq Nat /\ Mine # {}
  BY <1>1
<1>3. PICK n \in Mine : \A m \in Mine : n <= m
  <2> HIDE DEF Mine
  <2>1. PICK n \in Mine : \A m \in Mine : <<m, n>> \notin OpToRel(<, Nat)
    BY <1>2, WFMin, NatLessThanWellFounded
  <2>2. ASSUME NEW m \in Mine PROVE n <= m
    <3>1. <<m, n>> \in Nat \X Nat /\ <<m, n>>[1] = m /\ <<m, n>>[2] = n
      BY <1>2
    <3>2. OpToRel(<, Nat) = {ss \in Nat \X Nat : ss[1] < ss[2]}
      BY DEF OpToRel
    <3>3. ~(m < n)
      BY <3>1, <3>2, <2>1
    <3>4. QED BY <3>3, <1>2
  <2>3. QED BY <2>2
<1> DEFINE First(k) == q[k][1] = t /\ \A j \in 1 .. k - 1 : q[j][1] # t
           f == CHOOSE k \in DOMAIN q : First(k)
<1>4. n \in DOMAIN q /\ First(n)
  BY <1>1, <1>3
<1>5. f \in DOMAIN q /\ First(f)
  BY <1>4
<1> HIDE DEF f, Mine
<1>6. WithoutFirst(q, t) = SubSeq(q, 1, f - 1) \o SubSeq(q, f + 1, Len(q))
  BY DEF WithoutFirst, f
<1> DEFINE a == SubSeq(q, 1, f - 1)
           b == SubSeq(q, f + 1, Len(q))
<1>7. /\ a \in Seq(Txn \X Mode) /\ Len(a) = f - 1
      /\ \A k \in 1 .. f - 1 : a[k] = q[k]
  BY <1>1, <1>5, SubSeqProperties
<1>8. /\ b \in Seq(Txn \X Mode) /\ Len(b) = Len(q) - f
      /\ \A k \in 1 .. Len(q) - f : b[k] = q[f + k]
  BY <1>1, <1>5, SubSeqProperties
<1> HIDE DEF a, b
<1>9. /\ a \o b \in Seq(Txn \X Mode) /\ Len(a \o b) = Len(q) - 1
      /\ \A k \in 1 .. Len(q) - 1 : (a \o b)[k] = IF k < f THEN q[k] ELSE q[k + 1]
  <2>1. f \in 1 .. Len(q) /\ Len(a) + Len(b) = Len(q) - 1
    BY <1>1, <1>5, <1>7, <1>8
  <2>2. /\ a \o b \in Seq(Txn \X Mode) /\ Len(a \o b) = Len(q) - 1
        /\ \A k \in 1 .. Len(q) - 1 :
               (a \o b)[k] = IF k <= Len(a) THEN a[k] ELSE b[k - Len(a)]
    <3>1. /\ a \o b \in Seq(Txn \X Mode) /\ Len(a \o b) = Len(a) + Len(b)
          /\ \A k \in 1 .. Len(a) + Len(b) :
                 (a \o b)[k] = IF k <= Len(a) THEN a[k] ELSE b[k - Len(a)]
      BY <1>7, <1>8, ConcatProperties
    <3>2. QED BY <2>1, <3>1
  <2>3. ASSUME NEW k \in 1 .. Len(q) - 1
        PROVE  (a \o b)[k] = IF k < f THEN q[k] ELSE q[k + 1]
    <3>1. CASE k < f
      <4>1. k <= Len(a) /\ k \in 1 .. f - 1
        BY <1>1, <1>7, <2>1, <3>1
      <4>2. QED BY <1>7, <2>2, <3>1, <4>1
    <3>2. CASE ~(k < f)
      <4>1. ~(k <= Len(a)) /\ k - Len(a) \in 1 .. Len(q) - f /\ f + (k - Len(a)) = k + 1
        BY <1>1, <1>7, <2>1, <3>2
      <4>2. (a \o b)[k] = b[k - Len(a)]
        BY <2>2, <4>1
      <4>3. b[k - Len(a)] = q[f + (k - Len(a))]
        BY <1>8, <4>1
      <4>4. QED BY <3>2, <4>1, <4>2, <4>3
    <3>3. QED BY <3>1, <3>2
  <2>4. QED BY <2>2, <2>3
<1>10. DOMAIN (a \o b) = 1 .. Len(q) - 1
  BY <1>9, LenProperties
<1>11. QED BY <1>5, <1>6, <1>9, <1>10 DEF a, b

\* No gap has both modes granted: no two transactions may have them, nor one.
LEMMA OneGapMode ==
    ASSUME TypeOK, Grouped, NoConflictingGrants, Single, NEW i \in Item
    PROVE  ~({"GAP", "INSERT_INT"} \subseteq ModesIn(granted[i]))
<1> SUFFICES ASSUME "GAP" \in ModesIn(granted[i]), "INSERT_INT" \in ModesIn(granted[i])
             PROVE  FALSE
  OBVIOUS
<1>1. PICK k \in DOMAIN granted[i] : granted[i][k][2] = "GAP"
  BY DEF ModesIn
<1>2. PICK n \in DOMAIN granted[i] : granted[i][n][2] = "INSERT_INT"
  BY DEF ModesIn
<1>3. i \in Gap
  <2>1. "GAP" \in ModesOf(i)
    BY DEF Grouped
  <2>2. QED BY <2>1 DEF ModesOf, Item
<1>4. granted[i][k][1] # granted[i][n][1]
  BY <1>1, <1>2, <1>3 DEF Single
<1>5. is_compatible("GAP", Strongest({"INSERT_INT"}))
  BY <1>1, <1>2, <1>4 DEF NoConflictingGrants
<1>6. QED BY <1>5 DEF is_compatible, CompatibleGroups, Strongest

-----------------------------------------------------------------------------
(* The initial states *)

LEMMA InitIInv == Init => IInv
<1> SUFFICES ASSUME Init PROVE IInv
  OBVIOUS
<1>1. TypeOK
  <2>1. <<>> \in Seq(Txn \X Mode)
    BY EmptySeq
  <2>2. N \in Nat
    BY ShardAssumption, LenProperties DEF N
  <2>3. "NON_LOCK" \in GroupMode
    BY DEF GroupMode
  <2>4. Unseen \in [next : 1 .. N + 1, edges : [Txn -> SUBSET Txn]]
    BY <2>2 DEF Unseen, NoEdges
  <2>5. LatchOwned
    BY DEF Init, LatchOwned
  <2>6. QED BY <2>1, <2>2, <2>3, <2>4, <2>5, MaxReqAssumption DEF Init, TypeOK, NoEdges
<1>2. \A i \in Item : DOMAIN granted[i] = {}
  BY EmptySeq DEF Init
<1>3. Grouped
  <2>1. \A i \in Item : ModesIn(granted[i]) = {}
    BY <1>2 DEF ModesIn
  <2>2. Strongest({}) = "NON_LOCK"
    BY DEF Strongest
  <2>3. QED BY <2>1, <2>2 DEF Init, Grouped, GroupOf
<1>4. Single
  BY <1>2 DEF Init, Single, Holders, Item
<1>5. QED
  BY <1>1, <1>2, <1>3, <1>4
     DEF Init, IInv, Asking, Busy, NoConflictingGrants, Latched, Queued, NotHeld, Released,
         Chosen

-----------------------------------------------------------------------------
(* What the three actions that change a queue do to it *)

LEMMA ModeOfItem ==
    ASSUME NEW i \in Item, NEW m \in ModesOf(i)
    PROVE  m \in Mode
BY DEF ModesOf, Mode

LEMMA WantedMode ==
    ASSUME NEW t \in Txn, NEW i \in Item, NEW m, <<i, m>> \in Wants[t]
    PROVE  m \in ModesOf(i)
BY WantsAssumption

LEMMA GrantQueue ==
    ASSUME TypeOK, Asking, NEW t \in Txn, Grant(t)
    PROVE  LET i == ItemOf(t)
               q == granted[i]
           IN  /\ i \in Item /\ ModeOf(t) \in ModesOf(i)
               /\ q \in Seq(Txn \X Mode) /\ DOMAIN q = 1 .. Len(q) /\ Len(q) \in Nat
               /\ granted' \in [Item -> Seq(Txn \X Mode)]
               /\ \A j \in Item \ {i} : granted'[j] = granted[j] /\ group'[j] = group[j]
               /\ group'[i] = GroupOf(granted'[i])
               /\ DOMAIN group' = Item
               /\ DOMAIN granted'[i] = 1 .. Len(q) + 1
               /\ \A k \in 1 .. Len(q) : granted'[i][k] = q[k]
               /\ granted'[i][Len(q) + 1] = <<t, ModeOf(t)>>
<1> DEFINE i == ItemOf(t)
           q == granted[i]
           e == <<t, ModeOf(t)>>
<1>1. i \in Item /\ ModeOf(t) \in ModesOf(i)
  BY DEF Asking, Busy, Grant
<1>2. q \in Seq(Txn \X Mode) /\ e \in Txn \X Mode
  BY <1>1, ModeOfItem DEF TypeOK
<1>3. /\ granted' = [granted EXCEPT ![i] = Append(q, e)]
      /\ group' = [group EXCEPT ![i] = GroupOf(granted'[i])]
  BY DEF Grant
<1>4. granted \in [Item -> Seq(Txn \X Mode)] /\ DOMAIN group = Item
  BY DEF TypeOK
<1> HIDE DEF i, q, e
<1>5. granted'[i] = Append(q, e) /\ DOMAIN q = 1 .. Len(q) /\ Len(q) \in Nat
  BY <1>1, <1>2, <1>3, <1>4, LenProperties
<1>6. /\ Append(q, e) \in Seq(Txn \X Mode)
      /\ Len(Append(q, e)) = Len(q) + 1
      /\ \A k \in 1 .. Len(q) : Append(q, e)[k] = q[k]
      /\ Append(q, e)[Len(q) + 1] = e
  BY <1>2, AppendProperties
<1>7. DOMAIN Append(q, e) = 1 .. Len(q) + 1
  BY <1>6, LenProperties
<1>8. granted' \in [Item -> Seq(Txn \X Mode)]
  BY <1>3, <1>4, <1>6
<1>9. /\ \A j \in Item \ {i} : granted'[j] = granted[j] /\ group'[j] = group[j]
      /\ group'[i] = GroupOf(granted'[i]) /\ DOMAIN group' = Item
  BY <1>1, <1>3, <1>4
<1>10. QED BY <1>1, <1>2, <1>5, <1>6, <1>7, <1>8, <1>9 DEF i, q, e

LEMMA UpgradeQueue ==
    ASSUME TypeOK, NEW t \in Txn, NEW i \in Item, NEW m \in Mode, RequestUpgrade(t, i, m)
    PROVE  LET q == granted[i]
           IN  /\ q \in Seq(Txn \X Mode) /\ DOMAIN q = 1 .. Len(q) /\ Len(q) \in Nat
               /\ granted' \in [Item -> Seq(Txn \X Mode)]
               /\ \A j \in Item \ {i} : granted'[j] = granted[j] /\ group'[j] = group[j]
               /\ group'[i] = GroupOf(granted'[i])
               /\ DOMAIN group' = Item
               /\ DOMAIN granted'[i] = DOMAIN q
               /\ \A k \in DOMAIN q :
                      granted'[i][k] = IF q[k] = <<t, "S">> THEN <<t, "X">> ELSE q[k]
<1> DEFINE q == granted[i]
           r == [k \in DOMAIN q |-> IF q[k] = <<t, "S">> THEN <<t, "X">> ELSE q[k]]
<1>1. q \in Seq(Txn \X Mode)
  BY DEF TypeOK
<1>2. /\ granted' = [granted EXCEPT ![i] = r]
      /\ group' = [group EXCEPT ![i] = GroupOf(granted'[i])]
  BY DEF RequestUpgrade
<1>3. granted \in [Item -> Seq(Txn \X Mode)] /\ DOMAIN group = Item
  BY DEF TypeOK
<1>4. DOMAIN q = 1 .. Len(q) /\ Len(q) \in Nat /\ \A k \in DOMAIN q : q[k] \in Txn \X Mode
  BY <1>1, LenProperties, ElementOfSeq
<1>5. r \in Seq(Txn \X Mode)
  <2>1. <<t, "X">> \in Txn \X Mode
    BY DEF Mode
  <2>2. r \in [1 .. Len(q) -> Txn \X Mode]
    BY <1>4, <2>1
  <2>3. QED BY <1>4, <2>2, SeqDef
<1> HIDE DEF r
<1>6. granted' \in [Item -> Seq(Txn \X Mode)] /\ granted'[i] = r
  BY <1>2, <1>3, <1>5
<1>7. /\ \A j \in Item \ {i} : granted'[j] = granted[j] /\ group'[j] = group[j]
      /\ group'[i] = GroupOf(granted'[i]) /\ DOMAIN group' = Item
  BY <1>2, <1>3
<1>8. QED BY <1>1, <1>4, <1>6, <1>7 DEF r

LEMMA UnlockQueue ==
    ASSUME TypeOK, NEW t \in Txn, NEW i \in Item, Unlock(t, i), t \in Holders(i)
    PROVE  LET q == granted[i]
           IN  /\ q \in Seq(Txn \X Mode) /\ DOMAIN q = 1 .. Len(q) /\ Len(q) \in Nat
               /\ granted' \in [Item -> Seq(Txn \X Mode)]
               /\ \A j \in Item \ {i} : granted'[j] = granted[j] /\ group'[j] = group[j]
               /\ group'[i] = GroupOf(granted'[i])
               /\ DOMAIN group' = Item
               /\ \E f \in DOMAIN q :
                      /\ q[f][1] = t
                      /\ DOMAIN granted'[i] = 1 .. Len(q) - 1
                      /\ \A k \in DOMAIN granted'[i] :
                             granted'[i][k] = IF k < f THEN q[k] ELSE q[k + 1]
<1> DEFINE q == granted[i]
           r == WithoutFirst(q, t)
<1>1. q \in Seq(Txn \X Mode) /\ \E k \in DOMAIN q : q[k][1] = t
  BY DEF TypeOK, Holders
<1>2. /\ granted' = [granted EXCEPT ![i] = r]
      /\ group' = [group EXCEPT ![i] = GroupOf(granted'[i])]
  BY DEF Unlock
<1>3. granted \in [Item -> Seq(Txn \X Mode)] /\ DOMAIN group = Item
  BY DEF TypeOK
<1>4. DOMAIN q = 1 .. Len(q) /\ Len(q) \in Nat
  BY <1>1, LenProperties
<1>5. /\ r \in Seq(Txn \X Mode)
      /\ \E f \in DOMAIN q :
             /\ q[f][1] = t
             /\ DOMAIN r = 1 .. Len(q) - 1
             /\ \A k \in DOMAIN r : r[k] = IF k < f THEN q[k] ELSE q[k + 1]
  BY <1>1, WithoutFirstOf
<1> HIDE DEF r
<1>6. granted' \in [Item -> Seq(Txn \X Mode)] /\ granted'[i] = r
  BY <1>2, <1>3, <1>5
<1>7. /\ \A j \in Item \ {i} : granted'[j] = granted[j] /\ group'[j] = group[j]
      /\ group'[i] = GroupOf(granted'[i]) /\ DOMAIN group' = Item
  BY <1>2, <1>3
<1>8. QED BY <1>1, <1>4, <1>5, <1>6, <1>7

-----------------------------------------------------------------------------
(* Every step keeps the queues right *)

QueueInv == Grouped /\ NoConflictingGrants

\* It is enough to look at the item whose queue changes.
LEMMA OneQueueChanges ==
    ASSUME Grouped, NoConflictingGrants, NEW i \in Item,
           \A j \in Item \ {i} : granted'[j] = granted[j] /\ group'[j] = group[j],
           group'[i] = GroupOf(granted'[i]), ModesIn(granted'[i]) \subseteq ModesOf(i),
           \A k, n \in DOMAIN granted'[i] : granted'[i][k][1] # granted'[i][n][1] =>
               is_compatible(granted'[i][k][2], Strongest({granted'[i][n][2]}))
    PROVE  QueueInv'
<1>1. Grouped'
  <2>1. ASSUME NEW j \in Item
        PROVE  ModesIn(granted'[j]) \subseteq ModesOf(j) /\ group'[j] = GroupOf(granted'[j])
    <3>1. CASE j = i
      BY <3>1
    <3>2. CASE j # i
      BY <3>2 DEF Grouped
    <3>3. QED BY <3>1, <3>2
  <2>2. QED BY <2>1 DEF Grouped
<1>2. NoConflictingGrants'
  <2>1. ASSUME NEW j \in Item, NEW k \in DOMAIN granted'[j], NEW n \in DOMAIN granted'[j],
               granted'[j][k][1] # granted'[j][n][1]
        PROVE  is_compatible(granted'[j][k][2], Strongest({granted'[j][n][2]}))
    <3>1. CASE j = i
      BY <2>1, <3>1
    <3>2. CASE j # i
      BY <2>1, <3>2 DEF NoConflictingGrants
    <3>3. QED BY <3>1, <3>2
  <2>2. QED BY <2>1 DEF NoConflictingGrants
<1>3. QED BY <1>1, <1>2 DEF QueueInv

LEMMA QueueStep ==
    ASSUME TypeOK, Asking, Grouped, NoConflictingGrants, Single, [Next]_vars
    PROVE  QueueInv'
<1>1. CASE UNCHANGED queues
  BY <1>1 DEF queues, QueueInv, Grouped, NoConflictingGrants
<1>2. ASSUME NEW t \in Txn, Grant(t) PROVE QueueInv'
  <2> DEFINE i == ItemOf(t)
             m == ModeOf(t)
             q == granted[i]
  <2>1. /\ i \in Item /\ m \in ModesOf(i)
        /\ DOMAIN q = 1 .. Len(q) /\ Len(q) \in Nat
        /\ \A j \in Item \ {i} : granted'[j] = granted[j] /\ group'[j] = group[j]
        /\ group'[i] = GroupOf(granted'[i])
        /\ DOMAIN granted'[i] = 1 .. Len(q) + 1
        /\ \A k \in 1 .. Len(q) : granted'[i][k] = q[k]
        /\ granted'[i][Len(q) + 1] = <<t, m>>
    BY <1>2, GrantQueue
  <2>2. is_compatible(m, Strongest(ModesIn(q)))
    BY <1>2, <2>1 DEF Grant, Compatible, Grouped, GroupOf
  <2>3. ~({"GAP", "INSERT_INT"} \subseteq ModesIn(q)) /\ ModesIn(q) \subseteq ModesOf(i)
    BY <2>1, OneGapMode DEF Grouped
  <2> HIDE DEF i, m, q
  <2>4. ModesIn(granted'[i]) \subseteq ModesOf(i)
    <3>1. ASSUME NEW k \in DOMAIN granted'[i] PROVE granted'[i][k][2] \in ModesOf(i)
      <4>1. CASE k \in 1 .. Len(q)
        BY <2>1, <2>3, <4>1 DEF ModesIn
      <4>2. CASE k = Len(q) + 1
        BY <2>1, <4>2
      <4>3. QED BY <2>1, <3>1, <4>1, <4>2
    <3>2. QED BY <3>1 DEF ModesIn
  <2>5. ASSUME NEW k \in DOMAIN q
        PROVE  /\ is_compatible(m, Strongest({q[k][2]}))
               /\ is_compatible(q[k][2], Strongest({m}))
    <3>1. q[k][2] \in ModesIn(q)
      BY DEF ModesIn
    <3>2. QED BY <2>1, <2>2, <2>3, <3>1, GroupModeDecides
  <2>6. ASSUME NEW k \in DOMAIN granted'[i], NEW n \in DOMAIN granted'[i],
               granted'[i][k][1] # granted'[i][n][1]
        PROVE  is_compatible(granted'[i][k][2], Strongest({granted'[i][n][2]}))
    <3>1. CASE k \in 1 .. Len(q) /\ n \in 1 .. Len(q)
      <4>1. granted'[i][k] = q[k] /\ granted'[i][n] = q[n] /\ k \in DOMAIN q /\ n \in DOMAIN q
        BY <2>1, <3>1
      <4>2. \A a, b \in DOMAIN q : q[a][1] # q[b][1] =>
                is_compatible(q[a][2], Strongest({q[b][2]}))
        BY <2>1 DEF NoConflictingGrants, q
      <4>3. QED BY <2>6, <4>1, <4>2
    <3>2. CASE k \in 1 .. Len(q) /\ n = Len(q) + 1
      <4>1. granted'[i][k][2] = q[k][2] /\ granted'[i][n][2] = m /\ k \in DOMAIN q
        BY <2>1, <3>2
      <4>2. QED BY <2>5, <4>1
    <3>3. CASE k = Len(q) + 1 /\ n \in 1 .. Len(q)
      <4>1. granted'[i][k][2] = m /\ granted'[i][n][2] = q[n][2] /\ n \in DOMAIN q
        BY <2>1, <3>3
      <4>2. QED BY <2>5, <4>1
    <3>4. ~(k = Len(q) + 1 /\ n = Len(q) + 1)
      BY <2>6
    <3>5. QED BY <2>1, <3>1, <3>2, <3>3, <3>4
  <2>7. QED BY <2>1, <2>4, <2>6, OneQueueChanges
<1>3. ASSUME NEW t \in Txn, NEW i \in Item, NEW m \in Mode, RequestUpgrade(t, i, m)
      PROVE QueueInv'
  <2> DEFINE q == granted[i]
  <2>1. /\ \A j \in Item \ {i} : granted'[j] = granted[j] /\ group'[j] = group[j]
        /\ group'[i] = GroupOf(granted'[i])
        /\ DOMAIN granted'[i] = DOMAIN q
        /\ \A k \in DOMAIN q :
               granted'[i][k] = IF q[k] = <<t, "S">> THEN <<t, "X">> ELSE q[k]
    BY <1>3, UpgradeQueue
  <2>2. \A k \in DOMAIN q : q[k][1] = t
    BY <1>3 DEF RequestUpgrade, Holders
  <2>3. "X" \in ModesOf(i)
    BY <1>3, WantedMode DEF RequestUpgrade, Start
  <2> HIDE DEF q
  <2>4. \A k \in DOMAIN q : granted'[i][k][1] = t /\ granted'[i][k][2] \in {q[k][2], "X"}
    BY <2>1, <2>2
  <2>5. ModesIn(granted'[i]) \subseteq ModesOf(i)
    BY <2>1, <2>3, <2>4 DEF ModesIn, Grouped, q
  <2>6. QED BY <2>1, <2>4, <2>5, OneQueueChanges
<1>4. ASSUME NEW t \in Txn, NEW i \in Item, Unlock(t, i), t \in Holders(i)
      PROVE QueueInv'
  <2> DEFINE q == granted[i]
  <2>1. /\ DOMAIN q = 1 .. Len(q) /\ Len(q) \in Nat
        /\ \A j \in Item \ {i} : granted'[j] = granted[j] /\ group'[j] = group[j]
        /\ group'[i] = GroupOf(granted'[i])
    BY <1>4, UnlockQueue
  <2>2. PICK f \in DOMAIN q :
            /\ DOMAIN granted'[i] = 1 .. Len(q) - 1
            /\ \A k \in DOMAIN granted'[i] :
                   granted'[i][k] = IF k < f THEN q[k] ELSE q[k + 1]
    BY <1>4, UnlockQueue
  <2> HIDE DEF q
  <2>3. \A k \in DOMAIN granted'[i] : \E n \in DOMAIN q : granted'[i][k] = q[n]
    BY <2>1, <2>2
  <2>4. ModesIn(granted'[i]) \subseteq ModesOf(i)
    BY <2>3 DEF ModesIn, Grouped, q
  <2>5. ASSUME NEW k \in DOMAIN granted'[i], NEW n \in DOMAIN granted'[i],
               granted'[i][k][1] # granted'[i][n][1]
        PROVE  is_compatible(granted'[i][k][2], Strongest({granted'[i][n][2]}))
    <3>1. PICK a \in DOMAIN q, b \in DOMAIN q : granted'[i][k] = q[a] /\ granted'[i][n] = q[b]
      BY <2>3
    <3>2. q[a][1] # q[b][1] => is_compatible(q[a][2], Strongest({q[b][2]}))
      BY DEF NoConflictingGrants, q
    <3>3. QED BY <2>5, <3>1, <3>2
  <2>6. QED BY <2>1, <2>4, <2>5, OneQueueChanges
<1>5. QED
  BY <1>1, <1>2, <1>3, <1>4
     DEF Next, Request, LoopStep, WakeStep, EndStep, DetectorStep, vars, queues,
         RequestCovered, RequestUpgradeConflict, RequestEnter, ScanShard, InlineDeadlock, Block,
         Sleep, WakeUp, WakeUpVictim, Commit, Unlock, Finish, DetectorSnapshot, DetectorMark,
         DetectorScan, DetectorClean

-----------------------------------------------------------------------------
(* Every step is well typed *)

TypeOfQueues ==
    /\ granted \in [Item -> Seq(Txn \X Mode)]
    /\ group \in [Item -> GroupMode]

TypeOfRest ==
    /\ waiting \in [Item -> SUBSET Txn]
    /\ latch \in [Item -> Txn \cup {Nil}]
    /\ pc \in [Txn -> {"run", "loop", "block", "asleep", "notified",
                       "committing", "aborting", "committed", "aborted"}]
    /\ req \in [Txn -> (Item \X Mode) \cup {NoRequest}]
    /\ requests \in [Txn -> 0 .. MaxReq]
    /\ lock_set \in [Txn -> SUBSET Item]
    /\ waits_for \in [Txn -> SUBSET Txn]
    /\ seen \in [Txn -> [next : 1 .. N + 1, edges : [Txn -> SUBSET Txn]]]
    /\ victims \subseteq Txn
    /\ det \in [pc : {"idle", "mark", "scan"}, victim : Txn \cup {Nil}, next : 1 .. N + 1]

LEMMA GroupsTyped ==
    ASSUME TypeOK, Asking, Grouped, NoConflictingGrants, Single, [Next]_vars,
           DOMAIN group' = Item, group' = [i \in DOMAIN group' |-> group'[i]]
    PROVE  group' \in [Item -> GroupMode]
<1>1. ASSUME NEW i \in Item PROVE group'[i] \in GroupMode
  <2>1. ModesIn(granted'[i]) \subseteq ModesOf(i) /\ group'[i] = Strongest(ModesIn(granted'[i]))
    BY QueueStep DEF QueueInv, Grouped, GroupOf
  <2>2. QED BY <2>1, GroupType
<1>2. QED BY <1>1

LEMMA QueueTypeStep ==
    ASSUME TypeOK, Asking, Grouped, NoConflictingGrants, Single, [Next]_vars
    PROVE  TypeOfQueues'
<1>1. CASE UNCHANGED queues
  BY <1>1 DEF queues, TypeOK, TypeOfQueues
<1>2. ASSUME NEW t \in Txn, Grant(t) PROVE TypeOfQueues'
  <2>1. granted' \in [Item -> Seq(Txn \X Mode)] /\ DOMAIN group' = Item
    BY <1>2, GrantQueue
  <2>2. group' = [i \in DOMAIN group' |-> group'[i]]
    BY <1>2 DEF Grant, TypeOK
  <2>3. QED BY <2>1, <2>2, GroupsTyped DEF TypeOfQueues
<1>3. ASSUME NEW t \in Txn, NEW i \in Item, NEW m \in Mode, RequestUpgrade(t, i, m)
      PROVE TypeOfQueues'
  <2>1. granted' \in [Item -> Seq(Txn \X Mode)] /\ DOMAIN group' = Item
    BY <1>3, UpgradeQueue
  <2>2. group' = [j \in DOMAIN group' |-> group'[j]]
    BY <1>3 DEF RequestUpgrade, TypeOK
  <2>3. QED BY <2>1, <2>2, GroupsTyped DEF TypeOfQueues
<1>4. ASSUME NEW t \in Txn, NEW i \in Item, Unlock(t, i), t \in Holders(i)
      PROVE TypeOfQueues'
  <2>1. granted' \in [Item -> Seq(Txn \X Mode)] /\ DOMAIN group' = Item
    BY <1>4, UnlockQueue
  <2>2. group' = [j \in DOMAIN group' |-> group'[j]]
    BY <1>4 DEF Unlock, TypeOK
  <2>3. QED BY <2>1, <2>2, GroupsTyped DEF TypeOfQueues
<1>5. QED
  BY <1>1, <1>2, <1>3, <1>4
     DEF Next, Request, LoopStep, WakeStep, EndStep, DetectorStep, vars, queues,
         RequestCovered, RequestUpgradeConflict, RequestEnter, ScanShard, InlineDeadlock, Block,
         Sleep, WakeUp, WakeUpVictim, Commit, Unlock, Finish, DetectorSnapshot, DetectorMark,
         DetectorScan, DetectorClean

LEMMA ShardItem ==
    ASSUME NEW k \in 1 .. N
    PROVE  N \in Nat /\ Shards[k] \in Item
BY ShardAssumption, LenProperties, ElementOfSeq DEF N

LEMMA HoldersType ==
    ASSUME TypeOK, NEW i \in Item
    PROVE  Holders(i) \subseteq Txn
BY ElementOfSeq, LenProperties DEF TypeOK, Holders

\* Whoever takes a latch enters the loop with it, and who leaves the loop or falls
\* asleep gives it up.
LEMMA OwnedStep ==
    ASSUME TypeOK, Asking, [Next]_vars
    PROVE  LatchOwned'
<1>0. /\ pc \in [Txn -> {"run", "loop", "block", "asleep", "notified",
                       "committing", "aborting", "committed", "aborted"}]
      /\ latch \in [Item -> Txn \cup {Nil}] /\ DOMAIN req = Txn /\ Nil \notin Txn
  BY TxnAssumption DEF TypeOK
<1> SUFFICES ASSUME NEW i \in Item, latch'[i] # Nil
             PROVE  pc'[latch'[i]] \in {"loop", "block"} /\ req'[latch'[i]][1] = i
  BY DEF LatchOwned, ItemOf
<1>1. \A j \in Item : latch[j] # Nil =>
          latch[j] \in Txn /\ pc[latch[j]] \in {"loop", "block"} /\ req[latch[j]][1] = j
  BY <1>0 DEF TypeOK, LatchOwned, ItemOf
<1>2. \A t \in Txn : Busy(t) => req[t][1] \in Item
  BY DEF Asking, ItemOf
<1>3. ASSUME NEW t \in Txn, NEW j \in Item, NEW m \in Mode, RequestEnter(t, j, m)
      PROVE  pc'[latch'[i]] \in {"loop", "block"} /\ req'[latch'[i]][1] = i
  BY <1>0, <1>1, <1>3 DEF RequestEnter, Start
<1>4. ASSUME NEW t \in Txn, NEW j \in Item, NEW m \in Mode,
             \/ RequestCovered(t, j, m)
             \/ RequestUpgrade(t, j, m)
             \/ RequestUpgradeConflict(t, j, m)
      PROVE  pc'[latch'[i]] \in {"loop", "block"} /\ req'[latch'[i]][1] = i
  BY <1>0, <1>1, <1>4
     DEF RequestCovered, RequestUpgrade, RequestUpgradeConflict, Start
<1>5. ASSUME NEW t \in Txn, LoopStep(t)
      PROVE  pc'[latch'[i]] \in {"loop", "block"} /\ req'[latch'[i]][1] = i
  BY <1>0, <1>1, <1>2, <1>5
     DEF LoopStep, Grant, ScanShard, InlineDeadlock, Block, Sleep, PcAfterThrow, ItemOf, Busy
<1>6. ASSUME NEW t \in Txn, WakeStep(t)
      PROVE  pc'[latch'[i]] \in {"loop", "block"} /\ req'[latch'[i]][1] = i
  BY <1>0, <1>1, <1>2, <1>6 DEF WakeStep, WakeUp, WakeUpVictim, PcAfterThrow, ItemOf, Busy
<1>7. ASSUME NEW t \in Txn, EndStep(t)
      PROVE  pc'[latch'[i]] \in {"loop", "block"} /\ req'[latch'[i]][1] = i
  BY <1>0, <1>1, <1>7 DEF EndStep, Commit, Finish, Unlock, Notified
<1>8. CASE DetectorStep
  BY <1>0, <1>1, <1>8
     DEF DetectorStep, DetectorSnapshot, DetectorMark, DetectorScan, DetectorClean, Notified
<1>9. CASE UNCHANGED vars
  BY <1>1, <1>9 DEF vars
<1>10. QED
  BY <1>3, <1>4, <1>5, <1>6, <1>7, <1>8, <1>9 DEF Next, Request

LEMMA TypeStep ==
    ASSUME TypeOK, Asking, Grouped, NoConflictingGrants, Single, Chosen, [Next]_vars
    PROVE  TypeOK'
<1>0. N \in Nat
  BY ShardAssumption, LenProperties DEF N
<1> SUFFICES TypeOfRest'
  BY QueueTypeStep, OwnedStep DEF TypeOfQueues, TypeOfRest, TypeOK
<1>1. TypeOfRest /\ Asking
  BY DEF TypeOK, TypeOfRest
<1>2. CASE UNCHANGED vars
  BY <1>1, <1>2 DEF vars, TypeOfRest
<1>3. ASSUME NEW t \in Txn, NEW i \in Item, NEW m \in Mode, Start(t, i, m)
      PROVE  requests' \in [Txn -> 0 .. MaxReq]
  BY <1>1, <1>3, MaxReqAssumption DEF Start, TypeOfRest
<1>4. ASSUME NEW t \in Txn, NEW i \in Item, NEW m \in Mode, RequestCovered(t, i, m)
      PROVE  TypeOfRest'
  BY <1>1, <1>3, <1>4 DEF RequestCovered, TypeOfRest
<1>5. ASSUME NEW t \in Txn, NEW i \in Item, NEW m \in Mode, RequestUpgrade(t, i, m)
      PROVE  TypeOfRest'
  BY <1>1, <1>3, <1>5 DEF RequestUpgrade, TypeOfRest
<1>6. ASSUME NEW t \in Txn, NEW i \in Item, NEW m \in Mode, RequestUpgradeConflict(t, i, m)
      PROVE  TypeOfRest'
  BY <1>1, <1>3, <1>6 DEF RequestUpgradeConflict, TypeOfRest
<1>7. ASSUME NEW t \in Txn, NEW i \in Item, NEW m \in Mode, RequestEnter(t, i, m)
      PROVE  TypeOfRest'
  BY <1>1, <1>3, <1>7 DEF RequestEnter, TypeOfRest
<1>8. ASSUME NEW t \in Txn, Busy(t) PROVE ItemOf(t) \in Item /\ PcAfterThrow(t) \in {"run", "aborting"}
  BY <1>1, <1>8 DEF Asking, PcAfterThrow
<1>9. ASSUME NEW t \in Txn, Grant(t) PROVE TypeOfRest'
  BY <1>1, <1>8, <1>9 DEF Grant, TypeOfRest, Busy
<1>10. ASSUME NEW t \in Txn, ScanShard(t) PROVE TypeOfRest'
  <2>1. seen[t].next \in 1 .. N
    BY <1>0, <1>1, <1>10 DEF ScanShard, TypeOfRest
  <2>2. Shards[seen[t].next] \in Item /\ Holders(Shards[seen[t].next]) \subseteq Txn
    BY <2>1, ShardItem, HoldersType
  <2>3. seen' \in [Txn -> [next : 1 .. N + 1, edges : [Txn -> SUBSET Txn]]]
    <3> DEFINE i == Shards[seen[t].next]
               e == [u \in Txn |-> seen[t].edges[u] \cup
                                       IF u \in waiting[i] THEN Holders(i) \ {u} ELSE {}]
    <3>1. e \in [Txn -> SUBSET Txn]
      BY <1>1, <2>2 DEF TypeOfRest
    <3>2. seen' = [seen EXCEPT ![t] = [next |-> seen[t].next + 1, edges |-> e]]
      BY <1>10 DEF ScanShard
    <3>3. seen[t].next + 1 \in 1 .. N + 1
      BY <1>0, <2>1
    <3> HIDE DEF e
    <3>4. QED BY <1>1, <3>1, <3>2, <3>3 DEF TypeOfRest
  <2>4. QED BY <1>1, <1>10, <2>3 DEF ScanShard, TypeOfRest
<1>11. Unseen \in [next : 1 .. N + 1, edges : [Txn -> SUBSET Txn]]
  BY <1>0 DEF Unseen, NoEdges
<1>12. ASSUME NEW t \in Txn PROVE DropEdges(t) \in [Txn -> SUBSET Txn]
  BY <1>1 DEF DropEdges, TypeOfRest
<1>13. ASSUME NEW t \in Txn, InlineDeadlock(t) PROVE TypeOfRest'
  BY <1>1, <1>8, <1>11, <1>12, <1>13 DEF InlineDeadlock, TypeOfRest, Busy
<1>14. ASSUME NEW t \in Txn, Block(t) PROVE TypeOfRest'
  <2>1. Blockers(t) \subseteq Txn
    BY <1>8, <1>14, HoldersType DEF Block, Busy, Blockers
  <2>2. QED BY <1>1, <1>11, <1>14, <2>1 DEF Block, TypeOfRest
<1>15. ASSUME NEW t \in Txn, Sleep(t) PROVE TypeOfRest'
  BY <1>1, <1>8, <1>15 DEF Sleep, TypeOfRest, Busy
<1>16. ASSUME NEW t \in Txn, WakeUp(t) PROVE TypeOfRest'
  BY <1>1, <1>8, <1>12, <1>16 DEF WakeUp, TypeOfRest, Busy
<1>17. ASSUME NEW t \in Txn, WakeUpVictim(t) PROVE TypeOfRest'
  BY <1>1, <1>8, <1>12, <1>17 DEF WakeUpVictim, TypeOfRest, Busy
<1>18. ASSUME NEW t \in Txn, Commit(t) PROVE TypeOfRest'
  BY <1>1, <1>18 DEF Commit, TypeOfRest
<1>19. ASSUME NEW t \in Txn, NEW i \in Item, Unlock(t, i) PROVE TypeOfRest'
  BY <1>1, <1>19 DEF Unlock, TypeOfRest, Notified
<1>20. ASSUME NEW t \in Txn, Finish(t) PROVE TypeOfRest'
  BY <1>1, <1>20 DEF Finish, TypeOfRest
<1>21. CASE DetectorSnapshot
  BY <1>0, <1>1, <1>21 DEF DetectorSnapshot, TypeOfRest, YoungestInCycle
<1>22. CASE DetectorMark
  BY <1>1, <1>22 DEF DetectorMark, TypeOfRest, Chosen
<1>23. CASE DetectorScan
  <2>1. det.next \in 1 .. N
    BY <1>0, <1>1, <1>23 DEF DetectorScan, TypeOfRest
  <2>2. det' \in [pc : {"idle", "mark", "scan"}, victim : Txn \cup {Nil}, next : 1 .. N + 1]
    <3>1. N + 1 \in 1 .. N + 1 /\ det.next + 1 \in 1 .. N + 1
      BY <1>0, <2>1
    <3>2. \E n \in 1 .. N + 1 : det' = [det EXCEPT !.next = n]
      BY <1>23, <3>1 DEF DetectorScan
    <3>3. QED BY <1>1, <3>2 DEF TypeOfRest
  <2>3. \A i \in Item : Notified(pc, i) \in [Txn -> {"run", "loop", "block", "asleep", "notified",
                       "committing", "aborting", "committed", "aborted"}]
    BY <1>1 DEF TypeOfRest, Notified
  <2>4. Shards[det.next] \in Item
    BY <2>1, ShardItem
  <2>5. QED BY <1>1, <1>23, <2>2, <2>3, <2>4 DEF DetectorScan, TypeOfRest
<1>24. CASE DetectorClean
  <2>1. det.victim \in Txn
    BY <1>24 DEF DetectorClean, Chosen
  <2>2. QED BY <1>0, <1>1, <1>12, <1>24, <2>1 DEF DetectorClean, TypeOfRest
<1>25. QED
  BY <1>2, <1>4, <1>5, <1>6, <1>7, <1>9, <1>10, <1>13, <1>14, <1>15, <1>16, <1>17, <1>18, <1>19,
     <1>20, <1>21, <1>22, <1>23, <1>24
     DEF Next, Request, LoopStep, WakeStep, EndStep, DetectorStep

-----------------------------------------------------------------------------
(* Who asks for what, and who sleeps *)

\* A transaction is busy with the request it was busy with, or just asked.
LEMMA BusyStep ==
    ASSUME TypeOK, Asking, [Next]_vars, NEW u \in Txn, Busy(u)'
    PROVE  \/ Busy(u) /\ req'[u] = req[u]
           \/ \E i \in Item, m \in Mode :
                  RequestEnter(u, i, m) /\ req'[u] = <<i, m>> /\ pc'[u] = "loop"
<1>0. /\ pc \in [Txn -> {"run", "loop", "block", "asleep", "notified",
                       "committing", "aborting", "committed", "aborted"}]
      /\ DOMAIN req = Txn
  BY DEF TypeOK
<1>1. ASSUME NEW i \in Item PROVE u \in Txn /\ Notified(pc, i)[u] \in {pc[u], "notified"}
                                  /\ (Notified(pc, i)[u] # pc[u] => pc[u] = "asleep")
  BY DEF Notified
<1>2. ASSUME NEW t \in Txn, NEW i \in Item, NEW m \in Mode, RequestEnter(t, i, m)
      PROVE  \/ Busy(u) /\ req'[u] = req[u]
             \/ t = u /\ req'[u] = <<i, m>> /\ pc'[u] = "loop"
  BY <1>0, <1>2 DEF RequestEnter, Busy
<1>3. ASSUME NEW t \in Txn, NEW i \in Item, NEW m \in Mode,
             \/ RequestCovered(t, i, m)
             \/ RequestUpgrade(t, i, m)
             \/ RequestUpgradeConflict(t, i, m)
      PROVE  Busy(u) /\ req'[u] = req[u]
  BY <1>0, <1>3 DEF RequestCovered, RequestUpgrade, RequestUpgradeConflict, Busy
<1>4. ASSUME NEW t \in Txn, LoopStep(t) PROVE Busy(u) /\ req'[u] = req[u]
  BY <1>0, <1>4
     DEF LoopStep, Grant, ScanShard, InlineDeadlock, Block, Sleep, Busy, PcAfterThrow
<1>5. ASSUME NEW t \in Txn, WakeStep(t) PROVE Busy(u) /\ req'[u] = req[u]
  BY <1>0, <1>5 DEF WakeStep, WakeUp, WakeUpVictim, Busy, PcAfterThrow
<1>6. ASSUME NEW t \in Txn, EndStep(t) PROVE Busy(u) /\ req'[u] = req[u]
  BY <1>0, <1>1, <1>6 DEF EndStep, Commit, Finish, Unlock, Busy
<1>7. CASE DetectorStep
  <2>1. CASE DetectorScan
    <3>1. Shards[det.next] \in Item
      BY <2>1, ShardItem DEF DetectorScan, TypeOK
    <3>2. QED BY <1>0, <1>1, <2>1, <3>1 DEF DetectorScan, Busy
  <2>2. QED
    BY <1>7, <2>1 DEF DetectorStep, DetectorSnapshot, DetectorMark, DetectorClean, Busy
<1>8. CASE UNCHANGED vars
  BY <1>8 DEF vars, Busy
<1>9. QED
  BY <1>2, <1>3, <1>4, <1>5, <1>6, <1>7, <1>8 DEF Next, Request

LEMMA AskingStep ==
    ASSUME TypeOK, Asking, [Next]_vars
    PROVE  Asking'
<1>1. ASSUME NEW u \in Txn, Busy(u)'
      PROVE  req'[u][1] \in Item /\ req'[u][2] \in ModesOf(req'[u][1])
  <2>1. CASE Busy(u) /\ req'[u] = req[u]
    BY <2>1 DEF Asking, ItemOf, ModeOf
  <2>2. ASSUME NEW i \in Item, NEW m \in Mode, RequestEnter(u, i, m), req'[u] = <<i, m>>
        PROVE  req'[u][1] \in Item /\ req'[u][2] \in ModesOf(req'[u][1])
    BY <2>2, WantedMode DEF RequestEnter, Start
  <2>3. QED BY <1>1, <2>1, <2>2, BusyStep
<1>2. QED BY <1>1 DEF Asking, ItemOf, ModeOf

LEMMA LatchedStep ==
    ASSUME TypeOK, Asking, Latched, [Next]_vars
    PROVE  Latched'
<1>0. /\ pc \in [Txn -> {"run", "loop", "block", "asleep", "notified",
                       "committing", "aborting", "committed", "aborted"}]
      /\ latch \in [Item -> Txn \cup {Nil}] /\ DOMAIN req = Txn /\ Nil \notin Txn
  BY TxnAssumption DEF TypeOK
<1> SUFFICES ASSUME NEW u \in Txn, pc'[u] \in {"loop", "block"}
             PROVE  latch'[req'[u][1]] = u
  BY DEF Latched, ItemOf
<1>1. \A t \in Txn : pc[t] \in {"loop", "block"} => latch[req[t][1]] = t /\ req[t][1] \in Item
  BY DEF Latched, Asking, Busy, ItemOf
<1>2. \A t \in Txn : Busy(t) => req[t][1] \in Item
  BY DEF Asking, ItemOf
<1>3. ASSUME NEW t \in Txn, NEW i \in Item, NEW m \in Mode, RequestEnter(t, i, m)
      PROVE  latch'[req'[u][1]] = u
  BY <1>0, <1>1, <1>3 DEF RequestEnter, Start
<1>4. ASSUME NEW t \in Txn, NEW i \in Item, NEW m \in Mode,
             \/ RequestCovered(t, i, m)
             \/ RequestUpgrade(t, i, m)
             \/ RequestUpgradeConflict(t, i, m)
      PROVE  latch'[req'[u][1]] = u
  BY <1>0, <1>1, <1>4 DEF RequestCovered, RequestUpgrade, RequestUpgradeConflict
<1>5. ASSUME NEW t \in Txn, LoopStep(t) PROVE latch'[req'[u][1]] = u
  BY <1>0, <1>1, <1>5
     DEF LoopStep, Grant, ScanShard, InlineDeadlock, Block, Sleep, PcAfterThrow, ItemOf
<1>6. ASSUME NEW t \in Txn, WakeStep(t) PROVE latch'[req'[u][1]] = u
  BY <1>0, <1>1, <1>2, <1>6 DEF WakeStep, WakeUp, WakeUpVictim, PcAfterThrow, ItemOf, Busy
<1>7. ASSUME NEW t \in Txn, EndStep(t) PROVE latch'[req'[u][1]] = u
  BY <1>0, <1>1, <1>7 DEF EndStep, Commit, Finish, Unlock, Notified
<1>8. CASE DetectorStep
  BY <1>0, <1>1, <1>8
     DEF DetectorStep, DetectorSnapshot, DetectorMark, DetectorScan, DetectorClean, Notified
<1>9. CASE UNCHANGED vars
  BY <1>1, <1>9 DEF vars
<1>10. QED
  BY <1>3, <1>4, <1>5, <1>6, <1>7, <1>8, <1>9 DEF Next, Request

\* Nobody whose request fails is let in by another's grant or upgrade.
LEMMA NoRoomStep ==
    ASSUME TypeOK, Asking, Grouped, [Next]_vars, NEW i \in Item, NEW w \in ModesOf(i),
           ~is_compatible(w, group[i])
    PROVE  \/ ~is_compatible(w, group'[i])
           \/ \E t \in Txn : Unlock(t, i) /\ t \in Holders(i)
<1>1. CASE UNCHANGED queues
  BY <1>1 DEF queues
<1>2. ASSUME NEW t \in Txn, Grant(t) PROVE ~is_compatible(w, group'[i])
  <2>1. CASE i # ItemOf(t)
    BY <1>2, <2>1, GrantQueue
  <2>2. CASE i = ItemOf(t)
    <3> DEFINE q == granted[i]
               m == ModeOf(t)
    <3>1. /\ m \in ModesOf(i) /\ DOMAIN q = 1 .. Len(q) /\ Len(q) \in Nat
          /\ group'[i] = GroupOf(granted'[i])
          /\ DOMAIN granted'[i] = 1 .. Len(q) + 1
          /\ \A k \in 1 .. Len(q) : granted'[i][k] = q[k]
          /\ granted'[i][Len(q) + 1] = <<t, m>>
      BY <1>2, <2>2, GrantQueue
    <3>2. group[i] = Strongest(ModesIn(q)) /\ ModesIn(q) \subseteq ModesOf(i)
      BY DEF Grouped, GroupOf
    <3>3. is_compatible(m, Strongest(ModesIn(q)))
      BY <1>2, <2>2, <3>2 DEF Grant, Compatible
    <3> HIDE DEF q, m
    <3>4. ModesIn(granted'[i]) = ModesIn(q) \cup {m}
      <4>1. ASSUME NEW k \in DOMAIN granted'[i] PROVE granted'[i][k][2] \in ModesIn(q) \cup {m}
        <5>1. CASE k \in 1 .. Len(q)
          BY <3>1, <5>1 DEF ModesIn
        <5>2. CASE k = Len(q) + 1
          BY <3>1, <5>2
        <5>3. QED BY <3>1, <4>1, <5>1, <5>2
      <4>2. ASSUME NEW k \in DOMAIN q PROVE q[k][2] \in ModesIn(granted'[i])
        <5>1. k \in DOMAIN granted'[i] /\ granted'[i][k] = q[k]
          BY <3>1
        <5>2. QED BY <5>1 DEF ModesIn
      <4>3. m \in ModesIn(granted'[i])
        <5>1. Len(q) + 1 \in DOMAIN granted'[i] /\ granted'[i][Len(q) + 1][2] = m
          BY <3>1
        <5>2. QED BY <5>1 DEF ModesIn
      <4>4. QED BY <4>1, <4>2, <4>3 DEF ModesIn
    <3>5. QED BY <3>1, <3>2, <3>3, <3>4, GrantMakesNoRoom DEF GroupOf
  <2>3. QED BY <2>1, <2>2
<1>3. ASSUME NEW t \in Txn, NEW j \in Item, NEW m \in Mode, RequestUpgrade(t, j, m)
      PROVE  ~is_compatible(w, group'[i])
  <2>1. CASE i # j
    BY <1>3, <2>1, UpgradeQueue
  <2>2. CASE i = j
    <3>1. PICK k \in DOMAIN granted[i] : granted[i][k][1] = t /\ granted[i][k][2] = "S"
      BY <1>3, <2>2 DEF RequestUpgrade, HeldModes
    <3>2. granted[i] \in Seq(Txn \X Mode)
      BY DEF TypeOK
    <3>3. granted[i][k] \in Txn \X Mode
      BY <3>2, ElementOfSeq, LenProperties
    <3>4. granted[i][k] = <<t, "S">>
      BY <3>1, <3>3
    <3>5. /\ group'[i] = GroupOf(granted'[i])
          /\ DOMAIN granted'[i] = DOMAIN granted[i]
          /\ \A n \in DOMAIN granted[i] : granted'[i][n] =
                 IF granted[i][n] = <<t, "S">> THEN <<t, "X">> ELSE granted[i][n]
      BY <1>3, <2>2, UpgradeQueue
    <3>6. granted'[i][k] = <<t, "X">> /\ k \in DOMAIN granted'[i]
      BY <3>4, <3>5
    <3>7. "X" \in ModesIn(granted'[i])
      BY <3>6 DEF ModesIn
    <3>8. QED BY <3>5, <3>7, ExclusiveIsAlone, ModeOfItem DEF GroupOf
  <2>3. QED BY <2>1, <2>2
<1>4. ASSUME NEW t \in Txn, NEW j \in Item, Unlock(t, j), t \in Holders(j), j # i
      PROVE  ~is_compatible(w, group'[i])
  BY <1>4, UnlockQueue
<1>5. QED
  BY <1>1, <1>2, <1>3, <1>4
     DEF Next, Request, LoopStep, WakeStep, EndStep, DetectorStep, vars, queues,
         RequestCovered, RequestUpgradeConflict, RequestEnter, ScanShard, InlineDeadlock, Block,
         Sleep, WakeUp, WakeUpVictim, Commit, Unlock, Finish, DetectorSnapshot, DetectorMark,
         DetectorScan, DetectorClean

\* How a transaction comes to block on an item, or to sleep on it.
LEMMA SleepStep ==
    ASSUME TypeOK, Asking, Latched, Queued, [Next]_vars, NEW u \in Txn,
           pc'[u] \in {"block", "asleep"}
    PROVE  /\ req'[u] = req[u] /\ Busy(u) /\ ~Compatible(u)
           /\ ~\E t \in Txn : Unlock(t, ItemOf(u)) /\ t \in Holders(ItemOf(u))
           /\ pc'[u] = "asleep" => u \in waiting'[ItemOf(u)]
<1>0. /\ pc \in [Txn -> {"run", "loop", "block", "asleep", "notified",
                       "committing", "aborting", "committed", "aborted"}]
      /\ waiting \in [Item -> SUBSET Txn] /\ DOMAIN req = Txn /\ Nil \notin Txn
  BY TxnAssumption DEF TypeOK
<1>1. req'[u] = req[u] /\ Busy(u)
  BY BusyStep DEF Busy
<1>2. ItemOf(u) \in Item
  BY <1>1 DEF Asking
<1>3. pc[u] \in {"block", "asleep"} => ~Compatible(u)
  BY DEF Queued
<1>4. pc[u] = "asleep" => u \in waiting[ItemOf(u)]
  BY DEF Queued
<1>5. pc[u] \in {"loop", "block"} => latch[ItemOf(u)] = u
  BY DEF Latched
<1> DEFINE Goal == /\ ~Compatible(u)
                   /\ pc'[u] = "asleep" => u \in waiting'[ItemOf(u)]
<1>6. ASSUME NEW t \in Txn, NEW i \in Item, NEW m \in Mode,
             \/ RequestCovered(t, i, m)
             \/ RequestUpgrade(t, i, m)
             \/ RequestUpgradeConflict(t, i, m)
             \/ RequestEnter(t, i, m)
      PROVE  Goal
  BY <1>0, <1>3, <1>4, <1>6
     DEF RequestCovered, RequestUpgrade, RequestUpgradeConflict, RequestEnter
<1>7. ASSUME NEW t \in Txn, LoopStep(t) PROVE Goal
  <2>1. CASE Block(t)
    BY <1>0, <1>3, <1>4, <2>1 DEF Block
  <2>2. CASE Sleep(t)
    <3>1. Busy(t) /\ ItemOf(t) \in Item
      BY <2>2 DEF Sleep, Busy, Asking
    <3>2. waiting' = [waiting EXCEPT ![ItemOf(t)] = @ \cup {t}] /\ pc' = [pc EXCEPT ![t] = "asleep"]
          /\ pc[t] = "block"
      BY <2>2 DEF Sleep
    <3>3. QED BY <1>0, <1>2, <1>3, <1>4, <3>1, <3>2
  <2>3. CASE Grant(t) \/ ScanShard(t) \/ InlineDeadlock(t)
    BY <1>0, <1>3, <1>4, <2>3 DEF Grant, ScanShard, InlineDeadlock, PcAfterThrow
  <2>4. QED BY <1>7, <2>1, <2>2, <2>3 DEF LoopStep
<1>8. ASSUME NEW t \in Txn, WakeStep(t) PROVE Goal
  <2>1. t # u /\ pc'[u] = pc[u]
    BY <1>0, <1>8 DEF WakeStep, WakeUp, WakeUpVictim, PcAfterThrow
  <2>2. waiting' = [waiting EXCEPT ![ItemOf(t)] = @ \ {t}]
    BY <1>8 DEF WakeStep, WakeUp, WakeUpVictim
  <2>3. QED BY <1>0, <1>2, <1>3, <1>4, <2>1, <2>2
<1>9. ASSUME NEW t \in Txn, EndStep(t) PROVE Goal
  BY <1>0, <1>3, <1>4, <1>9 DEF EndStep, Commit, Finish, Unlock, Notified
<1>10. ASSUME DetectorStep PROVE Goal
  BY <1>0, <1>3, <1>4, <1>10
     DEF DetectorStep, DetectorSnapshot, DetectorMark, DetectorScan, DetectorClean, Notified
<1>11. ASSUME UNCHANGED vars PROVE Goal
  BY <1>3, <1>4, <1>11 DEF vars
<1>12. Goal
  BY <1>6, <1>7, <1>8, <1>9, <1>10, <1>11 DEF Next, Request
<1>13. ASSUME NEW t \in Txn, Unlock(t, ItemOf(u)), t \in Holders(ItemOf(u)) PROVE FALSE
  <2>1. pc' = Notified(pc, ItemOf(u)) /\ latch[ItemOf(u)] = Nil
    BY <1>13 DEF Unlock
  <2>2. pc[u] = "asleep"
    BY <1>0, <1>5, <2>1 DEF Notified
  <2>3. QED BY <1>4, <2>1, <2>2 DEF Notified
<1>14. QED BY <1>1, <1>12, <1>13

LEMMA QueuedStep ==
    ASSUME TypeOK, Asking, Grouped, Latched, Queued, [Next]_vars
    PROVE  Queued'
<1>1. ASSUME NEW u \in Txn, pc'[u] \in {"block", "asleep"}
      PROVE  /\ pc'[u] = "asleep" => u \in waiting'[req'[u][1]]
             /\ ~is_compatible(req'[u][2], group'[req'[u][1]])
  <2>1. /\ req'[u] = req[u] /\ Busy(u) /\ ~Compatible(u)
        /\ ~\E t \in Txn : Unlock(t, ItemOf(u)) /\ t \in Holders(ItemOf(u))
        /\ pc'[u] = "asleep" => u \in waiting'[ItemOf(u)]
    BY <1>1, SleepStep
  <2>2. ItemOf(u) \in Item /\ ModeOf(u) \in ModesOf(ItemOf(u))
    BY <2>1 DEF Asking
  <2>3. ~is_compatible(ModeOf(u), group'[ItemOf(u)])
    BY <2>1, <2>2, NoRoomStep DEF Compatible
  <2>4. QED BY <2>1, <2>3 DEF ItemOf, ModeOf
<1>2. QED BY <1>1 DEF Queued, Compatible, ItemOf, ModeOf

-----------------------------------------------------------------------------
(* Who holds what *)

\* A busy transaction is not granted anything: what it holds it held before.
LEMMA HeldBefore ==
    ASSUME TypeOK, Asking, [Next]_vars, NEW u \in Txn, Busy(u)', NEW i \in Item,
           NEW k \in DOMAIN granted'[i], granted'[i][k][1] = u
    PROVE  \E n \in DOMAIN granted[i] : granted[i][n] = granted'[i][k]
<1>0. pc \in [Txn -> {"run", "loop", "block", "asleep", "notified",
                       "committing", "aborting", "committed", "aborted"}]
  BY DEF TypeOK
<1>1. CASE UNCHANGED queues
  BY <1>1 DEF queues
<1>2. ASSUME NEW t \in Txn, Grant(t)
      PROVE \E n \in DOMAIN granted[i] : granted[i][n] = granted'[i][k]
  <2>1. t # u
    BY <1>0, <1>2 DEF Grant, Busy
  <2>2. CASE i # ItemOf(t)
    BY <1>2, <2>2, GrantQueue
  <2>3. CASE i = ItemOf(t)
    <3> DEFINE q == granted[i]
    <3>1. /\ DOMAIN q = 1 .. Len(q) /\ Len(q) \in Nat
          /\ DOMAIN granted'[i] = 1 .. Len(q) + 1
          /\ \A n \in 1 .. Len(q) : granted'[i][n] = q[n]
          /\ granted'[i][Len(q) + 1] = <<t, ModeOf(t)>>
      BY <1>2, <2>3, GrantQueue
    <3> HIDE DEF q
    <3>2. k # Len(q) + 1
      BY <2>1, <3>1
    <3>3. k \in DOMAIN q /\ granted'[i][k] = q[k]
      BY <3>1, <3>2
    <3>4. QED BY <3>3 DEF q
  <2>4. QED BY <2>2, <2>3
<1>3. ASSUME NEW t \in Txn, NEW j \in Item, NEW m \in Mode, RequestUpgrade(t, j, m)
      PROVE \E n \in DOMAIN granted[i] : granted[i][n] = granted'[i][k]
  <2>1. t # u
    BY <1>0, <1>3 DEF RequestUpgrade, Start, Busy
  <2>2. CASE i # j
    BY <1>3, <2>2, UpgradeQueue
  <2>3. CASE i = j
    <3>1. /\ DOMAIN granted'[i] = DOMAIN granted[i]
          /\ \A n \in DOMAIN granted[i] : granted'[i][n] =
                 IF granted[i][n] = <<t, "S">> THEN <<t, "X">> ELSE granted[i][n]
      BY <1>3, <2>3, UpgradeQueue
    <3>2. QED BY <2>1, <3>1
  <2>4. QED BY <2>2, <2>3
<1>4. ASSUME NEW t \in Txn, NEW j \in Item, Unlock(t, j), t \in Holders(j)
      PROVE \E n \in DOMAIN granted[i] : granted[i][n] = granted'[i][k]
  <2>1. CASE i # j
    BY <1>4, <2>1, UnlockQueue
  <2>2. CASE i = j
    <3> DEFINE q == granted[i]
    <3>1. DOMAIN q = 1 .. Len(q) /\ Len(q) \in Nat
      BY <1>4, <2>2, UnlockQueue
    <3>2. PICK f \in DOMAIN q :
              /\ q[f][1] = t
              /\ DOMAIN granted'[i] = 1 .. Len(q) - 1
              /\ \A n \in DOMAIN granted'[i] :
                     granted'[i][n] = IF n < f THEN q[n] ELSE q[n + 1]
      BY <1>4, <2>2, UnlockQueue
    <3> HIDE DEF q
    <3>3. \E n \in DOMAIN q : q[n] = granted'[i][k]
      BY <3>1, <3>2
    <3>4. QED BY <3>3 DEF q
  <2>3. QED BY <2>1, <2>2
<1>5. QED
  BY <1>1, <1>2, <1>3, <1>4
     DEF Next, Request, LoopStep, WakeStep, EndStep, DetectorStep, vars, queues,
         RequestCovered, RequestUpgradeConflict, RequestEnter, ScanShard, InlineDeadlock, Block,
         Sleep, WakeUp, WakeUpVictim, Commit, Unlock, Finish, DetectorSnapshot, DetectorMark,
         DetectorScan, DetectorClean

LEMMA NotHeldStep ==
    ASSUME TypeOK, Asking, Grouped, NotHeld, [Next]_vars
    PROVE  NotHeld'
<1>1. ASSUME NEW u \in Txn, Busy(u)', NEW i \in Record \cup Gap, i = req'[u][1],
             NEW k \in DOMAIN granted'[i], granted'[i][k][1] = u
      PROVE  i \in Gap /\ granted'[i][k][2] # req'[u][2]
  <2>1. i \in Item
    BY DEF Item
  <2>2. PICK n \in DOMAIN granted[i] : granted[i][n] = granted'[i][k]
    BY <1>1, <2>1, HeldBefore
  <2>3. CASE Busy(u) /\ req'[u] = req[u]
    <3>1. ItemOf(u) = i /\ ModeOf(u) = req'[u][2]
      BY <1>1, <2>3 DEF ItemOf, ModeOf
    <3>2. QED BY <1>1, <2>2, <2>3, <3>1 DEF NotHeld
  <2>4. ASSUME NEW j \in Item, NEW m \in Mode, RequestEnter(u, j, m), req'[u] = <<j, m>>
        PROVE  i \in Gap /\ granted'[i][k][2] # req'[u][2]
    <3>1. j = i /\ m = req'[u][2]
      BY <1>1, <2>4
    <3>2. granted[i][n][2] \in HeldModes(u, i)
      BY <1>1, <2>2 DEF HeldModes
    <3>3. /\ granted[i][n][2] \notin {m, "X"}
          /\ ~(m = "X" /\ granted[i][n][2] = "S")
      BY <2>4, <3>1, <3>2 DEF RequestEnter, Covers
    <3>4. m \in ModesOf(i) /\ granted[i][n][2] \in ModesOf(i)
      <4>1. granted[i][n][2] \in ModesIn(granted[i])
        BY DEF ModesIn
      <4>2. QED BY <2>1, <2>4, <3>1, <4>1, WantedMode DEF Grouped, RequestEnter, Start
    <3>5. i \notin Record
      BY <3>3, <3>4, ItemAssumption DEF ModesOf
    <3>6. QED BY <2>2, <3>1, <3>3, <3>5
  <2>5. QED BY <1>1, <2>3, <2>4, BusyStep
<1>2. QED BY <1>1 DEF NotHeld, ItemOf, ModeOf

LEMMA SingleStep ==
    ASSUME TypeOK, Asking, Grouped, NoConflictingGrants, Single, NotHeld, [Next]_vars
    PROVE  Single'
<1> DEFINE Alone(i) ==
               /\ \A k \in DOMAIN granted'[i] : granted'[i][k][1] \in Txn =>
                      i \in lock_set'[granted'[i][k][1]]
               /\ \A k, n \in DOMAIN granted'[i] : granted'[i][k][1] = granted'[i][n][1] => k = n
<1> SUFFICES ASSUME NEW i \in Record \cup Gap
             PROVE  Alone(i)
  BY DEF Single, Holders
<1>0. i \in Item /\ lock_set \in [Txn -> SUBSET Item]
  BY DEF Item, TypeOK
<1>1. /\ \A k \in DOMAIN granted[i] : granted[i][k][1] \in Txn => i \in lock_set[granted[i][k][1]]
      /\ \A k, n \in DOMAIN granted[i] : granted[i][k][1] = granted[i][n][1] => k = n
  BY DEF Single, Holders
<1>2. CASE UNCHANGED <<granted, lock_set>>
  BY <1>1, <1>2
<1>3. ASSUME NEW t \in Txn, Grant(t) PROVE Alone(i)
  <2>1. lock_set' = [lock_set EXCEPT ![t] = @ \cup {ItemOf(t)}]
    BY <1>3 DEF Grant
  <2>2. CASE i # ItemOf(t)
    <3>1. granted'[i] = granted[i]
      BY <1>0, <1>3, <2>2, GrantQueue
    <3>2. QED BY <1>0, <1>1, <2>1, <3>1
  <2>3. CASE i = ItemOf(t)
    <3> DEFINE q == granted[i]
               m == ModeOf(t)
    <3>1. /\ m \in ModesOf(i) /\ DOMAIN q = 1 .. Len(q) /\ Len(q) \in Nat
          /\ DOMAIN granted'[i] = 1 .. Len(q) + 1
          /\ \A n \in 1 .. Len(q) : granted'[i][n] = q[n]
          /\ granted'[i][Len(q) + 1] = <<t, m>>
      BY <1>3, <2>3, GrantQueue
    <3>2. /\ group[i] = Strongest(ModesIn(q)) /\ ModesIn(q) \subseteq ModesOf(i)
          /\ ~({"GAP", "INSERT_INT"} \subseteq ModesIn(q))
      BY <1>0, OneGapMode DEF Grouped, GroupOf
    <3>3. is_compatible(m, Strongest(ModesIn(q)))
      BY <1>3, <2>3, <3>2 DEF Grant, Compatible
    <3>4. ASSUME NEW k \in DOMAIN q, q[k][1] = t PROVE FALSE
      <4>1. i \in Gap /\ q[k][2] # m
        BY <1>3, <2>3, <3>4 DEF NotHeld, Busy, Grant
      <4>2. q[k][2] \in ModesIn(q)
        BY DEF ModesIn
      <4>3. is_compatible(m, Strongest({q[k][2]}))
        BY <1>0, <3>1, <3>2, <3>3, <4>2, GroupModeDecides
      <4>4. m \in {"GAP", "INSERT_INT"} /\ q[k][2] \in {"GAP", "INSERT_INT"}
        BY <3>1, <3>2, <4>1, <4>2, ItemAssumption DEF ModesOf
      <4>5. QED BY <4>1, <4>3, <4>4 DEF is_compatible, CompatibleGroups, Strongest
    <3>5. \A k \in DOMAIN q : q[k][1] \in Txn => i \in lock_set'[q[k][1]]
      BY <1>0, <1>1, <2>1
    <3>6. i \in lock_set'[t]
      BY <1>0, <2>1, <2>3
    <3>7. \A k, n \in DOMAIN q : q[k][1] = q[n][1] => k = n
      BY <1>1
    <3> HIDE DEF q, m
    <3>8. ASSUME NEW k \in DOMAIN granted'[i]
          PROVE  \/ k \in DOMAIN q /\ granted'[i][k] = q[k]
                 \/ k = Len(q) + 1 /\ granted'[i][k] = <<t, m>>
      BY <3>1
    <3>9. QED BY <3>4, <3>5, <3>6, <3>7, <3>8
  <2>4. QED BY <2>2, <2>3
<1>4. ASSUME NEW t \in Txn, NEW j \in Item, NEW m \in Mode, RequestUpgrade(t, j, m)
      PROVE  Alone(i)
  <2>1. lock_set' = lock_set
    BY <1>4 DEF RequestUpgrade
  <2>2. /\ DOMAIN granted'[i] = DOMAIN granted[i]
        /\ \A n \in DOMAIN granted[i] : granted'[i][n][1] = granted[i][n][1]
    <3>1. CASE i # j
      <4>1. granted'[i] = granted[i]
        BY <1>0, <1>4, <3>1, UpgradeQueue
      <4>2. QED BY <4>1
    <3>2. CASE i = j
      <4>1. /\ DOMAIN granted'[j] = DOMAIN granted[j]
            /\ \A n \in DOMAIN granted[j] : granted'[j][n] =
                   IF granted[j][n] = <<t, "S">> THEN <<t, "X">> ELSE granted[j][n]
        BY <1>4, UpgradeQueue
      <4>2. QED BY <3>2, <4>1
    <3>3. QED BY <3>1, <3>2
  <2>3. QED BY <1>1, <2>1, <2>2
<1>5. ASSUME NEW t \in Txn, NEW j \in Item, Unlock(t, j), t \in Holders(j) PROVE Alone(i)
  <2>1. lock_set' = [lock_set EXCEPT ![t] = @ \ {j}]
    BY <1>5 DEF Unlock
  <2>2. CASE i # j
    <3>1. granted'[i] = granted[i]
      BY <1>0, <1>5, <2>2, UnlockQueue
    <3>2. QED BY <1>0, <1>1, <2>1, <2>2, <3>1
  <2>3. CASE i = j
    <3> DEFINE q == granted[i]
    <3>1. DOMAIN q = 1 .. Len(q) /\ Len(q) \in Nat
      BY <1>5, <2>3, UnlockQueue
    <3>2. PICK f \in DOMAIN q :
              /\ q[f][1] = t
              /\ DOMAIN granted'[i] = 1 .. Len(q) - 1
              /\ \A n \in DOMAIN granted'[i] :
                     granted'[i][n] = IF n < f THEN q[n] ELSE q[n + 1]
      BY <1>5, <2>3, UnlockQueue
    <3> DEFINE old(n) == IF n < f THEN n ELSE n + 1
    <3>3. \A k, n \in DOMAIN q : q[k][1] = q[n][1] => k = n
      BY <1>1
    <3>4. \A k \in DOMAIN q : k # f /\ q[k][1] \in Txn => i \in lock_set'[q[k][1]]
      <4>1. \A k \in DOMAIN q : k # f => q[k][1] # t
        BY <3>2, <3>3
      <4>2. QED BY <1>0, <1>1, <2>1, <4>1
    <3> HIDE DEF q
    <3>5. \A k \in DOMAIN granted'[i] :
              old(k) \in DOMAIN q /\ old(k) # f /\ granted'[i][k] = q[old(k)]
      BY <3>1, <3>2
    <3>6. \A k, n \in DOMAIN granted'[i] : old(k) = old(n) => k = n
      BY <3>1, <3>2
    <3> HIDE DEF old
    <3>7. QED BY <3>3, <3>4, <3>5, <3>6
  <2>4. QED BY <2>2, <2>3
<1>6. ASSUME NEW t \in Txn, NEW j \in Item, Unlock(t, j), t \notin Holders(j) PROVE Alone(i)
  <2>1. lock_set' = [lock_set EXCEPT ![t] = @ \ {j}] /\ granted' = granted
    BY <1>6 DEF Unlock, queues
  <2>2. i = j => \A k \in DOMAIN granted[i] : granted[i][k][1] # t
    BY <1>6 DEF Holders
  <2>3. QED BY <1>0, <1>1, <2>1, <2>2
<1>7. QED
  BY <1>2, <1>3, <1>4, <1>5, <1>6
     DEF Next, Request, LoopStep, WakeStep, EndStep, DetectorStep, vars, queues,
         RequestCovered, RequestUpgradeConflict, RequestEnter, ScanShard, InlineDeadlock, Block,
         Sleep, WakeUp, WakeUpVictim, Commit, Finish, DetectorSnapshot, DetectorMark,
         DetectorScan, DetectorClean

\* The items of an ended transaction stay released.
LEMMA ReleasedStep ==
    ASSUME TypeOK, Released, [Next]_vars
    PROVE  Released'
<1>0. /\ pc \in [Txn -> {"run", "loop", "block", "asleep", "notified",
                       "committing", "aborting", "committed", "aborted"}]
      /\ lock_set \in [Txn -> SUBSET Item]
  BY DEF TypeOK
<1> SUFFICES ASSUME NEW u \in Txn, pc'[u] \in {"committed", "aborted"}
             PROVE  lock_set'[u] = {}
  BY DEF Released
<1>1. pc[u] \in {"committed", "aborted"} => lock_set[u] = {}
  BY DEF Released
<1>2. ASSUME NEW t \in Txn, Request(t) PROVE lock_set'[u] = {}
  BY <1>0, <1>1, <1>2
     DEF Request, RequestCovered, RequestUpgrade, RequestUpgradeConflict, RequestEnter
<1>3. ASSUME NEW t \in Txn, LoopStep(t) PROVE lock_set'[u] = {}
  BY <1>0, <1>1, <1>3
     DEF LoopStep, Grant, ScanShard, InlineDeadlock, Block, Sleep, PcAfterThrow
<1>4. ASSUME NEW t \in Txn, WakeStep(t) PROVE lock_set'[u] = {}
  BY <1>0, <1>1, <1>4 DEF WakeStep, WakeUp, WakeUpVictim, PcAfterThrow
<1>5. ASSUME NEW t \in Txn, EndStep(t) PROVE lock_set'[u] = {}
  BY <1>0, <1>1, <1>5 DEF EndStep, Commit, Finish, Unlock, Notified
<1>6. CASE DetectorStep
  BY <1>0, <1>1, <1>6
     DEF DetectorStep, DetectorSnapshot, DetectorMark, DetectorScan, DetectorClean, Notified
<1>7. CASE UNCHANGED vars
  BY <1>1, <1>7 DEF vars
<1>8. QED BY <1>2, <1>3, <1>4, <1>5, <1>6, <1>7 DEF Next

LEMMA ChosenStep ==
    ASSUME TypeOK, Chosen, [Next]_vars
    PROVE  Chosen'
<1>1. CASE DetectorStep
  <2>0. det \in [pc : {"idle", "mark", "scan"}, victim : Txn \cup {Nil}, next : 1 .. N + 1]
    BY DEF TypeOK
  <2>1. CASE DetectorSnapshot
    BY <2>1 DEF DetectorSnapshot, Chosen, YoungestInCycle
  <2>2. CASE DetectorMark
    BY <2>0, <2>2 DEF DetectorMark, Chosen
  <2>3. CASE DetectorScan
    <3>1. det'.victim = det.victim /\ det.pc = "scan"
      BY <2>0, <2>3 DEF DetectorScan
    <3>2. QED BY <3>1 DEF Chosen
  <2>4. CASE DetectorClean
    BY <2>4 DEF DetectorClean, Chosen
  <2>5. QED BY <1>1, <2>1, <2>2, <2>3, <2>4 DEF DetectorStep
<1>2. CASE UNCHANGED det
  BY <1>2 DEF Chosen
<1>3. QED
  BY <1>1, <1>2
     DEF Next, Request, LoopStep, WakeStep, EndStep, vars,
         RequestCovered, RequestUpgrade, RequestUpgradeConflict, RequestEnter, Grant, ScanShard,
         InlineDeadlock, Block, Sleep, WakeUp, WakeUpVictim, Commit, Unlock, Finish

-----------------------------------------------------------------------------
(* The theorems *)

LEMMA StepIInv == IInv /\ [Next]_vars => IInv'
<1> SUFFICES ASSUME IInv, [Next]_vars PROVE IInv'
  OBVIOUS
<1>1. /\ TypeOK /\ Asking /\ Grouped /\ NoConflictingGrants /\ Latched /\ Queued
      /\ Single /\ NotHeld /\ Released /\ Chosen
  BY DEF IInv
<1>2. TypeOK' /\ Asking' /\ QueueInv'
  BY <1>1, TypeStep, AskingStep, QueueStep
<1>3. Latched' /\ Queued'
  BY <1>1, LatchedStep, QueuedStep
<1>4. Single' /\ NotHeld'
  BY <1>1, SingleStep, NotHeldStep
<1>5. Released' /\ Chosen'
  BY <1>1, ReleasedStep, ChosenStep
<1>6. QED BY <1>2, <1>3, <1>4, <1>5 DEF IInv, QueueInv

\* The queues, latches and graph of waits are what the declarations say.
THEOREM TypeCorrect == Spec => []TypeOK
<1>1. IInv => TypeOK
  BY DEF IInv
<1>2. QED BY InitIInv, StepIInv, <1>1, PTL DEF Spec

\* Mutual exclusion: is_compatible looks at the group mode of the queue only,
\* never at the requests; still no two transactions hold conflicting locks, not
\* after an upgrade in place, nor after unlock recomputes the group mode.
THEOREM NoConflict == Spec => []NoConflictingGrants
<1>1. IInv => NoConflictingGrants
  BY DEF IInv
<1>2. QED BY InitIInv, StepIInv, <1>1, PTL DEF Spec

\* No lost wake-up: a transaction enqueues itself under the latch under which it
\* found its mode incompatible, and only unlock makes room, which notifies all.
THEOREM NoLost == Spec => []NoLostWakeUp
<1>1. IInv => NoLostWakeUp
  BY DEF IInv, Queued, NoLostWakeUp
<1>2. QED BY InitIInv, StepIInv, <1>1, PTL DEF Spec

\* Locks do not outlive their transaction: on a record or gap it has one request
\* at most, which lock_set_ names, so one unlock for each item is enough.
THEOREM EndedReleases == Spec => []EndedHoldsNoRecordOrGap
<1>1. IInv => EndedHoldsNoRecordOrGap
  BY DEF IInv, Single, Released, EndedHoldsNoRecordOrGap
<1>2. QED BY InitIInv, StepIInv, <1>1, PTL DEF Spec

=============================================================================
