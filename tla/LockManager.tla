----------------------------- MODULE LockManager -----------------------------
(***************************************************************************)
(* The lock manager of the RMDB engine:                                    *)
(* transaction/concurrency/lock_manager.{h,cpp}.                           *)
(*                                                                         *)
(* Every lock table shard has its own latch.  A lock request is a few      *)
(* steps: look the item up (Request), loop until the mode is compatible    *)
(* with the group mode of the item (Grant, InlineDeadlock, Block, Sleep,   *)
(* Wakeup).  The inline deadlock check reads the queues of the shards one  *)
(* by one without their latches (ScanShard); waits_for_ and victims_ have  *)
(* latches of their own; the background detector works on a copy of        *)
(* waits_for_.  Steps are therefore as small as these latches make them.   *)
(*                                                                         *)
(* A transaction requests locks one at a time, at most MaxReq of them, and *)
(* releases them all when it commits or aborts (transaction_manager.cpp).  *)
(* Every item has a shard of its own: there are 131071 shards.             *)
(***************************************************************************)
EXTENDS Integers, Sequences, FiniteSets

CONSTANTS
    Txn,        \* transaction ids: a higher id is a younger transaction
    Table,      \* LockDataIds of type TABLE
    Record,     \* LockDataIds of type RECORD
    Gap,        \* LockDataIds of type GAP: the gap before an index key
    Shards,     \* the items in the order of their shards
    Wants,      \* transaction -> the <<item, mode>> it may request
    Nil,        \* no transaction, no item
    MaxReq      \* bound: lock requests of one transaction

ASSUME TxnAssumption == Txn \subseteq Nat /\ Nil \notin Txn
ASSUME ItemAssumption ==
    /\ Table \cap Record = {} /\ Table \cap Gap = {} /\ Record \cap Gap = {}
    /\ Nil \notin Table \cup Record \cup Gap

Item == Table \cup Record \cup Gap
Mode == {"IS", "IX", "S", "X", "GAP", "INSERT_INT"}
N == Len(Shards)
ASSUME ShardAssumption ==
    /\ Shards \in Seq(Item)
    /\ \A i \in Item : \E k \in 1 .. N : Shards[k] = i
GroupMode == Mode \cup {"NON_LOCK", "SIX"}

\* The modes the lock_* methods request, by type of item.  No method requests
\* S_IX or NEXT_KEY: lock_next_key takes an X and a GAP lock instead.
ModesOf(i) ==
    IF i \in Table THEN {"IS", "IX", "S", "X"}
    ELSE IF i \in Record THEN {"S", "X"}
    ELSE {"GAP", "INSERT_INT"}

ASSUME WantsAssumption ==
    Wants \in [Txn -> SUBSET UNION {{i} \X ModesOf(i) : i \in Item}]
ASSUME MaxReqAssumption == MaxReq \in Nat

VARIABLES
    granted,    \* item -> granted requests, <<txn, mode>>, in order of grant
    waiting,    \* item -> transactions with an ungranted request in the queue
    group,      \* item -> group_lock_mode_
    latch,      \* item -> transaction that holds the latch of its shard
    pc,         \* transaction -> where it stands
    req,        \* transaction -> the request it is working on, <<item, mode>>
    requests,   \* transaction -> number of requests it has made
    lock_set,   \* transaction -> lock_set_: items whose locks it will release
    waits_for,  \* waits_for_: transaction -> transactions it waits for
    seen,       \* transaction -> how far its inline check is: [next, edges]
    victims,    \* victims_: marked for abort by the detector
    det         \* the detector: [pc, victim, next]

vars == <<granted, waiting, group, latch, pc, req, requests, lock_set,
          waits_for, seen, victims, det>>
queues == <<granted, group>>

NoRequest == <<Nil, "NON_LOCK">>
ItemOf(t) == req[t][1]
ModeOf(t) == req[t][2]

-----------------------------------------------------------------------------
(* Compatibility and group modes *)

\* The matrix of is_compatible: the group modes a request can join.
CompatibleGroups(m) ==
    CASE m = "S"          -> {"NON_LOCK", "IS", "S"}
      [] m = "X"          -> {"NON_LOCK"}
      [] m = "IS"         -> {"NON_LOCK", "IS", "IX", "S", "SIX", "GAP", "INSERT_INT"}
      [] m = "IX"         -> {"NON_LOCK", "IS", "IX", "GAP", "INSERT_INT"}
      [] m = "GAP"        -> {"NON_LOCK", "IS", "IX", "S", "GAP"}
      [] m = "INSERT_INT" -> {"NON_LOCK", "IS", "IX", "S", "INSERT_INT"}

is_compatible(m, g) == g \in CompatibleGroups(m)

\* update_group_lock_mode: the strongest of the granted modes.
Strongest(ms) ==
    CASE "X" \in ms          -> "X"
      [] "X" \notin ms /\ "S" \in ms /\ "IX" \in ms -> "SIX"
      [] "X" \notin ms /\ "S" \in ms /\ "IX" \notin ms -> "S"
      [] ms \cap {"X", "S"} = {} /\ "GAP" \in ms -> "GAP"
      [] ms \cap {"X", "S", "GAP"} = {} /\ "IX" \in ms -> "IX"
      [] ms \cap {"X", "S", "GAP", "IX"} = {} /\ "IS" \in ms -> "IS"
      [] ms = {"INSERT_INT"} -> "INSERT_INT"
      [] ms = {} -> "NON_LOCK"

ModesIn(q) == {q[k][2] : k \in DOMAIN q}
GroupOf(q) == Strongest(ModesIn(q))
Holders(i) == {granted[i][k][1] : k \in DOMAIN granted[i]}
HeldModes(t, i) == {granted[i][k][2] : k \in {n \in DOMAIN granted[i] : granted[i][n][1] = t}}

-----------------------------------------------------------------------------
(* Cycles *)

\* Transactions a non-empty path of the graph g leads to from t: those in every
\* set that holds the successors of t and of its own members.
Reachable(g, t) ==
    {u \in Txn : \A C \in SUBSET Txn :
        (g[t] \subseteq C /\ \A v \in C : g[v] \subseteq C) => u \in C}

\* find_deadlock_victim searches depth first from t and stops at any cycle.
CycleSeenFrom(g, t) == \E u \in {t} \cup Reachable(g, t) : u \in Reachable(g, u)

\* CheckDeadlock: the youngest member of one of the cycles of g.
YoungestInCycle(g) ==
    {v \in Txn : v \in Reachable([t \in Txn |-> {u \in g[t] : u <= v /\ t <= v}], v)}

\* Who has t wait: the other holders of its item.
Blockers(t) == Holders(ItemOf(t)) \ {t}

NoEdges == [u \in Txn |-> {}]
Unseen == [next |-> 1, edges |-> NoEdges]

\* The graph of the inline check: the edges it has collected shard by shard,
\* and those from t to its blockers.
QueueGraph(t) == [seen[t].edges EXCEPT ![t] = @ \cup Blockers(t)]

DropEdges(t) == [u \in Txn |-> IF u = t THEN {} ELSE waits_for[u] \ {t}]

-----------------------------------------------------------------------------
Init ==
    /\ granted = [i \in Item |-> <<>>]
    /\ waiting = [i \in Item |-> {}]
    /\ group = [i \in Item |-> "NON_LOCK"]
    /\ latch = [i \in Item |-> Nil]
    /\ pc = [t \in Txn |-> "run"]
    /\ req = [t \in Txn |-> NoRequest]
    /\ requests = [t \in Txn |-> 0]
    /\ lock_set = [t \in Txn |-> {}]
    /\ waits_for = NoEdges
    /\ seen = [t \in Txn |-> Unseen]
    /\ victims = {}
    /\ det = [pc |-> "idle", victim |-> Nil, next |-> 1]

-----------------------------------------------------------------------------
(* lock_common, the part before the loop: what does t hold on i already? *)

\* A granted lock of t covers the request.
Covers(held, m) ==
    \/ m \in held
    \/ "X" \in held
    \/ m = "IS" /\ "IX" \in held

Start(t, i, m) ==
    /\ pc[t] = "run"
    /\ requests[t] < MaxReq
    /\ latch[i] = Nil
    /\ <<i, m>> \in Wants[t]
    /\ requests' = [requests EXCEPT ![t] = @ + 1]

RequestCovered(t, i, m) ==
    /\ Start(t, i, m)
    /\ Covers(HeldModes(t, i), m)
    /\ UNCHANGED <<queues, seen, waiting, latch, pc, req, lock_set, waits_for, victims, det>>

\* Mutant: the upgrade does not look for other holders.
RequestUpgradeBlindly(t, i, m) ==
    /\ Start(t, i, m)
    /\ m = "X" /\ "S" \in HeldModes(t, i) /\ "X" \notin HeldModes(t, i)
    /\ granted' = [granted EXCEPT ![i] =
                       [k \in DOMAIN @ |-> IF @[k] = <<t, "S">> THEN <<t, "X">> ELSE @[k]]]
    /\ group' = [group EXCEPT ![i] = GroupOf(granted'[i])]
    /\ UNCHANGED <<seen, waiting, latch, pc, req, lock_set, waits_for, victims, det>>

\* Mutant: the upgrade enqueues a second granted request.
RequestUpgradeAppends(t, i, m) ==
    /\ Start(t, i, m)
    /\ m = "X" /\ "S" \in HeldModes(t, i) /\ "X" \notin HeldModes(t, i)
    /\ Holders(i) = {t}
    /\ granted' = [granted EXCEPT ![i] = Append(@, <<t, "X">>)]
    /\ group' = [group EXCEPT ![i] = GroupOf(granted'[i])]
    /\ UNCHANGED <<seen, waiting, latch, pc, req, lock_set, waits_for, victims, det>>


\* S to X in place, when nobody else holds anything on the item.
RequestUpgrade(t, i, m) ==
    /\ Start(t, i, m)
    /\ m = "X" /\ "S" \in HeldModes(t, i) /\ "X" \notin HeldModes(t, i)
    /\ Holders(i) = {t}
    /\ granted' = [granted EXCEPT ![i] =
                       [k \in DOMAIN @ |-> IF @[k] = <<t, "S">> THEN <<t, "X">> ELSE @[k]]]
    /\ group' = [group EXCEPT ![i] = GroupOf(granted'[i])]
    /\ UNCHANGED <<seen, waiting, latch, pc, req, lock_set, waits_for, victims, det>>

\* UPGRADE_CONFLICT: another holder, the upgrading transaction aborts.
RequestUpgradeConflict(t, i, m) ==
    /\ Start(t, i, m)
    /\ m = "X" /\ "S" \in HeldModes(t, i) /\ "X" \notin HeldModes(t, i)
    /\ Holders(i) # {t}
    /\ pc' = [pc EXCEPT ![t] = "aborting"]
    /\ UNCHANGED <<queues, seen, waiting, latch, req, lock_set, waits_for, victims, det>>

\* Otherwise enter the loop, with the latch of the shard.
RequestEnter(t, i, m) ==
    /\ Start(t, i, m)
    /\ ~Covers(HeldModes(t, i), m)
    /\ ~(m = "X" /\ "S" \in HeldModes(t, i))
    /\ latch' = [latch EXCEPT ![i] = t]
    /\ req' = [req EXCEPT ![t] = <<i, m>>]
    /\ pc' = [pc EXCEPT ![t] = "loop"]
    /\ UNCHANGED <<queues, seen, waiting, lock_set, waits_for, victims, det>>

-----------------------------------------------------------------------------
(* lock_common, the loop *)

Compatible(t) == is_compatible(ModeOf(t), group[ItemOf(t)])

\* A TransactionAbortException makes the statement abort its transaction, but
\* the insert executor swallows that of an insert intention lock.
PcAfterThrow(t) == IF ModeOf(t) = "INSERT_INT" THEN "run" ELSE "aborting"

Grant(t) ==
    /\ pc[t] = "loop"
    /\ Compatible(t)
    /\ LET i == ItemOf(t) IN
           /\ granted' = [granted EXCEPT ![i] = Append(@, <<t, ModeOf(t)>>)]
           /\ group' = [group EXCEPT ![i] = GroupOf(granted'[i])]
           /\ lock_set' = [lock_set EXCEPT ![t] = @ \cup {i}]
           /\ latch' = [latch EXCEPT ![i] = Nil]
    /\ pc' = [pc EXCEPT ![t] = "run"]
    /\ req' = [req EXCEPT ![t] = NoRequest]
    /\ UNCHANGED <<seen, waiting, requests, waits_for, victims, det>>

\* The inline check reads one more shard, without its latch: the edges from each
\* ungranted request to the holders of its item.
ScanShard(t) ==
    /\ pc[t] = "loop"
    /\ ~Compatible(t)
    /\ Blockers(t) # {}
    /\ seen[t].next <= N
    /\ LET i == Shards[seen[t].next] IN
           seen' = [seen EXCEPT ![t] =
               [next  |-> @.next + 1,
                edges |-> [u \in Txn |-> @.edges[u] \cup
                              IF u \in waiting[i] THEN Holders(i) \ {u} ELSE {}]]]
    /\ UNCHANGED <<queues, waiting, latch, pc, req, requests, lock_set, waits_for,
                   victims, det>>

\* Mutant: the exception leaves the latch of the shard taken.
InlineDeadlockKeepsLatch(t) ==
    /\ pc[t] = "loop"
    /\ ~Compatible(t)
    /\ Blockers(t) # {} /\ seen[t].next > N
    /\ CycleSeenFrom(QueueGraph(t), t)
    /\ seen' = [seen EXCEPT ![t] = Unseen]
    /\ waits_for' = DropEdges(t)
    /\ pc' = [pc EXCEPT ![t] = PcAfterThrow(t)]
    /\ req' = [req EXCEPT ![t] = NoRequest]
    /\ UNCHANGED <<queues, waiting, latch, requests, lock_set, victims, det>>

\* The inline check finds a cycle: the requestor gives up, whoever the victim is.
InlineDeadlock(t) ==
    /\ pc[t] = "loop"
    /\ ~Compatible(t)
    /\ Blockers(t) # {} /\ seen[t].next > N
    /\ CycleSeenFrom(QueueGraph(t), t)
    /\ seen' = [seen EXCEPT ![t] = Unseen]
    /\ waits_for' = DropEdges(t)
    /\ latch' = [latch EXCEPT ![ItemOf(t)] = Nil]
    /\ pc' = [pc EXCEPT ![t] = PcAfterThrow(t)]
    /\ req' = [req EXCEPT ![t] = NoRequest]
    /\ UNCHANGED <<queues, waiting, requests, lock_set, victims, det>>

\* No cycle seen: publish the edges to the present holders ...
Block(t) ==
    /\ pc[t] = "loop"
    /\ ~Compatible(t)
    /\ \/ Blockers(t) = {}
       \/ seen[t].next > N /\ ~CycleSeenFrom(QueueGraph(t), t)
    /\ waits_for' = [waits_for EXCEPT ![t] = @ \cup Blockers(t)]
    /\ seen' = [seen EXCEPT ![t] = Unseen]
    /\ pc' = [pc EXCEPT ![t] = "block"]
    /\ UNCHANGED <<queues, waiting, latch, req, requests, lock_set, victims, det>>

\* ... then enqueue an ungranted request and sleep, which releases the latch.
Sleep(t) ==
    /\ pc[t] = "block"
    /\ waiting' = [waiting EXCEPT ![ItemOf(t)] = @ \cup {t}]
    /\ latch' = [latch EXCEPT ![ItemOf(t)] = Nil]
    /\ pc' = [pc EXCEPT ![t] = "asleep"]
    /\ UNCHANGED <<queues, seen, req, requests, lock_set, waits_for, victims, det>>

\* Notified, and the latch is free: dequeue, drop every edge from and to t, and
\* go round the loop again, unless the detector has marked t.
WakeUp(t) ==
    /\ pc[t] = "notified"
    /\ latch[ItemOf(t)] = Nil
    /\ t \notin victims
    /\ waiting' = [waiting EXCEPT ![ItemOf(t)] = @ \ {t}]
    /\ waits_for' = DropEdges(t)
    /\ latch' = [latch EXCEPT ![ItemOf(t)] = t]
    /\ pc' = [pc EXCEPT ![t] = "loop"]
    /\ UNCHANGED <<queues, seen, req, requests, lock_set, victims, det>>

WakeUpVictim(t) ==
    /\ pc[t] = "notified"
    /\ latch[ItemOf(t)] = Nil
    /\ t \in victims
    /\ waiting' = [waiting EXCEPT ![ItemOf(t)] = @ \ {t}]
    /\ waits_for' = DropEdges(t)
    /\ victims' = victims \ {t}
    /\ pc' = [pc EXCEPT ![t] = PcAfterThrow(t)]
    /\ req' = [req EXCEPT ![t] = NoRequest]
    /\ UNCHANGED <<queues, seen, latch, requests, lock_set, det>>

-----------------------------------------------------------------------------
(* unlock, called by commit and abort for every item of lock_set_ *)

Commit(t) ==
    /\ pc[t] = "run"
    /\ pc' = [pc EXCEPT ![t] = "committing"]
    /\ UNCHANGED <<queues, seen, waiting, latch, req, requests, lock_set, waits_for,
                   victims, det>>

Notified(p, i) == [t \in Txn |-> IF t \in waiting[i] /\ p[t] = "asleep"
                                 THEN "notified" ELSE p[t]]

\* The queue without its first granted request of t.
WithoutFirst(q, t) ==
    LET first == CHOOSE k \in DOMAIN q : /\ q[k][1] = t
                                         /\ \A n \in 1 .. k - 1 : q[n][1] # t
    IN  SubSeq(q, 1, first - 1) \o SubSeq(q, first + 1, Len(q))

\* Mutant: waiters are notified only once the item is free.
UnlockLastNotifies(t, i) ==
    /\ pc[t] \in {"committing", "aborting"}
    /\ i \in lock_set[t]
    /\ latch[i] = Nil
    /\ IF t \in Holders(i)
       THEN /\ granted' = [granted EXCEPT ![i] = WithoutFirst(@, t)]
            /\ group' = [group EXCEPT ![i] = GroupOf(granted'[i])]
            /\ pc' = IF granted'[i] = <<>> THEN Notified(pc, i) ELSE pc
       ELSE UNCHANGED <<queues, pc>>
    /\ lock_set' = [lock_set EXCEPT ![t] = @ \ {i}]
    /\ UNCHANGED <<seen, waiting, latch, req, requests, waits_for, victims, det>>


Unlock(t, i) ==
    /\ pc[t] \in {"committing", "aborting"}
    /\ i \in lock_set[t]
    /\ latch[i] = Nil
    /\ IF t \in Holders(i)
       THEN /\ granted' = [granted EXCEPT ![i] = WithoutFirst(@, t)]
            /\ group' = [group EXCEPT ![i] = GroupOf(granted'[i])]
            /\ pc' = Notified(pc, i)
       ELSE UNCHANGED <<queues, pc>>
    /\ lock_set' = [lock_set EXCEPT ![t] = @ \ {i}]
    /\ UNCHANGED <<seen, waiting, latch, req, requests, waits_for, victims, det>>

Finish(t) ==
    /\ pc[t] \in {"committing", "aborting"}
    /\ lock_set[t] = {}
    /\ pc' = [pc EXCEPT ![t] = IF @ = "committing" THEN "committed" ELSE "aborted"]
    /\ UNCHANGED <<queues, seen, waiting, latch, req, requests, lock_set, waits_for,
                   victims, det>>

-----------------------------------------------------------------------------
(* CheckDeadlock, run by the detector thread every 100 ms *)

DetectorSnapshot ==
    /\ det.pc = "idle"
    /\ \E v \in YoungestInCycle(waits_for) :
           det' = [pc |-> "mark", victim |-> v, next |-> 1]
    /\ UNCHANGED <<queues, seen, waiting, latch, pc, req, requests, lock_set,
                   waits_for, victims>>

DetectorMark ==
    /\ det.pc = "mark"
    /\ victims' = victims \cup {det.victim}
    /\ det' = [det EXCEPT !.pc = "scan"]
    /\ UNCHANGED <<queues, seen, waiting, latch, pc, req, requests, lock_set, waits_for>>

\* Shard by shard, each under its latch, until one has the victim waiting.
DetectorScan ==
    /\ det.pc = "scan"
    /\ det.next <= N
    /\ LET i == Shards[det.next] IN
           /\ latch[i] = Nil
           /\ IF det.victim \in waiting[i]
              THEN /\ pc' = Notified(pc, i)
                   /\ det' = [det EXCEPT !.next = N + 1]
              ELSE /\ det' = [det EXCEPT !.next = @ + 1]
                   /\ UNCHANGED pc
    /\ UNCHANGED <<queues, seen, waiting, latch, req, requests, lock_set, waits_for,
                   victims>>

DetectorClean ==
    /\ det.pc = "scan"
    /\ det.next > N
    /\ waits_for' = DropEdges(det.victim)
    /\ det' = [pc |-> "idle", victim |-> Nil, next |-> 1]
    /\ UNCHANGED <<queues, seen, waiting, latch, pc, req, requests, lock_set, victims>>

-----------------------------------------------------------------------------
Request(t) ==
    \E i \in Item, m \in Mode :
        \/ RequestCovered(t, i, m)
        \/ RequestUpgrade(t, i, m)
        \/ RequestUpgradeConflict(t, i, m)
        \/ RequestEnter(t, i, m)

LoopStep(t) == Grant(t) \/ ScanShard(t) \/ InlineDeadlock(t) \/ Block(t) \/ Sleep(t)
WakeStep(t) == WakeUp(t) \/ WakeUpVictim(t)
EndStep(t) == Commit(t) \/ Finish(t) \/ \E i \in Item : Unlock(t, i)
DetectorStep ==
    DetectorSnapshot \/ DetectorMark \/ DetectorScan \/ DetectorClean

Next ==
    \/ \E t \in Txn : Request(t) \/ LoopStep(t) \/ WakeStep(t) \/ EndStep(t)
    \/ DetectorStep

Spec == Init /\ [][Next]_vars

\* A thread inside lock_common, unlock or the detector goes on, although it
\* competes for latches, and a transaction ends some day.
Fairness ==
    /\ \A t \in Txn : SF_vars(LoopStep(t) \/ WakeStep(t) \/ EndStep(t))
    /\ SF_vars(DetectorStep)

FairSpec == Spec /\ Fairness

-----------------------------------------------------------------------------
(* Properties *)

\* The latch of a shard is taken only by a transaction that is inside lock_common, with
\* a request for its item: however it leaves, granted, asleep or by an exception, it has
\* given the latch up.
LatchOwned ==
    \A i \in Item : latch[i] # Nil =>
        pc[latch[i]] \in {"loop", "block"} /\ ItemOf(latch[i]) = i

TypeOK ==
    /\ granted \in [Item -> Seq(Txn \X Mode)]
    /\ waiting \in [Item -> SUBSET Txn]
    /\ group \in [Item -> GroupMode]
    /\ latch \in [Item -> Txn \cup {Nil}]
    /\ pc \in [Txn -> {"run", "loop", "block", "asleep", "notified",
                       "committing", "aborting", "committed", "aborted"}]
    /\ req \in [Txn -> (Item \X Mode) \cup {NoRequest}]
    /\ requests \in [Txn -> 0 .. MaxReq]
    /\ lock_set \in [Txn -> SUBSET Item]
    /\ waits_for \in [Txn -> SUBSET Txn]
    /\ seen \in [Txn -> [next : 1 .. N + 1, edges : [Txn -> SUBSET Txn]]]
    /\ victims \subseteq Txn
    /\ det \in [pc : {"idle", "mark", "scan"}, victim : Txn \cup {Nil}, next : 1 .. N + 1]
    /\ LatchOwned

\* Two transactions never hold conflicting locks on one item: what is_compatible
\* decides from the group mode alone is right for each granted request.
NoConflictingGrants ==
    \A i \in Item : \A k, n \in DOMAIN granted[i] :
        granted[i][k][1] # granted[i][n][1] =>
            is_compatible(granted[i][k][2], Strongest({granted[i][n][2]}))

\* A transaction that still sleeps on an item could not be granted its lock:
\* whoever made room notified it.
NoLostWakeUp == \A t \in Txn : pc[t] = "asleep" => ~Compatible(t)

\* commit and abort leave no record or gap lock of the transaction behind.  (A
\* table lock may stay: a transaction that took IS and then IX owns two granted
\* requests on the table, lock_set_ holds the table once and unlock removes one.)
EndedHoldsNoRecordOrGap ==
    \A t \in Txn : pc[t] \in {"committed", "aborted"} =>
        \A i \in Record \cup Gap : t \notin Holders(i)

\* No transaction waits for ever: deadlocks are found and broken.
EveryTransactionEnds == <>(\A t \in Txn : pc[t] \in {"committed", "aborted"})

=============================================================================
