----------------------------- MODULE Joins_proof -----------------------------
(***************************************************************************)
(* What the three joins emit: theorems about Joins, for children with any  *)
(* number of rows and any outcome of the conditions.                       *)
(***************************************************************************)
EXTENDS Joins, TLAPS

\* A cursor between two joins is a new one, and a join is opened with it.
Fresh ==
    /\ cursor.phase = "start" => cursor = StartCursor
    /\ cursor.phase # "start" => join \in JoinOf(join.lefts, join.rights)

\* Only matching pairs are emitted.  A FULL join marks the right row of each: with
\* RightIsDone, this is what the code pads, which JoinIsExact says nothing about.
Sound == \A a \in Left, b \in Right : Emits(a, b) => Match(a, b)
Marks ==
    (cursor.phase # "start" /\ join.type = "FULL") =>
        \A b \in Right : b \in cursor.rmatched <=> \E a \in Left : Emits(a, b)

\* Right rows are padded in the last phase.
PadsLast == cursor.phase \notin {"start", "unmatched", "closing", "crash"} => \A b \in Right : ~Emits(0, b)

\* The nested loop has emitted the matches of the left rows behind it and those of
\* its own up to the right one, and padded the left rows behind it.
Scanned ==
    At("nlj", "scan") =>
        /\ cursor.l \in Left /\ cursor.r \in 0..join.rights
        /\ (cursor.has = TRUE) <=> \E b \in 1..cursor.r : Match(cursor.l, b)
        /\ \A a \in Left, b \in Right :
               Emits(a, b) <=> Match(a, b) /\ (a < cursor.l \/ (a = cursor.l /\ b <= cursor.r))
        /\ \A a \in Left : Emits(a, 0) <=> Outer /\ a < cursor.l /\ AloneLeft(a)

\* The hash join has emitted the matches of the right rows behind it and those of
\* its own but for the range.
Matched(a) == a \in cursor.lmatched <=> \E b \in Right : Emits(a, b)
Probed ==
    At("hash", "probe") =>
        /\ cursor.r \in 0..join.rights
        /\ \A a \in cursor.range : cursor.r \in Right /\ <<a, cursor.r>> \in join.equal
        /\ \A a \in Left, b \in Right :
               Emits(a, b) <=> Match(a, b) /\ (b < cursor.r \/ (b = cursor.r /\ a \notin cursor.range))
        /\ \A a \in Left : ~Emits(a, 0) /\ Matched(a)

\* Then it pads the left rows up to its position.
NullRight ==
    At("hash", "nullright") =>
        /\ Outer
        /\ \A a \in Left, b \in Right : Emits(a, b) <=> Match(a, b)
        /\ \A a \in Left : Matched(a) /\ (Emits(a, 0) <=> a <= cursor.l /\ AloneLeft(a))

\* The sort-merge join has emitted nothing of the left rows before it, and of its
\* own what the phase allows.
Merging == join.tag = "smj" /\ cursor.phase \in {"first", "group", "padded", "next"}
Merged ==
    Merging =>
        /\ cursor.l \in Left
        /\ \A a \in Left : /\ Emits(a, 0) => a < cursor.l \/ (cursor.phase = "next" /\ a = cursor.l)
                           /\ \A b \in Right : Emits(a, b) =>
                                  \/ a < cursor.l
                                  \/ a = cursor.l /\ cursor.phase = "group" /\ b <= cursor.m

\* A join other than the sort-merge join leaves its left child with every match
\* emitted, and every left row without one padded if it is an outer join.
LeftIsDone ==
    (cursor.phase \in {"unmatched", "closing"} /\ join.tag # "smj") =>
        /\ \A a \in Left, b \in Right : Emits(a, b) <=> Match(a, b)
        /\ \A a \in Left : Emits(a, 0) <=> Outer /\ AloneLeft(a)

\* The right rows are padded up to the position, one behind those without a match.
RightIsDone ==
    /\ cursor.phase = "unmatched" =>
           /\ join.type = "FULL" /\ cursor.r # 0
           /\ \A b \in Right : Emits(0, b) <=> 1 < b /\ b <= cursor.r /\ b - 1 \notin cursor.rmatched
    /\ cursor.phase = "closing" =>
           \A b \in Right : Emits(0, b) =>
               join.type = "FULL" /\ 1 < b /\ b - 1 \notin cursor.rmatched
    /\ cursor.phase = "closing" /\ join.tag # "smj" =>
           \A b \in Right : join.type = "FULL" /\ 1 < b /\ b - 1 \notin cursor.rmatched => Emits(0, b)

Phased ==
    /\ cursor.phase = "scan" => join.tag = "nlj"
    /\ cursor.phase \in {"probe", "nullright"} => join.tag = "hash"
    /\ cursor.phase \in {"first", "group", "padded", "next"} => join.tag = "smj"

IInv ==
    /\ JoinTypeOK /\ NoPairTwice
    /\ Fresh /\ Phased /\ Sound /\ Marks /\ PadsLast
    /\ Scanned /\ Probed /\ NullRight /\ Merged
    /\ LeftIsDone /\ RightIsDone

-----------------------------------------------------------------------------
(* Sequences of pairs *)

\* A side is a position or padded, but not both are.
Sides == (0..join.lefts) \X (0..join.rights) \ {<<0, 0>>}

\* An emitted pair is behind those before.
LEMMA MoveAdds ==
    ASSUME pairs \in Seq(Sides), NoPairTwice, NEW p \in Sides, ~Contains(pairs, p),
           NEW c, Move(c, <<p>>)
    PROVE  /\ cursor' = c /\ join' = join
           /\ pairs' \in Seq(Sides) /\ NoPairTwice'
           /\ \A q : Contains(pairs', q) <=> Contains(pairs, q) \/ q = p
<1>1. /\ cursor' = c /\ join' = join /\ pairs' = pairs \o <<p>>
  BY DEF Move
<1>2. /\ pairs' \in Seq(Sides)
      /\ Len(pairs') = Len(pairs) + 1
      /\ \A i \in 1..Len(pairs) : pairs'[i] = pairs[i]
      /\ pairs'[Len(pairs) + 1] = p
  BY <1>1
<1>3. Len(pairs) \in Nat /\ DOMAIN pairs = 1..Len(pairs) /\ DOMAIN pairs' = 1..Len(pairs')
  BY <1>2
<1>4. \A q : Contains(pairs', q) <=> Contains(pairs, q) \/ q = p
  BY <1>2, <1>3 DEF Contains
<1>5. NoPairTwice'
  BY <1>2, <1>3 DEF Contains, NoPairTwice
<1>6. QED BY <1>1, <1>2, <1>4, <1>5

\* A move that emits nothing.
LEMMA MoveOnly ==
    ASSUME pairs \in Seq(Sides), NEW c, Move(c, <<>>)
    PROVE  cursor' = c /\ join' = join /\ pairs' = pairs
BY DEF Move

\* What the cursor of an open join is made of.
Cursors == [phase : Phases, l : 0..join.lefts, r : 0..join.rights \union {1}, has : BOOLEAN,
            range : SUBSET Left, lmatched : SUBSET Left, rmatched : SUBSET Right, m : 0..join.rights]

\* The part of IInv that every step needs.
LEMMA OpenJoins ==
    ASSUME IInv, cursor.phase # "start"
    PROVE  /\ join \in JoinOf(join.lefts, join.rights)
           /\ join.lefts \in Nat /\ join.rights \in Nat
           /\ join.outcome \in [Left \X Right -> Outcomes]
           /\ cursor \in Cursors /\ pairs \in Seq(Sides) /\ NoPairTwice
BY DEF IInv, Fresh, JoinTypeOK, JoinOf, Cursors, Sides, Left, Right

\* The outcome of a look.
LEMMA Looks ==
    ASSUME IInv, cursor.phase # "start", NEW l \in Left, NEW r \in Right, ~Emits(l, r),
           NEW next, NEW matched, Look(l, r, next, matched)
    PROVE  \/ /\ join.outcome[<<l, r>>] = "yes" /\ cursor' = matched /\ join' = join
              /\ pairs' \in Seq(Sides) /\ NoPairTwice'
              /\ \A a, b : Emits(a, b)' <=> Emits(a, b) \/ (a = l /\ b = r)
           \/ join.outcome[<<l, r>>] = "no" /\ cursor' = next /\ join' = join /\ pairs' = pairs
           \/ /\ join.outcome[<<l, r>>] = "crash" /\ cursor' = [cursor EXCEPT !.phase = "crash"]
              /\ join' = join /\ pairs' = pairs
<1>1. /\ pairs \in Seq(Sides) /\ NoPairTwice
  BY OpenJoins
<1>2. <<l, r>> \in Sides
  BY OpenJoins DEF Sides, Left, Right
<1>3. CASE join.outcome[<<l, r>>] = "yes" /\ Move(matched, <<<<l, r>>>>)
  <2>1. ~Contains(pairs, <<l, r>>)
    BY DEF Emits
  <2>2. /\ cursor' = matched /\ join' = join
        /\ pairs' \in Seq(Sides) /\ NoPairTwice'
        /\ \A q : Contains(pairs', q) <=> Contains(pairs, q) \/ q = <<l, r>>
    BY <1>1, <1>2, <1>3, <2>1, MoveAdds
  <2>3. \A a, b : Emits(a, b)' <=> Emits(a, b) \/ (a = l /\ b = r)
    BY <2>2 DEF Emits
  <2>4. QED BY <1>3, <2>2, <2>3
<1>4. CASE join.outcome[<<l, r>>] = "no" /\ Move(next, <<>>)
  BY <1>1, <1>4, MoveOnly
<1>5. CASE join.outcome[<<l, r>>] = "crash" /\ Move([cursor EXCEPT !.phase = "crash"], <<>>)
  BY <1>1, <1>5, MoveOnly
<1>6. QED BY <1>3, <1>4, <1>5 DEF Look

\* What depends on the join alone.
LEMMA SameJoin ==
    ASSUME join' = join
    PROVE  /\ Left' = Left /\ Right' = Right /\ Sides' = Sides /\ Cursors' = Cursors
           /\ \A a, b : Match(a, b)' <=> Match(a, b)
           /\ \A a : AloneLeft(a)' <=> AloneLeft(a)
           /\ Outer' <=> Outer
BY DEF Left, Right, Sides, Cursors, Match, AloneLeft, Outer, OuterJoin

\* A cursor d that is c with r marked in a FULL join ...
Marking(d, c, r) ==
    /\ join.type = "FULL" => d.rmatched = c.rmatched \union {r}
    /\ join.type # "FULL" => d.rmatched = c.rmatched

\* ... and for the rest as Marked leaves it.
MarkedFrom(d, c, l, r) ==
    /\ d \in Cursors /\ d.has = TRUE /\ Marking(d, c, r)
    /\ d.phase = c.phase /\ d.l = c.l /\ d.r = c.r /\ d.m = c.m /\ d.range = c.range
    /\ d.lmatched = c.lmatched \union {l}

LEMMA MarkedCursor ==
    ASSUME NEW c \in Cursors, NEW l \in Left, NEW r \in Right
    PROVE  MarkedFrom(Marked(c, l, r), c, l, r)
<1>1. c.lmatched \union {l} \in SUBSET Left /\ c.rmatched \union {r} \in SUBSET Right
  BY DEF Cursors
<1>2. QED BY <1>1 DEF Cursors, Marked, Marking, MarkedFrom

\* A pair that matches is emitted and marked.
LEMMA MarkStep ==
    ASSUME IInv, cursor.phase # "start", join' = join,
           NEW l \in Left, NEW r \in Right, join.outcome[<<l, r>>] = "yes", join.tag = "hash" => <<l, r>> \in join.equal,
           \A a, b : Emits(a, b)' <=> Emits(a, b) \/ (a = l /\ b = r),
           Marking(cursor', cursor, r)
    PROVE  Sound' /\ Marks'
<1>1. Match(l, r)
  BY DEF Match
<1>2. Sound'
  BY <1>1, SameJoin DEF IInv, Sound
<1>3. Marks'
  BY SameJoin DEF IInv, Marks, Marking
<1>4. QED BY <1>2, <1>3

\* A crash in a condition ends the join.
LEMMA Crashes ==
    ASSUME IInv, cursor.phase # "start", cursor' = [cursor EXCEPT !.phase = "crash"], join' = join, pairs' = pairs
    PROVE  IInv'
<1>1. /\ join \in JoinOf(join.lefts, join.rights) /\ join.lefts \in Nat /\ join.rights \in Nat
      /\ cursor \in Cursors /\ pairs \in Seq(Sides)
  BY OpenJoins
<1>2. cursor' \in Cursors /\ cursor'.phase = "crash" /\ cursor'.rmatched = cursor.rmatched
  BY <1>1 DEF Cursors, Phases
<1>3. \A a, b : Emits(a, b)' <=> Emits(a, b)
  BY DEF Emits
<1>4. JoinTypeOK' /\ NoPairTwice'
  BY <1>1, <1>2, SameJoin DEF IInv, JoinTypeOK, NoPairTwice, Cursors, Sides
<1>5. Fresh' /\ Phased' /\ Sound' /\ Marks'
  BY <1>1, <1>2, <1>3, SameJoin DEF IInv, Fresh, Phased, Sound, Marks
<1>6. PadsLast'
  BY <1>2 DEF PadsLast
<1>7. Scanned' /\ Probed' /\ NullRight' /\ Merged' /\ LeftIsDone' /\ RightIsDone'
  BY <1>2 DEF Scanned, Probed, NullRight, Merged, Merging, LeftIsDone, RightIsDone, At
<1>8. QED BY <1>4, <1>5, <1>6, <1>7 DEF IInv

-----------------------------------------------------------------------------
(* The nested-loop join *)

LEMMA NljScanStep ==
    ASSUME IInv, NljScan
    PROVE  IInv'
<1> DEFINE l == cursor.l
           r == cursor.r + 1
           next == [cursor EXCEPT !.r = @ + 1]
           matched == Marked(next, l, r)
<1>1. /\ join \in JoinOf(join.lefts, join.rights) /\ join.lefts \in Nat /\ join.rights \in Nat
      /\ cursor \in Cursors /\ pairs \in Seq(Sides) /\ NoPairTwice
      /\ At("nlj", "scan") /\ cursor.r < join.rights /\ cursor.phase # "start" /\ join.tag # "hash"
  BY OpenJoins DEF NljScan, At
<1>2. l \in Left /\ r \in Right /\ cursor.r \in Nat /\ l \in Nat
  BY <1>1 DEF IInv, Scanned, Left, Right, Cursors
<1>3. /\ next \in Cursors /\ next.phase = "scan" /\ next.l = l /\ next.r = r
      /\ next.has = cursor.has /\ next.rmatched = cursor.rmatched
  BY <1>1, <1>2 DEF Cursors, At, Right
<1>4. ~Emits(l, r)
  BY <1>1, <1>2 DEF IInv, Scanned
<1>5. Look(l, r, next, matched)
  BY <1>3 DEF NljScan
<1> HIDE DEF next
<1>6. CASE /\ join.outcome[<<l, r>>] = "yes" /\ cursor' = matched /\ join' = join
           /\ pairs' \in Seq(Sides) /\ NoPairTwice'
           /\ \A a, b : Emits(a, b)' <=> Emits(a, b) \/ (a = l /\ b = r)
  <2>1. /\ cursor' \in Cursors /\ cursor'.phase = "scan" /\ cursor'.l = l /\ cursor'.r = r
        /\ cursor'.has = TRUE
        /\ Marking(cursor', cursor, r)
    <3>1. MarkedFrom(matched, next, l, r)
      BY <1>2, <1>3, MarkedCursor
    <3> HIDE DEF matched
    <3>2. QED BY <1>3, <1>6, <3>1 DEF MarkedFrom, Marking
  <2>2. JoinTypeOK' /\ Fresh' /\ Phased'
    BY <1>1, <1>6, <2>1, SameJoin DEF JoinTypeOK, Cursors, Sides, Fresh, Phased, At
  <2>3. Sound' /\ Marks'
    BY <1>1, <1>2, <1>6, <2>1, MarkStep
  <2>4. PadsLast'
    BY <1>1, <1>2, <1>6, <2>1, SameJoin DEF IInv, PadsLast, At, Left
  <2>5. Match(l, r)
    BY <1>1, <1>6 DEF Match
  <2>6. Scanned'
    <3>1. (cursor'.has = TRUE) <=> \E b \in 1..cursor'.r : Match(cursor.l, b)'
      BY <1>2, <2>1, <2>5, <1>6, SameJoin
    <3>2. \A a \in Left, b \in Right :
             Emits(a, b)' <=> Match(a, b)' /\ (a < cursor'.l \/ (a = cursor'.l /\ b <= cursor'.r))
      BY <1>1, <1>2, <1>6, <2>1, <2>5, SameJoin DEF IInv, Scanned, Left, Right
    <3>3. \A a \in Left : Emits(a, 0)' <=> Outer' /\ a < cursor'.l /\ AloneLeft(a)'
      BY <1>1, <1>2, <1>6, <2>1, SameJoin DEF IInv, Scanned, Right
    <3>4. QED BY <1>2, <1>6, <2>1, <3>1, <3>2, <3>3, SameJoin DEF Scanned, Right
  <2>7. Probed' /\ NullRight' /\ Merged' /\ LeftIsDone' /\ RightIsDone'
    BY <2>1 DEF Probed, NullRight, Merged, Merging, LeftIsDone, RightIsDone, At
  <2>8. QED BY <1>6, <2>2, <2>3, <2>4, <2>6, <2>7 DEF IInv
<1>7. CASE join.outcome[<<l, r>>] = "no" /\ cursor' = next /\ join' = join /\ pairs' = pairs
  <2>1. ~Match(l, r) /\ \A a, b : Emits(a, b)' <=> Emits(a, b)
    BY <1>7 DEF Match, Emits
  <2>2. JoinTypeOK' /\ NoPairTwice' /\ Fresh' /\ Phased'
    BY <1>1, <1>3, <1>7, SameJoin DEF JoinTypeOK, Cursors, Sides, Fresh, Phased, At, NoPairTwice
  <2>3. Sound' /\ Marks' /\ PadsLast'
    BY <1>1, <1>3, <1>7, <2>1, SameJoin DEF IInv, Sound, Marks, PadsLast, At
  <2>4. Scanned'
    <3>1. (cursor'.has = TRUE) <=> \E b \in 1..cursor'.r : Match(cursor.l, b)'
      BY <1>1, <1>2, <1>3, <2>1, <1>7, SameJoin DEF IInv, Scanned
    <3>2. \A a \in Left, b \in Right :
             Emits(a, b)' <=> Match(a, b)' /\ (a < cursor'.l \/ (a = cursor'.l /\ b <= cursor'.r))
      BY <1>1, <1>2, <1>3, <1>7, <2>1, SameJoin DEF IInv, Scanned, Left, Right
    <3>3. \A a \in Left : Emits(a, 0)' <=> Outer' /\ a < cursor'.l /\ AloneLeft(a)'
      BY <1>1, <1>2, <1>3, <1>7, <2>1, SameJoin DEF IInv, Scanned
    <3>4. QED BY <1>2, <1>3, <1>7, <3>1, <3>2, <3>3, SameJoin DEF Scanned, Right
  <2>5. Probed' /\ NullRight' /\ Merged' /\ LeftIsDone' /\ RightIsDone'
    BY <1>3, <1>7 DEF Probed, NullRight, Merged, Merging, LeftIsDone, RightIsDone, At
  <2>6. QED BY <2>2, <2>3, <2>4, <2>5 DEF IInv
<1>8. CASE /\ join.outcome[<<l, r>>] = "crash" /\ cursor' = [cursor EXCEPT !.phase = "crash"]
           /\ join' = join /\ pairs' = pairs
  BY <1>1, <1>8, Crashes
<1>9. QED BY <1>1, <1>2, <1>4, <1>5, <1>6, <1>7, <1>8, Looks

\* A move between two looks, which may pad a row.
LEMMA Pads ==
    ASSUME IInv, cursor.phase # "start", NEW p \in Sides, ~Contains(pairs, p), NEW c, Move(c, <<p>>)
    PROVE  /\ cursor' = c /\ join' = join /\ pairs' \in Seq(Sides) /\ NoPairTwice'
           /\ \A a, b : Emits(a, b)' <=> Emits(a, b) \/ <<a, b>> = p
<1>1. pairs \in Seq(Sides) /\ NoPairTwice
  BY OpenJoins
<1>2. /\ cursor' = c /\ join' = join /\ pairs' \in Seq(Sides) /\ NoPairTwice'
      /\ \A q : Contains(pairs', q) <=> Contains(pairs, q) \/ q = p
  BY <1>1, MoveAdds
<1>3. QED BY <1>2 DEF Emits

LEMMA PadsNone ==
    ASSUME IInv, cursor.phase # "start", NEW c, Move(c, <<>>)
    PROVE  /\ cursor' = c /\ join' = join /\ pairs' \in Seq(Sides) /\ NoPairTwice'
           /\ \A a, b : Emits(a, b)' <=> Emits(a, b)
<1>1. pairs \in Seq(Sides) /\ NoPairTwice
  BY OpenJoins
<1>2. cursor' = c /\ join' = join /\ pairs' = pairs
  BY <1>1, MoveOnly
<1>3. QED BY <1>1, <1>2 DEF Emits, NoPairTwice

\* Padding a row neither emits nor marks a match.
LEMMA PadStep ==
    ASSUME IInv, cursor.phase # "start", join' = join, pairs' \in Seq(Sides),
           cursor' \in Cursors, cursor'.phase # "start", cursor'.rmatched = cursor.rmatched,
           \A a \in Left, b \in Right : Emits(a, b)' <=> Emits(a, b)
    PROVE  JoinTypeOK' /\ Fresh' /\ Sound' /\ Marks'
<1>1. JoinTypeOK' /\ Fresh'
  BY OpenJoins, SameJoin DEF JoinTypeOK, Fresh, Cursors, Sides
<1>2. Sound' /\ Marks'
  BY SameJoin DEF IInv, Sound, Marks
<1>3. QED BY <1>1, <1>2

\* The left child is at its end with all its rows done.
LEMMA LeftEnds ==
    ASSUME IInv, cursor.phase # "start", join' = join, pairs' \in Seq(Sides), NoPairTwice',
           cursor' = AfterLeft(join, cursor), join.tag # "smj",
           \A a \in Left, b \in Right : /\ Emits(a, b) <=> Match(a, b)
                                        /\ Emits(a, b)' <=> Emits(a, b),
           \A a \in Left : Emits(a, 0)' <=> Outer /\ AloneLeft(a),
           \A b \in Right : ~Emits(0, b)'
    PROVE  IInv'
<1>1. /\ cursor \in Cursors /\ join.lefts \in Nat /\ join.rights \in Nat
  BY OpenJoins
<1>2. /\ cursor' \in Cursors /\ cursor'.r = 1 /\ cursor'.rmatched = cursor.rmatched
      /\ join.type = "FULL" => cursor'.phase = "unmatched"
      /\ join.type # "FULL" => cursor'.phase = "closing"
  BY <1>1 DEF AfterLeft, Cursors, Phases
<1>3. JoinTypeOK' /\ Fresh' /\ Sound' /\ Marks'
  BY <1>2, PadStep
<1>4. Phased' /\ PadsLast' /\ Scanned' /\ Probed' /\ NullRight' /\ Merged'
  BY <1>2 DEF Phased, PadsLast, Scanned, Probed, NullRight, Merged, Merging, At
<1>5. LeftIsDone'
  BY <1>2, SameJoin DEF LeftIsDone
<1>6. RightIsDone'
  BY <1>1, <1>2, SameJoin DEF RightIsDone, Right
<1>7. QED BY <1>3, <1>4, <1>5, <1>6 DEF IInv

LEMMA NljNextLeftStep ==
    ASSUME IInv, NljNextLeft
    PROVE  IInv'
<1> DEFINE l == cursor.l
           next == IF cursor.l = join.lefts THEN AfterLeft(join, cursor)
                   ELSE [cursor EXCEPT !.l = @ + 1, !.r = 0, !.has = FALSE]
<1>1. /\ join \in JoinOf(join.lefts, join.rights) /\ join.lefts \in Nat /\ join.rights \in Nat
      /\ cursor \in Cursors
      /\ At("nlj", "scan") /\ cursor.r = join.rights /\ cursor.phase # "start" /\ join.tag = "nlj"
  BY OpenJoins DEF NljNextLeft, At
<1>2. l \in Left /\ l \in Nat /\ (cursor.has = TRUE \/ cursor.has = FALSE)
  BY <1>1 DEF IInv, Scanned, Left, Cursors
<1>3. cursor.has = TRUE <=> ~AloneLeft(l)
  BY <1>1 DEF IInv, Scanned, AloneLeft, Right
<1>4. \A a \in Left, b \in Right : Emits(a, b) <=> Match(a, b) /\ a <= l
  BY <1>1, <1>2 DEF IInv, Scanned, Left, Right
<1>5. \A a \in Left : Emits(a, 0) <=> Outer /\ a < l /\ AloneLeft(a)
  BY <1>1 DEF IInv, Scanned
<1>6. \A b \in Right : ~Emits(0, b)
  BY <1>1 DEF IInv, PadsLast, At
<1>7. /\ cursor' = next /\ join' = join /\ pairs' \in Seq(Sides) /\ NoPairTwice'
      /\ \A a \in Left, b \in Right : Emits(a, b)' <=> Emits(a, b)
      /\ \A a \in Left : Emits(a, 0)' <=> Outer /\ a <= l /\ AloneLeft(a)
      /\ \A b \in Right : ~Emits(0, b)'
  <2>1. CASE Outer /\ ~cursor.has
    <3>1. <<l, 0>> \in Sides /\ ~Contains(pairs, <<l, 0>>)
      BY <1>1, <1>2, <1>5 DEF Sides, Left, Emits
    <3>2. Move(next, <<<<l, 0>>>>)
      BY <2>1 DEF NljNextLeft
    <3>3. /\ cursor' = next /\ join' = join /\ pairs' \in Seq(Sides) /\ NoPairTwice'
          /\ \A a, b : Emits(a, b)' <=> Emits(a, b) \/ <<a, b>> = <<l, 0>>
      BY <1>1, <3>1, <3>2, Pads
    <3>4. QED BY <1>1, <1>2, <1>3, <1>5, <1>6, <2>1, <3>3 DEF Left, Right
  <2>2. CASE ~(Outer /\ ~cursor.has)
    <3>1. Move(next, <<>>)
      BY <2>2 DEF NljNextLeft
    <3>2. /\ cursor' = next /\ join' = join /\ pairs' \in Seq(Sides) /\ NoPairTwice'
          /\ \A a, b : Emits(a, b)' <=> Emits(a, b)
      BY <1>1, <3>1, PadsNone
    <3>3. QED BY <1>1, <1>2, <1>3, <1>5, <1>6, <2>2, <3>2 DEF Left
  <2>3. QED BY <2>1, <2>2
<1>8. CASE l = join.lefts
  <2>1. \A a \in Left : a <= l
    BY <1>8 DEF Left
  <2>2. QED BY <1>1, <1>4, <1>7, <1>8, <2>1, LeftEnds
<1>9. CASE l # join.lefts
  <2>1. /\ cursor' \in Cursors /\ cursor'.phase = "scan" /\ cursor'.l = l + 1 /\ cursor'.r = 0
        /\ cursor'.has = FALSE /\ cursor'.rmatched = cursor.rmatched /\ l + 1 \in Left
    <3>1. l + 1 \in 0..join.lefts /\ l + 1 \in Left /\ 0 \in 0..join.rights \union {1}
      BY <1>1, <1>2, <1>9 DEF Left
    <3>2. cursor' = [cursor EXCEPT !.l = l + 1, !.r = 0, !.has = FALSE]
      BY <1>7, <1>9
    <3>3. QED BY <1>1, <3>1, <3>2 DEF Cursors, At
  <2>2. JoinTypeOK' /\ Fresh' /\ Sound' /\ Marks'
    BY <1>1, <1>7, <2>1, PadStep
  <2>3. Phased' /\ PadsLast'
    BY <1>1, <1>7, <2>1, SameJoin DEF Phased, PadsLast
  <2>4. Scanned'
    <3>1. (cursor'.has = TRUE) <=> \E b \in 1..cursor'.r : Match(l + 1, b)'
      BY <2>1
    <3>2. \A a \in Left, b \in Right :
             Emits(a, b)' <=> Match(a, b)' /\ (a < cursor'.l \/ (a = cursor'.l /\ b <= cursor'.r))
      BY <1>2, <1>4, <1>7, <2>1, SameJoin DEF Left, Right
    <3>3. \A a \in Left : Emits(a, 0)' <=> Outer' /\ a < cursor'.l /\ AloneLeft(a)'
      BY <1>2, <1>7, <2>1, SameJoin DEF Left
    <3>4. QED BY <1>1, <1>7, <2>1, <3>1, <3>2, <3>3, SameJoin DEF Scanned
  <2>5. Probed' /\ NullRight' /\ Merged' /\ LeftIsDone' /\ RightIsDone'
    BY <2>1 DEF Probed, NullRight, Merged, Merging, LeftIsDone, RightIsDone, At
  <2>6. QED BY <1>7, <2>2, <2>3, <2>4, <2>5 DEF IInv
<1>10. QED BY <1>8, <1>9

-----------------------------------------------------------------------------
(* The hash join *)

\* What the range holds while it is probed.
LEMMA Probing ==
    ASSUME IInv, At("hash", "probe")
    PROVE  /\ join \in JoinOf(join.lefts, join.rights) /\ join.lefts \in Nat /\ join.rights \in Nat
           /\ cursor \in Cursors /\ pairs \in Seq(Sides) /\ NoPairTwice
           /\ cursor.phase = "probe" /\ join.tag = "hash" /\ cursor.r \in Nat
           /\ cursor.r \in 0..join.rights
           /\ \A a \in cursor.range : a \in Left /\ cursor.r \in Right /\ <<a, cursor.r>> \in join.equal
           /\ \A a \in Left, b \in Right :
                  Emits(a, b) <=> Match(a, b) /\ (b < cursor.r \/ (b = cursor.r /\ a \notin cursor.range))
           /\ \A a \in Left : ~Emits(a, 0) /\ Matched(a)
           /\ \A b \in Right : ~Emits(0, b)
<1>1. /\ join \in JoinOf(join.lefts, join.rights) /\ join.lefts \in Nat /\ join.rights \in Nat
      /\ cursor \in Cursors /\ pairs \in Seq(Sides) /\ NoPairTwice
      /\ cursor.phase = "probe" /\ join.tag = "hash"
  BY OpenJoins DEF At
<1>2. \A b \in Right : ~Emits(0, b)
  BY <1>1 DEF IInv, PadsLast
<1>3. cursor.range \subseteq Left
  BY <1>1 DEF Cursors
<1>4. QED BY <1>1, <1>2, <1>3 DEF IInv, Probed

\* A match is emitted for the position that is taken from the range.
LEMMA HashProbeStep ==
    ASSUME IInv, HashProbe
    PROVE  IInv'
<1>1. PICK l \in cursor.range :
             Look(l, cursor.r, [cursor EXCEPT !.range = @ \ {l}],
                  Marked([cursor EXCEPT !.range = @ \ {l}], l, cursor.r))
  BY DEF HashProbe
<1> DEFINE r == cursor.r
           next == [cursor EXCEPT !.range = @ \ {l}]
           matched == Marked(next, l, r)
<1>2. At("hash", "probe") /\ cursor.phase # "start"
  BY DEF HashProbe, At
<1>3. /\ l \in Left /\ r \in Right /\ <<l, r>> \in join.equal /\ ~Emits(l, r)
  BY <1>2, Probing
<1>4. cursor \in Cursors /\ cursor.phase = "probe" /\ cursor.r \in 0..join.rights
  BY <1>2, Probing
<1>5. /\ next \in Cursors /\ next.phase = "probe" /\ next.r = r /\ next.range = cursor.range \ {l}
      /\ next.lmatched = cursor.lmatched /\ next.rmatched = cursor.rmatched
  BY <1>4 DEF Cursors
<1> HIDE DEF next
<1>6. Look(l, r, next, matched)
  BY <1>1 DEF next
<1>7. CASE /\ join.outcome[<<l, r>>] = "yes" /\ cursor' = matched /\ join' = join
           /\ pairs' \in Seq(Sides) /\ NoPairTwice'
           /\ \A a, b : Emits(a, b)' <=> Emits(a, b) \/ (a = l /\ b = r)
  <2>1. /\ cursor' \in Cursors /\ cursor'.phase = "probe" /\ cursor'.r = r
        /\ cursor'.range = cursor.range \ {l} /\ cursor'.lmatched = cursor.lmatched \union {l}
        /\ Marking(cursor', cursor, r)
    <3>1. MarkedFrom(matched, next, l, r)
      BY <1>3, <1>5, MarkedCursor
    <3> HIDE DEF matched
    <3>2. QED BY <1>5, <1>7, <3>1 DEF MarkedFrom, Marking
  <2>2. JoinTypeOK' /\ Fresh' /\ Phased'
    BY <1>2, <1>7, <2>1, SameJoin, Probing DEF JoinTypeOK, Cursors, Sides, Fresh, Phased
  <2>3. Sound' /\ Marks'
    BY <1>2, <1>3, <1>7, <2>1, MarkStep
  <2>4. PadsLast'
    BY <1>2, <1>3, <1>7, <2>1, SameJoin, Probing DEF PadsLast, Left
  <2>5. Match(l, r)
    BY <1>3, <1>7 DEF Match
  <2>6. Probed'
    <3>1. \A a \in cursor'.range : cursor'.r \in Right /\ <<a, cursor'.r>> \in join.equal
      BY <1>2, <2>1, Probing
    <3>2. \A a \in Left, b \in Right :
             Emits(a, b)' <=> Match(a, b)' /\ (b < cursor'.r \/ (b = cursor'.r /\ a \notin cursor'.range))
      BY <1>2, <1>7, <2>1, <2>5, SameJoin, Probing DEF Right
    <3>3. \A a \in Left : ~Emits(a, 0)' /\ Matched(a)'
      BY <1>2, <1>3, <1>7, <2>1, SameJoin, Probing DEF Matched, Right
    <3>4. QED BY <1>4, <1>7, <2>1, <3>1, <3>2, <3>3, SameJoin DEF Probed
  <2>7. Scanned' /\ NullRight' /\ Merged' /\ LeftIsDone' /\ RightIsDone'
    BY <2>1 DEF Scanned, NullRight, Merged, Merging, LeftIsDone, RightIsDone, At
  <2>8. QED BY <1>7, <2>2, <2>3, <2>4, <2>6, <2>7 DEF IInv
<1>8. CASE join.outcome[<<l, r>>] = "no" /\ cursor' = next /\ join' = join /\ pairs' = pairs
  <2>1. ~Match(l, r) /\ (\A a, b : Emits(a, b)' <=> Emits(a, b)) /\ NoPairTwice' /\ pairs' \in Seq(Sides)
    BY <1>2, <1>8, Probing DEF Match, Emits, NoPairTwice
  <2>2. JoinTypeOK' /\ Fresh' /\ Sound' /\ Marks'
    BY <1>2, <1>5, <1>8, <2>1, PadStep
  <2>3. Phased' /\ PadsLast'
    BY <1>2, <1>5, <1>8, <2>1, SameJoin, Probing DEF Phased, PadsLast
  <2>4. Probed'
    <3>1. \A a \in cursor'.range : cursor'.r \in Right /\ <<a, cursor'.r>> \in join.equal
      BY <1>2, <1>5, <1>8, Probing
    <3>2. \A a \in Left, b \in Right :
             Emits(a, b)' <=> Match(a, b)' /\ (b < cursor'.r \/ (b = cursor'.r /\ a \notin cursor'.range))
      BY <1>2, <1>5, <1>8, <2>1, SameJoin, Probing DEF Right
    <3>3. \A a \in Left : ~Emits(a, 0)' /\ Matched(a)'
      BY <1>2, <1>5, <1>8, <2>1, SameJoin, Probing DEF Matched
    <3>4. QED BY <1>4, <1>5, <1>8, <3>1, <3>2, <3>3, SameJoin DEF Probed
  <2>5. Scanned' /\ NullRight' /\ Merged' /\ LeftIsDone' /\ RightIsDone'
    BY <1>5, <1>8 DEF Scanned, NullRight, Merged, Merging, LeftIsDone, RightIsDone, At
  <2>6. QED BY <2>1, <2>2, <2>3, <2>4, <2>5 DEF IInv
<1>9. CASE /\ join.outcome[<<l, r>>] = "crash" /\ cursor' = [cursor EXCEPT !.phase = "crash"]
           /\ join' = join /\ pairs' = pairs
  BY <1>2, <1>9, Crashes
<1>10. QED BY <1>2, <1>3, <1>6, <1>7, <1>8, <1>9, Looks

LEMMA HashAdvanceStep ==
    ASSUME IInv, HashAdvance
    PROVE  IInv'
<1> DEFINE r == cursor.r + 1
           range == {l \in Left : <<l, r>> \in join.equal}
           next == [cursor EXCEPT !.r = r, !.range = range]
<1>1. At("hash", "probe") /\ cursor.phase # "start" /\ cursor.range = {} /\ cursor.r < join.rights
  BY DEF HashAdvance, At
<1>2. /\ cursor' = next /\ join' = join /\ pairs' \in Seq(Sides) /\ NoPairTwice'
      /\ \A a, b : Emits(a, b)' <=> Emits(a, b)
  <2>1. Move(next, <<>>)
    BY DEF HashAdvance
  <2>2. QED BY <1>1, <2>1, PadsNone
<1>3. cursor \in Cursors /\ cursor.phase = "probe" /\ r \in Right /\ r \in Nat /\ cursor.r \in Nat
  BY <1>1, Probing DEF Right
<1>4. range \in SUBSET Left /\ \A a \in Left : a \notin range => <<a, r>> \notin join.equal
  OBVIOUS
<1>5. /\ cursor' \in Cursors /\ cursor'.phase = "probe" /\ cursor'.r = r /\ cursor'.range = range
      /\ cursor'.lmatched = cursor.lmatched /\ cursor'.rmatched = cursor.rmatched
  <2> HIDE DEF range, r
  <2>1. r \in 0..join.rights \union {1}
    BY <1>3 DEF Right
  <2>2. QED BY <1>2, <1>3, <1>4, <2>1 DEF Cursors
<1>6. JoinTypeOK' /\ Fresh' /\ Sound' /\ Marks'
  BY <1>1, <1>2, <1>5, PadStep
<1>7. Phased' /\ PadsLast'
  BY <1>1, <1>2, <1>5, SameJoin, Probing DEF Phased, PadsLast
<1>8. Probed'
  <2>1. \A a \in cursor'.range : cursor'.r \in Right /\ <<a, cursor'.r>> \in join.equal
    BY <1>3, <1>5
  <2>2. \A a \in Left, b \in Right : Match(a, b) /\ b = r => a \in range
    BY <1>1, <1>4, Probing DEF Match
  <2>3. \A a \in Left, b \in Right :
           Emits(a, b)' <=> Match(a, b)' /\ (b < cursor'.r \/ (b = cursor'.r /\ a \notin cursor'.range))
    <3> HIDE DEF range
    <3>1. \A b \in Right : b \in Nat
      BY DEF Right
    <3>2. QED BY <1>1, <1>2, <1>3, <1>5, <2>2, <3>1, SameJoin, Probing
  <2>4. \A a \in Left : ~Emits(a, 0)' /\ Matched(a)'
    BY <1>1, <1>2, <1>5, SameJoin, Probing DEF Matched
  <2>5. QED BY <1>2, <1>3, <1>5, <2>1, <2>3, <2>4, SameJoin DEF Probed, Right
<1>9. Scanned' /\ NullRight' /\ Merged' /\ LeftIsDone' /\ RightIsDone'
  BY <1>5 DEF Scanned, NullRight, Merged, Merging, LeftIsDone, RightIsDone, At
<1>10. QED BY <1>2, <1>6, <1>7, <1>8, <1>9 DEF IInv

LEMMA HashEndStep ==
    ASSUME IInv, HashEnd
    PROVE  IInv'
<1> DEFINE next == IF Outer THEN [cursor EXCEPT !.phase = "nullright", !.l = 0]
                   ELSE [cursor EXCEPT !.phase = "closing"]
<1>1. At("hash", "probe") /\ cursor.phase # "start" /\ cursor.range = {} /\ cursor.r = join.rights
  BY DEF HashEnd, At
<1>2. /\ cursor' = next /\ join' = join /\ pairs' \in Seq(Sides) /\ NoPairTwice'
      /\ \A a, b : Emits(a, b)' <=> Emits(a, b)
  <2>1. Move(next, <<>>)
    BY DEF HashEnd
  <2>2. QED BY <1>1, <2>1, PadsNone
<1>3. \A a \in Left, b \in Right : Emits(a, b) <=> Match(a, b)
  BY <1>1, Probing DEF Right
<1>4. CASE Outer
  <2>1. /\ cursor' \in Cursors /\ cursor'.phase = "nullright" /\ cursor'.l = 0
        /\ cursor'.lmatched = cursor.lmatched /\ cursor'.rmatched = cursor.rmatched
    <3>1. cursor \in Cursors /\ 0 \in 0..join.lefts
      BY <1>1, Probing
    <3>2. cursor' = [cursor EXCEPT !.phase = "nullright", !.l = 0]
      BY <1>2, <1>4
    <3>3. QED BY <3>1, <3>2 DEF Cursors, Phases
  <2>2. JoinTypeOK' /\ Fresh' /\ Sound' /\ Marks'
    BY <1>1, <1>2, <2>1, PadStep
  <2>3. Phased' /\ PadsLast'
    BY <1>1, <1>2, <2>1, SameJoin, Probing DEF Phased, PadsLast
  <2>4. NullRight'
    <3>1. \A a \in Left : Matched(a)' /\ (Emits(a, 0)' <=> a <= cursor'.l /\ AloneLeft(a)')
      BY <1>1, <1>2, <2>1, SameJoin, Probing DEF Matched, Left
    <3>2. QED BY <1>2, <1>3, <1>4, <3>1, SameJoin DEF NullRight
  <2>5. Scanned' /\ Probed' /\ Merged' /\ LeftIsDone' /\ RightIsDone'
    BY <2>1 DEF Scanned, Probed, Merged, Merging, LeftIsDone, RightIsDone, At
  <2>6. QED BY <1>2, <2>2, <2>3, <2>4, <2>5 DEF IInv
<1>5. CASE ~Outer
  <2>1. cursor' \in Cursors /\ cursor'.phase = "closing" /\ cursor'.rmatched = cursor.rmatched
    BY <1>1, <1>2, <1>5, Probing DEF Cursors, Phases
  <2>2. JoinTypeOK' /\ Fresh' /\ Sound' /\ Marks'
    BY <1>1, <1>2, <2>1, PadStep
  <2>3. Phased' /\ PadsLast' /\ Scanned' /\ Probed' /\ NullRight' /\ Merged'
    BY <2>1 DEF Phased, PadsLast, Scanned, Probed, NullRight, Merged, Merging, At
  <2>4. LeftIsDone'
    BY <1>1, <1>2, <1>3, <1>5, SameJoin, Probing DEF LeftIsDone
  <2>5. RightIsDone'
    BY <1>1, <1>2, <1>5, <2>1, SameJoin, Probing DEF RightIsDone, Outer, OuterJoin
  <2>6. QED BY <1>2, <2>2, <2>3, <2>4, <2>5 DEF IInv
<1>6. QED BY <1>4, <1>5

LEMMA HashNullRightStep ==
    ASSUME IInv, HashNullRight
    PROVE  IInv'
<1>1. /\ join.lefts \in Nat /\ join.rights \in Nat /\ cursor \in Cursors /\ cursor.l \in 0..join.lefts
      /\ cursor.phase = "nullright" /\ join.tag = "hash" /\ cursor.phase # "start"
  BY OpenJoins DEF HashNullRight, At, Cursors
<1>2. /\ Outer
      /\ \A a \in Left, b \in Right : Emits(a, b) <=> Match(a, b)
      /\ \A a \in Left : Matched(a) /\ (Emits(a, 0) <=> a <= cursor.l /\ AloneLeft(a))
      /\ \A b \in Right : ~Emits(0, b)
  BY <1>1 DEF IInv, NullRight, PadsLast, At
<1>3. CASE cursor.l < join.lefts
  <2> DEFINE l == cursor.l + 1
             next == [cursor EXCEPT !.l = @ + 1]
  <2>1. l \in Left /\ l \in Nat /\ (l \in cursor.lmatched <=> ~AloneLeft(l))
    <3>1. l \in Left /\ l \in Nat
      BY <1>1, <1>3 DEF Left
    <3>2. QED BY <1>2, <3>1 DEF Matched, AloneLeft
  <2>2. /\ cursor' = next /\ join' = join /\ pairs' \in Seq(Sides) /\ NoPairTwice'
        /\ \A a \in Left, b \in Right : Emits(a, b)' <=> Emits(a, b)
        /\ \A a \in Left : Emits(a, 0)' <=> a <= l /\ AloneLeft(a)
        /\ \A b \in Right : ~Emits(0, b)'
    <3>1. CASE l \in cursor.lmatched
      <4>1. Move(next, <<>>)
        BY <1>3, <3>1 DEF HashNullRight
      <4>2. /\ cursor' = next /\ join' = join /\ pairs' \in Seq(Sides) /\ NoPairTwice'
            /\ \A a, b : Emits(a, b)' <=> Emits(a, b)
        BY <1>1, <4>1, PadsNone
      <4>3. QED BY <1>1, <1>2, <2>1, <3>1, <4>2 DEF Left
    <3>2. CASE l \notin cursor.lmatched
      <4>1. Move(next, <<<<l, 0>>>>)
        BY <1>3, <3>2 DEF HashNullRight
      <4>2. <<l, 0>> \in Sides /\ ~Contains(pairs, <<l, 0>>)
        BY <1>1, <1>2, <2>1 DEF Sides, Left, Emits
      <4>3. /\ cursor' = next /\ join' = join /\ pairs' \in Seq(Sides) /\ NoPairTwice'
            /\ \A a, b : Emits(a, b)' <=> Emits(a, b) \/ <<a, b>> = <<l, 0>>
        BY <1>1, <4>1, <4>2, Pads
      <4>4. QED BY <1>1, <1>2, <2>1, <3>2, <4>3 DEF Left, Right
    <3>3. QED BY <3>1, <3>2
  <2>3. /\ cursor' \in Cursors /\ cursor'.phase = "nullright" /\ cursor'.l = l
        /\ cursor'.lmatched = cursor.lmatched /\ cursor'.rmatched = cursor.rmatched
    <3>1. l \in 0..join.lefts
      BY <1>1, <1>3
    <3>2. cursor' = [cursor EXCEPT !.l = l]
      BY <2>2
    <3> HIDE DEF l
    <3>3. QED BY <1>1, <3>1, <3>2 DEF Cursors
  <2> HIDE DEF l, next
  <2>4. JoinTypeOK' /\ Fresh' /\ Sound' /\ Marks'
    BY <1>1, <2>2, <2>3, PadStep
  <2>5. Phased' /\ PadsLast'
    BY <1>1, <2>2, <2>3, SameJoin DEF Phased, PadsLast
  <2>6. NullRight'
    <3>1. \A a \in Left : Matched(a)' /\ (Emits(a, 0)' <=> a <= cursor'.l /\ AloneLeft(a)')
      BY <1>2, <2>2, <2>3, SameJoin DEF Matched
    <3>2. QED BY <1>2, <2>2, <3>1, SameJoin DEF NullRight
  <2>7. Scanned' /\ Probed' /\ Merged' /\ LeftIsDone' /\ RightIsDone'
    BY <2>3 DEF Scanned, Probed, Merged, Merging, LeftIsDone, RightIsDone, At
  <2>8. QED BY <2>2, <2>4, <2>5, <2>6, <2>7 DEF IInv
<1>4. CASE ~(cursor.l < join.lefts)
  <2>1. Move(AfterLeft(join, cursor), <<>>)
    BY <1>4 DEF HashNullRight
  <2>2. /\ cursor' = AfterLeft(join, cursor) /\ join' = join /\ pairs' \in Seq(Sides) /\ NoPairTwice'
        /\ \A a, b : Emits(a, b)' <=> Emits(a, b)
    BY <1>1, <2>1, PadsNone
  <2>3. \A a \in Left : a <= cursor.l
    BY <1>1, <1>4 DEF Left
  <2>4. QED BY <1>1, <1>2, <2>2, <2>3, LeftEnds
<1>5. QED BY <1>3, <1>4

-----------------------------------------------------------------------------
(* The sort-merge join *)

LEMMA InGroup ==
    ASSUME IInv, Merging
    PROVE  /\ join.lefts \in Nat /\ join.rights \in Nat
           /\ cursor \in Cursors /\ pairs \in Seq(Sides) /\ NoPairTwice
           /\ cursor.phase # "start" /\ join.tag = "smj"
           /\ cursor.l \in Left /\ cursor.l \in Nat /\ cursor.m \in 0..join.rights
           /\ \A a \in Left : /\ Emits(a, 0) => a < cursor.l \/ (cursor.phase = "next" /\ a = cursor.l)
                              /\ \A b \in Right : Emits(a, b) =>
                                     \/ a < cursor.l
                                     \/ a = cursor.l /\ cursor.phase = "group" /\ b <= cursor.m
           /\ \A b \in Right : ~Emits(0, b)
<1>1. /\ join.lefts \in Nat /\ join.rights \in Nat
      /\ cursor \in Cursors /\ pairs \in Seq(Sides) /\ NoPairTwice
  BY OpenJoins DEF Merging
<1>2. cursor.l \in Left /\ cursor.l \in Nat /\ cursor.m \in 0..join.rights
  BY <1>1 DEF IInv, Merged, Left, Cursors
<1>3. \A b \in Right : ~Emits(0, b)
  BY DEF IInv, PadsLast, Merging
<1>4. QED BY <1>1, <1>2, <1>3 DEF IInv, Merged, Merging

\* A move to another phase of the group, or on to another left row, keeps IInv if it
\* keeps what the left rows have emitted.
LEMMA GroupMoves ==
    ASSUME IInv, Merging, join' = join, pairs' \in Seq(Sides), NoPairTwice',
           cursor' \in Cursors, cursor'.rmatched = cursor.rmatched, cursor'.l \in Left,
           cursor'.phase \in {"first", "group", "padded", "next"},
           \A a \in Left, b \in Right : Emits(a, b)' <=> Emits(a, b),
           \A b \in Right : ~Emits(0, b)',
           \A a \in Left : Emits(a, 0)' => a < cursor'.l \/ (cursor'.phase = "next" /\ a = cursor'.l),
           \A a \in Left, b \in Right : Emits(a, b) =>
               \/ a < cursor'.l
               \/ a = cursor'.l /\ cursor'.phase = "group" /\ b <= cursor'.m
    PROVE  IInv'
<1>1. join.tag = "smj" /\ cursor.phase # "start" /\ cursor'.phase # "start"
  BY InGroup
<1>2. JoinTypeOK' /\ Fresh' /\ Sound' /\ Marks'
  BY <1>1, PadStep
<1>3. Phased' /\ PadsLast'
  BY <1>1, SameJoin DEF Phased, PadsLast
<1>4. Merged'
  BY SameJoin DEF Merged
<1>5. Scanned' /\ Probed' /\ NullRight' /\ LeftIsDone' /\ RightIsDone'
  BY <1>1 DEF Scanned, Probed, NullRight, LeftIsDone, RightIsDone, At
<1>6. QED BY <1>2, <1>3, <1>4, <1>5 DEF IInv

\* The join ends; its left rows need not be done.
LEMMA GroupEnds ==
    ASSUME IInv, Merging, join' = join, pairs' \in Seq(Sides), NoPairTwice',
           cursor' = [cursor EXCEPT !.phase = "closing"] \/ cursor' = AfterLeft(join, cursor),
           \A a, b : Emits(a, b)' <=> Emits(a, b)
    PROVE  IInv'
<1>1. /\ join.tag = "smj" /\ cursor.phase # "start" /\ join.rights \in Nat /\ cursor \in Cursors
      /\ \A b \in Right : ~Emits(0, b)
  BY InGroup
<1>2. /\ cursor' \in Cursors /\ cursor'.rmatched = cursor.rmatched
      /\ \/ cursor'.phase = "closing"
         \/ cursor'.phase = "unmatched" /\ join.type = "FULL" /\ cursor'.r = 1
  BY <1>1 DEF AfterLeft, Cursors, Phases
<1>3. JoinTypeOK' /\ Fresh' /\ Sound' /\ Marks'
  BY <1>1, <1>2, PadStep
<1>4. Phased' /\ PadsLast' /\ Scanned' /\ Probed' /\ NullRight' /\ Merged' /\ LeftIsDone'
  BY <1>1, <1>2 DEF Phased, PadsLast, Scanned, Probed, NullRight, Merged, Merging, LeftIsDone, At
<1>5. RightIsDone'
  BY <1>1, <1>2, SameJoin DEF RightIsDone, Right
<1>6. QED BY <1>3, <1>4, <1>5 DEF IInv

LEMMA SmjTryStep ==
    ASSUME IInv, SmjTry
    PROVE  IInv'
<1> DEFINE l == cursor.l
           r == cursor.m + 1
           next == [cursor EXCEPT !.m = @ + 1]
           marked == Marked(next, l, r)
           matched == [marked EXCEPT !.phase = "group"]
<1>1. Merging /\ cursor.m < join.rights /\ cursor.phase # "next" /\ cursor.phase # "start"
  BY DEF SmjTry, Merging
<1>2. l \in Left /\ r \in Right /\ r \in Nat /\ l \in Nat /\ cursor.m \in Nat /\ cursor \in Cursors
  BY <1>1, InGroup DEF Right
<1>3. /\ next \in Cursors /\ next.phase = cursor.phase /\ next.l = l /\ next.m = r
      /\ next.rmatched = cursor.rmatched
  <2>1. r \in 0..join.rights /\ next = [cursor EXCEPT !.m = r]
    BY <1>2, InGroup DEF Right
  <2> HIDE DEF r
  <2>2. QED BY <1>2, <2>1 DEF Cursors
<1>4. ~Emits(l, r)
  BY <1>1, <1>2, InGroup
<1>5. Look(l, r, next, matched)
  BY <1>3 DEF SmjTry
<1> HIDE DEF next
<1>6. CASE /\ join.outcome[<<l, r>>] = "yes" /\ cursor' = matched /\ join' = join
           /\ pairs' \in Seq(Sides) /\ NoPairTwice'
           /\ \A a, b : Emits(a, b)' <=> Emits(a, b) \/ (a = l /\ b = r)
  <2>1. /\ cursor' \in Cursors /\ cursor'.phase = "group" /\ cursor'.l = l /\ cursor'.m = r
        /\ Marking(cursor', cursor, r)
    <3>1. MarkedFrom(marked, next, l, r)
      BY <1>2, <1>3, MarkedCursor
    <3> HIDE DEF marked
    <3>2. marked \in Cursors /\ marked.l = l /\ marked.m = r /\ Marking(marked, cursor, r)
      BY <1>3, <3>1 DEF MarkedFrom, Marking
    <3>3. QED BY <1>6, <3>2 DEF Cursors, Phases, Marking
  <2>2. join.tag = "smj"
    BY <1>1, InGroup
  <2>3. JoinTypeOK' /\ Fresh' /\ Phased'
    BY <1>1, <1>6, <2>1, <2>2, SameJoin, OpenJoins DEF JoinTypeOK, Cursors, Sides, Fresh, Phased
  <2>4. Sound' /\ Marks'
    BY <1>1, <1>2, <1>6, <2>1, <2>2, MarkStep
  <2>5. PadsLast'
    BY <1>1, <1>2, <1>6, <2>1, SameJoin, InGroup DEF PadsLast, Left
  <2>6. Merged'
    <3>1. \A a \in Left : Emits(a, 0)' => a < cursor'.l \/ (cursor'.phase = "next" /\ a = cursor'.l)
      BY <1>1, <1>2, <1>6, <2>1, InGroup DEF Right
    <3>2. \A a \in Left, b \in Right : Emits(a, b)' =>
              \/ a < cursor'.l
              \/ a = cursor'.l /\ cursor'.phase = "group" /\ b <= cursor'.m
      <4>1. \A b \in Right : b \in Nat
        BY DEF Right
      <4>2. QED BY <1>1, <1>2, <1>6, <2>1, <4>1, InGroup
    <3>3. QED BY <1>2, <1>6, <2>1, <3>1, <3>2, SameJoin DEF Merged
  <2>7. Scanned' /\ Probed' /\ NullRight' /\ LeftIsDone' /\ RightIsDone'
    BY <2>1 DEF Scanned, Probed, NullRight, LeftIsDone, RightIsDone, At
  <2>8. QED BY <1>6, <2>3, <2>4, <2>5, <2>6, <2>7 DEF IInv
<1>7. CASE join.outcome[<<l, r>>] = "no" /\ cursor' = next /\ join' = join /\ pairs' = pairs
  <2>1. (\A a, b : Emits(a, b)' <=> Emits(a, b)) /\ NoPairTwice' /\ pairs' \in Seq(Sides)
    BY <1>1, <1>7, InGroup DEF Emits, NoPairTwice
  <2>2. cursor'.phase \in {"first", "group", "padded", "next"} /\ cursor'.l \in Left
    BY <1>1, <1>2, <1>3, <1>7 DEF Merging
  <2>3. \A b \in Right : b \in Nat
    BY DEF Right
  <2>4. \A a \in Left, b \in Right : Emits(a, b) =>
            \/ a < cursor'.l
            \/ a = cursor'.l /\ cursor'.phase = "group" /\ b <= cursor'.m
    BY <1>1, <1>2, <1>3, <1>7, <2>3, InGroup
  <2>5. \A a \in Left : Emits(a, 0)' => a < cursor'.l \/ (cursor'.phase = "next" /\ a = cursor'.l)
    BY <1>1, <1>3, <1>7, <2>1, InGroup
  <2>6. \A b \in Right : ~Emits(0, b)'
    BY <1>1, <2>1, InGroup
  <2>7. QED BY <1>1, <1>3, <1>7, <2>1, <2>2, <2>4, <2>5, <2>6, GroupMoves
<1>8. CASE /\ join.outcome[<<l, r>>] = "crash" /\ cursor' = [cursor EXCEPT !.phase = "crash"]
           /\ join' = join /\ pairs' = pairs
  BY <1>1, <1>8, Crashes
<1>9. QED BY <1>1, <1>2, <1>4, <1>5, <1>6, <1>7, <1>8, Looks

\* A left row is padded while its phase allows it, at a position that is not behind
\* the cursor's.
LEMMA GroupPads ==
    ASSUME IInv, Merging, NEW l \in Left, l > cursor.l \/ (l = cursor.l /\ cursor.phase \in {"first", "padded"}),
           NEW c \in Cursors, c.phase = "next", c.l = l, c.rmatched = cursor.rmatched,
           Move(c, <<<<l, 0>>>>)
    PROVE  IInv'
<1>1. <<l, 0>> \in Sides /\ ~Contains(pairs, <<l, 0>>)
  <2>1. l \in 0..join.lefts /\ l # 0 /\ 0 \in 0..join.rights
    BY InGroup DEF Left
  <2>2. ~Emits(l, 0)
    BY <2>1, InGroup
  <2>3. QED BY <2>1, <2>2 DEF Sides, Emits
<1>2. /\ cursor' = c /\ join' = join /\ pairs' \in Seq(Sides) /\ NoPairTwice'
      /\ \A a, b : Emits(a, b)' <=> Emits(a, b) \/ <<a, b>> = <<l, 0>>
  BY <1>1, InGroup, Pads
<1>3. l \in Nat /\ l # 0 /\ 0 \notin Right /\ \A a \in Left : a \in Nat
  BY DEF Left, Right
<1>4. \A a \in Left, b \in Right : Emits(a, b)' <=> Emits(a, b)
  BY <1>2, <1>3
<1>5. \A b \in Right : ~Emits(0, b)'
  BY <1>2, <1>3, InGroup
<1>6. \A a \in Left : Emits(a, 0)' => a < cursor'.l \/ (cursor'.phase = "next" /\ a = cursor'.l)
  BY <1>2, <1>3, InGroup
<1>7. \A a \in Left, b \in Right : Emits(a, b) =>
         \/ a < cursor'.l
         \/ a = cursor'.l /\ cursor'.phase = "group" /\ b <= cursor'.m
  BY <1>2, <1>3, InGroup
<1>8. QED BY <1>2, <1>4, <1>5, <1>6, <1>7, GroupMoves

LEMMA SmjAgainStep ==
    ASSUME IInv, SmjAgain
    PROVE  IInv'
<1>1. Merging /\ cursor.phase = "first" /\ cursor.phase # "start" /\ cursor \in Cursors
  BY InGroup DEF SmjAgain, At, Merging
<1>2. CASE join.rights # 0
  <2> DEFINE next == [cursor EXCEPT !.phase = "group", !.m = 0]
  <2>1. Move(next, <<>>)
    BY <1>2 DEF SmjAgain
  <2>2. /\ cursor' = next /\ join' = join /\ pairs' \in Seq(Sides) /\ NoPairTwice'
        /\ \A a, b : Emits(a, b)' <=> Emits(a, b)
    BY <1>1, <2>1, PadsNone
  <2>3. /\ cursor' \in Cursors /\ cursor'.phase = "group" /\ cursor'.l = cursor.l
        /\ cursor'.rmatched = cursor.rmatched
    <3>1. 0 \in 0..join.rights
      BY <1>1, InGroup
    <3>2. QED BY <1>1, <2>2, <3>1 DEF Cursors, Phases
  <2>4. QED BY <1>1, <2>2, <2>3, InGroup, GroupMoves
<1>3. CASE join.rights = 0 /\ Outer
  <2> DEFINE next == [cursor EXCEPT !.phase = "next"]
  <2>1. Move(next, <<<<cursor.l, 0>>>>)
    BY <1>3 DEF SmjAgain
  <2>2. next \in Cursors /\ next.phase = "next" /\ next.l = cursor.l /\ next.rmatched = cursor.rmatched
    BY <1>1 DEF Cursors, Phases
  <2> HIDE DEF next
  <2>3. QED BY <1>1, <2>1, <2>2, InGroup, GroupPads
<1>4. CASE join.rights = 0 /\ ~Outer
  <2>1. Move([cursor EXCEPT !.phase = "closing"], <<>>)
    BY <1>4 DEF SmjAgain
  <2>2. /\ cursor' = [cursor EXCEPT !.phase = "closing"] /\ join' = join
        /\ pairs' \in Seq(Sides) /\ NoPairTwice' /\ \A a, b : Emits(a, b)' <=> Emits(a, b)
    BY <1>1, <2>1, PadsNone
  <2>3. QED BY <1>1, <2>2, GroupEnds
<1>5. QED BY <1>2, <1>3, <1>4

LEMMA SmjPadStep ==
    ASSUME IInv, SmjPad
    PROVE  IInv'
<1> DEFINE next == [cursor EXCEPT !.phase = "next"]
<1>1. Merging /\ cursor.phase = "padded" /\ cursor \in Cursors
  BY InGroup DEF SmjPad, At, Merging
<1>2. Move(next, <<<<cursor.l, 0>>>>)
  BY DEF SmjPad
<1>3. next \in Cursors /\ next.phase = "next" /\ next.l = cursor.l /\ next.rmatched = cursor.rmatched
  BY <1>1 DEF Cursors, Phases
<1> HIDE DEF next
<1>4. QED BY <1>1, <1>2, <1>3, InGroup, GroupPads

LEMMA SmjAfterPadStep ==
    ASSUME IInv, SmjAfterPad
    PROVE  IInv'
<1>1. Merging /\ cursor.phase = "next" /\ cursor.phase # "start" /\ cursor \in Cursors
  BY InGroup DEF SmjAfterPad, At, Merging
<1>2. CASE cursor.l = join.lefts
  <2>1. Move(AfterLeft(join, cursor), <<>>)
    BY <1>2 DEF SmjAfterPad
  <2>2. /\ cursor' = AfterLeft(join, cursor) /\ join' = join
        /\ pairs' \in Seq(Sides) /\ NoPairTwice' /\ \A a, b : Emits(a, b)' <=> Emits(a, b)
    BY <1>1, <2>1, PadsNone
  <2>3. QED BY <1>1, <2>2, GroupEnds
<1>3. CASE cursor.l # join.lefts
  <2> DEFINE next == [cursor EXCEPT !.phase = "padded", !.l = @ + 1, !.m = 0]
  <2>1. Move(next, <<>>)
    BY <1>3 DEF SmjAfterPad
  <2>2. /\ cursor' = next /\ join' = join /\ pairs' \in Seq(Sides) /\ NoPairTwice'
        /\ \A a, b : Emits(a, b)' <=> Emits(a, b)
    BY <1>1, <2>1, PadsNone
  <2>3. /\ cursor' \in Cursors /\ cursor'.phase = "padded" /\ cursor'.l = cursor.l + 1
        /\ cursor'.rmatched = cursor.rmatched /\ cursor'.l \in Left
    <3>1. cursor.l + 1 \in 0..join.lefts /\ cursor.l + 1 \in Left /\ 0 \in 0..join.rights
      BY <1>1, <1>3, InGroup DEF Left
    <3>2. cursor' = [cursor EXCEPT !.phase = "padded", !.l = cursor.l + 1, !.m = 0]
      BY <2>2
    <3>3. QED BY <1>1, <3>1, <3>2 DEF Cursors, Phases
  <2>4. \A a \in Left : a \in Nat
    BY DEF Left
  <2>5. \A a \in Left : /\ Emits(a, 0) => a < cursor.l + 1
                        /\ \A b \in Right : Emits(a, b) => a < cursor.l + 1
    BY <1>1, <2>4, InGroup
  <2>6. QED BY <1>1, <2>2, <2>3, <2>5, InGroup, GroupMoves
<1>4. QED BY <1>2, <1>3

LEMMA SmjNextLeftStep ==
    ASSUME IInv, SmjNextLeft
    PROVE  IInv'
<1>1. Merging /\ cursor.phase = "group" /\ cursor.phase # "start" /\ cursor \in Cursors
  BY InGroup DEF SmjNextLeft, At, Merging
<1>2. \A a \in Left : a \in Nat
  BY DEF Left
<1>3. CASE cursor.l = join.lefts
  <2> DEFINE next == IF pairs = <<>> THEN [cursor EXCEPT !.phase = "closing"] ELSE AfterLeft(join, cursor)
  <2>1. Move(next, <<>>)
    BY <1>3 DEF SmjNextLeft
  <2>2. /\ cursor' = next /\ join' = join
        /\ pairs' \in Seq(Sides) /\ NoPairTwice' /\ \A a, b : Emits(a, b)' <=> Emits(a, b)
    BY <1>1, <2>1, PadsNone
  <2>3. QED BY <1>1, <2>2, GroupEnds
<1>4. CASE cursor.l # join.lefts /\ Outer
  <2> DEFINE next == [cursor EXCEPT !.phase = "next", !.l = @ + 1]
  <2>1. Move(next, <<<<cursor.l + 1, 0>>>>)
    BY <1>4 DEF SmjNextLeft
  <2>2. cursor.l + 1 \in Left /\ cursor.l + 1 > cursor.l
    BY <1>1, <1>4, InGroup DEF Left
  <2>3. next \in Cursors /\ next.phase = "next" /\ next.l = cursor.l + 1 /\ next.rmatched = cursor.rmatched
    <3>1. cursor.l + 1 \in 0..join.lefts
      BY <1>1, <1>4, InGroup DEF Left
    <3>2. QED BY <1>1, <3>1 DEF Cursors, Phases
  <2> HIDE DEF next
  <2>4. QED BY <1>1, <2>1, <2>2, <2>3, GroupPads
<1>5. CASE cursor.l # join.lefts /\ ~Outer /\ cursor.l + 1 = join.lefts
  <2>1. Move([cursor EXCEPT !.phase = "closing"], <<>>)
    BY <1>5 DEF SmjNextLeft
  <2>2. /\ cursor' = [cursor EXCEPT !.phase = "closing"] /\ join' = join
        /\ pairs' \in Seq(Sides) /\ NoPairTwice' /\ \A a, b : Emits(a, b)' <=> Emits(a, b)
    BY <1>1, <2>1, PadsNone
  <2>3. QED BY <1>1, <2>2, GroupEnds
<1>6. CASE cursor.l # join.lefts /\ ~Outer /\ cursor.l + 1 # join.lefts
  <2> DEFINE next == [cursor EXCEPT !.phase = "first", !.l = @ + 2, !.m = 0]
  <2>1. Move(next, <<>>)
    BY <1>6 DEF SmjNextLeft
  <2>2. /\ cursor' = next /\ join' = join /\ pairs' \in Seq(Sides) /\ NoPairTwice'
        /\ \A a, b : Emits(a, b)' <=> Emits(a, b)
    BY <1>1, <2>1, PadsNone
  <2>3. /\ cursor' \in Cursors /\ cursor'.phase = "first" /\ cursor'.l = cursor.l + 2
        /\ cursor'.rmatched = cursor.rmatched /\ cursor'.l \in Left
    <3>1. cursor.l + 2 \in 0..join.lefts /\ cursor.l + 2 \in Left /\ 0 \in 0..join.rights
      BY <1>1, <1>6, InGroup DEF Left
    <3>2. cursor' = [cursor EXCEPT !.phase = "first", !.l = cursor.l + 2, !.m = 0]
      BY <2>2
    <3>3. QED BY <1>1, <3>1, <3>2 DEF Cursors, Phases
  <2>4. \A a \in Left : /\ Emits(a, 0) => a < cursor.l + 2
                        /\ \A b \in Right : Emits(a, b) => a < cursor.l + 2
    BY <1>1, <1>2, InGroup
  <2>5. QED BY <1>1, <2>2, <2>3, <2>4, InGroup, GroupMoves
<1>7. QED BY <1>3, <1>4, <1>5, <1>6

-----------------------------------------------------------------------------
(* Beginning and end *)

LEMMA UnmatchedRightStep ==
    ASSUME IInv, UnmatchedRight
    PROVE  IInv'
<1>1. /\ cursor.phase = "unmatched" /\ cursor.phase # "start" /\ cursor \in Cursors
      /\ join.lefts \in Nat /\ join.rights \in Nat /\ cursor.r \in Nat /\ cursor.r # 0
      /\ join.type = "FULL"
      /\ \A b \in Right : Emits(0, b) <=> 1 < b /\ b <= cursor.r /\ b - 1 \notin cursor.rmatched
      /\ \A b \in Right : b \in Nat /\ b # 0 /\ b <= join.rights
  BY OpenJoins DEF UnmatchedRight, IInv, RightIsDone, Cursors, Right
<1>2. CASE cursor.r < join.rights
  <2> DEFINE r == cursor.r + 1
             next == [cursor EXCEPT !.r = @ + 1]
  <2>1. r \in Right /\ r \in Nat /\ 1 < r /\ r - 1 = cursor.r
    BY <1>1, <1>2 DEF Right
  <2>2. /\ cursor' = next /\ join' = join /\ pairs' \in Seq(Sides) /\ NoPairTwice'
        /\ \A a \in Left : (Emits(a, 0)' <=> Emits(a, 0)) /\ \A b \in Right : Emits(a, b)' <=> Emits(a, b)
        /\ \A b \in Right : Emits(0, b)' <=> 1 < b /\ b <= r /\ b - 1 \notin cursor.rmatched
    <3>1. CASE cursor.r \in cursor.rmatched
      <4>1. Move(next, <<>>)
        BY <1>2, <3>1 DEF UnmatchedRight
      <4>2. /\ cursor' = next /\ join' = join /\ pairs' \in Seq(Sides) /\ NoPairTwice'
            /\ \A a, b : Emits(a, b)' <=> Emits(a, b)
        BY <1>1, <4>1, PadsNone
      <4>3. \A b \in Right : b <= r /\ b - 1 \notin cursor.rmatched => b <= cursor.r
        BY <1>1, <2>1, <3>1
      <4>4. QED BY <1>1, <2>1, <4>2, <4>3
    <3>2. CASE cursor.r \notin cursor.rmatched
      <4>1. Move(next, <<<<0, r>>>>)
        BY <1>2, <3>2 DEF UnmatchedRight
      <4>2. <<0, r>> \in Sides /\ ~Contains(pairs, <<0, r>>)
        <5>1. ~Emits(0, r)
          BY <1>1, <2>1
        <5>2. r \in 0..join.rights /\ r # 0 /\ 0 \in 0..join.lefts
          BY <1>1, <2>1 DEF Right
        <5>3. QED BY <5>1, <5>2 DEF Sides, Emits
      <4>3. /\ cursor' = next /\ join' = join /\ pairs' \in Seq(Sides) /\ NoPairTwice'
            /\ \A a, b : Emits(a, b)' <=> Emits(a, b) \/ <<a, b>> = <<0, r>>
        BY <1>1, <4>1, <4>2, Pads
      <4>4. \A a \in Left : a # 0
        BY DEF Left
      <4>5. \A a \in Left : (Emits(a, 0)' <=> Emits(a, 0)) /\ \A b \in Right : Emits(a, b)' <=> Emits(a, b)
        BY <4>3, <4>4
      <4>6. \A b \in Right : Emits(0, b)' <=> 1 < b /\ b <= r /\ b - 1 \notin cursor.rmatched
        BY <1>1, <2>1, <3>2, <4>3
      <4>7. QED BY <4>3, <4>5, <4>6
    <3>3. QED BY <3>1, <3>2
  <2>3. /\ cursor' \in Cursors /\ cursor'.phase = "unmatched" /\ cursor'.r = r
        /\ cursor'.rmatched = cursor.rmatched
    <3>1. r \in 0..join.rights /\ cursor' = [cursor EXCEPT !.r = r]
      BY <1>1, <1>2, <2>2
    <3> HIDE DEF r
    <3>2. QED BY <1>1, <3>1 DEF Cursors
  <2>4. JoinTypeOK' /\ Fresh' /\ Sound' /\ Marks'
    BY <1>1, <2>2, <2>3, PadStep
  <2>5. Phased' /\ PadsLast' /\ Scanned' /\ Probed' /\ NullRight' /\ Merged'
    BY <2>3 DEF Phased, PadsLast, Scanned, Probed, NullRight, Merged, Merging, At
  <2>6. LeftIsDone'
    BY <1>1, <2>2, <2>3, SameJoin DEF IInv, LeftIsDone
  <2>7. RightIsDone'
    BY <1>1, <2>1, <2>2, <2>3, SameJoin DEF RightIsDone
  <2>8. QED BY <2>2, <2>4, <2>5, <2>6, <2>7 DEF IInv
<1>3. CASE ~(cursor.r < join.rights)
  <2>1. Move([cursor EXCEPT !.phase = "closing"], <<>>)
    BY <1>3 DEF UnmatchedRight
  <2>2. /\ cursor' = [cursor EXCEPT !.phase = "closing"] /\ join' = join
        /\ pairs' \in Seq(Sides) /\ NoPairTwice' /\ \A a, b : Emits(a, b)' <=> Emits(a, b)
    BY <1>1, <2>1, PadsNone
  <2>3. cursor' \in Cursors /\ cursor'.phase = "closing" /\ cursor'.rmatched = cursor.rmatched
    BY <1>1, <2>2 DEF Cursors, Phases
  <2>4. JoinTypeOK' /\ Fresh' /\ Sound' /\ Marks'
    BY <1>1, <2>2, <2>3, PadStep
  <2>5. Phased' /\ PadsLast' /\ Scanned' /\ Probed' /\ NullRight' /\ Merged'
    BY <2>3 DEF Phased, PadsLast, Scanned, Probed, NullRight, Merged, Merging, At
  <2>6. LeftIsDone'
    BY <1>1, <2>2, <2>3, SameJoin DEF IInv, LeftIsDone
  <2>7. RightIsDone'
    BY <1>1, <1>3, <2>2, <2>3, SameJoin DEF RightIsDone
  <2>8. QED BY <2>2, <2>4, <2>5, <2>6, <2>7 DEF IInv
<1>4. QED BY <1>2, <1>3

LEMMA CloseStep ==
    ASSUME IInv, Close
    PROVE  IInv'
<1>1. cursor.phase = "closing" /\ cursor' = StartCursor /\ join' = join /\ pairs' = pairs
  BY DEF Close
<1>2. join.lefts \in Nat /\ join.rights \in Nat /\ cursor'.phase = "start"
  BY <1>1, OpenJoins DEF StartCursor
<1>3. cursor' \in Cursors
  BY <1>1, <1>2 DEF StartCursor, Cursors, Phases
<1>4. \A a, b : Emits(a, b)' <=> Emits(a, b)
  BY <1>1 DEF Emits
<1>5. JoinTypeOK' /\ NoPairTwice'
  BY <1>1, <1>3, SameJoin DEF IInv, JoinTypeOK, Cursors, NoPairTwice
<1>6. Fresh' /\ Phased' /\ Sound' /\ Marks' /\ PadsLast'
  BY <1>1, <1>2, <1>4, SameJoin DEF IInv, Fresh, Phased, Sound, Marks, PadsLast
<1>7. Scanned' /\ Probed' /\ NullRight' /\ Merged' /\ LeftIsDone' /\ RightIsDone'
  BY <1>2 DEF Scanned, Probed, NullRight, Merged, Merging, LeftIsDone, RightIsDone, At
<1>8. QED BY <1>5, <1>6, <1>7 DEF IInv

\* A join begins with nothing emitted and nothing marked.
LEMMA BeginStep ==
    ASSUME IInv, NEW lefts \in Nat, NEW rights \in Nat, NEW j \in JoinOf(lefts, rights), Begin(j)
    PROVE  IInv'
<1>1. /\ cursor = StartCursor /\ join' = j /\ pairs' = <<>>
      /\ join'.lefts = lefts /\ join'.rights = rights /\ join' \in JoinOf(join'.lefts, join'.rights)
      /\ join'.tag \in {"nlj", "hash", "smj"}
  BY DEF Begin, IInv, Fresh, JoinOf
<1>2. \A a, b : ~Emits(a, b)'
  BY <1>1 DEF Emits, Contains
<1>3. /\ cursor' \in Cursors' /\ cursor'.m = 0 /\ cursor'.has = FALSE /\ cursor'.range = {}
      /\ cursor'.lmatched = {} /\ cursor'.rmatched = {}
      /\ \/ lefts = 0 /\ cursor'.r = 1
            /\ cursor'.phase = IF join'.type = "FULL" THEN "unmatched" ELSE "closing"
         \/ /\ lefts # 0 /\ cursor'.r = 0 /\ cursor'.l = 1
            /\ cursor'.phase = FirstPhase(join')
  <2>1. CASE lefts = 0
    <3> DEFINE phase == IF join'.type = "FULL" THEN "unmatched" ELSE "closing"
    <3>1. cursor' = [phase |-> phase, l |-> 0, r |-> 1, has |-> FALSE, range |-> {}, lmatched |-> {},
                     rmatched |-> {}, m |-> 0]
      BY <1>1, <2>1 DEF Begin, AfterLeft, StartCursor
    <3>2. phase \in Phases /\ 0 \in 0..lefts /\ 0 \in 0..rights
      BY DEF Phases
    <3> HIDE DEF phase
    <3>3. cursor' \in Cursors'
      BY <1>1, <3>1, <3>2 DEF Cursors
    <3>4. QED BY <2>1, <3>1, <3>3 DEF phase
  <2>2. CASE lefts # 0
    <3> DEFINE phase == FirstPhase(join')
    <3>1. cursor' = [phase |-> phase, l |-> 1, r |-> 0, has |-> FALSE, range |-> {}, lmatched |-> {},
                     rmatched |-> {}, m |-> 0]
      BY <1>1, <2>2 DEF Begin, StartCursor
    <3>2. phase \in Phases /\ 1 \in 0..lefts /\ 0 \in 0..rights
      BY <1>1, <2>2 DEF FirstPhase, Phases
    <3> HIDE DEF phase
    <3>3. cursor' \in Cursors'
      BY <1>1, <3>1, <3>2 DEF Cursors
    <3>4. QED BY <2>2, <3>1, <3>3 DEF phase
  <2>3. QED BY <2>1, <2>2
<1>4. cursor'.phase # "start"
  BY <1>1, <1>3 DEF FirstPhase
<1>5. JoinTypeOK' /\ NoPairTwice'
  BY <1>1, <1>3 DEF JoinTypeOK, Cursors, NoPairTwice
<1>6. Fresh' /\ Sound' /\ Marks' /\ PadsLast'
  BY <1>1, <1>2, <1>3, <1>4 DEF Fresh, Sound, Marks, PadsLast
<1>7. CASE lefts = 0
  <2>1. cursor'.phase = IF join'.type = "FULL" THEN "unmatched" ELSE "closing"
    BY <1>3, <1>7
  <2>2. Phased' /\ Scanned' /\ Probed' /\ NullRight' /\ Merged'
    BY <2>1 DEF Phased, Scanned, Probed, NullRight, Merged, Merging, At
  <2>3. LeftIsDone'
    BY <1>1, <1>7 DEF LeftIsDone, Left
  <2>4. RightIsDone'
    BY <1>2, <1>3, <1>7, <2>1 DEF RightIsDone, Right
  <2>5. QED BY <1>5, <1>6, <2>2, <2>3, <2>4 DEF IInv
<1>8. CASE lefts # 0
  <2>1. cursor'.phase = FirstPhase(join') /\ cursor'.l = 1 /\ cursor'.r = 0 /\ cursor'.l \in Left'
    BY <1>1, <1>3, <1>8 DEF Left
  <2>2. \A a \in Left' : a \in Nat /\ a >= 1
    BY <1>1 DEF Left
  <2>3. \A b \in Right' : b \in Nat /\ b >= 1
    BY <1>1 DEF Right
  <2>4. Phased' /\ LeftIsDone' /\ RightIsDone' /\ NullRight'
    BY <1>1, <2>1 DEF FirstPhase, Phased, LeftIsDone, RightIsDone, NullRight, At
  <2>5. Scanned'
    BY <1>1, <1>2, <1>3, <2>1, <2>2, <2>3 DEF Scanned
  <2>6. Probed'
    BY <1>1, <1>2, <1>3, <2>1, <2>2, <2>3 DEF Probed, Matched
  <2>7. Merged'
    BY <1>2, <2>1 DEF Merged
  <2>8. QED BY <1>5, <1>6, <2>4, <2>5, <2>6, <2>7 DEF IInv
<1>9. QED BY <1>7, <1>8

-----------------------------------------------------------------------------
(* Every step keeps IInv *)

LEMMA InitIInv ==
    ASSUME JoinInit
    PROVE  IInv
<1>1. /\ join.lefts = 0 /\ join.rights = 0 /\ cursor.phase = "start" /\ pairs = <<>>
      /\ cursor = StartCursor /\ join = NoJoin
  BY DEF JoinInit, NoJoin, StartCursor
<1>2. cursor \in Cursors
  BY <1>1 DEF StartCursor, Cursors, Phases
<1>3. JoinTypeOK /\ NoPairTwice
  BY <1>1, <1>2 DEF JoinTypeOK, Cursors, NoPairTwice
<1>4. Fresh /\ Phased /\ Marks /\ PadsLast
  BY <1>1 DEF Fresh, Phased, Marks, PadsLast
<1>5. Sound
  BY <1>1 DEF Sound, Emits, Contains
<1>6. Scanned /\ Probed /\ NullRight /\ Merged /\ LeftIsDone /\ RightIsDone
  BY <1>1 DEF Scanned, Probed, NullRight, Merged, Merging, LeftIsDone, RightIsDone, At
<1>7. QED BY <1>3, <1>4, <1>5, <1>6 DEF IInv

LEMMA IInvStep ==
    ASSUME IInv, [JoinNext]_joinVars
    PROVE  IInv'
<1>1. CASE JoinNext
  <2>1. ASSUME NEW lefts \in Nat, NEW rights \in Nat, NEW j \in JoinOf(lefts, rights), Begin(j)
        PROVE  IInv'
    BY <2>1, BeginStep
  <2>2. QED BY <1>1, <2>1, UnmatchedRightStep, CloseStep, NljScanStep, NljNextLeftStep, HashAdvanceStep,
               HashProbeStep, HashEndStep, HashNullRightStep, SmjTryStep, SmjAgainStep, SmjPadStep,
               SmjAfterPadStep, SmjNextLeftStep DEF JoinNext
<1>2. CASE UNCHANGED joinVars
  <2>1. join' = join /\ cursor' = cursor /\ pairs' = pairs
    BY <1>2 DEF joinVars
  <2>2. \A a, b : Emits(a, b)' <=> Emits(a, b)
    BY <2>1 DEF Emits
  <2>3. JoinTypeOK' /\ NoPairTwice' /\ Fresh' /\ Phased'
    BY <2>1 DEF IInv, JoinTypeOK, NoPairTwice, Fresh, Phased, Left, Right
  <2>4. Sound' /\ Marks' /\ PadsLast'
    BY <2>1, <2>2, SameJoin DEF IInv, Sound, Marks, PadsLast
  <2>5. Scanned' /\ Probed' /\ NullRight'
    BY <2>1, <2>2, SameJoin DEF IInv, Scanned, Probed, NullRight, Matched, At
  <2>6. Merged' /\ LeftIsDone' /\ RightIsDone'
    BY <2>1, <2>2, SameJoin DEF IInv, Merged, Merging, LeftIsDone, RightIsDone
  <2>7. QED BY <2>3, <2>4, <2>5, <2>6 DEF IInv
<1>3. QED BY <1>1, <1>2

LEMMA Invariance == JoinSpec => []IInv
<1>1. JoinInit => IInv
  BY InitIInv
<1>2. IInv /\ [JoinNext]_joinVars => IInv'
  BY IInvStep
<1>3. QED BY <1>1, <1>2, PTL DEF JoinSpec

-----------------------------------------------------------------------------
(* What the joins emit *)

\* In every reachable state the cursors stay within the children.
THEOREM TypeCorrect == JoinSpec => []JoinTypeOK
BY Invariance, PTL DEF IInv

\* No join emits or pads twice: neither the second look of the sort-merge join at a
\* group, nor its rewinds, nor the order in which the hash join finds the rows of a key.
THEOREM NoRepeats == JoinSpec => []NoPairTwice
<1>1. IInv => NoPairTwice
  BY DEF IInv
<1>2. QED BY <1>1, Invariance, PTL

\* A nested loop and a hash join find every match and pad every left row without one,
\* and only a FULL join pads right rows.
THEOREM JoinsAreExact == JoinSpec => []JoinIsExact
<1>1. IInv => JoinIsExact
  BY DEF IInv, Sound, LeftIsDone, RightIsDone, JoinIsExact
<1>2. QED BY <1>1, Invariance, PTL
=============================================================================
