-------------------------------- MODULE Joins --------------------------------
(***************************************************************************)
(* The cursors of NestedLoopJoinExecutor, HashJoinExecutor and             *)
(* SortMergeJoinExecutor.  Each call of beginTuple or nextTuple moves the  *)
(* positions in the two children until a pair of rows is found; a step is  *)
(* one look at a row or one change of phase.                               *)
(*                                                                         *)
(* Rows are positions in the children, and what check_all_conds says of a  *)
(* pair is given: it depends on the two rows alone.                        *)
(***************************************************************************)
EXTENDS Integers, Sequences, SequencesExt

VARIABLES
    join,    \* the join that runs: tag, type, the numbers of rows of its children,
             \* outcome of the conditions on each pair, the pairs with equal keys
    cursor,  \* where it stands
    pairs    \* what it has emitted: positions <<left, right>>, 0 for a padded side

joinVars == <<join, cursor, pairs>>

Outcomes == {"yes", "no", "crash"}

\* The joins of children with that many rows.
JoinOf(lefts, rights) ==
    [tag : {"nlj", "hash", "smj"}, type : {"comma", "INNER", "LEFT", "FULL"},
     lefts : {lefts}, rights : {rights},
     outcome : [(1..lefts) \X (1..rights) -> Outcomes], equal : SUBSET ((1..lefts) \X (1..rights))]

NoJoin == [tag |-> "nlj", type |-> "comma", lefts |-> 0, rights |-> 0, outcome |-> <<>>, equal |-> {}]

Left == 1..join.lefts
Right == 1..join.rights

Phases == {"start", "scan", "probe", "nullright", "first", "group", "padded", "next", "unmatched",
           "closing", "crash"}

\* The phase, the positions of the left and the right child, whether the left row
\* had a match, the hash range still to be probed, the matched rows of either side,
\* and the position in the group of the sort-merge join (none or all of the right
\* rows).
StartCursor ==
    [phase |-> "start", l |-> 0, r |-> 0, has |-> FALSE, range |-> {}, lmatched |-> {},
     rmatched |-> {}, m |-> 0]

JoinInit == join = NoJoin /\ cursor = StartCursor /\ pairs = <<>>

-----------------------------------------------------------------------------
(* What the joins share *)

At(tag, phase) == join.tag = tag /\ cursor.phase = phase

OuterJoin(j) == j.type \in {"LEFT", "FULL"}
Outer == OuterJoin(join)

\* The cursor moves, and the pairs of emitted are handed to the parent.
Move(next, emitted) ==
    /\ cursor' = next
    /\ pairs' = pairs \o emitted
    /\ UNCHANGED join

\* The phase after the left child's end: FULL looks for right rows without a match.
\* It starts on the first right row and steps before it looks.
AfterLeft(j, c) == [c EXCEPT !.phase = IF j.type = "FULL" THEN "unmatched" ELSE "closing", !.r = 1]

\* left_has_match_, and the matched rows as far as a phase asks for them.
Marked(c, l, r) ==
    [c EXCEPT !.has = TRUE, !.lmatched = @ \union {l},
              !.rmatched = IF join.type = "FULL" THEN @ \union {r} ELSE @]

\* A look at a pair: the cursor moves to next, and to matched if the pair is emitted.
\* check_all_conds may follow a null pointer.
Look(l, r, next, matched) ==
    \/ join.outcome[<<l, r>>] = "yes" /\ Move(matched, <<<<l, r>>>>)
    \/ join.outcome[<<l, r>>] = "no" /\ Move(next, <<>>)
    \/ join.outcome[<<l, r>>] = "crash" /\ Move([cursor EXCEPT !.phase = "crash"], <<>>)

FirstPhase(j) == CASE j.tag = "nlj"  -> "scan"
                   [] j.tag = "hash" -> "probe"
                   [] j.tag = "smj"  -> "first"

\* beginTuple up to the first look.
Begin(j) ==
    /\ cursor.phase = "start"
    /\ join' = j
    /\ cursor' = IF j.lefts = 0 THEN AfterLeft(j, cursor)
                 ELSE [cursor EXCEPT !.phase = FirstPhase(j), !.l = 1]
    /\ pairs' = <<>>

\* find_unmatched_right, emit_null_left: positions are counted from the row after
\* the first, those of the matches from the first.
UnmatchedRight ==
    /\ cursor.phase = "unmatched"
    /\ IF cursor.r < join.rights
       THEN Move([cursor EXCEPT !.r = @ + 1],
                 IF cursor.r \in cursor.rmatched THEN <<>> ELSE <<<<0, cursor.r + 1>>>>)
       ELSE Move([cursor EXCEPT !.phase = "closing"], <<>>)

\* The parent has taken the last pair.
Close ==
    /\ cursor.phase = "closing"
    /\ cursor' = StartCursor
    /\ UNCHANGED <<join, pairs>>

-----------------------------------------------------------------------------
(* NestedLoopJoinExecutor *)

\* The next right row for the current left one.
NljScan ==
    /\ At("nlj", "scan") /\ cursor.r < join.rights
    /\ LET next == [cursor EXCEPT !.r = @ + 1]
       IN  Look(cursor.l, next.r, next, Marked(next, cursor.l, next.r))

\* Mutant: left_has_match_ is not reset for the next left row.
NljNextLeftKeeps ==
    /\ At("nlj", "scan") /\ cursor.r = join.rights
    /\ Move(IF cursor.l = join.lefts THEN AfterLeft(join, cursor)
            ELSE [cursor EXCEPT !.l = @ + 1, !.r = 0],
            IF Outer /\ ~cursor.has THEN <<<<cursor.l, 0>>>> ELSE <<>>)

\* The right child is at its end: the left row is padded if it had no match, and
\* the next one starts with the first right row.
NljNextLeft ==
    /\ At("nlj", "scan") /\ cursor.r = join.rights
    /\ Move(IF cursor.l = join.lefts THEN AfterLeft(join, cursor)
            ELSE [cursor EXCEPT !.l = @ + 1, !.r = 0, !.has = FALSE],
            IF Outer /\ ~cursor.has THEN <<<<cursor.l, 0>>>> ELSE <<>>)

-----------------------------------------------------------------------------
(* HashJoinExecutor: l walks the left rows in the null-right phase *)

\* advance_right: the next right row and the left rows with its key.
HashAdvance ==
    /\ At("hash", "probe") /\ cursor.range = {} /\ cursor.r < join.rights
    /\ LET r == cursor.r + 1
       IN  Move([cursor EXCEPT !.r = r, !.range = {l \in Left : <<l, r>> \in join.equal}], <<>>)

\* try_probe_next: equal_range returns rows of one key in any order.
HashProbe ==
    /\ At("hash", "probe")
    /\ \E l \in cursor.range :
          LET next == [cursor EXCEPT !.range = @ \ {l}]
          IN  Look(l, cursor.r, next, Marked(next, l, cursor.r))

\* Mutant: the null-right phase starts behind the left rows.
HashEndPast ==
    /\ At("hash", "probe") /\ cursor.range = {} /\ cursor.r = join.rights
    /\ Move(IF Outer THEN [cursor EXCEPT !.phase = "nullright", !.l = join.lefts + 1]
            ELSE [cursor EXCEPT !.phase = "closing"], <<>>)

\* The right child is at its end: an outer join pads the left rows without a match.
HashEnd ==
    /\ At("hash", "probe") /\ cursor.range = {} /\ cursor.r = join.rights
    /\ Move(IF Outer THEN [cursor EXCEPT !.phase = "nullright", !.l = 0]
            ELSE [cursor EXCEPT !.phase = "closing"], <<>>)

\* emit_null_right
HashNullRight ==
    /\ At("hash", "nullright")
    /\ IF cursor.l < join.lefts
       THEN Move([cursor EXCEPT !.l = @ + 1],
                 IF cursor.l + 1 \in cursor.lmatched THEN <<>> ELSE <<<<cursor.l + 1, 0>>>>)
       ELSE Move(AfterLeft(join, cursor), <<>>)

-----------------------------------------------------------------------------
(* SortMergeJoinExecutor.  It only runs when no equality joins the tables, so   *)
(* compare_keys finds all keys equal and the group of a left row is all right   *)
(* rows, or none when the right child is at its end.  m is the position in the  *)
(* group.  The phases are "first" for the group of beginTuple or of a row after *)
(* a rewind, "group" for the rest of a group, "padded" for the group of a row   *)
(* after a padded one, "next" for a row that has just been padded.              *)

\* A right row of the group; a match leaves the first look at the group.
SmjTry ==
    /\ join.tag = "smj" /\ cursor.phase \in {"first", "group", "padded"}
    /\ cursor.m < join.rights
    /\ LET next == [cursor EXCEPT !.m = @ + 1]
       IN  Look(cursor.l, next.m, next, [Marked(next, cursor.l, next.m) EXCEPT !.phase = "group"])

\* Mutant: the second look is a first one again.
SmjAgainFirst ==
    /\ At("smj", "first") /\ cursor.m = join.rights
    /\ IF join.rights # 0 THEN Move([cursor EXCEPT !.m = 0], <<>>)
       ELSE IF Outer THEN Move([cursor EXCEPT !.phase = "next"], <<<<cursor.l, 0>>>>)
       ELSE Move([cursor EXCEPT !.phase = "closing"], <<>>)

\* The first look at a group found nothing: advance_to_next_match looks again, or
\* the left row is padded when the right child is empty.
SmjAgain ==
    /\ At("smj", "first") /\ cursor.m = join.rights
    /\ IF join.rights # 0 THEN Move([cursor EXCEPT !.phase = "group", !.m = 0], <<>>)
       ELSE IF Outer THEN Move([cursor EXCEPT !.phase = "next"], <<<<cursor.l, 0>>>>)
       ELSE Move([cursor EXCEPT !.phase = "closing"], <<>>)

\* The group of a row after a padded one is at its end without a match.
SmjPad ==
    /\ At("smj", "padded") /\ cursor.m = join.rights
    /\ Move([cursor EXCEPT !.phase = "next"], <<<<cursor.l, 0>>>>)

\* Mutant: the left row is not advanced.
SmjAfterPadStays ==
    /\ At("smj", "next")
    /\ Move(IF cursor.l = join.lefts THEN AfterLeft(join, cursor)
            ELSE [cursor EXCEPT !.phase = "padded", !.m = 0], <<>>)

\* nextTuple after a padded row: the next left row meets the right child rewound.
SmjAfterPad ==
    /\ At("smj", "next")
    /\ Move(IF cursor.l = join.lefts THEN AfterLeft(join, cursor)
            ELSE [cursor EXCEPT !.phase = "padded", !.l = @ + 1, !.m = 0], <<>>)

\* advance_to_next_match at the end of a group: the next left row meets the right
\* child at its end.  An outer join pads it; an inner one rewinds the right child,
\* for the row after it.  A FULL join that has emitted nothing yet is still in
\* beginTuple, which does not look for unmatched right rows.
SmjNextLeft ==
    /\ At("smj", "group") /\ cursor.m = join.rights
    /\ IF cursor.l = join.lefts
       THEN Move(IF pairs = <<>> THEN [cursor EXCEPT !.phase = "closing"] ELSE AfterLeft(join, cursor), <<>>)
       ELSE IF Outer
       THEN Move([cursor EXCEPT !.phase = "next", !.l = @ + 1], <<<<cursor.l + 1, 0>>>>)
       ELSE IF cursor.l + 1 = join.lefts
       THEN Move([cursor EXCEPT !.phase = "closing"], <<>>)
       ELSE Move([cursor EXCEPT !.phase = "first", !.l = @ + 2, !.m = 0], <<>>)

-----------------------------------------------------------------------------
JoinNext ==
    \/ \E lefts, rights \in Nat : \E j \in JoinOf(lefts, rights) : Begin(j)
    \/ UnmatchedRight \/ Close
    \/ NljScan \/ NljNextLeft
    \/ HashAdvance \/ HashProbe \/ HashEnd \/ HashNullRight
    \/ SmjTry \/ SmjAgain \/ SmjPad \/ SmjAfterPad \/ SmjNextLeft

\* One join after the other, of children with any rows.
JoinSpec == JoinInit /\ [][JoinNext]_joinVars

-----------------------------------------------------------------------------
(* Properties *)

\* Type correctness: the positions stay within the children.
JoinTypeOK ==
    /\ join.lefts \in Nat /\ join.rights \in Nat
    /\ join = NoJoin \/ join \in JoinOf(join.lefts, join.rights)
    /\ cursor \in [phase : Phases, l : 0..join.lefts, r : 0..join.rights \union {1}, has : BOOLEAN,
                  range : SUBSET Left, lmatched : SUBSET Left, rmatched : SUBSET Right,
                  m : 0..join.rights]
    /\ pairs \in Seq((0..join.lefts) \X (0..join.rights) \ {<<0, 0>>})

\* No join emits a pair of rows twice, or pads a row twice, however its phases,
\* rewinds and positions work together.
NoPairTwice == \A i, j \in DOMAIN pairs : i # j => pairs[i] # pairs[j]

Emits(a, b) == Contains(pairs, <<a, b>>)

\* The pairs a join is asked for, and the rows of either side without one.
Match(a, b) == join.outcome[<<a, b>>] = "yes" /\ (join.tag = "hash" => <<a, b>> \in join.equal)
AloneLeft(a) == \A b \in Right : ~Match(a, b)

\* At its end a join has emitted only matches, and padded right rows only if it is a FULL
\* join; the nested loop and the hash join have emitted all matches, and the left rows of
\* an outer join that have none.  Left out is which right rows a FULL join pads: all
\* without a match, say the comments, where the code takes the row behind such a one and
\* never the first (executor_nestedloop_join.h:185-197, 266-268); and what the sort-merge
\* join leaves out, or pads although its match has been passed.
JoinIsExact ==
    cursor.phase = "closing" =>
        /\ \A a \in Left, b \in Right : Emits(a, b) => Match(a, b)
        /\ \A b \in Right : Emits(0, b) => join.type = "FULL"
        /\ join.tag # "smj" =>
               /\ \A a \in Left, b \in Right : Match(a, b) => Emits(a, b)
               /\ \A a \in Left : Emits(a, 0) <=> Outer /\ AloneLeft(a)
=============================================================================
