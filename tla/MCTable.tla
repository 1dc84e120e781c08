------------------------------- MODULE MCTable -------------------------------
(***************************************************************************)
(* Plans for two workers on one table.  The node takes four pairs          *)
(* (Order = 3), the smallest order create_index lets through.              *)
(***************************************************************************)
EXTENDS Table

Slots == 101 .. 113

S(op, keys) == [op |-> op, keys |-> keys, to |-> <<>>, after |-> 0]
Update(keys, to) == [op |-> "update", keys |-> keys, to |-> to, after |-> 0]
After(n, s) == [s EXCEPT !.after = n]

Plan(old, first, second) == [rows |-> old, todo |-> [t \in Threads |->
                                          IF t = 1 THEN first ELSE second]]

\* One worker lets the table grow by ascending keys, up to a root with four keys, and
\* borrows a pair on the way; a select ends it.
Grows == Plan(<<>>, <<S("insert", <<1, 2, 3, 4, 5>>), S("delete", <<1>>),
                      S("insert", <<6, 7, 8, 9, 10, 11, 12>>), Update(<<12>>, <<13>>),
                      S("commit", <<>>), S("select", <<4>>)>>, <<>>)

\* Two workers in one leaf that has room.
Shares == Plan(<<>>, <<S("insert", <<1, 3, 5>>), S("delete", <<3>>)>>,
                     <<S("insert", <<2>>)>>)

\* While one worker appends, and so splits leaves on the right, the other asks for a key
\* on the left, which is there.
Reads == Plan(<<>>, <<S("insert", <<1, 2, 3, 4, 5, 6, 7>>), S("insert", <<8, 9, 10>>)>>,
                    <<After(1, S("insert", <<3>>))>>)

\* An index is created over rows that are there, two of them with one key, and a
\* transaction is rolled back.
Creates == Plan([r \in 101 .. 105 |-> <<2, 1, 3, 4, 3>>[r - 100]],
                <<S("create", <<101, 102, 103, 104, 105>>), S("insert", <<5>>),
                  S("delete", <<5>>), S("abort", <<>>), S("insert", <<2>>)>>, <<>>)

\* The last row goes, and the root with it: the next INSERT fails, and one that is under
\* way may fail when it comes to the index, or write to the page that has gone.
Empties == Plan(<<>>, <<S("insert", <<1>>), S("delete", <<1>>), S("insert", <<2>>)>>,
                      <<After(1, S("insert", <<3>>))>>)

\* An UPDATE that fails after its entry has left the index, and a leaf that cannot be
\* merged into its neighbour.
Aborts == Plan(<<>>, <<S("insert", <<1, 2, 3, 4, 5>>), Update(<<5>>, <<0>>),
                       S("delete", <<5, 4>>)>>, <<>>)

\* A select leaves its latches behind, and an INSERT into the leaf waits for them.
Leaks == Plan(<<>>, <<S("insert", <<1, 2>>), S("select", <<1>>), S("insert", <<3>>)>>, <<>>)

\* A select of a key that is not there.
Misses == Plan(<<>>, <<S("insert", <<1>>), S("select", <<2>>)>>, <<>>)

\* Two workers insert into one leaf, the root, which the second of them splits or finds
\* split; the same, below a root, with a key that is there, and with one to be deleted.
Splits == Plan(<<>>, <<S("insert", <<1, 3, 5, 7>>), S("insert", <<9>>)>>,
                     <<After(1, S("insert", <<4>>))>>)
Probes == Plan(<<>>, <<S("insert", <<1, 2, 3, 4, 5, 6>>), S("insert", <<7>>)>>,
                     <<After(1, S("insert", <<6>>))>>)
Deletes == Plan(<<>>, <<S("insert", <<1, 3, 5, 7>>), S("insert", <<9>>)>>,
                      <<After(1, S("delete", <<7>>))>>)

\* A leaf other than the last is split: its pair goes to the wrong place.
Misplaces == Plan(<<>>, <<S("insert", <<10, 20, 30, 40, 50, 11, 12, 13>>)>>, <<>>)

\* A pair is borrowed from the left, and leaves are merged with the neighbour on the
\* right and on the left.
Borrows == Plan(<<>>, <<S("insert", <<2, 4, 6, 8, 10, 3>>), S("delete", <<10, 8>>),
                        S("insert", <<7>>)>>, <<>>)
MergesRight == Plan(<<>>, <<S("insert", <<1, 2, 3, 4, 5, 6, 7>>), S("delete", <<1>>)>>,
                          <<After(1, S("insert", <<2>>))>>)
MergesLeft == Plan(<<>>, <<S("insert", <<1, 2, 3, 4, 5, 6, 7>>), S("delete", <<3>>),
                           S("insert", <<8>>)>>, <<>>)

\* A descent meets a deletion that climbs and borrows.
Crosses == Plan(<<>>, <<S("insert", <<1, 2, 3, 4, 5>>), S("delete", <<1>>)>>,
                      <<After(1, S("insert", <<3>>))>>)

\* Two workers take out pairs of one leaf, or of two of three leaves, and both climb.
ClimbsTwice == Plan(<<>>, <<S("insert", <<1, 2, 3, 4, 5>>), S("delete", <<1>>)>>,
                          <<After(1, S("delete", <<2>>))>>)
ClimbsNextToIt == Plan(<<>>, <<S("insert", <<1, 2, 3, 4, 5, 6, 7>>), S("delete", <<1>>)>>,
                             <<After(1, S("delete", <<3>>))>>)
Climbs == Plan(<<>>, <<S("insert", <<1, 2, 3, 4, 5, 6, 7>>), S("delete", <<7>>),
                       S("delete", <<1>>)>>, <<After(2, S("delete", <<5>>))>>)

\* The root, an inner node, overflows.
Overflows == Plan(<<>>, <<S("insert", <<1, 2, 3, 4, 5, 6, 7, 8, 9, 10, 11, 12, 13>>)>>, <<>>)

SoundPlans ==
    {Grows, Shares, Reads, Creates, Empties, Aborts, Misses, Splits, Probes, Deletes,
     Misplaces, Borrows, MergesRight, MergesLeft, Climbs,
     Crosses, ClimbsTwice, ClimbsNextToIt, Leaks, Overflows}
Appends == {Plan(<<>>, <<S("insert", <<1, 2, 3, 4, 5>>)>>, <<>>)}
==============================================================================
